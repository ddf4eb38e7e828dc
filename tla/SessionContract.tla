--------------------------- MODULE SessionContract ---------------------------
(***************************************************************************)
(* What the back end promises of refresh sessions, without handlers, clock *)
(* or stores: a session is granted to an owner, in exchange for an earlier *)
(* session of the same owner that is already over or for none, it is       *)
(* retired, it is forgotten, and no session comes back.                    *)
(***************************************************************************)

CONSTANTS Users, Jtis, None

VARIABLES
  state,      \* of each session
  owner,      \* whose it is, once granted
  successorOf \* the session it was exchanged for

vars == <<state, owner, successorOf>>

Init ==
  /\ state = [j \in Jtis |-> "unissued"]
  /\ owner = [j \in Jtis |-> None]
  /\ successorOf = [j \in Jtis |-> None]

Over(j) == state[j] \in {"revoked", "deleted"}

Grant(j, u, q) ==
  /\ state[j] = "unissued"
  /\ q # None => Over(q) /\ owner[q] = u
  /\ state' = [state EXCEPT ![j] = "live"]
  /\ owner' = [owner EXCEPT ![j] = u]
  /\ successorOf' = [successorOf EXCEPT ![j] = q]

Retire(j) ==
  /\ state[j] = "live"
  /\ state' = [state EXCEPT ![j] = "revoked"]
  /\ UNCHANGED <<owner, successorOf>>

Forget(j) ==
  /\ state[j] \in {"live", "revoked"}
  /\ state' = [state EXCEPT ![j] = "deleted"]
  /\ UNCHANGED <<owner, successorOf>>

Next ==
  \E j \in Jtis :
    \/ \E u \in Users, q \in Jtis \cup {None} : Grant(j, u, q)
    \/ Retire(j)
    \/ Forget(j)

Spec == Init /\ [][Next]_vars

=============================================================================
