----------------------------- MODULE MCSessions -----------------------------
(***************************************************************************)
(* Small instances of Sessions for TLC.                                    *)
(***************************************************************************)
EXTENDS Sessions, TLC

\* Requests and uuids are interchangeable; the safety runs use it, the
\* liveness run does not.
Symmetry == Permutations(Procs) \cup Permutations(Jtis)

\* The same with interchangeable accounts.
SymmetryOfUsers == Symmetry \cup Permutations(Users)

\* For the run with the clock: a second pair is drawn only by a login that
\* races with a logout of an account in use, so that the logout's update may
\* meet a document younger than itself; with one pair every operation goes on.
Drawn == Cardinality({j \in Jtis : Issued(j)})
         + Cardinality({p \in Procs : h[p].pc = "sign"})

SecondPairInLogouts ==
  Drawn > 1 =>
    /\ \A p \in Procs : /\ h[p].op \in {"none", "login", "logout"}
                       /\ h[p].pc \in {"idle", "sign", "store", "settle"}
    /\ \A u \in Users : /\ user[u].status = "active" /\ user[u].verified
                        /\ user[u].changedAt = 0

=============================================================================
