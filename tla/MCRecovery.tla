------------------------------ MODULE MCRecovery ------------------------------
(***************************************************************************)
(* A small instance of Recovery for TLC.  The documents are                *)
(* interchangeable, and so are the addresses: one way to own them for each *)
(* number of accounts is enough.                                           *)
(***************************************************************************)
EXTENDS Recovery, TLC

CONSTANTS u1, u2, e1, e2, t1, t2, p1, p2

MCIds == {u1, u2}

MCEmails == {e1, e2}

MCOldUsers ==
  {u1 :> None @@ u2 :> None, u1 :> e1 @@ u2 :> None, u1 :> e1 @@ u2 :> e2}

\* _ids, addresses, secrets and requests are interchangeable.  The first secret
\* drawn may as well be t1, by p1, for u1 or for a registration of e1 if there is no
\* account yet, and the first document may as well be u1.
InOrder ==
  /\ drawn # {t2}
  /\ h[p2].tok = t1 => h[p2].pc = "apply"
  /\ h[p1].tok = t1 /\ h[p1].pc = "store" => h[p1].id = u1
  /\ h[p1].tok = t1 /\ h[p1].pc = "create" =>
       h[p1].email = e1 \/ \E u \in Ids : user[u].drawn
  /\ user[u2].drawn => user[u1].drawn

=============================================================================
