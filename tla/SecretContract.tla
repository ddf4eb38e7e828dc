---------------------------- MODULE SecretContract ----------------------------
(***************************************************************************)
(* What the back end promises of accounts and mailed secrets, without      *)
(* requests, queue, clock or failures.  A secret is issued for one account *)
(* and purpose; a letter with it is addressed, at that moment, to where    *)
(* the account lives, and may be lost; whoever has the letter may claim    *)
(* the secret while it is outstanding; and only a claim verifies an        *)
(* address or sets a password.  A secret that is over stays over.          *)
(***************************************************************************)

CONSTANTS Ids, Emails, Secrets, Kinds, None

VARIABLES
  account,  \* address, verified or not, and the secret that set the password
  closed,   \* accounts that were deleted
  slot,     \* the secret outstanding for each account and kind
  over,     \* secrets that were used, replaced or withdrawn
  post,     \* letters written
  letters,  \* letters that arrived
  claims    \* secrets that were found good and are about to be redeemed

vars == <<account, closed, slot, over, post, letters, claims>>

\* An account that has just been opened at address e.
Resident(e) == [email |-> e, verified |-> FALSE, password |-> None]

NoSecrets == [k \in Kinds |-> None]

Init ==
  /\ account \in [Ids -> [email : Emails \cup {None}, verified : BOOLEAN, password : {None}]]
  /\ slot = [u \in Ids |-> NoSecrets]
  /\ closed = {} /\ over = {} /\ post = {} /\ letters = {} /\ claims = {}

Lives(u) == account[u].email # None

\* A secret that was never issued.
New(t) == t \notin over /\ \A u \in Ids, k \in Kinds : slot[u][k] # t

Letter(u, k, t) == [kind |-> k, to |-> account[u].email, tok |-> t]

Holdings(u) == {slot[u][k] : k \in Kinds} \ {None}

\* A new account at an address of its own, with a secret to verify it.
Open(u, e, t) ==
  /\ ~Lives(u) /\ u \notin closed
  /\ \A v \in Ids : account[v].email # e
  /\ New(t)
  /\ account' = [account EXCEPT ![u] = Resident(e)]
  /\ slot' = [slot EXCEPT ![u] = [NoSecrets EXCEPT !["verify"] = t]]
  /\ post' = post \cup {[kind |-> "verify", to |-> e, tok |-> t]}
  /\ UNCHANGED <<closed, over, letters, claims>>

Issue(u, k, t) ==
  /\ New(t)
  /\ slot' = [slot EXCEPT ![u][k] = t]
  /\ over' = over \cup ({slot[u][k]} \ {None})
  /\ post' = post \cup {Letter(u, k, t)}
  /\ UNCHANGED <<account, closed, letters, claims>>

Arrive(l) ==
  /\ letters' = letters \cup {l}
  /\ UNCHANGED <<account, closed, slot, over, post, claims>>

Lose(l) ==
  /\ l \notin letters
  /\ post' = post \ {l}
  /\ UNCHANGED <<account, closed, slot, over, letters, claims>>

Claim(u, k) ==
  /\ Letter(u, k, slot[u][k]) \in letters
  /\ claims' = claims \cup {[id |-> u, kind |-> k, tok |-> slot[u][k]]}
  /\ UNCHANGED <<account, closed, slot, over, post, letters>>

\* The claim c is dropped; another one for the same secret may be left.
Settle(c) == claims' \in {claims, claims \ {c}}

Withdraw(c) ==
  /\ Settle(c)
  /\ UNCHANGED <<account, closed, slot, over, post, letters>>

\* Account a with what claim c entitles to.
Entitled(a, c) ==
  [email |-> a.email,
   verified |-> a.verified \/ c.kind = "verify",
   password |-> IF c.kind = "reset" THEN c.tok ELSE a.password]

\* Whatever is outstanding for the account and kind by now ends with it.
Redeem(c) ==
  /\ Lives(c.id)
  /\ account' = [account EXCEPT ![c.id] = Entitled(account[c.id], c)]
  /\ slot' = [slot EXCEPT ![c.id][c.kind] = None]
  /\ over' = over \cup ({slot[c.id][c.kind]} \ {None})
  /\ Settle(c)
  /\ UNCHANGED <<closed, post, letters>>

Close(u) ==
  /\ account' = [account EXCEPT ![u] = Resident(None)]
  /\ slot' = [slot EXCEPT ![u] = NoSecrets]
  /\ closed' = closed \cup {u}
  /\ over' = over \cup Holdings(u)
  /\ UNCHANGED <<post, letters, claims>>

\* What happens to an account while it lives.
Life(u) ==
  /\ Lives(u)
  /\ \/ \E k \in Kinds, t \in Secrets : Issue(u, k, t)
     \/ \E k \in Kinds : Claim(u, k)
     \/ Close(u)

Next ==
  \/ \E u \in Ids : Life(u) \/ \E e \in Emails, t \in Secrets : Open(u, e, t)
  \/ \E l \in post : Arrive(l) \/ Lose(l)
  \/ \E c \in claims : Withdraw(c) \/ Redeem(c)

Spec == Init /\ [][Next]_vars

=============================================================================
