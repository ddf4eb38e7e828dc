---------------------------- MODULE RecoveryProofs ----------------------------
(***************************************************************************)
(* The invariants of Recovery for any number of accounts, addresses,       *)
(* secrets, requests and attempts, with every fault.                       *)
(*                                                                         *)
(* The argument: the request that draws a secret is alone with it until    *)
(* its mail is queued, and what it remembers of the account stays true     *)
(* because an _id is never given to a second address.                      *)
(***************************************************************************)
EXTENDS Recovery, TLAPS

-----------------------------------------------------------------------------
(* The inductive invariant *)

Sent == jobs \cup inbox

\* A request that has drawn a secret and not queued its mail yet.
Drawing(p) == h[p].pc \in {"create", "store", "queue"}

\* Every secret anybody holds was drawn.
AllDrawn ==
  /\ \A u \in Ids, k \in Kinds : user[u].tok[k] # None => user[u].tok[k] \in drawn
  /\ \A m \in Sent : m.tok \in drawn
  /\ \A p \in Procs : h[p].pc # "idle" => h[p].tok \in drawn
  /\ gone \subseteq drawn

\* Nobody else has the secret of a request that draws it, and before it is
\* stored it is nowhere.
Alone(p) ==
  Drawing(p) =>
    /\ \A q \in Procs : Drawing(q) /\ h[q].tok = h[p].tok => q = p
    /\ \A m \in Sent : m.tok # h[p].tok
    /\ h[p].pc # "queue" => ~Stored(h[p].tok) /\ h[p].tok \notin gone

\* A request and the account it works on.
Remembers(p) ==
  /\ h[p].pc \in {"store", "queue", "apply"} =>
       /\ h[p].id \in Ids /\ user[h[p].id].drawn
       /\ There(h[p].id) => user[h[p].id].email = h[p].email
  /\ h[p].pc # "idle" => h[p].kind \in Kinds /\ h[p].email \in Emails
  /\ h[p].pc = "create" => h[p].kind = "verify"
  /\ h[p].pc = "queue" =>
       /\ Stored(h[p].tok) \/ h[p].tok \in gone
       /\ \A u \in Ids, k \in Kinds :
            user[u].tok[k] = h[p].tok => k = h[p].kind /\ user[u].email = h[p].email
  /\ h[p].pc = "apply" =>
       \E m \in inbox : m.tok = h[p].tok /\ m.kind = h[p].kind /\ m.to = h[p].email

\* A secret is stored in one place, under a document that is there.
StoredOnce ==
  \A u, v \in Ids, k, l \in Kinds :
    user[u].tok[k] # None /\ user[u].tok[k] = user[v].tok[l] => u = v /\ k = l

ThereDrawn ==
  \A u \in Ids :
    /\ There(u) => user[u].drawn
    /\ ~There(u) => \A k \in Kinds : user[u].tok[k] = None

\* A mail names the account that stores its secret, and the mails of one secret
\* agree.
Addressed ==
  /\ \A m \in Sent, u \in Ids, k \in Kinds :
       user[u].tok[k] = m.tok => k = m.kind /\ user[u].email = m.to
  /\ \A m, n \in Sent : m.tok = n.tok => m.to = n.to /\ m.kind = n.kind

RecoveryInv ==
  /\ TypeOK
  /\ AllDrawn
  /\ \A p \in Procs : Alone(p) /\ Remembers(p)
  /\ StoredOnce /\ ThereDrawn /\ Addressed
  /\ OneAccountPerEmail /\ MailedSecretsKnown /\ SpentSecretsDie /\ ResetByOwnMail

-----------------------------------------------------------------------------
(* What each step does to the collections and to its request, field by field *)

Requests ==
  [pc : {"idle", "create", "store", "queue", "apply"},
   kind : Kinds \cup {"none"}, id : Ids \cup {None},
   email : Emails \cup {None}, tok : Secrets \cup {None}]

Handlers == [Procs -> Requests]

Slots == [Kinds -> Secrets \cup {None}]

Flags == [Kinds -> BOOLEAN]

Documents ==
  [email : Emails \cup {None}, drawn : BOOLEAN, verified : BOOLEAN,
   active : BOOLEAN, pwBy : Secrets \cup {None}, tok : Slots, valid : Flags]

Users == [Ids -> Documents]

LEMMA TypeParts ==
  TypeOK <=> /\ user \in Users /\ h \in Handlers
             /\ jobs \in SUBSET Mails /\ inbox \in SUBSET Mails
             /\ drawn \in SUBSET Secrets /\ gone \in SUBSET Secrets
  BY DEF TypeOK, Users, Handlers, Documents, Requests, Slots, Flags

LEMMA TypePartsNext ==
  TypeOK' <=> /\ user' \in Users /\ h' \in Handlers
              /\ jobs' \in SUBSET Mails /\ inbox' \in SUBSET Mails
              /\ drawn' \in SUBSET Secrets /\ gone' \in SUBSET Secrets
  BY DEF TypeOK, Users, Handlers, Documents, Requests, Slots, Flags

\* Every request but p stays as it was.
Others(p) == \A q \in Procs \ {p} : h'[q] = h[q]

LEMMA BecomeFacts ==
  ASSUME h \in Handlers, NEW p \in Procs, NEW r \in Requests, Become(p, r)
  PROVE  h' \in Handlers /\ h'[p] = r /\ Others(p)
  BY DEF Become, Handlers, Others

LEMMA IdleFacts ==
  ASSUME h \in Handlers, NEW p \in Procs, Become(p, Idle)
  PROVE  h' \in Handlers /\ h'[p].pc = "idle" /\ Others(p)
<1>1. Idle \in Requests /\ Idle.pc = "idle"
  BY DEF Idle, Requests
<1> QED
  BY <1>1, BecomeFacts

\* A request that starts with all its fields.
LEMMA AskFacts ==
  ASSUME h \in Handlers, NEW p \in Procs, NEW c \in {"store", "apply"}, NEW k \in Kinds,
         NEW u \in Ids, NEW e \in Emails, NEW t \in Secrets,
         Become(p, [pc |-> c, kind |-> k, id |-> u, email |-> e, tok |-> t])
  PROVE  /\ h' \in Handlers /\ Others(p)
         /\ h'[p].pc = c /\ h'[p].kind = k /\ h'[p].id = u
         /\ h'[p].email = e /\ h'[p].tok = t
<1> DEFINE r == [pc |-> c, kind |-> k, id |-> u, email |-> e, tok |-> t]
<1>1. r \in Requests
  BY DEF Requests
<1>2. r.pc = c /\ r.kind = k /\ r.id = u /\ r.email = e /\ r.tok = t
  OBVIOUS
<1> HIDE DEF r
<1>3. Become(p, r)
  BY DEF r
<1> QED
  BY <1>1, <1>2, <1>3, BecomeFacts

LEMMA RegisterFacts ==
  ASSUME h \in Handlers, NEW p \in Procs, NEW e \in Emails, NEW t \in Secrets,
         Become(p, [Idle EXCEPT !.pc = "create", !.kind = "verify", !.email = e, !.tok = t])
  PROVE  /\ h' \in Handlers /\ Others(p)
         /\ h'[p].pc = "create" /\ h'[p].kind = "verify"
         /\ h'[p].email = e /\ h'[p].tok = t
<1> DEFINE r == [Idle EXCEPT !.pc = "create", !.kind = "verify", !.email = e, !.tok = t]
<1>1. r \in Requests
  BY DEF Requests, Idle, Kinds
<1>2. r.pc = "create" /\ r.kind = "verify" /\ r.email = e /\ r.tok = t
  BY DEF Idle
<1>3. Become(p, r)
  OBVIOUS
<1> HIDE DEF r
<1> QED
  BY <1>1, <1>2, <1>3, BecomeFacts

\* A request that goes on to queue its mail, for account u.
LEMMA QueueFacts ==
  ASSUME h \in Handlers, NEW p \in Procs, NEW u \in Ids,
         \/ Become(p, [h[p] EXCEPT !.pc = "queue", !.id = u])
         \/ h[p].id = u /\ Become(p, [h[p] EXCEPT !.pc = "queue"])
  PROVE  /\ h' \in Handlers /\ Others(p)
         /\ h'[p].pc = "queue" /\ h'[p].kind = h[p].kind /\ h'[p].id = u
         /\ h'[p].email = h[p].email /\ h'[p].tok = h[p].tok
<1> DEFINE r == [h[p] EXCEPT !.pc = "queue", !.id = u]
           s == [h[p] EXCEPT !.pc = "queue"]
<1>1. h[p] \in Requests
  BY DEF Handlers
<1>2. /\ r \in Requests /\ r.pc = "queue" /\ r.kind = h[p].kind /\ r.id = u
      /\ r.email = h[p].email /\ r.tok = h[p].tok
  BY <1>1 DEF Requests
<1>3. /\ s \in Requests /\ s.pc = "queue" /\ s.kind = h[p].kind /\ s.id = h[p].id
      /\ s.email = h[p].email /\ s.tok = h[p].tok
  BY <1>1 DEF Requests
<1> HIDE DEF r, s
<1>4. CASE Become(p, r)
  BY <1>2, <1>4, BecomeFacts
<1>5. CASE h[p].id = u /\ Become(p, s)
  BY <1>3, <1>5, BecomeFacts
<1> QED
  BY <1>4, <1>5 DEF r, s

\* The fields of the accounts that secrets and mails depend on.
SameAccounts ==
  \A v \in Ids : /\ user'[v].email = user[v].email /\ user'[v].drawn = user[v].drawn
                  /\ user'[v].pwBy = user[v].pwBy /\ user'[v].tok = user[v].tok

\* One document is replaced by d.
LEMMA ReplaceFacts ==
  ASSUME user \in Users, NEW u \in Ids, NEW d \in Documents,
         user' = [user EXCEPT ![u] = d]
  PROVE  /\ user' \in Users /\ user'[u] = d
         /\ \A v \in Ids \ {u} : user'[v] = user[v]
  BY DEF Users

LEMMA NoUserType == NoUser \in Documents
<1>1. [k \in Kinds |-> None] \in Slots /\ [k \in Kinds |-> FALSE] \in Flags
  BY DEF Slots, Flags
<1> QED
  BY <1>1 DEF NoUser, Documents

LEMMA NewUserFacts ==
  ASSUME NEW e \in Emails, NEW t \in Secrets
  PROVE  /\ NewUser(e, t) \in Documents
         /\ NewUser(e, t).email = e /\ NewUser(e, t).drawn = TRUE
         /\ NewUser(e, t).pwBy = None
         /\ \A k \in Kinds : NewUser(e, t).tok[k] = IF k = "verify" THEN t ELSE None
<1> DEFINE s == [k \in Kinds |-> IF k = "verify" THEN t ELSE None]
           f == [k \in Kinds |-> k = "verify"]
<1>1. s \in Slots /\ \A k \in Kinds : s[k] = IF k = "verify" THEN t ELSE None
  BY DEF Slots
<1>2. f \in Flags
  BY DEF Flags
<1>3. NewUser(e, t) = [NoUser EXCEPT !.email = e, !.drawn = TRUE, !.active = TRUE,
                                   !.tok = s, !.valid = f]
  BY DEF NewUser
<1>4. NoUser \in Documents /\ NoUser.pwBy = None
  BY NoUserType DEF NoUser
<1> HIDE DEF s, f
<1> QED
  BY <1>1, <1>2, <1>3, <1>4 DEF Documents

LEMMA WithSecretFacts ==
  ASSUME NEW d \in Documents, NEW k \in Kinds, NEW t \in Secrets \cup {None}
  PROVE  /\ WithSecret(d, k, t) \in Documents
         /\ WithSecret(d, k, t).email = d.email /\ WithSecret(d, k, t).drawn = d.drawn
         /\ WithSecret(d, k, t).pwBy = d.pwBy
         /\ \A l \in Kinds : WithSecret(d, k, t).tok[l] = IF l = k THEN t ELSE d.tok[l]
<1> DEFINE s == [d.tok EXCEPT ![k] = t]
           f == [d.valid EXCEPT ![k] = t # None]
<1>1. d.tok \in Slots /\ d.valid \in Flags
  BY DEF Documents
<1>2. s \in Slots /\ \A l \in Kinds : s[l] = IF l = k THEN t ELSE d.tok[l]
  BY <1>1 DEF Slots
<1>3. f \in Flags
  BY <1>1 DEF Flags
<1>4. WithSecret(d, k, t) = [d EXCEPT !.tok = s, !.valid = f]
  BY DEF WithSecret
<1> HIDE DEF s, f
<1> QED
  BY <1>2, <1>3, <1>4 DEF Documents

\* Which secret account v has of kind l after the step.
CreateUser(p, u) ==
  /\ user' \in Users
  /\ user'[u].email = h[p].email /\ user'[u].drawn /\ user'[u].pwBy = None
  /\ \A l \in Kinds : user'[u].tok[l] = IF l = "verify" THEN h[p].tok ELSE None
  /\ \A v \in Ids \ {u} : user'[v] = user[v]

LEMMA CreateFacts ==
  ASSUME TypeOK, NEW p \in Procs, NEW u \in Ids, h[p].pc = "create",
         h[p].email \in Emails, h[p].tok \in Secrets,
         user' = [user EXCEPT ![u] = NewUser(h[p].email, h[p].tok)]
  PROVE  CreateUser(p, u)
<1>1. user \in Users
  BY TypeParts
<1>2. PICK e \in Emails : e = h[p].email
  OBVIOUS
<1>3. PICK t \in Secrets : t = h[p].tok
  OBVIOUS
<1> DEFINE d == NewUser(e, t)
<1>4. /\ d \in Documents /\ d.email = e /\ d.drawn = TRUE /\ d.pwBy = None
      /\ \A l \in Kinds : d.tok[l] = IF l = "verify" THEN t ELSE None
  BY NewUserFacts
<1>5. user' = [user EXCEPT ![u] = d]
  BY <1>2, <1>3
<1> HIDE DEF d
<1>6. user' \in Users /\ user'[u] = d /\ \A v \in Ids \ {u} : user'[v] = user[v]
  BY <1>1, <1>4, <1>5, ReplaceFacts
<1> QED
  BY <1>2, <1>3, <1>4, <1>6 DEF CreateUser

\* Account u has secret t of kind k, other secrets and accounts are as before.
SetSecret(u, k, t) ==
  /\ user' \in Users
  /\ user'[u].email = user[u].email /\ user'[u].drawn = user[u].drawn
  /\ \A l \in Kinds : user'[u].tok[l] = IF l = k THEN t ELSE user[u].tok[l]
  /\ \A v \in Ids \ {u} : user'[v] = user[v]

LEMMA StoreFacts ==
  ASSUME TypeOK, NEW u \in Ids, NEW k \in Kinds, NEW t \in Secrets,
         user' = [user EXCEPT ![u] = WithSecret(@, k, t)]
  PROVE  SetSecret(u, k, t) /\ user'[u].pwBy = user[u].pwBy
<1>1. user \in Users /\ user[u] \in Documents
  BY TypeParts DEF Users
<1>2. user' = [user EXCEPT ![u] = WithSecret(user[u], k, t)]
  BY <1>1 DEF Users
<1> DEFINE d == WithSecret(user[u], k, t)
<1>3. /\ d \in Documents /\ d.email = user[u].email /\ d.drawn = user[u].drawn
      /\ d.pwBy = user[u].pwBy
      /\ \A l \in Kinds : d.tok[l] = IF l = k THEN t ELSE user[u].tok[l]
  BY <1>1, WithSecretFacts
<1> HIDE DEF d
<1>4. user' \in Users /\ user'[u] = d /\ \A v \in Ids \ {u} : user'[v] = user[v]
  BY <1>1, <1>2, <1>3, ReplaceFacts DEF d
<1> QED
  BY <1>3, <1>4 DEF SetSecret

LEMMA RedeemedFacts ==
  ASSUME NEW d \in Documents, NEW k \in Kinds, NEW t \in Secrets
  PROVE  /\ Redeemed(d, k, t) \in Documents
         /\ Redeemed(d, k, t).email = d.email /\ Redeemed(d, k, t).drawn = d.drawn
         /\ Redeemed(d, k, t).pwBy = IF k = "reset" THEN t ELSE d.pwBy
         /\ \A l \in Kinds : Redeemed(d, k, t).tok[l] = IF l = k THEN None ELSE d.tok[l]
<1> DEFINE w == WithSecret(d, k, None)
           b == w.verified \/ k = "verify"
           q == IF k = "reset" THEN t ELSE w.pwBy
<1>1. /\ w \in Documents /\ w.email = d.email /\ w.drawn = d.drawn /\ w.pwBy = d.pwBy
      /\ \A l \in Kinds : w.tok[l] = IF l = k THEN None ELSE d.tok[l]
  BY WithSecretFacts
<1>2. Redeemed(d, k, t) = [w EXCEPT !.verified = b, !.pwBy = q]
  BY DEF Redeemed
<1>3. b \in BOOLEAN
  OBVIOUS
<1> HIDE DEF w, b
<1>4. q \in Secrets \cup {None}
  BY <1>1 DEF Documents
<1>5. q = IF k = "reset" THEN t ELSE d.pwBy
  BY <1>1
<1> HIDE DEF q
<1> QED
  BY <1>1, <1>2, <1>3, <1>4, <1>5 DEF Documents

LEMMA ApplyFacts ==
  ASSUME TypeOK, NEW p \in Procs, NEW u \in Ids, NEW k \in Kinds, NEW t \in Secrets,
         user' = [user EXCEPT ![u] = Redeemed(@, k, t)]
  PROVE  /\ SetSecret(u, k, None)
         /\ user'[u].pwBy = IF k = "reset" THEN t ELSE user[u].pwBy
<1>1. user \in Users /\ user[u] \in Documents
  BY TypeParts DEF Users
<1>2. user' = [user EXCEPT ![u] = Redeemed(user[u], k, t)]
  BY <1>1 DEF Users
<1> DEFINE d == Redeemed(user[u], k, t)
<1>3. /\ d \in Documents /\ d.email = user[u].email /\ d.drawn = user[u].drawn
      /\ d.pwBy = IF k = "reset" THEN t ELSE user[u].pwBy
      /\ \A l \in Kinds : d.tok[l] = IF l = k THEN None ELSE user[u].tok[l]
  BY <1>1, RedeemedFacts
<1> HIDE DEF d
<1>4. user' \in Users /\ user'[u] = d /\ \A v \in Ids \ {u} : user'[v] = user[v]
  BY <1>1, <1>2, <1>3, ReplaceFacts DEF d
<1> QED
  BY <1>3, <1>4 DEF SetSecret

LEMMA DeleteFacts ==
  ASSUME TypeOK, NEW u \in Ids, user' = [user EXCEPT ![u] = [NoUser EXCEPT !.drawn = TRUE]]
  PROVE  /\ user' \in Users
         /\ user'[u].email = None /\ user'[u].drawn /\ user'[u].pwBy = None
         /\ \A l \in Kinds : user'[u].tok[l] = None
         /\ \A v \in Ids \ {u} : user'[v] = user[v]
<1> DEFINE d == [NoUser EXCEPT !.drawn = TRUE]
<1>1. NoUser.email = None /\ NoUser.pwBy = None /\ \A l \in Kinds : NoUser.tok[l] = None
  BY DEF NoUser
<1>2. /\ d \in Documents /\ d.email = None /\ d.drawn /\ d.pwBy = None
      /\ d.tok = NoUser.tok
  BY <1>1, NoUserType DEF Documents
<1>3. user \in Users /\ user' = [user EXCEPT ![u] = d]
  BY TypeParts
<1> HIDE DEF d
<1>4. user' \in Users /\ user'[u] = d /\ \A v \in Ids \ {u} : user'[v] = user[v]
  BY <1>2, <1>3, ReplaceFacts
<1> QED
  BY <1>1, <1>2, <1>4

LEMMA ExpireFacts ==
  ASSUME TypeOK, NEW u \in Ids, NEW k \in Kinds, Expire(u, k)
  PROVE  user' \in Users /\ SameAccounts
<1> DEFINE f == [user[u].valid EXCEPT ![k] = FALSE]
           d == [user[u] EXCEPT !.valid = f]
<1>1. user \in Users /\ user[u] \in Documents
  BY TypeParts DEF Users
<1>2. user[u].valid \in Flags
  BY <1>1 DEF Documents
<1>3. f \in Flags
  BY <1>2 DEF Flags
<1>4. user' = [user EXCEPT ![u] = d]
  BY <1>1 DEF Expire, Users
<1> HIDE DEF f
<1>5. /\ d \in Documents /\ d.email = user[u].email /\ d.drawn = user[u].drawn
      /\ d.pwBy = user[u].pwBy /\ d.tok = user[u].tok
  BY <1>1, <1>3 DEF Documents
<1> HIDE DEF d
<1> QED
  BY <1>1, <1>4, <1>5, ReplaceFacts DEF SameAccounts

LEMMA DeactivateFacts ==
  ASSUME TypeOK, NEW u \in Ids, DeactivateUser(u)
  PROVE  user' \in Users /\ SameAccounts
<1> DEFINE d == [user[u] EXCEPT !.active = FALSE]
<1>1. user \in Users /\ user[u] \in Documents
  BY TypeParts DEF Users
<1>2. user' = [user EXCEPT ![u] = d]
  BY <1>1 DEF DeactivateUser, Users
<1>3. /\ d \in Documents /\ d.email = user[u].email /\ d.drawn = user[u].drawn
      /\ d.pwBy = user[u].pwBy /\ d.tok = user[u].tok
  BY <1>1 DEF Documents
<1> HIDE DEF d
<1> QED
  BY <1>1, <1>2, <1>3, ReplaceFacts DEF SameAccounts

-----------------------------------------------------------------------------
(* The steps of a request that touch nothing but the request *)

LEMMA RequestMoves ==
  ASSUME RecoveryInv, NEW p \in Procs, h' \in Handlers, Others(p),
         UNCHANGED <<user, jobs, inbox, gone>>,
         drawn \subseteq drawn', drawn' \subseteq Secrets,
         h'[p].pc # "idle" => h'[p].tok \in drawn',
         Drawing(p)' => h'[p].pc # "queue" /\ h'[p].tok \in Secrets \ drawn,
         Remembers(p)'
  PROVE  RecoveryInv'
<1>1. TypeOK' /\ Sent' = Sent
  BY TypeParts, TypePartsNext DEF RecoveryInv, Sent
<1>2. AllDrawn'
  BY <1>1 DEF RecoveryInv, AllDrawn, Others
<1>3. ASSUME NEW q \in Procs PROVE Alone(q)'
  <2>1. AllDrawn /\ Alone(q)
    BY DEF RecoveryInv
  <2>2. \A t \in Secrets \ drawn :
          /\ \A m \in Sent : m.tok # t
          /\ ~Stored(t) /\ t \notin gone
          /\ \A r \in Procs : Drawing(r) => h[r].tok # t
    BY <2>1, NoneIsFresh DEF AllDrawn, Stored, Drawing
  <2>3. CASE q = p
    BY <1>1, <2>2, <2>3 DEF Alone, Drawing, Stored, Others
  <2>4. CASE q # p
    <3>1. h'[q] = h[q]
      BY <2>4 DEF Others
    <3>2. Drawing(p)' /\ Drawing(q) => h'[p].tok # h[q].tok
      BY <2>2
    <3> QED
      BY <1>1, <2>1, <2>4, <3>1, <3>2 DEF Alone, Drawing, Stored, Others
  <2> QED
    BY <2>3, <2>4
<1>4. ASSUME NEW q \in Procs PROVE Remembers(q)'
  BY DEF RecoveryInv, Remembers, Others, There, Stored
<1>5. StoredOnce' /\ ThereDrawn' /\ Addressed'
  BY <1>1 DEF RecoveryInv, StoredOnce, ThereDrawn, Addressed, There
<1>6. OneAccountPerEmail' /\ MailedSecretsKnown' /\ SpentSecretsDie' /\ ResetByOwnMail'
  BY DEF RecoveryInv, OneAccountPerEmail, MailedSecretsKnown, SpentSecretsDie,
     ResetByOwnMail, There, Stored
<1> QED
  BY <1>1, <1>2, <1>3, <1>4, <1>5, <1>6 DEF RecoveryInv

LEMMA IdleInv ==
  ASSUME RecoveryInv, NEW p \in Procs, Become(p, Idle),
         UNCHANGED <<user, jobs, inbox, drawn, gone>>
  PROVE  RecoveryInv'
<1>1. h' \in Handlers /\ h'[p].pc = "idle" /\ Others(p)
  BY TypeParts, IdleFacts DEF RecoveryInv
<1>2. Remembers(p)' /\ ~Drawing(p)' /\ drawn \subseteq Secrets
  BY <1>1, TypeParts DEF Remembers, Drawing, RecoveryInv
<1> QED
  BY <1>1, <1>2, RequestMoves

LEMMA RegisterInv ==
  ASSUME RecoveryInv, NEW p \in Procs, NEW e \in Emails, NEW t \in Secrets,
         Register(p, e, t)
  PROVE  RecoveryInv'
<1>1. /\ h' \in Handlers /\ Others(p) /\ h'[p].pc = "create" /\ h'[p].kind = "verify"
      /\ h'[p].email = e /\ h'[p].tok = t
  BY TypeParts, RegisterFacts DEF RecoveryInv, Register
<1>2. drawn' = drawn \cup {t} /\ t \notin drawn /\ drawn \subseteq Secrets
  BY TypeParts DEF RecoveryInv, Register
<1>3. Remembers(p)'
  BY <1>1 DEF Remembers, Kinds
<1> QED
  BY <1>1, <1>2, <1>3, RequestMoves DEF Register

LEMMA AskInv ==
  ASSUME RecoveryInv, NEW p \in Procs, NEW u \in Ids, NEW k \in Kinds,
         NEW t \in Secrets, Ask(p, u, k, t)
  PROVE  RecoveryInv'
<1>1. /\ user[u].email \in Emails /\ There(u) /\ user[u].drawn
  BY TypeParts DEF RecoveryInv, Ask, MayAsk, There, ThereDrawn, Users, Documents
<1>2. /\ h' \in Handlers /\ Others(p) /\ h'[p].pc = "store" /\ h'[p].kind = k
      /\ h'[p].id = u /\ h'[p].email = user[u].email /\ h'[p].tok = t
  BY <1>1, TypeParts, AskFacts DEF RecoveryInv, Ask
<1>3. drawn' = drawn \cup {t} /\ t \notin drawn /\ drawn \subseteq Secrets
      /\ UNCHANGED <<user, jobs, inbox, gone>>
  BY TypeParts DEF RecoveryInv, Ask
<1>4. Remembers(p)'
  BY <1>1, <1>2, <1>3 DEF Remembers
<1> QED
  BY <1>2, <1>3, <1>4, RequestMoves

LEMMA PresentInv ==
  ASSUME RecoveryInv, NEW p \in Procs, NEW u \in Ids, NEW m \in inbox, Present(p, u, m)
  PROVE  RecoveryInv'
<1>1. /\ user[u].email \in Emails /\ There(u) /\ user[u].drawn
      /\ m.kind \in Kinds /\ m.tok \in Secrets /\ user[u].tok[m.kind] = m.tok
      /\ m.to = user[u].email
  BY TypeParts DEF RecoveryInv, Present, Waits, There, ThereDrawn, Users, Documents,
     Mails, Addressed, Sent
<1>2. /\ h' \in Handlers /\ Others(p) /\ h'[p].pc = "apply" /\ h'[p].kind = m.kind
      /\ h'[p].id = u /\ h'[p].email = user[u].email /\ h'[p].tok = m.tok
  BY <1>1, TypeParts, AskFacts DEF RecoveryInv, Present
<1>3. m.tok \in drawn /\ drawn \subseteq Secrets /\ UNCHANGED <<user, jobs, inbox, drawn, gone>>
  BY TypeParts DEF RecoveryInv, AllDrawn, Sent, Present
<1>4. Remembers(p)' /\ ~Drawing(p)'
  BY <1>1, <1>2, <1>3 DEF Remembers, Drawing
<1> QED
  BY <1>2, <1>3, <1>4, RequestMoves

-----------------------------------------------------------------------------
(* The queue *)

LEMMA AddJobInv ==
  ASSUME RecoveryInv, NEW p \in Procs, AddJob(p)
  PROVE  RecoveryInv'
<1> DEFINE n == Mail(h[p])
<1>1. /\ h[p].pc = "queue" /\ Drawing(p) /\ Alone(p) /\ Remembers(p)
      /\ h[p].tok \in drawn /\ h[p].tok \in Secrets
  BY TypeParts DEF RecoveryInv, AddJob, Drawing, AllDrawn
<1>2. n \in Mails /\ n.kind = h[p].kind /\ n.to = h[p].email /\ n.tok = h[p].tok
  BY <1>1, AttemptsAssumption DEF Mail, Mails, Remembers
<1>3. /\ jobs' = jobs \cup {n} /\ UNCHANGED <<user, inbox, drawn, gone>>
      /\ Sent' = Sent \cup {n}
  BY DEF AddJob, Sent
<1>4. h' \in Handlers /\ h'[p].pc = "idle" /\ Others(p)
  BY TypeParts, IdleFacts DEF RecoveryInv, AddJob
<1> HIDE DEF n
<1>5. TypeOK'
  BY <1>2, <1>3, <1>4, TypeParts, TypePartsNext DEF RecoveryInv
<1>6. AllDrawn'
  BY <1>1, <1>2, <1>3, <1>4 DEF RecoveryInv, AllDrawn, Others
<1>7. ASSUME NEW q \in Procs PROVE Alone(q)'
  <2>1. CASE q = p
    BY <1>4, <2>1 DEF Alone, Drawing
  <2>2. CASE q # p
    <3>1. h'[q] = h[q] /\ Alone(q)
      BY <1>4, <2>2 DEF Others, RecoveryInv
    <3>2. Drawing(q) => h[q].tok # n.tok
      BY <1>1, <1>2, <2>2 DEF Alone
    <3> QED
      BY <1>3, <1>4, <3>1, <3>2 DEF Alone, Drawing, Stored, Others
  <2> QED
    BY <2>1, <2>2
<1>8. ASSUME NEW q \in Procs PROVE Remembers(q)'
  BY <1>3, <1>4 DEF RecoveryInv, Remembers, Others, There, Stored
<1>9. StoredOnce' /\ ThereDrawn'
  BY <1>3 DEF RecoveryInv, StoredOnce, ThereDrawn, There
<1>10. Addressed'
  BY <1>1, <1>2, <1>3 DEF RecoveryInv, Addressed, Remembers, Alone
<1>11. MailedSecretsKnown'
  BY <1>1, <1>2, <1>3 DEF RecoveryInv, MailedSecretsKnown, Remembers, Stored
<1>12. OneAccountPerEmail' /\ SpentSecretsDie' /\ ResetByOwnMail'
  BY <1>3 DEF RecoveryInv, OneAccountPerEmail, SpentSecretsDie, ResetByOwnMail,
     There, Stored
<1> QED
  BY <1>5, <1>6, <1>7, <1>8, <1>9, <1>10, <1>11, <1>12 DEF RecoveryInv

\* Mails arrive, are repeated or are tried again.
LEMMA MailMoves ==
  ASSUME RecoveryInv, UNCHANGED <<user, h, drawn, gone>>,
         jobs' \in SUBSET Mails, inbox' \in SUBSET Mails, inbox \subseteq inbox',
         \A m \in Sent' : \E n \in Sent : n.tok = m.tok /\ n.to = m.to /\ n.kind = m.kind
  PROVE  RecoveryInv'
<1>1. TypeOK'
  BY TypeParts, TypePartsNext DEF RecoveryInv
<1>2. AllDrawn'
  BY DEF RecoveryInv, AllDrawn
<1>3. ASSUME NEW q \in Procs PROVE Alone(q)' /\ Remembers(q)'
  <2>1. Alone(q) /\ Remembers(q)
    BY DEF RecoveryInv
  <2>2. Alone(q)'
    BY <2>1 DEF Alone, Drawing, Stored
  <2>3. Remembers(q)'
    BY <2>1 DEF Remembers, There, Stored
  <2> QED
    BY <2>2, <2>3
<1>4. StoredOnce' /\ ThereDrawn' /\ OneAccountPerEmail' /\ SpentSecretsDie'
  BY DEF RecoveryInv, StoredOnce, ThereDrawn, There, OneAccountPerEmail,
     SpentSecretsDie, Stored
<1>5. Addressed'
  BY DEF RecoveryInv, Addressed
<1>6. MailedSecretsKnown'
  <2>1. SUFFICES ASSUME NEW m \in Sent' PROVE Stored(m.tok) \/ m.tok \in gone
    BY DEF MailedSecretsKnown, Sent, Stored
  <2> QED
    BY <2>1 DEF RecoveryInv, MailedSecretsKnown, Sent
<1>7. ResetByOwnMail'
  <2>1. SUFFICES ASSUME NEW u \in Ids, user[u].pwBy # None
                 PROVE  /\ \E m \in inbox' : m.tok = user[u].pwBy
                        /\ \A m \in inbox' : m.tok = user[u].pwBy =>
                              m.to = user[u].email /\ m.kind = "reset"
    BY DEF ResetByOwnMail
  <2>2. PICK m \in inbox : m.tok = user[u].pwBy /\ m.to = user[u].email /\ m.kind = "reset"
    BY <2>1 DEF RecoveryInv, ResetByOwnMail
  <2>3. \A n \in Sent : n.tok = m.tok => n.to = m.to /\ n.kind = m.kind
    BY <2>2 DEF RecoveryInv, Addressed, Sent
  <2>4. \A n \in Sent' : n.tok = m.tok => n.to = m.to /\ n.kind = m.kind
    BY <2>3
  <2> QED
    BY <2>2, <2>4 DEF Sent
<1> QED
  BY <1>1, <1>2, <1>3, <1>4, <1>5, <1>6, <1>7 DEF RecoveryInv

\* What a run makes of a job is about the same mail, and is never the job itself.
LEMMA RunForms ==
  ASSUME NEW m \in Mails, Waiting(m)
  PROVE  /\ Sealed(m) \in Mails /\ Letter(Sealed(m)) = Letter(m)
         /\ Retried(m) \in Mails /\ Letter(Retried(m)) = Letter(m) /\ Retried(m) # m
         /\ Stalled(m) \in Mails /\ Letter(Stalled(m)) = Letter(m) /\ Stalled(m) # m
<1>1. /\ m.kind \in Kinds /\ m.to \in Emails /\ m.tok \in Secrets
      /\ m.tries \in Nat /\ m.stalls \in Nat /\ m.tries < Attempts /\ m.stalls <= MaxStalled
  BY AttemptsAssumption DEF Mails, Waiting
<1>2. 0 \in 0 .. Attempts /\ Attempts \in 0 .. Attempts /\ 0 \in 0 .. MaxStalled
  BY AttemptsAssumption
<1>3. Sealed(m) \in Mails /\ Failed(m) \in Mails /\ Failed(m).tries = Attempts
  BY <1>2 DEF Mails, Sealed, Failed
<1>4. /\ Sealed(m).kind = m.kind /\ Sealed(m).to = m.to /\ Sealed(m).tok = m.tok
      /\ Failed(m).kind = m.kind /\ Failed(m).to = m.to /\ Failed(m).tok = m.tok
  BY DEF Mails, Sealed, Failed
<1>5. Letter(Sealed(m)) = Letter(m) /\ Letter(Failed(m)) = Letter(m)
  BY <1>4 DEF Letter
<1>6. m.tries + 1 < Attempts =>
        LET s == [m EXCEPT !.tries = @ + 1]
        IN  s \in Mails /\ Letter(s) = Letter(m) /\ s.tries # m.tries
  BY <1>1, AttemptsAssumption DEF Mails, Letter
<1>7. m.stalls < MaxStalled =>
        LET s == [m EXCEPT !.stalls = @ + 1]
        IN  s \in Mails /\ Letter(s) = Letter(m) /\ s.stalls # m.stalls
  BY <1>1, AttemptsAssumption DEF Mails, Letter
<1>8. Failed(m) # m
  BY <1>1, <1>3, AttemptsAssumption
<1>9. Retried(m) \in Mails /\ Letter(Retried(m)) = Letter(m) /\ Retried(m) # m
  BY <1>3, <1>5, <1>6, <1>8 DEF Retried
<1>10. Stalled(m) \in Mails /\ Letter(Stalled(m)) = Letter(m) /\ Stalled(m) # m
  BY <1>3, <1>5, <1>7, <1>8 DEF Stalled
<1> QED
  BY <1>3, <1>5, <1>9, <1>10

\* A run takes the job out, or puts one form of it in its place, and what arrives
\* is its mail.
LEMMA RunFacts ==
  ASSUME RecoveryInv, NEW m \in jobs, Run(m)
  PROVE  /\ m \in Mails /\ Waiting(m)
         /\ \/ jobs' = jobs \ {m} /\ Sealed(m) \in inbox'
            \/ Replace(m, Retried(m)) \/ Replace(m, Stalled(m))
         /\ inbox' \in {inbox, inbox \cup {Sealed(m)}}
         /\ UNCHANGED <<user, h, drawn, gone>>
<1>1. m \in Mails
  BY TypeParts DEF RecoveryInv
<1>2. CASE Deliver(m)
  BY <1>1, <1>2 DEF Deliver
<1>3. CASE SendFails(m)
  BY <1>1, <1>3 DEF SendFails
<1>4. CASE WorkerDies(m)
  BY <1>1, <1>4 DEF WorkerDies
<1> QED
  BY <1>2, <1>3, <1>4 DEF Run

LEMMA QueueInv ==
  ASSUME RecoveryInv, NEW m \in jobs, Run(m)
  PROVE  RecoveryInv'
<1> DEFINE r == Sealed(m)
           a == Retried(m)
           b == Stalled(m)
<1>1. m \in Mails /\ jobs \in SUBSET Mails /\ inbox \in SUBSET Mails /\ m \in Sent
  BY TypeParts DEF RecoveryInv, Sent
<1>2. /\ r \in Mails /\ Letter(r) = Letter(m)
      /\ a \in Mails /\ Letter(a) = Letter(m)
      /\ b \in Mails /\ Letter(b) = Letter(m)
  BY RunFacts, RunForms
<1>3. /\ jobs' \subseteq jobs \cup {a, b} /\ UNCHANGED <<user, h, drawn, gone>>
      /\ inbox \subseteq inbox' /\ inbox' \subseteq inbox \cup {r}
  BY RunFacts DEF Replace
<1> HIDE DEF r, a, b
<1>4. \A n \in Sent' : \E x \in Sent : Letter(x) = Letter(n)
  BY <1>1, <1>2, <1>3 DEF Sent
<1>5. \A n \in Sent' : \E x \in Sent : x.tok = n.tok /\ x.to = n.to /\ x.kind = n.kind
  BY <1>4 DEF Letter
<1> QED
  BY <1>1, <1>2, <1>3, <1>5, MailMoves

-----------------------------------------------------------------------------
(* The accounts *)

\* Nothing that secrets and mails depend on changes.
LEMMA SameAccountsInv ==
  ASSUME RecoveryInv, user' \in Users, SameAccounts,
         UNCHANGED <<jobs, inbox, h, drawn, gone>>
  PROVE  RecoveryInv'
<1>1. TypeOK'
  BY TypeParts, TypePartsNext DEF RecoveryInv
<1>2. (\A t : Stored(t)' <=> Stored(t)) /\ \A u \in Ids : There(u)' <=> There(u)
  BY DEF SameAccounts, Stored, There
<1>3. AllDrawn' /\ StoredOnce' /\ ThereDrawn' /\ Addressed'
  BY <1>2 DEF RecoveryInv, AllDrawn, StoredOnce, ThereDrawn, Addressed, Sent, SameAccounts
<1>4. ASSUME NEW q \in Procs PROVE Alone(q)' /\ Remembers(q)'
  <2>1. Alone(q) /\ Remembers(q)
    BY DEF RecoveryInv
  <2>2. Alone(q)'
    BY <1>2, <2>1 DEF Alone, Drawing, Sent
  <2>3. Remembers(q)'
    BY <1>2, <2>1 DEF Remembers, SameAccounts
  <2> QED
    BY <2>2, <2>3
<1>5. OneAccountPerEmail' /\ MailedSecretsKnown' /\ SpentSecretsDie'
  BY <1>2 DEF RecoveryInv, OneAccountPerEmail, MailedSecretsKnown, SpentSecretsDie,
     SameAccounts
<1>6. ResetByOwnMail'
  BY DEF RecoveryInv, ResetByOwnMail, SameAccounts
<1> QED
  BY <1>1, <1>3, <1>4, <1>5, <1>6 DEF RecoveryInv

LEMMA CreateInv ==
  ASSUME RecoveryInv, NEW p \in Procs, NEW u \in Ids, Create(p, u)
  PROVE  RecoveryInv'
<1>1. CASE Become(p, Idle) /\ UNCHANGED user
  BY <1>1, IdleInv DEF Create
<1>2. CASE /\ \A v \in Ids : user[v].email # h[p].email
           /\ user' = [user EXCEPT ![u] = NewUser(h[p].email, h[p].tok)]
           /\ Become(p, [h[p] EXCEPT !.pc = "queue", !.id = u])
  <2> DEFINE t == h[p].tok
             e == h[p].email
  <2>1. /\ h[p].pc = "create" /\ Drawing(p) /\ Alone(p) /\ Remembers(p)
        /\ t \in drawn /\ t \in Secrets /\ e \in Emails /\ h[p].kind = "verify"
    BY TypeParts DEF RecoveryInv, Create, Drawing, AllDrawn, Remembers
  <2>2. /\ h' \in Handlers /\ Others(p) /\ h'[p].pc = "queue" /\ h'[p].kind = "verify"
        /\ h'[p].id = u /\ h'[p].email = e /\ h'[p].tok = t
    BY <1>2, <2>1, TypeParts, QueueFacts DEF RecoveryInv
  <2>3. CreateUser(p, u) /\ UNCHANGED <<jobs, inbox, drawn, gone>> /\ Sent' = Sent
    BY <1>2, <2>1, CreateFacts DEF RecoveryInv, Create, Sent
  <2>4. ~user[u].drawn /\ ~There(u) /\ \A k \in Kinds : user[u].tok[k] = None
    BY DEF RecoveryInv, ThereDrawn, Create, Unused
  <2>5. /\ t # None /\ e # None /\ \A v \in Ids : user[v].email # e
        /\ \A v \in Ids, k \in Kinds : user[v].tok[k] # t
        /\ t \notin gone /\ \A m \in Sent : m.tok # t
        /\ \A q \in Procs \ {p} : Drawing(q) => h[q].tok # t
    BY <1>2, <2>1, NoneIsFresh DEF Alone, Stored
  <2>6. /\ user'[u].email = e /\ user'[u].drawn /\ user'[u].pwBy = None
        /\ \A l \in Kinds : user'[u].tok[l] = IF l = "verify" THEN t ELSE None
        /\ \A v \in Ids \ {u} : user'[v] = user[v]
        /\ user' \in Users /\ "verify" \in Kinds
    BY <2>3 DEF CreateUser, Kinds
  <2> HIDE DEF t, e
  <2>7. TypeOK'
    BY <2>2, <2>3, <2>6, TypeParts, TypePartsNext DEF RecoveryInv
  <2>8. /\ \A s : s # None => (Stored(s)' <=> Stored(s) \/ s = t)
        /\ There(u)' /\ \A v \in Ids \ {u} : There(v)' <=> There(v)
    BY <2>4, <2>5, <2>6 DEF Stored, There
  <2>9. AllDrawn'
    BY <2>1, <2>2, <2>3, <2>6, <2>5 DEF RecoveryInv, AllDrawn, Others
  <2>10. ASSUME NEW q \in Procs PROVE Alone(q)'
    <3>1. CASE q = p
      BY <2>2, <2>3, <2>5, <3>1 DEF Alone, Drawing, Others
    <3>2. CASE q # p
      <4>1. h'[q] = h[q] /\ Alone(q) /\ (Drawing(q) => h[q].tok # t /\ h[q].tok # None)
        BY <2>2, <2>5, <3>2, NoneIsFresh, TypeParts
        DEF Others, RecoveryInv, AllDrawn, Drawing
      <4> QED
        BY <2>2, <2>3, <2>8, <3>2, <4>1 DEF Alone, Drawing, Others
    <3> QED
      BY <3>1, <3>2
  <2>11. ASSUME NEW q \in Procs PROVE Remembers(q)'
    <3>1. CASE q = p
      BY <2>1, <2>2, <2>3, <2>5, <2>6, <2>8, <3>1 DEF Remembers, t, e
    <3>2. CASE q # p
      <4>1. /\ h'[q] = h[q] /\ Remembers(q) /\ (Drawing(q) => h[q].tok # t)
            /\ h[q].pc # "idle" => h[q].tok # None
        BY <2>2, <2>5, <3>2, NoneIsFresh, TypeParts DEF Others, RecoveryInv, AllDrawn
      <4>2. h[q].pc \in {"store", "queue", "apply"} => h[q].id # u
        BY <2>4, <4>1 DEF Remembers
      <4> QED
        BY <2>3, <2>4, <2>6, <2>8, <4>1, <4>2 DEF Remembers, There, Drawing
    <3> QED
      BY <3>1, <3>2
  <2>12. StoredOnce' /\ ThereDrawn'
    BY <2>4, <2>5, <2>6, <2>8 DEF RecoveryInv, StoredOnce, ThereDrawn
  <2>13. \A m \in Sent : m.tok # None
    BY TypeParts, NoneIsFresh DEF RecoveryInv, AllDrawn
  <2>14. Addressed'
    BY <2>3, <2>5, <2>6, <2>13 DEF RecoveryInv, Addressed
  <2>15. OneAccountPerEmail'
    BY <2>5, <2>6, <2>8 DEF RecoveryInv, OneAccountPerEmail
  <2>16. MailedSecretsKnown' /\ SpentSecretsDie'
    <3>1. None \notin gone
      BY TypeParts, NoneIsFresh DEF RecoveryInv
    <3> QED
      BY <2>3, <2>5, <2>8, <2>13, <3>1 DEF RecoveryInv, MailedSecretsKnown, SpentSecretsDie, Sent
  <2>17. ResetByOwnMail'
    BY <2>3, <2>6 DEF RecoveryInv, ResetByOwnMail
  <2> QED
    BY <2>7, <2>9, <2>10, <2>11, <2>12, <2>14, <2>15, <2>16, <2>17 DEF RecoveryInv
<1> QED
  BY <1>1, <1>2 DEF Create

\* A secret is put in the place of another one, or cleared.
LEMMA SetSecretInv ==
  ASSUME RecoveryInv, NEW p \in Procs, NEW u \in Ids, NEW k \in Kinds,
         NEW t \in Secrets \cup {None},
         SetSecret(u, k, t), Supersede(u, k), There(u),
         h' \in Handlers, Others(p), UNCHANGED <<jobs, inbox, drawn>>,
         \/ t = None /\ h'[p].pc = "idle"
         \/ /\ t # None /\ t = h[p].tok
            /\ h[p].pc = "store" /\ h[p].kind = k /\ h[p].id = u
            /\ h'[p].pc = "queue" /\ h'[p].kind = k /\ h'[p].id = u
            /\ h'[p].email = h[p].email /\ h'[p].tok = t,
         \/ user'[u].pwBy = user[u].pwBy
         \/ \E m \in inbox : m.tok = user'[u].pwBy /\ m.to = user[u].email /\ m.kind = "reset"
  PROVE  RecoveryInv'
<1>0. PICK old : old = user[u].tok[k]
  OBVIOUS
<1>1. /\ user' \in Users /\ user'[u].email = user[u].email /\ user'[u].drawn = user[u].drawn
      /\ \A l \in Kinds : user'[u].tok[l] = IF l = k THEN t ELSE user[u].tok[l]
      /\ \A v \in Ids \ {u} : user'[v] = user[v]
  BY DEF SetSecret
<1>2. /\ gone' = gone \cup ({old} \ {None}) /\ Sent' = Sent
      /\ UNCHANGED <<jobs, inbox, drawn>>
  BY <1>0 DEF Supersede, Sent
<1>3. /\ old \in Secrets \cup {None} /\ gone \subseteq Secrets
      /\ old # None => old \in drawn
  BY <1>0, TypeParts DEF RecoveryInv, Users, Documents, Slots, AllDrawn
<1>4. Alone(p) /\ Remembers(p) /\ AllDrawn
  BY DEF RecoveryInv
<1>5. t # None =>
        /\ t \in drawn /\ ~Stored(t) /\ t \notin gone
        /\ \A m \in Sent : m.tok # t
        /\ \A q \in Procs \ {p} : Drawing(q) => h[q].tok # t
        /\ h[p].email = user[u].email
  BY <1>4 DEF Alone, Drawing, AllDrawn, Remembers
<1>6. \A v \in Ids, l \in Kinds :
        user[v].tok[l] = old /\ old # None => v = u /\ l = k
  BY <1>0 DEF RecoveryInv, StoredOnce
<1>7. \A s : s # None /\ s # old => (Stored(s)' <=> (Stored(s) \/ s = t))
  BY <1>0, <1>1 DEF Stored
<1>8. old # None => ~Stored(old)'
  <2>1. old # None => old # t
    BY <1>0, <1>5 DEF Stored
  <2>2. ASSUME NEW v \in Ids, NEW l \in Kinds, old # None PROVE user'[v].tok[l] # old
    BY <1>1, <1>6, <2>1, <2>2
  <2> QED
    BY <2>2 DEF Stored
<1>9. \A v \in Ids : /\ user'[v].email = user[v].email
                      /\ user'[v].drawn = user[v].drawn
  BY <1>1
<1>10. TypeOK'
  BY <1>1, <1>2, <1>3, TypeParts, TypePartsNext DEF RecoveryInv
<1>11. AllDrawn'
  <2>1. \A v \in Ids, l \in Kinds : user'[v].tok[l] # None => user'[v].tok[l] \in drawn
    BY <1>1, <1>4, <1>5 DEF AllDrawn
  <2>2. \A q \in Procs : h'[q].pc # "idle" => h'[q].tok \in drawn
    BY <1>4, <1>5 DEF AllDrawn, Others
  <2> QED
    BY <1>2, <1>3, <1>4, <2>1, <2>2 DEF AllDrawn
<1>12. ASSUME NEW q \in Procs PROVE Alone(q)'
  <2>1. CASE q = p
    BY <1>2, <1>5, <2>1 DEF Alone, Drawing, Others
  <2>2. CASE q # p
    <3>1. /\ h'[q] = h[q] /\ Alone(q)
          /\ Drawing(q) => h[q].tok \in drawn
      BY <2>2, <1>4 DEF Others, RecoveryInv, AllDrawn, Drawing
    <3>2. Drawing(q) /\ t # None => h[q].tok # t
      BY <1>5, <2>2
    <3>3. Drawing(q) => h[q].tok # None
      BY <3>1, TypeParts, NoneIsFresh DEF RecoveryInv
    <3>4. Drawing(q) /\ h[q].pc # "queue" => h[q].tok # old
      BY <1>0, <3>1, <3>3 DEF Alone, Stored
    <3>5. Drawing(q) /\ h[q].pc # "queue" => ~Stored(h[q].tok)' /\ h[q].tok \notin gone'
      BY <1>2, <1>7, <3>1, <3>2, <3>3, <3>4 DEF Alone
    <3>6. \A r \in Procs : h'[r].pc \in {"create", "store", "queue"} =>
             Drawing(r) /\ h'[r].tok = h[r].tok
      BY DEF Drawing, Others
    <3> QED
      BY <1>2, <3>1, <3>5, <3>6 DEF Alone, Drawing
  <2> QED
    BY <2>1, <2>2
<1>13. ASSUME NEW q \in Procs PROVE Remembers(q)'
  <2>1. CASE q = p
    <3>1. CASE h'[p].pc = "idle"
      BY <2>1, <3>1 DEF Remembers
    <3>2. CASE t # None /\ h'[p].pc = "queue"
      <4>1. Stored(t)'
        BY <1>1, <3>2 DEF Stored
      <4>2. \A v \in Ids, l \in Kinds : user'[v].tok[l] = t => v = u /\ l = k
        BY <1>1, <1>5, <3>2 DEF Stored
      <4> QED
        BY <1>4, <1>5, <1>9, <2>1, <3>2, <4>1, <4>2 DEF Remembers, There
    <3> QED
      BY <3>1, <3>2
  <2>2. CASE q # p
    <3>1. h'[q] = h[q] /\ Remembers(q) /\ (Drawing(q) /\ t # None => h[q].tok # t)
      BY <1>5, <2>2 DEF Others, RecoveryInv
    <3>2. h[q].pc # "idle" => h[q].tok # None
      BY <1>4, TypeParts, NoneIsFresh DEF RecoveryInv, AllDrawn
    <3>3. h[q].pc = "queue" =>
            /\ Stored(h[q].tok)' \/ h[q].tok \in gone'
            /\ \A v \in Ids, l \in Kinds :
                 user'[v].tok[l] = h[q].tok => user[v].tok[l] = h[q].tok
      BY <1>1, <1>2, <1>7, <3>1, <3>2 DEF Remembers, Drawing
    <3> QED
      BY <1>2, <1>9, <3>1, <3>3 DEF Remembers, There
  <2> QED
    BY <2>1, <2>2
<1>14. StoredOnce'
  <2>1. \A v \in Ids, l \in Kinds :
          \/ user'[v].tok[l] = user[v].tok[l]
          \/ v = u /\ l = k /\ user'[v].tok[l] = t
    BY <1>1
  <2>2. t # None => \A v \in Ids, l \in Kinds : user[v].tok[l] # t
    BY <1>5 DEF Stored
  <2> QED
    BY <2>1, <2>2 DEF RecoveryInv, StoredOnce
<1>15. ThereDrawn'
  BY <1>1, <1>9 DEF RecoveryInv, ThereDrawn, There
<1>16. \A m \in Sent : m.tok # None
  BY <1>4, TypeParts, NoneIsFresh DEF RecoveryInv, AllDrawn
<1>17. Addressed'
  BY <1>1, <1>2, <1>5, <1>16 DEF RecoveryInv, Addressed
<1>18. OneAccountPerEmail'
  <2>1. OneAccountPerEmail
    BY DEF RecoveryInv
  <2> QED
    BY <1>9, <2>1 DEF OneAccountPerEmail, There
<1>19. MailedSecretsKnown'
  BY <1>2, <1>7, <1>16 DEF RecoveryInv, MailedSecretsKnown, Sent
<1>20. SpentSecretsDie'
  BY <1>2, <1>3, <1>5, <1>7, <1>8, NoneIsFresh DEF RecoveryInv, SpentSecretsDie
<1>21. ResetByOwnMail'
  <2>1. ASSUME NEW v \in Ids, user'[v].pwBy # None
        PROVE  /\ \E m \in inbox : m.tok = user'[v].pwBy
               /\ \A m \in inbox : m.tok = user'[v].pwBy =>
                     m.to = user[v].email /\ m.kind = "reset"
    <3>1. CASE user'[v].pwBy = user[v].pwBy
      BY <2>1, <3>1 DEF RecoveryInv, ResetByOwnMail
    <3>2. CASE v = u /\ \E m \in inbox : /\ m.tok = user'[u].pwBy
                                        /\ m.to = user[u].email /\ m.kind = "reset"
      BY <3>2 DEF RecoveryInv, Addressed, Sent
    <3> QED
      BY <1>1, <3>1, <3>2
  <2>2. inbox' = inbox
    BY <1>2
  <2>3. \A v \in Ids : user'[v].email = user[v].email
    BY <1>9
  <2> QED
    BY <2>1, <2>2, <2>3 DEF ResetByOwnMail
<1> QED
  BY <1>10, <1>11, <1>12, <1>13, <1>14, <1>15, <1>17, <1>18, <1>19, <1>20, <1>21
  DEF RecoveryInv

LEMMA StoreInv ==
  ASSUME RecoveryInv, NEW p \in Procs, Store(p)
  PROVE  RecoveryInv'
<1>1. PICK u, k, t : u = h[p].id /\ k = h[p].kind /\ t = h[p].tok
  OBVIOUS
<1>2. /\ h[p].pc = "store" /\ u \in Ids /\ k \in Kinds /\ t \in Secrets
      /\ UNCHANGED <<jobs, inbox, drawn>>
  BY <1>1, TypeParts DEF RecoveryInv, Store, Remembers, AllDrawn
<1>3. CASE ~There(u)
  <2>1. Become(p, Idle) /\ UNCHANGED <<user, gone>>
    BY <1>1, <1>3 DEF Store
  <2> QED
    BY <1>2, <2>1, IdleInv
<1>4. CASE There(u)
  <2>1. /\ user' = [user EXCEPT ![u] = WithSecret(@, k, t)] /\ Supersede(u, k)
        /\ Become(p, [h[p] EXCEPT !.pc = "queue"])
    BY <1>1, <1>4 DEF Store
  <2>2. SetSecret(u, k, t) /\ user'[u].pwBy = user[u].pwBy
    BY <1>2, <2>1, StoreFacts DEF RecoveryInv
  <2>3. /\ h' \in Handlers /\ Others(p) /\ h'[p].pc = "queue" /\ h'[p].kind = k
        /\ h'[p].id = u /\ h'[p].email = h[p].email /\ h'[p].tok = t
    BY <1>1, <1>2, <2>1, TypeParts, QueueFacts DEF RecoveryInv
  <2>4. t # None
    BY <1>2, NoneIsFresh
  <2> QED
    BY <1>1, <1>2, <1>4, <2>1, <2>2, <2>3, <2>4, SetSecretInv
<1> QED
  BY <1>3, <1>4

\* A password that is set now is named by a token that was mailed.
LEMMA ApplyInv ==
  ASSUME RecoveryInv, NEW p \in Procs, Apply(p)
  PROVE  RecoveryInv'
<1>1. PICK u, k, t : u = h[p].id /\ k = h[p].kind /\ t = h[p].tok
  OBVIOUS
<1>2. /\ h[p].pc = "apply" /\ u \in Ids /\ k \in Kinds /\ t \in Secrets
      /\ UNCHANGED <<jobs, inbox, drawn>> /\ Become(p, Idle) /\ Remembers(p)
  BY <1>1, TypeParts DEF RecoveryInv, Apply, Remembers, AllDrawn
<1>3. CASE ~There(u)
  <2>1. UNCHANGED <<user, gone>>
    BY <1>1, <1>3 DEF Apply
  <2> QED
    BY <1>2, <2>1, IdleInv
<1>4. CASE There(u)
  <2>1. user' = [user EXCEPT ![u] = Redeemed(@, k, t)] /\ Supersede(u, k)
    <3>1. There(h[p].id)
      BY <1>1, <1>4
    <3>2. /\ user' = [user EXCEPT ![h[p].id] = Redeemed(@, h[p].kind, h[p].tok)]
          /\ Supersede(h[p].id, h[p].kind)
      BY <3>1, Zenon DEF Apply
    <3> QED
      BY <1>1, <3>2
  <2>2. SetSecret(u, k, None) /\ user'[u].pwBy = IF k = "reset" THEN t ELSE user[u].pwBy
    BY <1>2, <2>1, ApplyFacts DEF RecoveryInv
  <2>3. \E m \in inbox : m.tok = t /\ m.kind = k /\ m.to = user[u].email
    BY <1>1, <1>2, <1>4 DEF Remembers
  <2>4. \/ user'[u].pwBy = user[u].pwBy
        \/ \E m \in inbox : m.tok = user'[u].pwBy /\ m.to = user[u].email /\ m.kind = "reset"
    BY <2>2, <2>3
  <2>5. h' \in Handlers /\ h'[p].pc = "idle" /\ Others(p)
    BY <1>2, TypeParts, IdleFacts DEF RecoveryInv
  <2> QED
    BY <1>2, <1>4, <2>1, <2>2, <2>4, <2>5, SetSecretInv
<1> QED
  BY <1>3, <1>4

\* The secrets of an account go with it.
LEMMA DeleteInv ==
  ASSUME RecoveryInv, NEW u \in Ids, DeleteUser(u)
  PROVE  RecoveryInv'
<1>1. PICK S : S = {user[u].tok[k] : k \in Kinds} \ {None}
  OBVIOUS
<1>2. gone' = gone \cup S /\ UNCHANGED <<jobs, inbox, h, drawn>> /\ Sent' = Sent
  BY <1>1 DEF DeleteUser, Sent
<1>3. /\ user' \in Users
      /\ user'[u].email = None /\ user'[u].drawn /\ user'[u].pwBy = None
      /\ \A l \in Kinds : user'[u].tok[l] = None
      /\ \A v \in Ids \ {u} : user'[v] = user[v]
  BY DeleteFacts DEF RecoveryInv, DeleteUser
<1>4. user[u].drawn
  BY DEF RecoveryInv, ThereDrawn, DeleteUser
<1>5. S \subseteq drawn /\ None \notin S /\ S \subseteq Secrets
  BY <1>1, TypeParts DEF RecoveryInv, AllDrawn
<1>6. \A s \in S : \E k \in Kinds : user[u].tok[k] = s
  BY <1>1
<1>7. \A v \in Ids, l \in Kinds : user'[v].tok[l] # None =>
         v # u /\ user[v].tok[l] = user'[v].tok[l]
  BY <1>3
<1>8. \A s : s # None => (Stored(s) => Stored(s)' \/ s \in S) /\ (Stored(s)' => Stored(s))
  <2>1. ASSUME NEW s, s # None, Stored(s) PROVE Stored(s)' \/ s \in S
    <3>1. PICK v \in Ids, l \in Kinds : user[v].tok[l] = s
      BY <2>1 DEF Stored
    <3>2. CASE v = u
      BY <1>1, <2>1, <3>1, <3>2
    <3>3. CASE v # u
      BY <1>3, <3>1, <3>3 DEF Stored
    <3> QED
      BY <3>2, <3>3
  <2>2. ASSUME NEW s, s # None, Stored(s)' PROVE Stored(s)
    BY <1>7, <2>2 DEF Stored
  <2> QED
    BY <2>1, <2>2
<1>9. \A s \in S : ~Stored(s)'
  <2>1. SUFFICES ASSUME NEW s \in S, NEW v \in Ids, NEW l \in Kinds, user'[v].tok[l] = s
                 PROVE  FALSE
    BY DEF Stored
  <2>2. s # None /\ v # u /\ user[v].tok[l] = s
    BY <1>5, <1>7, <2>1
  <2>3. PICK k \in Kinds : user[u].tok[k] = s
    BY <1>6
  <2> QED
    BY <2>2, <2>3 DEF RecoveryInv, StoredOnce
<1>10. TypeOK'
  BY <1>2, <1>3, <1>5, TypeParts, TypePartsNext DEF RecoveryInv
<1>11. AllDrawn'
  BY <1>2, <1>5, <1>7 DEF RecoveryInv, AllDrawn
<1>12. ASSUME NEW q \in Procs PROVE Alone(q)' /\ Remembers(q)'
  <2>1. Alone(q) /\ Remembers(q) /\ (h[q].pc # "idle" => h[q].tok \in drawn /\ h[q].tok # None)
    BY TypeParts, NoneIsFresh DEF RecoveryInv, AllDrawn
  <2>2. Alone(q)'
    <3>1. Drawing(q) /\ h[q].pc # "queue" => h[q].tok \notin S
      BY <1>6, <2>1 DEF Alone, Stored
    <3> QED
      BY <1>2, <1>8, <2>1, <3>1 DEF Alone, Drawing
  <2>3. Remembers(q)'
    <3>1. h[q].pc = "queue" =>
            /\ Stored(h[q].tok)' \/ h[q].tok \in gone'
            /\ \A v \in Ids, l \in Kinds : user'[v].tok[l] = h[q].tok =>
                  l = h[q].kind /\ user'[v].email = h[q].email
      BY <1>2, <1>3, <1>7, <1>8, <2>1 DEF Remembers
    <3>2. h[q].pc \in {"store", "queue", "apply"} =>
            /\ h[q].id \in Ids /\ user'[h[q].id].drawn
            /\ There(h[q].id)' => user'[h[q].id].email = h[q].email
      <4> SUFFICES ASSUME h[q].pc \in {"store", "queue", "apply"}
                   PROVE  /\ h[q].id \in Ids /\ user'[h[q].id].drawn
                          /\ user'[h[q].id].email # None => user'[h[q].id].email = h[q].email
        BY <1>2 DEF There
      <4>1. PICK v : v = h[q].id
        OBVIOUS
      <4>2. v \in Ids /\ user[v].drawn /\ (user[v].email # None => user[v].email = h[q].email)
        BY <2>1, <4>1 DEF Remembers, There
      <4>3. CASE v = u
        BY <1>3, <4>1, <4>2, <4>3
      <4>4. CASE v # u
        BY <1>3, <4>1, <4>2, <4>4
      <4> QED
        BY <4>3, <4>4
    <3> QED
      BY <1>2, <2>1, <3>1, <3>2 DEF Remembers
  <2> QED
    BY <2>2, <2>3
<1>13. StoredOnce' /\ ThereDrawn'
  BY <1>3, <1>7 DEF RecoveryInv, StoredOnce, ThereDrawn, There
<1>14. \A m \in Sent : m.tok # None
  BY TypeParts, NoneIsFresh DEF RecoveryInv, AllDrawn
<1>15. Addressed'
  BY <1>2, <1>3, <1>7, <1>14 DEF RecoveryInv, Addressed
<1>16. OneAccountPerEmail'
  BY <1>3 DEF RecoveryInv, OneAccountPerEmail, There
<1>17. MailedSecretsKnown'
  BY <1>2, <1>8, <1>14 DEF RecoveryInv, MailedSecretsKnown, Sent
<1>18. SpentSecretsDie'
  <2>1. None \notin gone /\ SpentSecretsDie
    BY TypeParts, NoneIsFresh DEF RecoveryInv
  <2> QED
    BY <1>2, <1>8, <1>9, <2>1 DEF SpentSecretsDie
<1>19. ResetByOwnMail'
  BY <1>2, <1>3 DEF RecoveryInv, ResetByOwnMail
<1> QED
  BY <1>10, <1>11, <1>12, <1>13, <1>15, <1>16, <1>17, <1>18, <1>19 DEF RecoveryInv

-----------------------------------------------------------------------------
(* The specification *)

LEMMA RecoveryInvInit == Init => RecoveryInv
<1> SUFFICES ASSUME Init PROVE RecoveryInv
  OBVIOUS
<1>1. PICK old \in OldUsers :
        user = [u \in Ids |-> IF old[u] = None THEN NoUser ELSE OldUser(old[u])]
  BY DEF Init
<1>2. old \in [Ids -> Emails \cup {None}]
      /\ \A u, v \in Ids : old[u] = old[v] /\ old[u] # None => u = v
  BY <1>1, OldUsersAssumption
<1>3. ASSUME NEW e \in Emails
      PROVE  /\ OldUser(e) \in Documents /\ OldUser(e).email = e /\ OldUser(e).drawn
             /\ OldUser(e).pwBy = None /\ \A k \in Kinds : OldUser(e).tok[k] = None
  <2>1. NoUser \in Documents /\ NoUser.pwBy = None /\ \A k \in Kinds : NoUser.tok[k] = None
    BY NoUserType DEF NoUser
  <2> QED
    BY <2>1 DEF OldUser, Documents
<1>4. /\ NoUser \in Documents /\ NoUser.email = None /\ NoUser.pwBy = None
      /\ \A k \in Kinds : NoUser.tok[k] = None
  BY NoUserType DEF NoUser
<1>5. ASSUME NEW u \in Ids
      PROVE  /\ user[u] \in Documents /\ user[u].email = old[u] /\ user[u].pwBy = None
             /\ There(u) => user[u].drawn
             /\ \A k \in Kinds : user[u].tok[k] = None
  <2>1. CASE old[u] = None
    BY <1>1, <1>4, <2>1 DEF There
  <2>2. CASE old[u] # None
    <3>1. old[u] \in Emails /\ user[u] = OldUser(old[u])
      BY <1>1, <1>2, <2>2
    <3> QED
      BY <1>3, <3>1
  <2> QED
    BY <2>1, <2>2
<1>6. user \in Users
  BY <1>1, <1>5 DEF Users
<1>7. h \in Handlers /\ \A p \in Procs : h[p].pc = "idle"
  BY DEF Init, Idle, Handlers, Requests
<1>8. jobs = {} /\ inbox = {} /\ drawn = {} /\ gone = {}
  BY DEF Init
<1>9. TypeOK
  BY <1>6, <1>7, <1>8, TypeParts
<1>10. AllDrawn /\ StoredOnce /\ ThereDrawn /\ Addressed
  BY <1>5, <1>7, <1>8 DEF AllDrawn, StoredOnce, ThereDrawn, Addressed, Sent
<1>11. ASSUME NEW p \in Procs PROVE Alone(p) /\ Remembers(p)
  BY <1>7 DEF Alone, Remembers, Drawing
<1>12. OneAccountPerEmail /\ MailedSecretsKnown /\ SpentSecretsDie /\ ResetByOwnMail
  BY <1>2, <1>5, <1>8 DEF OneAccountPerEmail, There, MailedSecretsKnown,
     SpentSecretsDie, ResetByOwnMail
<1> QED
  BY <1>9, <1>10, <1>11, <1>12 DEF RecoveryInv

LEMMA RecoveryInvNext == RecoveryInv /\ [Next]_vars => RecoveryInv'
<1> SUFFICES ASSUME RecoveryInv, [Next]_vars PROVE RecoveryInv'
  OBVIOUS
<1>1. CASE UNCHANGED vars
  <2>1. UNCHANGED <<user, jobs, inbox, h, drawn, gone>>
    BY <1>1 DEF vars
  <2>2. user' \in Users /\ SameAccounts
    BY <2>1, TypeParts DEF RecoveryInv, SameAccounts
  <2> QED
    BY <2>1, <2>2, SameAccountsInv
<1>2. ASSUME NEW p \in Procs, NEW e \in Emails, NEW t \in Secrets, Register(p, e, t)
      PROVE  RecoveryInv'
  BY <1>2, RegisterInv
<1>3. ASSUME NEW p \in Procs, NEW u \in Ids, NEW k \in Kinds, NEW t \in Secrets,
             Ask(p, u, k, t)
      PROVE  RecoveryInv'
  BY <1>3, AskInv
<1>4. ASSUME NEW p \in Procs, NEW u \in Ids, NEW m \in inbox, Present(p, u, m)
      PROVE  RecoveryInv'
  BY <1>4, PresentInv
<1>5. ASSUME NEW p \in Procs, HandlerStep(p) PROVE RecoveryInv'
  <2>1. CASE \E u \in Ids : Create(p, u)
    BY <2>1, CreateInv
  <2>2. CASE Store(p)
    BY <2>2, StoreInv
  <2>3. CASE AddJob(p)
    BY <2>3, AddJobInv
  <2>4. CASE Apply(p)
    BY <2>4, ApplyInv
  <2> QED
    BY <1>5, <2>1, <2>2, <2>3, <2>4 DEF HandlerStep
<1>6. ASSUME NEW p \in Procs, Fail(p) PROVE RecoveryInv'
  <2>1. Become(p, Idle) /\ UNCHANGED <<user, jobs, inbox, drawn, gone>>
    BY <1>6 DEF Fail
  <2> QED
    BY <2>1, IdleInv
<1>7. ASSUME NEW t \in Secrets, Work(t) PROVE RecoveryInv'
  BY <1>7, QueueInv DEF Work
<1>9. ASSUME NEW u \in Ids, DeactivateUser(u) PROVE RecoveryInv'
  BY <1>9, DeactivateFacts, SameAccountsInv DEF RecoveryInv, DeactivateUser
<1>10. ASSUME NEW u \in Ids, DeleteUser(u) PROVE RecoveryInv'
  BY <1>10, DeleteInv
<1>11. ASSUME NEW u \in Ids, NEW k \in Kinds, Expire(u, k) PROVE RecoveryInv'
  BY <1>11, ExpireFacts, SameAccountsInv DEF RecoveryInv, Expire
<1> QED
  BY <1>1, <1>2, <1>3, <1>4, <1>5, <1>6, <1>7, <1>9, <1>10, <1>11 DEF Next

\* RecoveryInv holds in every state.
THEOREM Invariance == Spec => []RecoveryInv
  BY RecoveryInvInit, RecoveryInvNext, PTL DEF Spec

\* The state stays in its types: no request, job or mail ever holds anything
\* that was not drawn by a request (auth.service.js, email.queue.js).
THEOREM TypeCorrectness == Spec => []TypeOK
<1>1. RecoveryInv => TypeOK
  BY DEF RecoveryInv
<1> QED
  BY <1>1, Invariance, PTL

\* register looks the address up before it creates, so two registrations may
\* both find it free: the unique index lets one of them through.
THEOREM UniqueAddresses == Spec => []OneAccountPerEmail
<1>1. RecoveryInv => OneAccountPerEmail
  BY DEF RecoveryInv
<1> QED
  BY <1>1, Invariance, PTL

\* A mail never runs ahead of the document its secret is checked against.
THEOREM MailsFollowDocuments == Spec => []MailedSecretsKnown
<1>1. RecoveryInv => MailedSecretsKnown
  BY DEF RecoveryInv
<1> QED
  BY <1>1, Invariance, PTL

\* A used, replaced or cleared secret is never stored again, so no lookup by
\* it finds an account.
THEOREM SpentForGood == Spec => []SpentSecretsDie
<1>1. RecoveryInv => SpentSecretsDie
  BY DEF RecoveryInv
<1> QED
  BY <1>1, Invariance, PTL

\* resetPassword sets the password of the account whose address got the token,
\* although it updates by _id what it found by token a step earlier.
THEOREM ResetsByTheOwner == Spec => []ResetByOwnMail
<1>1. RecoveryInv => ResetByOwnMail
  BY DEF RecoveryInv
<1> QED
  BY <1>1, Invariance, PTL

-----------------------------------------------------------------------------
(* Recovery implements SecretContract *)

\* One document is replaced, as the contract sees it.
LEMMA ReplacedShows ==
  ASSUME user \in Users, NEW u \in Ids, NEW d \in Documents,
         user' = [user EXCEPT ![u] = d]
  PROVE  /\ Account' = [Account EXCEPT ![u] = Shown(d)]
         /\ Slot' = [Slot EXCEPT ![u] = d.tok]
  BY DEF Account, Slot, Users

LEMMA NewUserShows ==
  ASSUME NEW e \in Emails, NEW t \in Secrets
  PROVE  /\ Shown(NewUser(e, t)) = Contract!Resident(e)
         /\ NewUser(e, t).tok = [Contract!NoSecrets EXCEPT !["verify"] = t]
<1> DEFINE s == [k \in Kinds |-> IF k = "verify" THEN t ELSE None]
           d == NewUser(e, t)
<1>1. d.email = e /\ d.verified = FALSE /\ d.pwBy = None /\ d.tok = s
  BY DEF NewUser, NoUser
<1>2. s = [Contract!NoSecrets EXCEPT !["verify"] = t]
  BY DEF Contract!NoSecrets
<1> HIDE DEF s, d
<1>3. Shown(d) = Contract!Resident(e)
  BY <1>1 DEF Shown, Contract!Resident
<1> QED
  BY <1>1, <1>2, <1>3 DEF d

LEMMA WithSecretShows ==
  ASSUME NEW d \in Documents, NEW k \in Kinds, NEW t \in Secrets \cup {None}
  PROVE  /\ Shown(WithSecret(d, k, t)) = Shown(d)
         /\ WithSecret(d, k, t).tok = [d.tok EXCEPT ![k] = t]
  BY DEF WithSecret, Shown, Documents

LEMMA RedeemedShows ==
  ASSUME NEW d \in Documents, NEW k \in Kinds, NEW t \in Secrets,
         NEW c, c.kind = k, c.tok = t
  PROVE  /\ Shown(Redeemed(d, k, t)) = Contract!Entitled(Shown(d), c)
         /\ Redeemed(d, k, t).tok = [d.tok EXCEPT ![k] = None]
<1> DEFINE w == WithSecret(d, k, None)
           b == d.verified \/ k = "verify"
           q == IF k = "reset" THEN t ELSE d.pwBy
           r == Redeemed(d, k, t)
<1>1. /\ w \in Documents /\ Shown(w) = Shown(d) /\ w.tok = [d.tok EXCEPT ![k] = None]
  BY WithSecretFacts, WithSecretShows
<1>2. w.email = d.email /\ w.verified = d.verified /\ w.pwBy = d.pwBy
  BY <1>1 DEF Shown
<1>3. r = [w EXCEPT !.verified = b, !.pwBy = q]
  BY <1>2 DEF Redeemed
<1> HIDE DEF w, b, q, r
<1>4. r.email = d.email /\ r.verified = b /\ r.pwBy = q /\ r.tok = w.tok
  BY <1>1, <1>2, <1>3 DEF Documents
<1>5. Shown(r) = [email |-> d.email, verified |-> b, password |-> q]
  BY <1>4 DEF Shown
<1>6. Contract!Entitled(Shown(d), c) = [email |-> d.email, verified |-> b, password |-> q]
  BY DEF Shown, Contract!Entitled, b, q
<1> QED
  BY <1>1, <1>4, <1>5, <1>6 DEF r

\* A step of one request changes the claims by that request's.
LEMMA ClaimsMove ==
  ASSUME NEW p \in Procs, Others(p)
  PROVE  /\ h[p].pc # "apply" /\ h'[p].pc # "apply" => UNCHANGED Claims
         /\ h[p].pc # "apply" /\ h'[p].pc = "apply"
              => Claims' = Claims \cup {ClaimOf(h'[p])}
         /\ h[p].pc = "apply" /\ h'[p].pc # "apply"
              => Claims' \in {Claims, Claims \ {ClaimOf(h[p])}}
<1> DEFINE rest == {ClaimOf(h[q]) : q \in At("apply") \ {p}}
<1>1. rest = {ClaimOf(h'[q]) : q \in At("apply")' \ {p}}
  BY DEF Others, At
<1>2. Claims = IF h[p].pc = "apply" THEN rest \cup {ClaimOf(h[p])} ELSE rest
  BY DEF Claims, At
<1>3. Claims' = IF h'[p].pc = "apply" THEN rest \cup {ClaimOf(h'[p])} ELSE rest
  BY <1>1 DEF Claims, At
<1> HIDE DEF rest
<1> QED
  BY <1>2, <1>3

\* The letters of the requests that are about to queue one.
Writing == {Letter(Mail(h[p])) : p \in At("queue")}

LEMMA WritingMoves ==
  ASSUME NEW p \in Procs, Others(p)
  PROVE  /\ h[p].pc # "queue" /\ h'[p].pc # "queue" => UNCHANGED Writing
         /\ h[p].pc # "queue" /\ h'[p].pc = "queue"
              => Writing' = Writing \cup {Letter(Mail(h'[p]))}
         /\ h[p].pc = "queue" /\ h'[p].pc # "queue"
              => Writing' \in {Writing, Writing \ {Letter(Mail(h[p]))}}
<1> DEFINE rest == {Letter(Mail(h[q])) : q \in At("queue") \ {p}}
<1>1. rest = {Letter(Mail(h'[q])) : q \in At("queue")' \ {p}}
  BY DEF Others, At
<1>2. Writing = IF h[p].pc = "queue" THEN rest \cup {Letter(Mail(h[p]))} ELSE rest
  BY DEF Writing, At
<1>3. Writing' = IF h'[p].pc = "queue" THEN rest \cup {Letter(Mail(h'[p]))} ELSE rest
  BY <1>1 DEF Writing, At
<1> HIDE DEF rest
<1> QED
  BY <1>2, <1>3

LEMMA PostParts == Post = {Letter(m) : m \in Sent} \cup Writing
  BY DEF Post, Sent, Writing

LEMMA PostPartsNext == Post' = {Letter(m) : m \in Sent'} \cup Writing'
  BY DEF Post, Sent, Writing

LEMMA UserShows ==
  ASSUME UNCHANGED user
  PROVE  UNCHANGED <<Account, Closed, Slot>>
  BY DEF Account, Closed, Slot, There

\* Steps that the contract knows nothing of.
LEMMA QuietStep ==
  ASSUME NEW p \in Procs, Others(p), UNCHANGED <<user, jobs, inbox, gone>>,
         h[p].pc \notin {"queue", "apply"}, h'[p].pc \notin {"queue", "apply"}
  PROVE  UNCHANGED Contract!vars
<1>1. UNCHANGED <<Account, Closed, Slot>>
  BY UserShows
<1>2. UNCHANGED Claims /\ UNCHANGED Writing
  BY ClaimsMove, WritingMoves
<1>3. UNCHANGED Post
  BY <1>2, PostParts, PostPartsNext DEF Sent
<1>4. UNCHANGED Arrived
  BY DEF Arrived
<1> QED
  BY <1>1, <1>2, <1>3, <1>4 DEF Contract!vars

LEMMA IdleStep ==
  ASSUME RecoveryInv, NEW p \in Procs, Become(p, Idle),
         UNCHANGED <<user, jobs, inbox, gone>>, h[p].pc \notin {"queue", "apply"}
  PROVE  UNCHANGED Contract!vars
  BY TypeParts, IdleFacts, QuietStep DEF RecoveryInv

LEMMA OpenStep ==
  ASSUME RecoveryInv, NEW p \in Procs, NEW u \in Ids, Create(p, u)
  PROVE  [Contract!Next]_(Contract!vars)
<1>1. CASE Become(p, Idle) /\ UNCHANGED user
  BY <1>1, IdleStep DEF Create
<1>2. CASE /\ \A v \in Ids : user[v].email # h[p].email
           /\ user' = [user EXCEPT ![u] = NewUser(h[p].email, h[p].tok)]
           /\ Become(p, [h[p] EXCEPT !.pc = "queue", !.id = u])
  <2>1. /\ h[p].pc = "create" /\ Drawing(p) /\ Alone(p) /\ Remembers(p)
        /\ h[p].tok \in Secrets /\ h[p].email \in Emails /\ h[p].kind = "verify"
    BY TypeParts DEF RecoveryInv, Create, Drawing, AllDrawn, Remembers
  <2>2. PICK t \in Secrets, e \in Emails : t = h[p].tok /\ e = h[p].email
    BY <2>1
  <2>3. /\ h' \in Handlers /\ Others(p) /\ h'[p].pc = "queue" /\ h'[p].kind = "verify"
        /\ h'[p].email = e /\ h'[p].tok = t
    BY <1>2, <2>1, <2>2, TypeParts, QueueFacts DEF RecoveryInv
  <2> DEFINE d == NewUser(e, t)
  <2>4. /\ d \in Documents /\ d.email = e /\ d.drawn = TRUE
        /\ Shown(d) = Contract!Resident(e)
        /\ d.tok = [Contract!NoSecrets EXCEPT !["verify"] = t]
    BY NewUserFacts, NewUserShows
  <2>5. user' = [user EXCEPT ![u] = d] /\ user \in Users
    BY <1>2, <2>2, TypeParts DEF RecoveryInv
  <2> HIDE DEF d
  <2>6. /\ Account' = [Account EXCEPT ![u] = Contract!Resident(e)]
        /\ Slot' = [Slot EXCEPT ![u] = [Contract!NoSecrets EXCEPT !["verify"] = t]]
    <3>1. /\ Account' = [Account EXCEPT ![u] = Shown(d)]
          /\ Slot' = [Slot EXCEPT ![u] = d.tok]
      BY <2>4, <2>5, ReplacedShows
    <3> QED
      BY <2>4, <3>1
  <2>7. user'[u] = d /\ \A v \in Ids \ {u} : user'[v] = user[v]
    BY <2>4, <2>5, ReplaceFacts
  <2>8. ~user[u].drawn /\ ~There(u)
    BY DEF RecoveryInv, ThereDrawn, Create, Unused
  <2>9. UNCHANGED Closed
    BY <2>4, <2>7, <2>8, NoneIsFresh DEF Closed, There
  <2>10. /\ Account[u].email = None /\ u \notin Closed
         /\ \A v \in Ids : Account[v].email # e
    BY <1>2, <2>2, <2>8 DEF Account, Shown, Closed, There
  <2>11. t \notin gone /\ \A v \in Ids, k \in Kinds : Slot[v][k] # t
    BY <2>1, <2>2 DEF Alone, Stored, Slot
  <2>12. /\ UNCHANGED Claims
         /\ Writing' = Writing \cup {[kind |-> "verify", to |-> e, tok |-> t]}
    BY <2>1, <2>3, ClaimsMove, WritingMoves DEF Letter, Mail
  <2>13. /\ Post' = Post \cup {[kind |-> "verify", to |-> e, tok |-> t]}
         /\ UNCHANGED <<gone, Arrived>>
    BY <2>12, PostParts, PostPartsNext DEF Sent, Arrived, Create
  <2>14. Contract!Open(u, e, t)
    BY <2>6, <2>9, <2>10, <2>11, <2>12, <2>13
    DEF Contract!Open, Contract!Lives, Contract!New
  <2> QED
    BY <2>14 DEF Contract!Next
<1> QED
  BY <1>1, <1>2 DEF Create

LEMMA IssueStep ==
  ASSUME RecoveryInv, NEW p \in Procs, Store(p)
  PROVE  [Contract!Next]_(Contract!vars)
<1>1. CASE Become(p, Idle) /\ UNCHANGED <<user, gone>>
  BY <1>1, IdleStep DEF Store
<1>2. CASE There(h[p].id)
  <2>1. /\ h[p].pc = "store" /\ Drawing(p) /\ Alone(p) /\ Remembers(p)
        /\ h[p].tok \in Secrets /\ h[p].id \in Ids /\ h[p].kind \in Kinds
    BY TypeParts DEF RecoveryInv, Store, Drawing, AllDrawn, Remembers
  <2>2. PICK t \in Secrets, u \in Ids, k \in Kinds :
          t = h[p].tok /\ u = h[p].id /\ k = h[p].kind
    BY <2>1
  <2>3. /\ user' = [user EXCEPT ![u] = WithSecret(@, k, t)] /\ Supersede(u, k)
        /\ Become(p, [h[p] EXCEPT !.pc = "queue"]) /\ UNCHANGED <<jobs, inbox>>
    BY <1>2, <2>2 DEF Store
  <2>4. user \in Users /\ user[u] \in Documents
    BY TypeParts DEF RecoveryInv, Users
  <2>5. user' = [user EXCEPT ![u] = WithSecret(user[u], k, t)]
    BY <2>3, <2>4 DEF Users
  <2> DEFINE d == WithSecret(user[u], k, t)
  <2>6. /\ d \in Documents /\ d.email = user[u].email /\ d.drawn = user[u].drawn
        /\ Shown(d) = Shown(user[u]) /\ d.tok = [user[u].tok EXCEPT ![k] = t]
    BY <2>4, WithSecretFacts, WithSecretShows
  <2> HIDE DEF d
  <2>7. /\ Account' = [Account EXCEPT ![u] = Shown(user[u])]
        /\ Slot' = [Slot EXCEPT ![u] = [user[u].tok EXCEPT ![k] = t]]
    <3>1. user' = [user EXCEPT ![u] = d]
      BY <2>5 DEF d
    <3>2. /\ Account' = [Account EXCEPT ![u] = Shown(d)]
          /\ Slot' = [Slot EXCEPT ![u] = d.tok]
      BY <2>4, <2>6, <3>1, ReplacedShows
    <3> QED
      BY <2>6, <3>2
  <2>8. user'[u] = d /\ \A v \in Ids \ {u} : user'[v] = user[v]
    BY <2>4, <2>5, <2>6, ReplaceFacts DEF d
  <2>9. UNCHANGED Account /\ Slot' = [Slot EXCEPT ![u][k] = t]
    BY <2>7 DEF Account, Slot
  <2>10. UNCHANGED Closed
    BY <2>6, <2>8 DEF Closed, There
  <2>11. Account[u].email # None /\ Account[u].email = h[p].email
    BY <1>2, <2>1, <2>2 DEF Account, Shown, There, Remembers
  <2>12. t \notin gone /\ \A v \in Ids, l \in Kinds : Slot[v][l] # t
    BY <2>1, <2>2 DEF Alone, Stored, Slot
  <2>13. gone' = gone \cup ({Slot[u][k]} \ {None})
    BY <2>3 DEF Supersede, Slot
  <2>14. /\ h' \in Handlers /\ Others(p) /\ h'[p].pc = "queue" /\ h'[p].kind = k
         /\ h'[p].email = h[p].email /\ h'[p].tok = t
    BY <2>2, <2>3, TypeParts, QueueFacts DEF RecoveryInv
  <2>15. UNCHANGED Claims /\ Writing' = Writing \cup {Contract!Letter(u, k, t)}
    BY <2>1, <2>11, <2>14, ClaimsMove, WritingMoves DEF Letter, Mail, Contract!Letter
  <2>16. Post' = Post \cup {Contract!Letter(u, k, t)} /\ UNCHANGED Arrived
    BY <2>3, <2>15, PostParts, PostPartsNext DEF Sent, Arrived
  <2>17. Contract!Issue(u, k, t) /\ Contract!Lives(u)
    BY <2>9, <2>10, <2>11, <2>12, <2>13, <2>15, <2>16
    DEF Contract!Issue, Contract!Lives, Contract!New
  <2> QED
    BY <2>17 DEF Contract!Next, Contract!Life
<1> QED
  BY <1>1, <1>2 DEF Store

LEMMA ClaimStep ==
  ASSUME RecoveryInv, NEW p \in Procs, NEW u \in Ids, NEW m \in inbox, Present(p, u, m)
  PROVE  [Contract!Next]_(Contract!vars)
<1> DEFINE k == m.kind
<1>1. /\ user[u].email \in Emails /\ There(u) /\ k \in Kinds /\ m.tok \in Secrets
      /\ user[u].tok[k] = m.tok /\ m.to = user[u].email
  BY TypeParts DEF RecoveryInv, Present, Waits, There, Users, Documents, Mails,
     Addressed, Sent
<1>2. /\ h' \in Handlers /\ Others(p) /\ h'[p].pc = "apply" /\ h'[p].kind = k
      /\ h'[p].id = u /\ h'[p].tok = m.tok
  BY <1>1, TypeParts, AskFacts DEF RecoveryInv, Present
<1>3. h[p].pc = "idle" /\ UNCHANGED <<user, jobs, inbox, gone>>
  BY DEF Present
<1>4. UNCHANGED <<Account, Closed, Slot>> /\ UNCHANGED Arrived
  BY <1>3, UserShows DEF Arrived
<1>5. UNCHANGED Writing /\ Claims' = Claims \cup {ClaimOf(h'[p])}
  BY <1>2, <1>3, ClaimsMove, WritingMoves
<1>6. UNCHANGED Post
  BY <1>3, <1>5, PostParts, PostPartsNext DEF Sent
<1>7. ClaimOf(h'[p]) = [id |-> u, kind |-> k, tok |-> Slot[u][k]]
  BY <1>1, <1>2 DEF ClaimOf, Slot
<1>8. Account[u].email # None /\ Slot[u][k] = m.tok /\ Account[u].email = m.to
  BY <1>1, NoneIsFresh DEF Account, Shown, Slot
<1>9. Contract!Letter(u, k, Slot[u][k]) \in Arrived
  BY <1>8 DEF Contract!Letter, Arrived, Letter
<1>10. Contract!Claim(u, k) /\ Contract!Lives(u)
  BY <1>3, <1>4, <1>5, <1>6, <1>7, <1>8, <1>9 DEF Contract!Claim, Contract!Lives
<1> QED
  BY <1>1, <1>10 DEF Contract!Next, Contract!Life

LEMMA QueueStep ==
  ASSUME RecoveryInv, NEW p \in Procs, AddJob(p)
  PROVE  UNCHANGED Contract!vars
<1> DEFINE l == Letter(Mail(h[p]))
<1>1. h[p].pc = "queue" /\ h'[p].pc = "idle" /\ Others(p)
  BY TypeParts, IdleFacts DEF RecoveryInv, AddJob
<1>2. l \in Writing /\ Writing' \in {Writing, Writing \ {l}}
  BY <1>1, WritingMoves DEF Writing, At
<1>3. {Letter(m) : m \in Sent'} = {Letter(m) : m \in Sent} \cup {l}
  BY DEF AddJob, Sent
<1> HIDE DEF l
<1>4. UNCHANGED Post
  BY <1>2, <1>3, PostParts, PostPartsNext
<1>5. UNCHANGED <<Account, Closed, Slot>> /\ UNCHANGED Arrived /\ UNCHANGED Claims
  BY <1>1, UserShows, ClaimsMove DEF Arrived, AddJob
<1> QED
  BY <1>4, <1>5 DEF Contract!vars, AddJob

LEMMA MailStep ==
  ASSUME RecoveryInv, NEW m \in jobs, Run(m)
  PROVE  [Contract!Next]_(Contract!vars)
<1> DEFINE r == Sealed(m)
<1>1. m \in Mails /\ Waiting(m)
  BY RunFacts
<1>2. Letter(r) = Letter(m) /\ Letter(Retried(m)) = Letter(m) /\ Letter(Stalled(m)) = Letter(m)
  BY <1>1, RunForms
<1>3. /\ inbox' \in {inbox, inbox \cup {r}}
      /\ \/ jobs' = jobs \ {m} /\ r \in inbox'
         \/ jobs' = (jobs \ {m}) \cup {Retried(m)}
         \/ jobs' = (jobs \ {m}) \cup {Stalled(m)}
  BY RunFacts DEF Replace
<1>4. UNCHANGED <<user, h, gone>>
  BY RunFacts
<1> HIDE DEF r
<1>5. UNCHANGED <<Account, Closed, Slot>> /\ UNCHANGED Claims /\ UNCHANGED Writing
  BY <1>4, UserShows DEF Claims, Writing, At
<1>6. m \in Sent
  BY DEF Sent
<1>7. {Letter(n) : n \in Sent'} = {Letter(n) : n \in Sent}
  <2>1. ASSUME NEW n \in Sent' PROVE \E x \in Sent : Letter(n) = Letter(x)
    BY <1>2, <1>3, <1>6 DEF Sent
  <2>2. ASSUME NEW n \in Sent PROVE \E x \in Sent' : Letter(n) = Letter(x)
    BY <1>2, <1>3 DEF Sent
  <2> QED
    BY <2>1, <2>2
<1>8. UNCHANGED Post
  BY <1>5, <1>7, PostParts, PostPartsNext
<1>9. Letter(m) \in Post
  BY <1>6, PostParts
<1>10. CASE inbox' = inbox \cup {r}
  <2>1. Arrived' = Arrived \cup {Letter(m)}
    BY <1>2, <1>10 DEF Arrived
  <2>2. Contract!Arrive(Letter(m))
    BY <1>4, <1>5, <1>8, <2>1 DEF Contract!Arrive
  <2> QED
    BY <1>9, <2>2 DEF Contract!Next
<1>11. CASE inbox' = inbox
  BY <1>4, <1>5, <1>8, <1>11 DEF Contract!vars, Arrived
<1> QED
  BY <1>3, <1>10, <1>11

LEMMA RedeemStep ==
  ASSUME RecoveryInv, NEW p \in Procs, Apply(p)
  PROVE  [Contract!Next]_(Contract!vars)
<1>1. /\ h[p].pc = "apply" /\ Remembers(p) /\ h[p].tok \in Secrets
      /\ h[p].id \in Ids /\ h[p].kind \in Kinds
  BY TypeParts DEF RecoveryInv, Apply, AllDrawn, Remembers
<1>2. PICK t \in Secrets, u \in Ids, k \in Kinds :
        t = h[p].tok /\ u = h[p].id /\ k = h[p].kind
  BY <1>1
<1> DEFINE c == ClaimOf(h[p])
<1>3. c \in Claims /\ c.id = u /\ c.kind = k /\ c.tok = t
  BY <1>1, <1>2 DEF Claims, At, ClaimOf
<1>4. h'[p].pc = "idle" /\ Others(p) /\ UNCHANGED <<jobs, inbox>>
  BY TypeParts, IdleFacts DEF RecoveryInv, Apply
<1>5. Claims' \in {Claims, Claims \ {c}} /\ UNCHANGED Writing
  BY <1>1, <1>4, ClaimsMove, WritingMoves
<1> HIDE DEF c
<1>6. UNCHANGED Post /\ UNCHANGED Arrived
  BY <1>4, <1>5, PostParts, PostPartsNext DEF Sent, Arrived
<1>7. CASE ~There(u)
  <2>1. UNCHANGED <<Account, Closed, Slot>> /\ UNCHANGED gone
    BY <1>2, <1>7, UserShows DEF Apply
  <2>2. Contract!Withdraw(c)
    BY <1>5, <1>6, <2>1 DEF Contract!Withdraw, Contract!Settle
  <2> QED
    BY <1>3, <2>2 DEF Contract!Next
<1>8. CASE There(u)
  <2>1. user \in Users /\ user[u] \in Documents
    BY TypeParts DEF RecoveryInv, Users
  <2>2. user' = [user EXCEPT ![u] = Redeemed(user[u], k, t)] /\ Supersede(u, k)
    BY <1>2, <1>8, <2>1 DEF Apply, Users
  <2> DEFINE d == Redeemed(user[u], k, t)
  <2>3. /\ d \in Documents /\ d.email = user[u].email /\ d.drawn = user[u].drawn
        /\ Shown(d) = Contract!Entitled(Shown(user[u]), c)
        /\ d.tok = [user[u].tok EXCEPT ![k] = None]
    <3>1. d \in Documents /\ d.email = user[u].email /\ d.drawn = user[u].drawn
      BY <2>1, RedeemedFacts
    <3>2. /\ Shown(d) = Contract!Entitled(Shown(user[u]), c)
          /\ d.tok = [user[u].tok EXCEPT ![k] = None]
      BY <1>3, <2>1, RedeemedShows
    <3> QED
      BY <3>1, <3>2
  <2> HIDE DEF d
  <2>4. user' = [user EXCEPT ![u] = d]
    BY <2>2 DEF d
  <2>5. /\ Account' = [Account EXCEPT ![u] = Shown(d)]
        /\ Slot' = [Slot EXCEPT ![u] = d.tok]
    BY <2>1, <2>3, <2>4, ReplacedShows
  <2>6. /\ Account' = [Account EXCEPT ![u] = Contract!Entitled(Account[u], c)]
        /\ Slot' = [Slot EXCEPT ![u][k] = None]
    BY <2>3, <2>5 DEF Account, Slot
  <2>7. user'[u] = d /\ \A v \in Ids \ {u} : user'[v] = user[v]
    BY <2>1, <2>3, <2>4, ReplaceFacts
  <2>8. UNCHANGED Closed
    BY <2>3, <2>7 DEF Closed, There
  <2>9. Account[u].email # None /\ gone' = gone \cup ({Slot[u][k]} \ {None})
    BY <1>8, <2>2 DEF Account, Shown, There, Supersede, Slot
  <2>10. Contract!Redeem(c)
    BY <1>3, <1>5, <1>6, <2>6, <2>8, <2>9
    DEF Contract!Redeem, Contract!Lives, Contract!Settle
  <2> QED
    BY <1>3, <2>10 DEF Contract!Next
<1> QED
  BY <1>7, <1>8

LEMMA FailStep ==
  ASSUME RecoveryInv, NEW p \in Procs, Fail(p)
  PROVE  [Contract!Next]_(Contract!vars)
<1>1. /\ h[p].pc # "idle" /\ h'[p].pc = "idle" /\ Others(p) /\ Become(p, Idle)
      /\ UNCHANGED <<user, jobs, inbox, gone>>
  BY TypeParts, IdleFacts DEF RecoveryInv, Fail
<1>2. UNCHANGED <<Account, Closed, Slot>> /\ UNCHANGED Arrived
  BY <1>1, UserShows DEF Arrived
<1>3. CASE h[p].pc = "apply"
  <2> DEFINE c == ClaimOf(h[p])
  <2>1. c \in Claims /\ Claims' \in {Claims, Claims \ {c}} /\ UNCHANGED Writing
    BY <1>1, <1>3, ClaimsMove, WritingMoves DEF Claims, At
  <2>2. UNCHANGED Post
    BY <1>1, <2>1, PostParts, PostPartsNext DEF Sent
  <2> HIDE DEF c
  <2>3. Contract!Withdraw(c)
    BY <1>1, <1>2, <2>1, <2>2 DEF Contract!Withdraw, Contract!Settle
  <2> QED
    BY <2>1, <2>3 DEF Contract!Next
<1>4. CASE h[p].pc = "queue"
  <2> DEFINE l == Letter(Mail(h[p]))
             sent == {Letter(m) : m \in Sent}
  <2>1. l \in Writing /\ Writing' \in {Writing, Writing \ {l}} /\ UNCHANGED Claims
    BY <1>1, <1>4, ClaimsMove, WritingMoves DEF Writing, At
  <2>2. l \notin sent
    BY <1>4 DEF RecoveryInv, Alone, Drawing, Letter, Mail
  <2>3. l \notin Arrived
    BY <2>2 DEF Arrived, Sent
  <2>4. Post = sent \cup Writing /\ Post' = sent \cup Writing'
    BY <1>1, PostParts, PostPartsNext DEF Sent
  <2> HIDE DEF l, sent
  <2>5. CASE Writing' = Writing
    BY <1>1, <1>2, <2>1, <2>4, <2>5 DEF Contract!vars
  <2>6. CASE Writing' = Writing \ {l}
    <3>1. l \in Post /\ Post' = Post \ {l}
      BY <2>1, <2>2, <2>4, <2>6
    <3>2. Contract!Lose(l)
      BY <1>1, <1>2, <2>1, <2>3, <3>1 DEF Contract!Lose
    <3> QED
      BY <3>1, <3>2 DEF Contract!Next
  <2> QED
    BY <2>1, <2>5, <2>6
<1>5. CASE h[p].pc \notin {"queue", "apply"}
  BY <1>1, <1>5, IdleStep
<1> QED
  BY <1>3, <1>4, <1>5

\* Steps on the users collection alone.
LEMMA NoRequestShows ==
  ASSUME UNCHANGED <<jobs, inbox, h>>
  PROVE  UNCHANGED Post /\ UNCHANGED Arrived /\ UNCHANGED Claims
  BY DEF Post, Arrived, Claims, At

LEMMA CloseStep ==
  ASSUME RecoveryInv, NEW u \in Ids, DeleteUser(u)
  PROVE  [Contract!Next]_(Contract!vars)
<1> DEFINE d == [NoUser EXCEPT !.drawn = TRUE]
<1>1. /\ d \in Documents /\ d.email = None /\ d.drawn = TRUE
      /\ Shown(d) = Contract!Resident(None) /\ d.tok = Contract!NoSecrets
  <2>1. d \in Documents
    BY NoUserType DEF Documents
  <2>2. /\ d.email = None /\ d.drawn = TRUE /\ d.verified = FALSE /\ d.pwBy = None
        /\ d.tok = [k \in Kinds |-> None]
    BY DEF NoUser
  <2> HIDE DEF d
  <2> QED
    BY <2>1, <2>2 DEF Shown, Contract!Resident, Contract!NoSecrets
<1>2. user' = [user EXCEPT ![u] = d] /\ user \in Users /\ There(u)
  BY TypeParts DEF RecoveryInv, DeleteUser
<1> HIDE DEF d
<1>3. /\ Account' = [Account EXCEPT ![u] = Contract!Resident(None)]
      /\ Slot' = [Slot EXCEPT ![u] = Contract!NoSecrets]
  <2>1. /\ Account' = [Account EXCEPT ![u] = Shown(d)]
        /\ Slot' = [Slot EXCEPT ![u] = d.tok]
    BY <1>1, <1>2, ReplacedShows
  <2> QED
    BY <1>1, <2>1
<1>4. user'[u] = d /\ \A v \in Ids \ {u} : user'[v] = user[v]
  BY <1>1, <1>2, ReplaceFacts
<1>5. Closed' = Closed \cup {u}
  BY <1>1, <1>4 DEF Closed, There
<1>6. gone' = gone \cup Contract!Holdings(u)
  BY DEF DeleteUser, Contract!Holdings, Slot
<1>7. UNCHANGED Post /\ UNCHANGED Arrived /\ UNCHANGED Claims
  BY NoRequestShows DEF DeleteUser
<1>8. Account[u].email # None
  BY <1>2 DEF Account, Shown, There
<1>9. Contract!Close(u) /\ Contract!Lives(u)
  BY <1>3, <1>5, <1>6, <1>7, <1>8 DEF Contract!Close, Contract!Lives
<1> QED
  BY <1>9 DEF Contract!Next, Contract!Life

LEMMA UnseenStep ==
  ASSUME RecoveryInv, NEW u \in Ids,
         DeactivateUser(u) \/ \E k \in Kinds : Expire(u, k)
  PROVE  UNCHANGED Contract!vars
<1>1. user \in Users /\ user[u] \in Documents
  BY TypeParts DEF RecoveryInv, Users
<1>2. UNCHANGED <<jobs, inbox, h, gone>>
  BY DEF DeactivateUser, Expire
<1>3. PICK d \in Documents :
        /\ user' = [user EXCEPT ![u] = d] /\ d.email = user[u].email
        /\ d.drawn = user[u].drawn /\ d.tok = user[u].tok /\ Shown(d) = Shown(user[u])
  <2>1. CASE DeactivateUser(u)
    <3> DEFINE d == [user[u] EXCEPT !.active = FALSE]
    <3>1. /\ d \in Documents /\ d.email = user[u].email /\ d.verified = user[u].verified
          /\ d.pwBy = user[u].pwBy /\ d.drawn = user[u].drawn /\ d.tok = user[u].tok
      BY <1>1 DEF Documents
    <3>2. user' = [user EXCEPT ![u] = d]
      BY <1>1, <2>1 DEF DeactivateUser, Users
    <3> HIDE DEF d
    <3> QED
      BY <3>1, <3>2 DEF Shown
  <2>2. CASE \E k \in Kinds : Expire(u, k)
    <3>1. PICK k \in Kinds : Expire(u, k)
      BY <2>2
    <3> DEFINE f == [user[u].valid EXCEPT ![k] = FALSE]
               d == [user[u] EXCEPT !.valid = f]
    <3>2. f \in Flags
      BY <1>1 DEF Documents, Flags
    <3>3. user' = [user EXCEPT ![u] = d]
      BY <1>1, <3>1 DEF Expire, Users, Documents
    <3> HIDE DEF f
    <3>4. /\ d \in Documents /\ d.email = user[u].email /\ d.verified = user[u].verified
          /\ d.pwBy = user[u].pwBy /\ d.drawn = user[u].drawn /\ d.tok = user[u].tok
      BY <1>1, <3>2 DEF Documents
    <3> HIDE DEF d
    <3> QED
      BY <3>3, <3>4 DEF Shown
  <2> QED
    BY <2>1, <2>2
<1>4. user'[u] = d /\ \A v \in Ids \ {u} : user'[v] = user[v]
  BY <1>1, <1>3, ReplaceFacts
<1>5. UNCHANGED <<Account, Closed, Slot>>
  BY <1>3, <1>4 DEF Account, Closed, Slot, There, Shown
<1> QED
  BY <1>2, <1>5, NoRequestShows DEF Contract!vars

LEMMA StartStep ==
  ASSUME RecoveryInv, NEW p \in Procs,
         \/ \E e \in Emails, t \in Secrets : Register(p, e, t)
         \/ \E u \in Ids, k \in Kinds, t \in Secrets : Ask(p, u, k, t)
  PROVE  UNCHANGED Contract!vars
<1>1. h \in Handlers
  BY TypeParts DEF RecoveryInv
<1>2. h[p].pc = "idle" /\ UNCHANGED <<user, jobs, inbox, gone>>
  BY DEF Register, Ask
<1>3. CASE \E e \in Emails, t \in Secrets : Register(p, e, t)
  <2>1. PICK e \in Emails, t \in Secrets : Register(p, e, t)
    BY <1>3
  <2>2. Others(p) /\ h'[p].pc = "create"
    BY <1>1, <2>1, RegisterFacts DEF Register
  <2> QED
    BY <1>2, <2>2, QuietStep
<1>4. CASE \E u \in Ids, k \in Kinds, t \in Secrets : Ask(p, u, k, t)
  <2>1. PICK u \in Ids, k \in Kinds, t \in Secrets : Ask(p, u, k, t)
    BY <1>4
  <2>2. user[u].email \in Emails
    BY <2>1, TypeParts DEF RecoveryInv, Users, Documents, Ask, MayAsk, There
  <2>3. Others(p) /\ h'[p].pc = "store"
    BY <1>1, <2>1, <2>2, AskFacts DEF Ask
  <2> QED
    BY <1>2, <2>3, QuietStep
<1> QED
  BY <1>3, <1>4

LEMMA ContractInit == Init => Contract!Init
<1> SUFFICES ASSUME Init PROVE Contract!Init
  OBVIOUS
<1>1. PICK old \in OldUsers :
        user = [u \in Ids |-> IF old[u] = None THEN NoUser ELSE OldUser(old[u])]
  BY DEF Init
<1>2. ASSUME NEW u \in Ids
      PROVE  /\ user[u].email \in Emails \cup {None} /\ user[u].verified \in BOOLEAN
             /\ user[u].pwBy = None /\ user[u].tok = [k \in Kinds |-> None]
             /\ user[u].drawn => There(u)
  <2>1. CASE old[u] = None
    BY <1>1, <2>1 DEF NoUser
  <2>2. CASE old[u] # None
    <3>1. user[u] = OldUser(old[u]) /\ old[u] \in Emails
      BY <1>1, <2>2, OldUsersAssumption
    <3> QED
      BY <2>2, <3>1 DEF OldUser, NoUser, There
  <2> QED
    BY <2>1, <2>2
<1>3. Account \in [Ids -> [email : Emails \cup {None}, verified : BOOLEAN,
                           password : {None}]]
  BY <1>2 DEF Account, Shown
<1>4. Slot = [u \in Ids |-> Contract!NoSecrets]
  BY <1>2 DEF Slot, Contract!NoSecrets
<1>5. Closed = {}
  BY <1>2 DEF Closed
<1>6. At("queue") = {} /\ At("apply") = {} /\ jobs = {} /\ inbox = {} /\ gone = {}
  BY DEF Init, At, Idle
<1>7. Post = {} /\ Arrived = {} /\ Claims = {}
  BY <1>6 DEF Post, Arrived, Claims
<1> QED
  BY <1>3, <1>4, <1>5, <1>6, <1>7 DEF Contract!Init

LEMMA ContractNext == RecoveryInv /\ [Next]_vars => [Contract!Next]_(Contract!vars)
<1> SUFFICES ASSUME RecoveryInv, [Next]_vars PROVE [Contract!Next]_(Contract!vars)
  OBVIOUS
<1>1. CASE UNCHANGED vars
  BY <1>1, UserShows, NoRequestShows DEF vars, Contract!vars
<1>2. ASSUME NEW p \in Procs,
             \/ \E e \in Emails, t \in Secrets : Register(p, e, t)
             \/ \E u \in Ids, k \in Kinds, t \in Secrets : Ask(p, u, k, t)
      PROVE  [Contract!Next]_(Contract!vars)
  BY <1>2, StartStep
<1>3. ASSUME NEW p \in Procs, NEW u \in Ids, NEW m \in inbox, Present(p, u, m)
      PROVE  [Contract!Next]_(Contract!vars)
  BY <1>3, ClaimStep
<1>4. ASSUME NEW p \in Procs, HandlerStep(p)
      PROVE  [Contract!Next]_(Contract!vars)
  BY <1>4, OpenStep, IssueStep, QueueStep, RedeemStep DEF HandlerStep
<1>5. ASSUME NEW p \in Procs, Fail(p) PROVE [Contract!Next]_(Contract!vars)
  BY <1>5, FailStep
<1>6. ASSUME NEW t \in Secrets, Work(t) PROVE [Contract!Next]_(Contract!vars)
  BY <1>6, MailStep DEF Work
<1>8. ASSUME NEW u \in Ids, DeleteUser(u) PROVE [Contract!Next]_(Contract!vars)
  BY <1>8, CloseStep
<1>9. ASSUME NEW u \in Ids, DeactivateUser(u) \/ \E k \in Kinds : Expire(u, k)
      PROVE  [Contract!Next]_(Contract!vars)
  BY <1>9, UnseenStep
<1> QED
  BY <1>1, <1>2, <1>3, <1>4, <1>5, <1>6, <1>8, <1>9 DEF Next

\* Requests, queue and worker implement SecretContract: an address is verified
\* and a password set only by a claim that was good when it was made, letters go
\* where their account lived when they were written, and what is over stays over
\* (auth.service.js, email.queue.js).
THEOREM Implementation == Spec => ImplementsContract
<1>1. Init => Contract!Init
  BY ContractInit
<1>2. RecoveryInv /\ [Next]_vars => [Contract!Next]_(Contract!vars)
  BY ContractNext
<1> QED
  BY <1>1, <1>2, Invariance, PTL DEF Spec, ImplementsContract, Contract!Spec

-----------------------------------------------------------------------------
(* The queue *)

\* What a worker does to the mail it takes up.
LEMMA WorkFacts ==
  ASSUME RecoveryInv, NEW m \in jobs, Run(m)
  PROVE  /\ Waiting(m) /\ m \notin jobs'
         /\ jobs \ {m} \subseteq jobs'
         /\ Sealed(m) \in inbox' \/ Retried(m) \in jobs' \/ Stalled(m) \in jobs'
         /\ \A n \in jobs' : n \in jobs \ {m} \/ n.tok = m.tok
         /\ \A x, y \in jobs' : x \notin jobs /\ y \notin jobs => x = y
<1>1. m \in Mails /\ Waiting(m)
  BY RunFacts
<1>2. ASSUME NEW n, n # m, Letter(n) = Letter(m), Replace(m, n)
      PROVE  /\ m \notin jobs' /\ jobs \ {m} \subseteq jobs' /\ n \in jobs'
             /\ \A x \in jobs' : x \in jobs \ {m} \/ x.tok = m.tok
             /\ \A x, y \in jobs' : x \notin jobs /\ y \notin jobs => x = y
  <2>1. n.tok = m.tok
    BY <1>2 DEF Letter
  <2> QED
    BY <1>2, <2>1 DEF Replace
<1>3. CASE jobs' = jobs \ {m} /\ Sealed(m) \in inbox'
  BY <1>1, <1>3
<1>4. CASE Replace(m, Retried(m))
  BY <1>1, <1>2, <1>4, RunForms
<1>5. CASE Replace(m, Stalled(m))
  BY <1>1, <1>2, <1>5, RunForms
<1> QED
  BY <1>3, <1>4, <1>5, RunFacts

\* Nobody but the worker takes a mail out of the queue.
LEMMA JobsStay ==
  ASSUME RecoveryInv, [Next]_vars, \A m \in jobs : ~Run(m)
  PROVE  \/ jobs' = jobs
         \/ \E p \in Procs : AddJob(p)
<1>1. CASE UNCHANGED vars
  BY <1>1 DEF vars
<1>2. CASE \E p \in Procs : \/ \E u \in Ids : Create(p, u)
                            \/ Store(p) \/ Apply(p) \/ Fail(p)
  BY <1>2 DEF Create, Store, Apply, Fail
<1>3. CASE \E p \in Procs : \/ \E e \in Emails, t \in Secrets : Register(p, e, t)
                            \/ \E u \in Ids, k \in Kinds, t \in Secrets : Ask(p, u, k, t)
                            \/ \E u \in Ids, m \in inbox : Present(p, u, m)
  BY <1>3 DEF Register, Ask, Present
<1>4. CASE \E u \in Ids : DeactivateUser(u) \/ DeleteUser(u) \/ \E k \in Kinds : Expire(u, k)
  BY <1>4 DEF DeactivateUser, DeleteUser, Expire
<1> QED
  BY <1>1, <1>2, <1>3, <1>4 DEF Next, HandlerStep, Work

\* What queueing a mail does to the queue: its secret has had no job so far.
LEMMA AddJobFacts ==
  ASSUME RecoveryInv, NEW p \in Procs, AddJob(p)
  PROVE  /\ jobs' = jobs \cup {Mail(h[p])}
         /\ \A m \in jobs : m.tok # Mail(h[p]).tok
<1>1. Alone(p) /\ h[p].pc = "queue"
  BY DEF RecoveryInv, AddJob
<1> QED
  BY <1>1 DEF Alone, Drawing, Sent, Mail, AddJob

LEMMA OneJobNext == RecoveryInv /\ OneJob /\ [Next]_vars => OneJob'
<1> SUFFICES ASSUME RecoveryInv, OneJob, [Next]_vars PROVE OneJob'
  OBVIOUS
<1>1. ASSUME NEW m \in jobs, Run(m)
      PROVE  OneJob'
  <2> SUFFICES ASSUME NEW x \in jobs', NEW y \in jobs', x.tok = y.tok PROVE x = y
    BY DEF OneJob
  <2>1. /\ \A n \in jobs' : n \in jobs \ {m} \/ n.tok = m.tok
        /\ x \notin jobs /\ y \notin jobs => x = y
        /\ m \notin jobs'
    BY <1>1, WorkFacts
  <2>2. \A n \in jobs : n.tok = m.tok => n = m
    BY DEF OneJob
  <2> QED
    BY <2>1, <2>2 DEF OneJob
<1>2. ASSUME NEW p \in Procs, AddJob(p)
      PROVE  OneJob'
  BY <1>2, AddJobFacts DEF OneJob
<1>3. CASE jobs' = jobs
  BY <1>3 DEF OneJob
<1> QED
  BY <1>1, <1>2, <1>3, JobsStay

\* A mailed secret never has two jobs (email.queue.js, auth.service.js).
THEOREM SecretsAreMailedOnce == Spec => []OneJob
<1>1. Init => OneJob
  BY DEF Init, OneJob
<1> QED
  BY <1>1, OneJobNext, Invariance, PTL DEF Spec

\* A job leaves the queue only with its mail arrived; each run of a worker delivers
\* it, or counts one more error or one more death against it: of JobsSettle, what
\* can be proved without fairness (email.queue.js, config/queue.js).
THEOREM QueueGetsOn == Spec => MailsGetOn
<1> DEFINE GetOn == \A m \in jobs :
                      /\ \/ m \in jobs'
                         \/ Waiting(m) /\ (\/ Sealed(m) \in inbox'
                                           \/ Retried(m) \in jobs' \/ Stalled(m) \in jobs')
                      /\ Work(m.tok) => m \notin jobs'
<1>1. RecoveryInv /\ OneJob /\ [Next]_vars => [GetOn]_vars
  <2> SUFFICES ASSUME RecoveryInv, OneJob, [Next]_vars, NEW m \in jobs
               PROVE  /\ \/ m \in jobs'
                         \/ Waiting(m) /\ (\/ Sealed(m) \in inbox'
                                           \/ Retried(m) \in jobs' \/ Stalled(m) \in jobs')
                      /\ Work(m.tok) => m \notin jobs'
    OBVIOUS
  <2>1. CASE Run(m)
    BY <2>1, WorkFacts
  <2>2. CASE ~Run(m)
    <3>1. m \in jobs'
      <4>1. ASSUME NEW n \in jobs, Run(n)
            PROVE  m \in jobs'
        BY <2>2, <4>1, WorkFacts
      <4> QED
        BY <4>1, JobsStay, AddJobFacts
    <3>2. ~Work(m.tok)
      BY <2>2 DEF Work, OneJob
    <3> QED
      BY <3>1, <3>2
  <2> QED
    BY <2>1, <2>2
<1> QED
  BY <1>1, Invariance, SecretsAreMailedOnce, PTL DEF Spec, MailsGetOn

=============================================================================
