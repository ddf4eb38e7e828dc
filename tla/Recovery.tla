------------------------------- MODULE Recovery -------------------------------
(***************************************************************************)
(* Registration and the mailed secrets: verification tokens, reset tokens  *)
(* and one-time passwords (modules/auth/auth.service.js), and the mail     *)
(* queue that carries them (queues/email.queue.js).                        *)
(*                                                                         *)
(* A request's first read of MongoDB is the step that starts it; each      *)
(* later call is a step of its own.  Hashes and random draws are not       *)
(* visible to anyone before the call that uses them.  How long a secret    *)
(* stays valid matters to nothing here: it may expire at any time.         *)
(***************************************************************************)
EXTENDS Naturals, FiniteSets

CONSTANTS
  Ids,       \* _ids of the users collection
  Emails,    \* addresses
  OldUsers,  \* whose account each document is when the server starts
  Secrets,   \* tokens and OTPs the server draws; bounds the run
  Procs,     \* requests that can be in flight at once
  None,      \* "no address", "no secret", "no account"
  Attempts,  \* queueConfig.defaultJobOptions.attempts
  MaxStalled,  \* maxStalledCount of the worker, which email.queue.js leaves at 1
  Faults     \* what may fail: "smtp", and "crash" for handlers and workers

Kinds == {"verify", "reset", "otp"}

ASSUME NoneIsFresh == None \notin Ids \cup Emails \cup Secrets

ASSUME OldUsersAssumption ==
  /\ OldUsers \subseteq [Ids -> Emails \cup {None}]
  /\ \A old \in OldUsers : \A u, v \in Ids : old[u] = old[v] /\ old[u] # None => u = v

ASSUME AttemptsAssumption == Attempts \in Nat \ {0} /\ MaxStalled \in Nat

ASSUME FaultsAssumption == Faults \subseteq {"smtp", "crash"}

VARIABLES
  user,   \* users collection; email None where there is no document
  jobs,   \* mail queue
  inbox,  \* mails that arrived
  h,      \* requests
  drawn,  \* history: secrets drawn so far
  gone    \* history: secrets that were stored and have been replaced or cleared

vars == <<user, jobs, inbox, h, drawn, gone>>

-----------------------------------------------------------------------------

NoUser == [email |-> None, drawn |-> FALSE, verified |-> FALSE, active |-> FALSE, pwBy |-> None,
           tok |-> [k \in Kinds |-> None], valid |-> [k \in Kinds |-> FALSE]]

Idle == [pc |-> "idle", kind |-> "none", id |-> None, email |-> None, tok |-> None]

There(u) == user[u].email # None

\* An _id is never given to a second document.
Unused(u) == ~user[u].drawn

Become(p, r) == h' = [h EXCEPT ![p] = r]

\* Accounts from before the start of the server, with no secret outstanding.
OldUser(e) ==
  [NoUser EXCEPT !.email = e, !.drawn = TRUE, !.verified = TRUE, !.active = TRUE]

Init ==
  /\ \E old \in OldUsers :
       user = [u \in Ids |-> IF old[u] = None THEN NoUser ELSE OldUser(old[u])]
  /\ jobs = {} /\ inbox = {}
  /\ h = [p \in Procs |-> Idle]
  /\ drawn = {} /\ gone = {}

-----------------------------------------------------------------------------
(* register *)

\* findByEmail finds nobody; a verification token is drawn.
Register(p, e, t) ==
  /\ h[p].pc = "idle" /\ t \notin drawn
  /\ \A u \in Ids : user[u].email # e
  /\ Become(p, [Idle EXCEPT !.pc = "create", !.kind = "verify", !.email = e, !.tok = t])
  /\ drawn' = drawn \cup {t}
  /\ UNCHANGED <<user, jobs, inbox, gone>>

NewUser(e, t) ==
  [NoUser EXCEPT !.email = e, !.drawn = TRUE, !.active = TRUE,
                 !.tok = [k \in Kinds |-> IF k = "verify" THEN t ELSE None],
                 !.valid = [k \in Kinds |-> k = "verify"]]

\* Mutant: no unique index on email.
CreateUnindexed(p, u) ==
  /\ h[p].pc = "create" /\ Unused(u)
  /\ user' = [user EXCEPT ![u] = NewUser(h[p].email, h[p].tok)]
  /\ Become(p, [h[p] EXCEPT !.pc = "queue", !.id = u])
  /\ UNCHANGED <<jobs, inbox, drawn, gone>>

\* The index on email refuses a second document for an address: 409.
Create(p, u) ==
  /\ h[p].pc = "create" /\ Unused(u)
  /\ IF \A v \in Ids : user[v].email # h[p].email
     THEN /\ user' = [user EXCEPT ![u] = NewUser(h[p].email, h[p].tok)]
          /\ Become(p, [h[p] EXCEPT !.pc = "queue", !.id = u])
     ELSE Become(p, Idle) /\ UNCHANGED user
  /\ UNCHANGED <<jobs, inbox, drawn, gone>>

-----------------------------------------------------------------------------
(* resend-verification, forgot-password, send-otp: draw, store, mail *)

\* The filter of the handler that sends a secret of kind k.
MayAsk(u, k) ==
  /\ There(u)
  /\ k = "verify" => ~user[u].verified
  /\ k = "otp" => user[u].active

Ask(p, u, k, t) ==
  /\ h[p].pc = "idle" /\ t \notin drawn
  /\ MayAsk(u, k)
  /\ Become(p, [pc |-> "store", kind |-> k, id |-> u, email |-> user[u].email, tok |-> t])
  /\ drawn' = drawn \cup {t}
  /\ UNCHANGED <<user, jobs, inbox, gone>>

\* Document d with secret t of kind k, None to clear it.
WithSecret(d, k, t) ==
  [d EXCEPT !.tok = [@ EXCEPT ![k] = t], !.valid = [@ EXCEPT ![k] = t # None]]

\* The secret that account u now has of kind k, if any, is over.
Supersede(u, k) == gone' = gone \cup ({user[u].tok[k]} \ {None})

\* updateById: an account deleted meanwhile is a 404.
Store(p) ==
  LET u == h[p].id  k == h[p].kind IN
  /\ h[p].pc = "store"
  /\ IF There(u)
     THEN /\ user' = [user EXCEPT ![u] = WithSecret(@, k, h[p].tok)]
          /\ Supersede(u, k)
          /\ Become(p, [h[p] EXCEPT !.pc = "queue"])
     ELSE Become(p, Idle) /\ UNCHANGED <<user, gone>>
  /\ UNCHANGED <<jobs, inbox, drawn>>

Mail(r) ==
  [kind |-> r.kind, to |-> r.email, tok |-> r.tok, tries |-> 0, stalls |-> 0]

\* Mutant: the job is added beside the update instead of after it.
AddJobEarly(p) ==
  /\ h[p].pc \in {"store", "queue"}
  /\ jobs' = jobs \cup {Mail(h[p])}
  /\ Become(p, IF h[p].pc = "queue" THEN Idle ELSE h[p])
  /\ UNCHANGED <<user, inbox, drawn, gone>>

AddJob(p) ==
  /\ h[p].pc = "queue"
  /\ jobs' = jobs \cup {Mail(h[p])}
  /\ Become(p, Idle)
  /\ UNCHANGED <<user, inbox, drawn, gone>>

-----------------------------------------------------------------------------
(* verify-email and reset-password: look the token up, then update by _id *)

\* Mutant: the lookup takes any account that waits for a token.
WaitsForAny(u, k, t) ==
  There(u) /\ user[u].tok[k] # None /\ user[u].valid[k]

Waits(u, k, t) ==
  There(u) /\ user[u].tok[k] = t /\ user[u].valid[k]

\* verifyOTP refuses every one-time password: findOne leaves otpCode out of what
\* it reads.
Redeemable == {"verify", "reset"}

\* Somebody presents a mailed token.
Present(p, u, m) ==
  /\ h[p].pc = "idle"
  /\ m \in inbox /\ m.kind \in Redeemable
  /\ Waits(u, m.kind, m.tok)
  /\ m.kind = "reset" => user[u].active
  /\ Become(p, [pc |-> "apply", kind |-> m.kind, id |-> u, email |-> user[u].email,
                tok |-> m.tok])
  /\ UNCHANGED <<user, jobs, inbox, drawn, gone>>

\* Mutant: a reset proves the address, too.
RedeemedVerifying(d, k, t) ==
  [WithSecret(d, k, None) EXCEPT !.verified = TRUE,
                                 !.pwBy = IF k = "reset" THEN t ELSE @]

\* Document d after secret t of kind k was used.  A password is named by the
\* token that set it.
Redeemed(d, k, t) ==
  [WithSecret(d, k, None) EXCEPT !.verified = @ \/ k = "verify",
                                 !.pwBy = IF k = "reset" THEN t ELSE @]

\* Mutant: the token is not cleared.
ApplyKeeping(p) ==
  LET u == h[p].id  k == h[p].kind IN
  /\ h[p].pc = "apply" /\ There(u)
  /\ user' = [user EXCEPT ![u].verified = IF k = "verify" THEN TRUE ELSE @,
                          ![u].pwBy = IF k = "reset" THEN h[p].tok ELSE @]
  /\ Supersede(u, k)
  /\ Become(p, Idle)
  /\ UNCHANGED <<jobs, inbox, drawn>>

\* The update clears whatever secret is stored by now.
Apply(p) ==
  LET u == h[p].id  k == h[p].kind IN
  /\ h[p].pc = "apply"
  /\ IF There(u)
     THEN /\ user' = [user EXCEPT ![u] = Redeemed(@, k, h[p].tok)]
          /\ Supersede(u, k)
     ELSE UNCHANGED <<user, gone>>
  /\ Become(p, Idle)
  /\ UNCHANGED <<jobs, inbox, drawn>>

-----------------------------------------------------------------------------
(* The queue's worker, and what happens around *)

Waiting(m) == m.tries < Attempts

\* A job that failed for good has no attempt left; it only stays to be looked at.
Failed(m) == [m EXCEPT !.tries = Attempts, !.stalls = 0]

\* The mail of job m as its reader sees it.
Sealed(m) == [m EXCEPT !.tries = 0, !.stalls = 0]

Retried(m) ==
  IF m.tries + 1 < Attempts THEN [m EXCEPT !.tries = @ + 1] ELSE Failed(m)

\* BullMQ fails a job that stalls once too often, whatever attempts it has left.
Stalled(m) == IF m.stalls < MaxStalled THEN [m EXCEPT !.stalls = @ + 1] ELSE Failed(m)

Replace(m, n) == jobs' = (jobs \ {m}) \cup {n}

Deliver(m) ==
  /\ Waiting(m)
  /\ inbox' = inbox \cup {Sealed(m)}
  /\ jobs' = jobs \ {m}
  /\ UNCHANGED <<user, h, drawn, gone>>

\* Mutant: a job whose attempt fails is dropped.
SendFailsOnce(m) ==
  /\ "smtp" \in Faults /\ Waiting(m)
  /\ jobs' = jobs \ {m}
  /\ UNCHANGED <<user, inbox, h, drawn, gone>>

\* Mutant: the limit on attempts is not looked at.
SendFailsForever(m) ==
  /\ "smtp" \in Faults
  /\ Replace(m, [m EXCEPT !.tries = @ + 1])
  /\ UNCHANGED <<user, inbox, h, drawn, gone>>

\* sendMail rejects: the job is tried again, Attempts times in all.
SendFails(m) ==
  /\ "smtp" \in Faults /\ Waiting(m)
  /\ Replace(m, Retried(m))
  /\ UNCHANGED <<user, inbox, h, drawn, gone>>

\* The worker dies, before the mail went out or after: the stalled job will run
\* again, MaxStalled times at most.
WorkerDies(m) ==
  /\ "crash" \in Faults /\ Waiting(m)
  /\ inbox' = inbox \/ inbox' = inbox \cup {Sealed(m)}
  /\ Replace(m, Stalled(m))
  /\ UNCHANGED <<user, h, drawn, gone>>

\* A call rejects (the answer is 500) or the process dies: what was stored by
\* then stays stored, with no mail.
Fail(p) ==
  /\ "crash" \in Faults
  /\ h[p].pc # "idle"
  /\ Become(p, Idle)
  /\ UNCHANGED <<user, jobs, inbox, drawn, gone>>

\* The time of a stored secret is over.  That of a one-time password is never
\* looked at.
Expire(u, k) ==
  /\ k \in Redeemable
  /\ user[u].valid[k]
  /\ user' = [user EXCEPT ![u].valid = [@ EXCEPT ![k] = FALSE]]
  /\ UNCHANGED <<jobs, inbox, h, drawn, gone>>

DeactivateUser(u) ==
  /\ There(u) /\ user[u].active
  /\ user' = [user EXCEPT ![u].active = FALSE]
  /\ UNCHANGED <<jobs, inbox, h, drawn, gone>>

DeleteUser(u) ==
  /\ There(u)
  /\ user' = [user EXCEPT ![u] = [NoUser EXCEPT !.drawn = TRUE]]
  /\ gone' = gone \cup ({user[u].tok[k] : k \in Kinds} \ {None})
  /\ UNCHANGED <<jobs, inbox, h, drawn>>

HandlerStep(p) ==
  \/ \E u \in Ids : Create(p, u)
  \/ Store(p) \/ AddJob(p) \/ Apply(p)

\* A worker runs the job that carries t, and the run ends somehow.
Run(m) == Deliver(m) \/ SendFails(m) \/ WorkerDies(m)

Work(t) == \E m \in jobs : m.tok = t /\ Run(m)

Next ==
  \/ \E p \in Procs :
       \/ \E e \in Emails, t \in Secrets : Register(p, e, t)
       \/ \E u \in Ids, k \in Kinds, t \in Secrets : Ask(p, u, k, t)
       \/ \E u \in Ids, m \in inbox : Present(p, u, m)
       \/ HandlerStep(p)
       \/ Fail(p)
  \/ \E t \in Secrets : Work(t)
  \/ \E u \in Ids : DeactivateUser(u) \/ DeleteUser(u) \/ \E k \in Kinds : Expire(u, k)

Spec == Init /\ [][Next]_vars

\* BullMQ hands every waiting job to a worker, whose run ends in a delivery, in
\* an error or in its death.
FairSpec == Spec /\ \A t \in Secrets : WF_vars(Work(t))

-----------------------------------------------------------------------------
(* Properties *)

Mails == [kind : Kinds, to : Emails, tok : Secrets,
          tries : 0 .. Attempts, stalls : 0 .. MaxStalled]

TypeOK ==
  /\ user \in [Ids -> [email : Emails \cup {None}, drawn : BOOLEAN,
                       verified : BOOLEAN, active : BOOLEAN, pwBy : Secrets \cup {None},
                       tok : [Kinds -> Secrets \cup {None}],
                       valid : [Kinds -> BOOLEAN]]]
  /\ jobs \in SUBSET Mails
  /\ inbox \in SUBSET Mails
  /\ h \in [Procs ->
       [pc : {"idle", "create", "store", "queue", "apply"},
        kind : Kinds \cup {"none"}, id : Ids \cup {None},
        email : Emails \cup {None}, tok : Secrets \cup {None}]]
  /\ drawn \in SUBSET Secrets
  /\ gone \in SUBSET Secrets

\* Two registrations that both found the address free do not both succeed.
OneAccountPerEmail ==
  \A u, v \in Ids : There(u) /\ user[u].email = user[v].email => u = v

Stored(t) == \E u \in Ids, k \in Kinds : user[u].tok[k] = t

\* A mail never runs ahead of the document: whatever the queue, its retries and
\* repetitions do, the secret in a mail is stored, or was and has been replaced,
\* cleared or deleted with its account since.
MailedSecretsKnown == \A m \in jobs \cup inbox : Stored(m.tok) \/ m.tok \in gone

\* A secret that was used, replaced or cleared is not accepted again, however
\* often it was mailed and whatever requests are in flight.
SpentSecretsDie == \A t \in gone : ~Stored(t)

\* A password that came from a reset was set by the holder of the account's own
\* address: the token that set it was mailed there, and to no other address.
ResetByOwnMail ==
  \A u \in Ids : user[u].pwBy # None =>
    /\ \E m \in inbox : m.tok = user[u].pwBy
    /\ \A m \in inbox : m.tok = user[u].pwBy => m.to = user[u].email /\ m.kind = "reset"

\* What SecretContract speaks of: accounts without their secrets, mails without
\* the count of their attempts, the mails that are queued, arrived or about to be
\* queued, and the secrets that a lookup has found good.
Shown(d) == [email |-> d.email, verified |-> d.verified, password |-> d.pwBy]

Account == [u \in Ids |-> Shown(user[u])]

Closed == {u \in Ids : user[u].drawn /\ ~There(u)}

Slot == [u \in Ids |-> user[u].tok]

Letter(m) == [kind |-> m.kind, to |-> m.to, tok |-> m.tok]

At(c) == {p \in Procs : h[p].pc = c}

Post == {Letter(m) : m \in jobs \cup inbox \cup {Mail(h[p]) : p \in At("queue")}}

Arrived == {Letter(m) : m \in inbox}

ClaimOf(r) == [id |-> r.id, kind |-> r.kind, tok |-> r.tok]

Claims == {ClaimOf(h[p]) : p \in At("apply")}

Contract == INSTANCE SecretContract WITH
  account <- Account, closed <- Closed, slot <- Slot, over <- gone,
  post <- Post, letters <- Arrived, claims <- Claims

\* Requests, queue and worker together implement the contract: whatever is in
\* flight, repeated, lost or late, a letter goes to the address its account had
\* when the secret was issued, an address is verified and a password set only
\* by a claim made while the secret was outstanding, and no secret comes back.
ImplementsContract == Contract!Spec

\* A secret has one job at most: it is drawn once, and a retry replaces its job.
OneJob == \A m, n \in jobs : m.tok = n.tok => m = n

\* A job leaves the queue only when its mail has arrived; else it stays, as it was
\* or with one more failed attempt or one more death of its worker counted against
\* it, and a run does not leave it as it was.  So a mail is given up, unsent, after
\* Attempts errors or MaxStalled + 1 deaths, and not before.
MailsGetOn ==
  [][\A m \in jobs :
       /\ \/ m \in jobs'
          \/ Waiting(m) /\ (\/ Sealed(m) \in inbox'
                            \/ Retried(m) \in jobs' \/ Stalled(m) \in jobs')
       /\ Work(m.tok) => m \notin jobs']_vars

\* A queued mail arrives, or is given up: its job was tried the configured number
\* of times, or its workers died once more than BullMQ puts up with.
JobsSettle ==
  \A t \in Secrets :
    (\E m \in jobs : m.tok = t)
      ~> \/ \E m \in inbox : m.tok = t
         \/ \E m \in jobs : m.tok = t /\ ~Waiting(m)

=============================================================================
