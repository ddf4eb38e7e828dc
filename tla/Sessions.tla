------------------------------ MODULE Sessions ------------------------------
(***************************************************************************)
(* Sessions of the back end: token pairs, the MongoDB documents that stand *)
(* for them, the blocklist, and the handlers that create, check, rotate    *)
(* and end them (modules/auth, cache/token.cache.js,                       *)
(* middlewares/auth.middleware.js, sockets/, jobs/cleanup.job.js).         *)
(*                                                                         *)
(* A handler runs on one of Procs.  Between two awaits it runs alone, so a *)
(* step of the model is one call to MongoDB or Redis together with the     *)
(* code up to the next await; the calls of a Promise.all are in `todo' and *)
(* land in any order.  Time is a tick counter; JWTs count whole seconds.   *)
(***************************************************************************)
EXTENDS Naturals, FiniteSets

CONSTANTS
  Users,        \* accounts
  Jtis,         \* the uuids the server draws; one names a whole token pair
  Procs,        \* requests that can be in flight at once
  Passwords,    \* passwords
  None,         \* "no user", "no token pair", "no password"
  TicksPerSec,  \* clock ticks per second: the resolution JWTs lose
  AccessLife,   \* config.jwt.accessExpiresIn, in seconds
  RefreshLife,  \* config.jwt.refreshExpiresIn, in seconds
  DocLife,      \* the 7 days written into expiresAt, in seconds
  RevokedKeep,  \* the 7 days cleanup keeps a revoked document, in seconds
  MaxTick,      \* bound of the clock
  Ops,          \* the endpoints that clients and administrators use
  Faults        \* what may fail: "redis", "mongo" (in logout), "crash"

AllOps == {"login", "refresh", "request", "logout", "changePassword",
           "resetPassword", "deactivate", "delete", "verify", "socket"}

AllFaults == {"redis", "mongo", "crash"}

ASSUME NoneIsFresh == None \notin Users \cup Jtis \cup Passwords

ASSUME ClockAssumption ==
  /\ TicksPerSec \in Nat \ {0}
  /\ AccessLife \in Nat /\ RefreshLife \in Nat
  /\ DocLife \in Nat /\ RevokedKeep \in Nat
  /\ MaxTick \in Nat \ {0}

ASSUME ScopeAssumption == Ops \subseteq AllOps /\ Faults \subseteq AllFaults

\* The configured lifetime of a refresh JWT is at most the 7 days that the
\* service and the cleanup job have as literals (config/index.js default).
ASSUME LifetimesFit == RefreshLife <= DocLife /\ RefreshLife <= RevokedKeep

VARIABLES
  now,      \* the clock, in ticks; 0 is "never"
  user,     \* users collection
  pair,     \* what each jti's two JWTs say: owner, signing tick, parent pair
  doc,      \* tokens collection: the document of each refresh token
  block,    \* Redis keys jwt:block:<jti>: the tick each expires at, 0 if unset
  h,        \* handlers
  held,     \* pairs that reached a client
  dead,     \* history: pairs a completed updateMany of a logout covered
  refused   \* history: pairs whose access token a logout put on the blocklist

vars == <<now, user, pair, doc, block, h, held, dead, refused>>

-----------------------------------------------------------------------------
(* Clock and tokens *)

Sec(t) == t \div TicksPerSec

Ticks(s) == s * TicksPerSec

Issued(j) == pair[j].sub # None

Iat(j) == Sec(pair[j].at)

AccessExp(j) == Iat(j) + AccessLife

\* jwt.verify of an access token: the signature is right for every pair that
\* was signed, and the second of the clock is before exp.
VerifyAccessToken(j) == Sec(now) < AccessExp(j)

VerifyRefreshToken(j) == Sec(now) < Iat(j) + RefreshLife

Live(j) == doc[j].st = "live"

\* Mutant: the query has lost its userId.
LiveOfAnyone(u) == {j \in Jtis : Live(j)}

LiveOf(u) == {j \in Jtis : pair[j].sub = u /\ Live(j)}

\* Mutant: a token of the second of the change counts as older.
IsPasswordChangedSince(u, iat) ==
  user[u].changedAt # 0 /\ Sec(user[u].changedAt) >= iat

IsPasswordChangedAfter(u, iat) == Sec(user[u].changedAt) > iat

Idle == [pc |-> "idle", op |-> "none", sub |-> None, tok |-> None,
         new |-> None, pw |-> None, at |-> 0, todo |-> {}, scan |-> {},
         cut |-> {}]

Become(p, r) == h' = [h EXCEPT ![p] = r]

\* A request arrives; o is its endpoint, c its first await.
Start(p, o, c, u, j) ==
  Become(p, [Idle EXCEPT !.pc = c, !.op = o, !.sub = u, !.tok = j])

Goto(p, c) == Become(p, [h[p] EXCEPT !.pc = c])

\* One of the awaited calls x has answered.
Done(p, x) == Become(p, [h[p] EXCEPT !.todo = @ \ {x}])

\* What a logout still waits for, and the documents its updateMany has to visit.
Await(p, calls, docs) ==
  Become(p, [h[p] EXCEPT !.todo = calls, !.scan = docs])

\* The handler sends the given calls, which are to end the sessions of its
\* user, and waits for all of them; cut remembers the sessions of this moment.
EndSessions(p, o, calls) ==
  Become(p, [h[p] EXCEPT !.pc = "settle", !.op = o, !.at = now,
                         !.todo = calls, !.cut = LiveOf(h[p].sub)])

Reply(p) == Become(p, Idle)

\* A handler that starts issuing will draw a jti: the model lets it start only
\* while the finite set Jtis has one left for it.
RoomFor(p) ==
  Cardinality({q \in Procs \ {p} : h[q].pc \in {"find", "user", "revokeOld", "sign"}})
    < Cardinality({j \in Jtis : ~Issued(j)})

Init ==
  /\ now = 1
  /\ user \in [Users -> [status : {"active"}, verified : BOOLEAN,
                         password : Passwords, changedAt : {0}]]
  /\ pair = [j \in Jtis |-> [sub |-> None, at |-> 0, parent |-> None]]
  /\ doc = [j \in Jtis |-> [st |-> "unissued", exp |-> 0, upd |-> 0]]
  /\ block = [j \in Jtis |-> 0]
  /\ h = [p \in Procs |-> Idle]
  /\ held = {} /\ dead = {} /\ refused = {}

-----------------------------------------------------------------------------
(* login *)

\* findByEmail, then the checks on what it returned.  Every other answer of
\* the endpoint is an error that changes nothing.
Login(p, u, w) ==
  /\ "login" \in Ops
  /\ h[p].pc = "idle" /\ RoomFor(p)
  /\ user[u].status = "active" /\ user[u].verified
  /\ user[u].password = w
  /\ Start(p, "login", "sign", u, None)
  /\ UNCHANGED <<now, user, pair, doc, block, held, dead, refused>>

-----------------------------------------------------------------------------
(* refresh: verify, find the document, find the user, revoke, issue *)

Refresh(p, j) ==
  /\ "refresh" \in Ops
  /\ h[p].pc = "idle" /\ RoomFor(p)
  /\ j \in held /\ VerifyRefreshToken(j)
  /\ Start(p, "refresh", "find", pair[j].sub, j)
  /\ UNCHANGED <<now, user, pair, doc, block, held, dead, refused>>

\* Mutant: a token without a live document is never answered.
FindRefreshTokenSilent(p) ==
  /\ h[p].pc = "find" /\ Live(h[p].tok)
  /\ Goto(p, "user")
  /\ UNCHANGED <<now, user, pair, doc, block, held, dead, refused>>

\* A document that is missing or revoked makes the handler end the user's
\* session, which deletes Redis keys, and answer 401.
FindRefreshToken(p) ==
  /\ h[p].pc = "find"
  /\ IF Live(h[p].tok) THEN Goto(p, "user") ELSE EndSessions(p, "reuse", {"keys"})
  /\ UNCHANGED <<now, user, pair, doc, block, held, dead, refused>>

\* Mutant: the user is read whatever isActive says.
FindAnyUser(p) ==
  /\ h[p].pc = "user"
  /\ Become(p, [h[p] EXCEPT !.pc = "revokeOld", !.at = now])
  /\ UNCHANGED <<now, user, pair, doc, block, held, dead, refused>>

\* The update that follows for an active user carries the clock of this moment:
\* Mongoose puts updatedAt into an update when it sends it.
FindActiveUser(p) ==
  /\ h[p].pc = "user"
  /\ IF user[h[p].sub].status = "active"
     THEN Become(p, [h[p] EXCEPT !.pc = "revokeOld", !.at = now])
     ELSE Reply(p)
  /\ UNCHANGED <<now, user, pair, doc, block, held, dead, refused>>

\* Mutant: the rotation forgets the old document.
RevokeRefreshTokenSkipped(p) ==
  /\ h[p].pc = "revokeOld"
  /\ Goto(p, "sign")
  /\ UNCHANGED <<now, user, pair, doc, block, held, dead, refused>>

\* findByIdAndUpdate by _id: a document already revoked is revoked again, one
\* that is gone is not noticed.
RevokeRefreshToken(p) ==
  LET j == h[p].tok IN
  /\ h[p].pc = "revokeOld"
  /\ doc' = IF doc[j].st \in {"live", "revoked"}
            THEN [doc EXCEPT ![j].st = "revoked", ![j].upd = h[p].at]
            ELSE doc
  /\ Goto(p, "sign")
  /\ UNCHANGED <<now, user, pair, block, held, dead, refused>>

-----------------------------------------------------------------------------
(* issueTokenPair *)

\* Draw the jti and sign both JWTs: both take their iat in the same call.
Sign(p, j) ==
  /\ h[p].pc = "sign" /\ ~Issued(j)
  /\ pair' = [pair EXCEPT ![j] = [sub |-> h[p].sub, at |-> now,
                                  parent |-> h[p].tok]]
  /\ Become(p, [h[p] EXCEPT !.pc = "store", !.new = j, !.todo = {"doc", "key"}])
  /\ UNCHANGED <<now, user, doc, block, held, dead, refused>>

\* expiresAt and the timestamps of the document are taken at some tick t after
\* the signatures.
SaveRefreshToken(p, t) ==
  LET j == h[p].new IN
  /\ h[p].pc = "store" /\ "doc" \in h[p].todo
  /\ t \in pair[j].at .. now
  /\ doc' = [doc EXCEPT ![j] = [st |-> "live", exp |-> t + Ticks(DocLife),
                                upd |-> t]]
  /\ Done(p, "doc")
  /\ UNCHANGED <<now, user, pair, block, held, dead, refused>>

\* SET rt:<user>:<jti>: a key no handler ever reads (the code's only reader,
\* isRefreshTokenStored, has no caller), so the model keeps only the wait for
\* the answer, error or not.
StoreRefreshToken(p) ==
  /\ h[p].pc = "store" /\ "key" \in h[p].todo
  /\ Done(p, "key")
  /\ UNCHANGED <<now, user, pair, doc, block, held, dead, refused>>

\* The pair reaches the client (login's updateLoginMeta, which nothing reads,
\* is part of this step).
Deliver(p) ==
  /\ h[p].pc = "store" /\ h[p].todo = {}
  /\ held' = held \cup {h[p].new}
  /\ Reply(p)
  /\ UNCHANGED <<now, user, pair, doc, block, dead, refused>>

-----------------------------------------------------------------------------
(* authenticate, the middleware before every protected handler, and          *)
(* socketAuthMiddleware, which guards the handshake of a web socket           *)

\* verifyAccessToken; without a valid token the answer is 401 at once.
Authenticate(p, j, o) ==
  /\ o \in Ops \cap {"request", "logout", "changePassword", "socket"}
  /\ h[p].pc = "idle"
  /\ j \in held /\ VerifyAccessToken(j)
  /\ Start(p, o, "blocklist", pair[j].sub, j)
  /\ UNCHANGED <<now, user, pair, doc, block, held, dead, refused>>

\* cache.get answers null when Redis fails, and null means "not blocked".
IsAccessTokenBlocked(p) ==
  /\ h[p].pc = "blocklist"
  /\ \/ block[h[p].tok] > now /\ Reply(p)
     \/ /\ block[h[p].tok] <= now \/ "redis" \in Faults
        /\ Goto(p, "principal")
  /\ UNCHANGED <<now, user, pair, doc, block, held, dead, refused>>

\* What the middleware asks of the user it reads.
Admits(u, iat) ==
  /\ user[u].status = "active"
  /\ ~IsPasswordChangedAfter(u, iat)
  /\ user[u].verified

\* The middleware reads the user; a request it lets through goes on with its
\* handler.  A logout makes its three calls at once, the ttl of the blocklist
\* key computed from the clock of this moment.
LoadPrincipal(p) ==
  /\ h[p].pc = "principal" /\ h[p].op # "socket"
  /\ IF ~Admits(h[p].sub, Iat(h[p].tok)) THEN Reply(p)
     ELSE \/ h[p].op = "request" /\ Goto(p, "served")
          \/ h[p].op = "changePassword" /\ Goto(p, "read")
          \/ /\ h[p].op = "logout"
             /\ EndSessions(p, "logout", {"docs", "keys", "block"})
  /\ UNCHANGED <<now, user, pair, doc, block, held, dead, refused>>

\* Mutant: the handshake reads the user whatever isActive says.
ConnectAnyone(p) ==
  /\ h[p].pc = "principal" /\ h[p].op = "socket"
  /\ Goto(p, "connected")
  /\ UNCHANGED <<now, user, pair, doc, block, held, dead, refused>>

\* The handshake asks for isActive alone: neither the password's age nor the
\* verified flag counts.  The socket joins the rooms of its user and role and
\* stays there, whatever becomes of the user or the token.
Connect(p) ==
  /\ h[p].pc = "principal" /\ h[p].op = "socket"
  /\ IF user[h[p].sub].status = "active" THEN Goto(p, "connected") ELSE Reply(p)
  /\ UNCHANGED <<now, user, pair, doc, block, held, dead, refused>>

\* The client leaves, or its pings stop.
Disconnect(p) ==
  /\ h[p].pc = "connected"
  /\ Reply(p)
  /\ UNCHANGED <<now, user, pair, doc, block, held, dead, refused>>

-----------------------------------------------------------------------------
(* changePassword and resetPassword *)

\* Mutant: the new password does not reach the update.
ReadPasswordOnly(p, w) ==
  /\ h[p].pc = "read"
  /\ user[h[p].sub].status # "deleted"
  /\ Become(p, [h[p] EXCEPT !.pc = "write", !.at = now])
  /\ UNCHANGED <<now, user, pair, doc, block, held, dead, refused>>

\* Two reads of the user and bcrypt.compare; w is the password asked for.
ReadPassword(p, w) ==
  /\ h[p].pc = "read"
  /\ user[h[p].sub].status # "deleted"
  /\ Become(p, [h[p] EXCEPT !.pc = "write", !.pw = w, !.at = now])
  /\ UNCHANGED <<now, user, pair, doc, block, held, dead, refused>>

\* The current password is wrong, or the user is gone: an error answer.
RefusePassword(p) ==
  /\ h[p].pc = "read"
  /\ Reply(p)
  /\ UNCHANGED <<now, user, pair, doc, block, held, dead, refused>>

\* findOne by the hash of a mailed token: which token is module Recovery's
\* matter, here a client has one for u.
ResetPassword(p, u, w) ==
  /\ "resetPassword" \in Ops
  /\ h[p].pc = "idle"
  /\ user[u].status = "active"
  /\ Become(p, [Idle EXCEPT !.pc = "write", !.op = "resetPassword",
                            !.sub = u, !.pw = w, !.at = now])
  /\ UNCHANGED <<now, user, pair, doc, block, held, dead, refused>>

\* updateById: passwordChangedAt is the clock at some tick t between the last
\* read and the write.  Then revokeAllUserTokens.
WritePassword(p, t) ==
  LET u == h[p].sub IN
  /\ h[p].pc = "write"
  /\ t \in h[p].at .. now
  /\ IF user[u].status = "deleted"
     THEN Reply(p) /\ UNCHANGED user
     ELSE /\ user' = [user EXCEPT ![u].password = h[p].pw, ![u].changedAt = t]
          /\ EndSessions(p, h[p].op, {"keys"})
  /\ UNCHANGED <<now, pair, doc, block, held, dead, refused>>

-----------------------------------------------------------------------------
(* The revocations that logout, the password handlers and reuse wait for *)

\* delPattern of rt:<user>:*: it deletes Redis keys that nothing reads and
\* never rejects.
RevokeAllUserTokens(p) ==
  /\ h[p].pc = "settle" /\ "keys" \in h[p].todo
  /\ Done(p, "keys")
  /\ UNCHANGED <<now, user, pair, doc, block, held, dead, refused>>

\* Mutant: only the session of the request's own token is looked up.
ScanDocsOwnOnly(p) ==
  /\ h[p].pc = "settle" /\ "docs" \in h[p].todo
  /\ Await(p, (h[p].todo \ {"docs"}) \cup {"scan"}, LiveOf(h[p].sub) \cap {h[p].tok})
  /\ UNCHANGED <<now, user, pair, doc, block, held, dead, refused>>

\* updateMany reaches the documents that match when it starts, one at a time;
\* one inserted meanwhile may or may not be met.
ScanDocs(p) ==
  /\ h[p].pc = "settle" /\ "docs" \in h[p].todo
  /\ Await(p, (h[p].todo \ {"docs"}) \cup {"scan"}, LiveOf(h[p].sub))
  /\ UNCHANGED <<now, user, pair, doc, block, held, dead, refused>>

\* Every document that it meets gets the updatedAt of the update, the clock of
\* the moment that it was sent.
RevokeOne(p, j) ==
  /\ h[p].pc = "settle" /\ "scan" \in h[p].todo
  /\ j \in LiveOf(h[p].sub)
  /\ doc' = [doc EXCEPT ![j].st = "revoked", ![j].upd = h[p].at]
  /\ UNCHANGED <<now, user, pair, block, h, held, dead, refused>>

\* Mutant: updateMany is repeated as long as a session is left.
ScanDoneRepeats(p) ==
  /\ h[p].pc = "settle" /\ "scan" \in h[p].todo
  /\ \A j \in h[p].scan : ~Live(j)
  /\ IF LiveOf(h[p].sub) # {}
     THEN Await(p, (h[p].todo \ {"scan"}) \cup {"docs"}, {}) /\ UNCHANGED dead
     ELSE Await(p, h[p].todo \ {"scan"}, {}) /\ dead' = dead \cup h[p].cut
  /\ UNCHANGED <<now, user, pair, doc, block, held, refused>>

ScanDone(p) ==
  /\ h[p].pc = "settle" /\ "scan" \in h[p].todo
  /\ \A j \in h[p].scan : ~Live(j)
  /\ Await(p, h[p].todo \ {"scan"}, {})
  /\ dead' = dead \cup h[p].cut
  /\ UNCHANGED <<now, user, pair, doc, block, held, refused>>

\* allSettled: a rejected updateMany is dropped, whatever it had done.
ScanFails(p) ==
  /\ "mongo" \in Faults
  /\ h[p].pc = "settle" /\ h[p].todo \cap {"docs", "scan"} # {}
  /\ Await(p, h[p].todo \ {"docs", "scan"}, {})
  /\ UNCHANGED <<now, user, pair, doc, block, held, dead, refused>>

\* Mutant: the current second is rounded up.
BlockTtlRoundedUp(p) ==
  LET s == Sec(h[p].at + TicksPerSec - 1) IN
  IF AccessExp(h[p].tok) > s THEN AccessExp(h[p].tok) - s ELSE 0

\* The seconds logout computed before it sent SET ... EX.
BlockTtl(p) ==
  IF AccessExp(h[p].tok) > Sec(h[p].at) THEN AccessExp(h[p].tok) - Sec(h[p].at) ELSE 0

\* Redis refuses a ttl of zero or less, and cache.set swallows the error.
BlockAccessToken(p) ==
  LET j == h[p].tok IN
  /\ h[p].pc = "settle" /\ "block" \in h[p].todo
  /\ \/ /\ block' = IF BlockTtl(p) > 0
                    THEN [block EXCEPT ![j] = now + Ticks(BlockTtl(p))]
                    ELSE block
        /\ refused' = refused \cup {j}
     \/ "redis" \in Faults /\ UNCHANGED <<block, refused>>
  /\ Done(p, "block")
  /\ UNCHANGED <<now, user, pair, doc, held, dead>>

\* Everything awaited has settled, or a plain request has been served.
Respond(p) ==
  /\ h[p].pc \in {"settle", "served"} /\ h[p].todo = {}
  /\ Reply(p)
  /\ UNCHANGED <<now, user, pair, doc, block, held, dead, refused>>

\* An await rejects (the error handler answers 500) or the process dies.
Fail(p) ==
  /\ "crash" \in Faults
  /\ h[p].pc # "idle"
  /\ Reply(p)
  /\ UNCHANGED <<now, user, pair, doc, block, held, dead, refused>>

-----------------------------------------------------------------------------
(* What happens around the handlers *)

Tick ==
  /\ now < MaxTick
  /\ now' = now + 1
  /\ UNCHANGED <<user, pair, doc, block, h, held, dead, refused>>

\* Administrators' endpoints of the user module.
DeactivateUser(u) ==
  /\ "deactivate" \in Ops
  /\ user[u].status = "active"
  /\ user' = [user EXCEPT ![u].status = "inactive"]
  /\ UNCHANGED <<now, pair, doc, block, h, held, dead, refused>>

DeleteUser(u) ==
  /\ "delete" \in Ops
  /\ user[u].status # "deleted"
  /\ user' = [user EXCEPT ![u].status = "deleted"]
  /\ UNCHANGED <<now, pair, doc, block, h, held, dead, refused>>

\* A mailed verification token comes back.
VerifyEmail(u) ==
  /\ "verify" \in Ops
  /\ user[u].status # "deleted" /\ ~user[u].verified
  /\ user' = [user EXCEPT ![u].verified = TRUE]
  /\ UNCHANGED <<now, pair, doc, block, h, held, dead, refused>>

Stored(j) == doc[j].st \in {"live", "revoked"}

Remove(j) == doc' = [doc EXCEPT ![j] = [st |-> "deleted", exp |-> 0, upd |-> 0]]

\* The TTL index on expiresAt: MongoDB's monitor passes now and then.
TtlMonitor(j) ==
  /\ Stored(j) /\ doc[j].exp <= now
  /\ Remove(j)
  /\ UNCHANGED <<now, user, pair, block, h, held, dead, refused>>

\* Mutant: revoked documents go at once.
CleanupExpiredTokensEager(j) ==
  /\ Stored(j)
  /\ doc[j].exp <= now \/ doc[j].st = "revoked"
  /\ Remove(j)
  /\ UNCHANGED <<now, user, pair, block, h, held, dead, refused>>

\* deleteMany of the nightly job, one document at a time.
CleanupExpiredTokens(j) ==
  /\ Stored(j)
  /\ \/ doc[j].exp <= now
     \/ doc[j].st = "revoked" /\ doc[j].upd + Ticks(RevokedKeep) <= now
  /\ Remove(j)
  /\ UNCHANGED <<now, user, pair, block, h, held, dead, refused>>

-----------------------------------------------------------------------------

\* The steps a handler in flight takes by itself.
HandlerStep(p) ==
  \/ FindRefreshToken(p) \/ FindActiveUser(p) \/ RevokeRefreshToken(p)
  \/ \E j \in Jtis : Sign(p, j)
  \/ \E t \in 1 .. now : SaveRefreshToken(p, t)
  \/ StoreRefreshToken(p) \/ Deliver(p)
  \/ IsAccessTokenBlocked(p) \/ LoadPrincipal(p) \/ Connect(p)
  \/ \E w \in Passwords : ReadPassword(p, w)
  \/ RefusePassword(p)
  \/ \E t \in 1 .. now : WritePassword(p, t)
  \/ RevokeAllUserTokens(p)
  \/ ScanDocs(p) \/ (\E j \in Jtis : RevokeOne(p, j)) \/ ScanDone(p)
  \/ ScanFails(p) \/ BlockAccessToken(p) \/ Respond(p)

Request(p) ==
  \/ \E u \in Users, w \in Passwords : Login(p, u, w) \/ ResetPassword(p, u, w)
  \/ \E j \in Jtis : Refresh(p, j)
  \/ \E j \in Jtis, o \in Ops : Authenticate(p, j, o)

Surroundings ==
  \/ Tick
  \/ \E u \in Users : DeactivateUser(u) \/ DeleteUser(u) \/ VerifyEmail(u)
  \/ \E j \in Jtis : TtlMonitor(j) \/ CleanupExpiredTokens(j)

Next ==
  \/ \E p \in Procs : Request(p) \/ HandlerStep(p) \/ Disconnect(p) \/ Fail(p)
  \/ Surroundings

Spec == Init /\ [][Next]_vars

\* Node resumes every handler whose awaited call has answered, and the calls
\* answer or reject.  Nothing obliges clients, administrators or the clock.
FairSpec == Spec /\ \A p \in Procs : WF_vars(HandlerStep(p))

-----------------------------------------------------------------------------
(* Type invariant *)

Pcs == {"idle", "find", "user", "revokeOld", "sign", "store", "blocklist",
        "principal", "served", "connected", "read", "write", "settle"}

OpNames == {"none", "login", "refresh", "reuse", "request", "logout",
            "changePassword", "resetPassword", "socket"}

HandlerType ==
  [pc : Pcs, op : OpNames,
   sub : Users \cup {None}, tok : Jtis \cup {None}, new : Jtis \cup {None},
   pw : Passwords \cup {None}, at : Nat,
   todo : SUBSET {"doc", "key", "keys", "docs", "scan", "block"},
   scan : SUBSET Jtis, cut : SUBSET Jtis]

TypeOK ==
  /\ now \in Nat \ {0}
  /\ user \in [Users -> [status : {"active", "inactive", "deleted"},
                         verified : BOOLEAN, password : Passwords,
                         changedAt : Nat]]
  /\ pair \in [Jtis -> [sub : Users \cup {None}, at : Nat,
                        parent : Jtis \cup {None}]]
  /\ doc \in [Jtis -> [st : {"unissued", "live", "revoked", "deleted"},
                       exp : Nat, upd : Nat]]
  /\ block \in [Jtis -> Nat]
  /\ h \in [Procs -> HandlerType]
  /\ held \in SUBSET Jtis
  /\ dead \in SUBSET Jtis
  /\ refused \in SUBSET Jtis

-----------------------------------------------------------------------------
(* Safety *)

\* A refresh never leaves the token it consumed usable: whenever a pair was
\* issued in exchange for another, the document of the other is not live,
\* whatever logouts, crashes, cleanups and other refreshes came between
\* (refreshTokens: revoke old token, then issue).
ParentRetired ==
  \A j \in Jtis : pair[j].parent # None => ~Live(pair[j].parent)

\* Once the updateMany of a logout has completed, none of the sessions that
\* were live when the logout was admitted is ever usable again, although
\* refreshes of the same tokens may be in flight.
LoggedOutStaysOut == \A j \in dead : ~Live(j)

\* A blocklist key that logout set lasts until the access token has expired:
\* the floor to whole seconds never lets the key expire first.
BlockLasts ==
  \A j \in refused : block[j] > now \/ ~VerifyAccessToken(j)

\* A request that carries an access token on the blocklist gets past the
\* blocklist only when the token has expired since its signature was checked.
RefusedNeverAdmitted ==
  [][\A p \in Procs :
       h[p].pc = "blocklist" /\ h'[p].pc = "principal"
         => h[p].tok \notin refused \/ ~VerifyAccessToken(h[p].tok)]_vars

\* Cleanup and the TTL index end no session early: the document of a refresh
\* token that has not expired goes only if it was revoked, and then only by an
\* update that was sent before the token was signed and that met the document
\* inserted meanwhile (timestamps of Token.model.js, cleanup.job.js).
OnlyDatedDocsGo ==
  [][\A j \in Jtis :
       Stored(j) /\ doc'[j].st = "deleted" /\ VerifyRefreshToken(j)
         => doc[j].st = "revoked" /\ doc[j].upd < pair[j].at]_vars

\* A session ends by revocation only on behalf of its own user: no handler
\* revokes another account's documents.
OwnSessionsOnly ==
  [][\A j \in Jtis :
       Live(j) /\ doc'[j].st = "revoked"
         => \E p \in Procs : h[p].sub = pair[j].sub]_vars

\* A closed account with no handler past its last look at isActive, except for
\* the sockets it already had.
Quiet(u) ==
  /\ user[u].status # "active"
  /\ \A p \in Procs :
       h[p].sub = u =>
         h[p].pc \notin {"revokeOld", "sign", "store", "read", "write"}

\* Once the handlers that had read a deactivated or deleted account as active
\* are through, nothing takes it out of that state, it gets no token pair and
\* no new socket, and its password stays as it is.
ClosedAccountStaysClosed ==
  [][\A u \in Users :
       Quiet(u) =>
         /\ Quiet(u)'
         /\ \A j \in Jtis : pair'[j].sub = u => pair[j].sub = u
         /\ \A p \in Procs :
              h'[p].pc = "connected" /\ h'[p].sub = u => h[p].pc = "connected"
         /\ user'[u].password = user[u].password]_vars

\* The second that passwordChangedAt and iat share: a request is let through
\* only with a token signed less than a second before the last change of the
\* password, or after it; and a pair is never born too old, even one signed in
\* the second of a change whose timestamp an earlier step had taken.
LockoutWithinASecond ==
  [][/\ \A p \in Procs :
          h[p].pc = "principal" /\ h'[p].pc \in {"served", "read", "settle"}
            => pair[h[p].tok].at + TicksPerSec > user[h[p].sub].changedAt
     /\ \A u \in Users, j \in Jtis :
          ~Issued(j) /\ pair'[j].sub = u
            => ~IsPasswordChangedAfter(u, Sec(pair'[j].at))]_vars

\* The part of the state that the proofs carry from step to step: what a
\* handler in flight remembers still agrees with the collections, and a pair
\* that was issued in exchange for another names a session that is over.
Known(j) == doc[j].st # "unissued"

Over(j) == doc[j].st \in {"revoked", "deleted"}

\* Of the record r of a handler: it acts for a user, the pair it was given is
\* that user's and was stored, a pair is signed only once the one it replaces
\* is over, and an updateMany still has every live session of the cut to visit.
HandlerOk(r) ==
  /\ r.pc # "idle" => r.sub \in Users
  /\ r.pc = "write" => r.pw \in Passwords
  /\ r.pc \in {"find", "user", "revokeOld", "blocklist", "principal"}
       => r.tok # None
  /\ r.tok # None => Known(r.tok) /\ pair[r.tok].sub = r.sub
  /\ r.pc \in {"sign", "store"} /\ r.tok # None => Over(r.tok)
  /\ r.pc = "store" => /\ r.new \in Jtis
                       /\ pair[r.new].sub = r.sub /\ pair[r.new].parent = r.tok
                       /\ "doc" \in r.todo <=> ~Known(r.new)
  /\ "doc" \in r.todo => r.pc = "store"
  /\ "block" \in r.todo => r.tok # None
  /\ \A j \in r.cut : Known(j) /\ pair[j].sub = r.sub
  /\ "scan" \in r.todo => \A j \in r.cut : Live(j) => j \in r.scan

\* No two handlers are storing the same pair.
NewApart ==
  \A p, q \in Procs :
    "doc" \in h[p].todo /\ "doc" \in h[q].todo /\ h[p].new = h[q].new => p = q

PairOk(j) ==
  /\ Known(j) => Issued(j)
  /\ j \in held => Known(j)
  /\ j \in dead => Over(j)
  /\ pair[j].parent # None => /\ Over(pair[j].parent)
                              /\ pair[pair[j].parent].sub = pair[j].sub

\* The inductive invariant of SessionsProofs.
SessionInv ==
  /\ TypeOK
  /\ \A p \in Procs : HandlerOk(h[p])
  /\ NewApart
  /\ \A j \in Jtis : PairOk(j)

\* Each session is granted, retired and forgotten as SessionContract says; the
\* session is granted by the insertion of its document.
Contract == INSTANCE SessionContract WITH
  state <- [j \in Jtis |-> doc[j].st],
  owner <- [j \in Jtis |-> IF doc[j].st = "unissued" THEN None ELSE pair[j].sub],
  successorOf <-
    [j \in Jtis |-> IF doc[j].st = "unissued" THEN None ELSE pair[j].parent]

\* The handlers, the jobs and the TTL index together implement the contract.
ImplementsContract == Contract!Spec

-----------------------------------------------------------------------------
(* What is left of a request *)

Calm == {"idle", "connected"}

\* "docs" stands for two steps, the start of the updateMany and its end.
CallsLeft(todo) == Cardinality(todo) + IF "docs" \in todo THEN 1 ELSE 0

\* A bound on the steps that the handler with record r has to go, but for the
\* documents that its updateMany revokes.
StepsLeft(r) ==
  CASE r.pc \in Calm -> 0
    [] r.pc = "served" -> 1
    [] r.pc \in {"settle", "store"} -> 1 + CallsLeft(r.todo)
    [] r.pc = "write" -> 3
    [] r.pc \in {"read", "sign"} -> 4
    [] r.pc = "revokeOld" -> 5
    [] r.pc \in {"principal", "user"} -> 6
    [] r.pc \in {"blocklist", "find"} -> 7

\* The sessions that may still be revoked.
Revocable == {j \in Jtis : ~Over(j)}

Left(p) == StepsLeft(h[p]) + Cardinality(Revocable)

\* Each step of a request brings it nearer to its answer, and nothing that
\* others do takes it further away: whatever branches it takes and calls it
\* waits for, and however many sessions are opened while a logout ends them, a
\* request ends after a number of its own steps that is known when it starts.
HandlersGetOn ==
  [][\A p \in Procs :
       /\ HandlerStep(p) => Left(p)' < Left(p)
       /\ h'[p] = h[p] => Left(p)' <= Left(p)]_vars

-----------------------------------------------------------------------------
(* Liveness *)

\* Every request is answered, and every handshake ends in a connection or a
\* refusal.
HandlersFinish ==
  \A p \in Procs :
    (h[p].pc # "idle") ~> (h[p].pc \in {"idle", "connected"})

\* A logout that was admitted ends every session its user had, whatever else
\* is in flight.
LogoutTakesEffect ==
  \A p \in Procs, j \in Jtis :
    (h[p].pc = "settle" /\ h[p].op = "logout" /\ j \in h[p].cut) ~> ~Live(j)

-----------------------------------------------------------------------------
(* What comments and API descriptions say and the code does not do *)

Settled(p, o) == h[p].pc = "settle" /\ h[p].op = o /\ h[p].todo = {}

CutIsOver(p) == \A j \in h[p].cut : ~Live(j)

\* "Rotate: revoke old token, issue new pair" (refreshTokens): one token is
\* exchanged for at most one new pair.
OneSuccessor ==
  \A i, j \in Jtis :
    pair[i].parent = pair[j].parent /\ pair[i].parent # None => i = j

\* "Invalidate all existing sessions" (resetPassword): when the handler is
\* about to answer, the sessions of the time of the write are over.
ResetEndsSessions == \A p \in Procs : Settled(p, "resetPassword") => CutIsOver(p)

=============================================================================
