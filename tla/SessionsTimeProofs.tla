------------------------- MODULE SessionsTimeProofs -------------------------
(***************************************************************************)
(* The properties of Sessions that depend on the clock: how long documents *)
(* and blocklist keys last, and what the whole seconds of JWTs and of      *)
(* passwordChangedAt let through.  TicksPerSec and the lifetimes are any   *)
(* numbers that satisfy ClockAssumption and LifetimesFit.                  *)
(***************************************************************************)
EXTENDS SessionsProofs

-----------------------------------------------------------------------------
(* Seconds and ticks *)

LEMMA SecFloor ==
  ASSUME NEW a \in Nat
  PROVE  /\ Sec(a) \in Nat
         /\ Ticks(Sec(a)) <= a
         /\ a < Ticks(Sec(a)) + TicksPerSec
  BY ClockAssumption DEF Sec, Ticks

LEMMA TicksOrder ==
  ASSUME NEW a \in Nat, NEW b \in Nat
  PROVE  /\ Ticks(a) \in Nat
         /\ Ticks(a + b) = Ticks(a) + Ticks(b)
         /\ a <= b <=> Ticks(a) <= Ticks(b)
         /\ a < b => Ticks(a) + TicksPerSec <= Ticks(b)
  BY ClockAssumption DEF Ticks

LEMMA SecReached ==
  ASSUME NEW b \in Nat, NEW s \in Nat, Ticks(s) <= b
  PROVE  s <= Sec(b)
<1>1. Sec(b) \in Nat /\ b < Ticks(Sec(b)) + TicksPerSec
  BY SecFloor
<1>2. Sec(b) < s => Ticks(Sec(b)) + TicksPerSec <= Ticks(s)
  BY <1>1, TicksOrder
<1>3. Ticks(s) \in Nat /\ Ticks(Sec(b)) \in Nat /\ TicksPerSec \in Nat
  BY <1>1, TicksOrder, ClockAssumption
<1> QED
  BY <1>1, <1>2, <1>3

LEMMA SecMonotone ==
  ASSUME NEW a \in Nat, NEW b \in Nat, a <= b
  PROVE  Sec(a) <= Sec(b)
<1>1. Sec(a) \in Nat /\ Ticks(Sec(a)) \in Nat /\ Ticks(Sec(a)) <= a
  BY SecFloor, TicksOrder
<1> QED
  BY <1>1, SecReached

-----------------------------------------------------------------------------
(* The inductive invariant: no clock value lies ahead, a document that is    *)
(* stored expires no earlier than its pair's signing allows, and a pair      *)
(* whose access token was refused is on the blocklist until that expires.    *)

PastOk ==
  /\ \A u \in Users : user[u].changedAt <= now
  /\ \A p \in Procs : h[p].at <= now
  /\ \A j \in Jtis : pair[j].at <= now

Dated(j) == Stored(j) => pair[j].at + Ticks(DocLife) <= doc[j].exp

Blocked(j) ==
  Known(j) /\ (Ticks(AccessExp(j)) <= block[j] \/ ~VerifyAccessToken(j))

TimeInv ==
  /\ PastOk
  /\ \A j \in Jtis : Dated(j)
  /\ \A j \in refused : Blocked(j)

\* Only the clock's own step moves the clock.
LEMMA ClockSteps ==
  ASSUME SessionInv, [Next]_vars
  PROVE  /\ now \in Nat /\ now' \in Nat /\ now <= now'
         /\ UNCHANGED now \/ UNCHANGED <<user, pair, doc, block, h, held, refused>>
<1>1. now \in Nat
  BY DEF SessionInv, TypeOK
<1>2. ASSUME NEW p \in Procs, Request(p) \/ Fail(p) \/ Disconnect(p)
      PROVE  UNCHANGED now
  BY <1>2 DEF Request, Login, ResetPassword, Refresh, Authenticate, Fail, Disconnect
<1>3. ASSUME NEW p \in Procs, HandlerStep(p) PROVE UNCHANGED now
  BY <1>3 DEF HandlerStep, FindRefreshToken, FindActiveUser, RevokeRefreshToken,
     Sign, SaveRefreshToken, StoreRefreshToken, Deliver, IsAccessTokenBlocked,
     LoadPrincipal, Connect, ReadPassword, RefusePassword, WritePassword,
     RevokeAllUserTokens, ScanDocs, RevokeOne, ScanDone, ScanFails,
     BlockAccessToken, Respond
<1>4. CASE Surroundings
  BY <1>1, <1>4 DEF Surroundings, Tick, DeactivateUser, DeleteUser, VerifyEmail,
     TtlMonitor, CleanupExpiredTokens
<1> QED
  BY <1>1, <1>2, <1>3, <1>4 DEF Next, vars

LEMMA BlockSteps ==
  ASSUME [Next]_vars
  PROVE  UNCHANGED <<block, refused>> \/ \E p \in Procs : BlockAccessToken(p)
<1>1. CASE UNCHANGED vars
  BY <1>1 DEF vars
<1>2. ASSUME NEW p \in Procs, Request(p) \/ Fail(p) \/ Disconnect(p)
      PROVE  UNCHANGED <<block, refused>>
  BY <1>2 DEF Request, Login, ResetPassword, Refresh, Authenticate, Fail, Disconnect
<1>3. ASSUME NEW p \in Procs, HandlerStep(p)
      PROVE  UNCHANGED <<block, refused>> \/ BlockAccessToken(p)
  BY <1>3 DEF HandlerStep, FindRefreshToken, FindActiveUser, RevokeRefreshToken,
     Sign, SaveRefreshToken, StoreRefreshToken, Deliver, IsAccessTokenBlocked,
     LoadPrincipal, Connect, ReadPassword, RefusePassword, WritePassword,
     RevokeAllUserTokens, ScanDocs, RevokeOne, ScanDone, ScanFails, Respond
<1>4. CASE Surroundings
  BY <1>4 DEF Surroundings, Tick, DeactivateUser, DeleteUser, VerifyEmail,
     TtlMonitor, CleanupExpiredTokens
<1> QED
  BY <1>1, <1>2, <1>3, <1>4 DEF Next

LEMMA PastNext ==
  ASSUME SessionInv, PastOk, [Next]_vars
  PROVE  PastOk'
<1>1. now \in Nat /\ now' \in Nat /\ now <= now'
  BY ClockSteps
<1>2. ASSUME NEW u \in Users PROVE user'[u].changedAt <= now'
  <2>1. user \in [Users -> UserType] /\ user[u].changedAt <= now /\ user[u].changedAt \in Nat
    BY DEF SessionInv, TypeOK, UserType, PastOk
  <2>2. CASE UNCHANGED user
    BY <1>1, <2>1, <2>2
  <2>3. ASSUME NEW p \in Procs, NEW t \in 1 .. now, WritePassword(p, t)
        PROVE  user'[u].changedAt <= now'
    <3>1. user'[u].changedAt \in {user[u].changedAt, t}
      BY <2>1, <2>3 DEF WritePassword, UserType
    <3> QED
      BY <1>1, <2>1, <3>1
  <2>4. ASSUME NEW v \in Users, DeactivateUser(v) \/ DeleteUser(v) \/ VerifyEmail(v)
        PROVE  user'[u].changedAt = user[u].changedAt
    BY <2>1, <2>4 DEF DeactivateUser, DeleteUser, VerifyEmail, UserType
  <2> QED
    BY <1>1, <2>1, <2>2, <2>3, <2>4, UserSteps
<1>3. ASSUME NEW q \in Procs PROVE h'[q].at <= now'
  <2>1. h[q].at \in Nat /\ h[q].at <= now
    BY DEF SessionInv, TypeOK, HandlerType, PastOk
  <2>2. h'[q] = h[q] \/ Entered(q)
    BY HandlerSteps DEF Others
  <2> QED
    BY <1>1, <2>1, <2>2 DEF Entered
<1>4. ASSUME NEW j \in Jtis PROVE pair'[j].at <= now'
  <2>1. pair[j].at \in Nat /\ pair[j].at <= now
    BY DEF SessionInv, TypeOK, PastOk
  <2>2. ASSUME NEW p \in Procs, NEW i \in Jtis, Sign(p, i)
        PROVE  pair'[j].at \in {pair[j].at, now}
    BY <2>2 DEF Sign, SessionInv, TypeOK
  <2> QED
    BY <1>1, <2>1, <2>2, PairSteps
<1> QED
  BY <1>2, <1>3, <1>4 DEF PastOk

\* A pair signed s or more seconds ago, s no less than a refresh JWT's life.
LEMMA Expired ==
  ASSUME SessionInv, NEW j \in Jtis, NEW s \in Nat, RefreshLife <= s,
         pair[j].at + Ticks(s) <= now
  PROVE  ~VerifyRefreshToken(j)
<1>1. now \in Nat /\ pair[j].at \in Nat /\ RefreshLife \in Nat
  BY ClockAssumption DEF SessionInv, TypeOK
<1>2. /\ Iat(j) \in Nat /\ Ticks(Iat(j)) <= pair[j].at /\ Ticks(Iat(j)) \in Nat
      /\ Ticks(s) \in Nat /\ Ticks(Iat(j) + s) = Ticks(Iat(j)) + Ticks(s)
  BY <1>1, SecFloor, TicksOrder DEF Iat
<1>3. Iat(j) + s <= Sec(now) /\ Sec(now) \in Nat
  BY <1>1, <1>2, SecReached, SecFloor
<1> QED
  BY <1>1, <1>2, <1>3 DEF VerifyRefreshToken

\* A token that has expired stays so.
LEMMA StaysExpired ==
  ASSUME SessionInv, [Next]_vars, NEW j \in Jtis, Known(j)
  PROVE  /\ ~VerifyRefreshToken(j) => ~VerifyRefreshToken(j)'
         /\ ~VerifyAccessToken(j) => ~VerifyAccessToken(j)'
         /\ Iat(j)' = Iat(j)
<1>1. now \in Nat /\ now' \in Nat /\ now <= now'
  BY ClockSteps
<1>2. Sec(now) <= Sec(now') /\ Sec(now) \in Nat /\ Sec(now') \in Nat
  BY <1>1, SecMonotone, SecFloor
<1>3. pair'[j] = pair[j]
  BY SignedUnknown
<1>4. pair[j].at \in Nat
  BY DEF SessionInv, TypeOK
<1>5. Iat(j)' = Iat(j) /\ Iat(j) \in Nat
  BY <1>3, <1>4, SecFloor DEF Iat
<1>6. Sec(now)' = Sec(now')
  BY DEF Sec
<1> HIDE DEF Sec
<1> QED
  BY <1>2, <1>5, <1>6, ClockAssumption
  DEF VerifyRefreshToken, VerifyAccessToken, AccessExp

LEMMA DatedNext ==
  ASSUME SessionInv, SessionInv', TimeInv, [Next]_vars, NEW j \in Jtis
  PROVE  Dated(j)'
<1>1. /\ doc \in DocTypes /\ doc' \in DocTypes /\ Dated(j)
      /\ pair[j].at \in Nat /\ now \in Nat /\ Ticks(DocLife) \in Nat
  BY TicksOrder, ClockAssumption DEF SessionInv, TypeOK, DocTypes, TimeInv
<1>2. Known(j) => pair'[j] = pair[j]
  BY SignedUnknown
<1>3. ASSUME doc'[j].exp = doc[j].exp, Stored(j)' => Stored(j) PROVE Dated(j)'
  BY <1>1, <1>2, <1>3 DEF Dated, Stored, Known
<1>4. ASSUME NEW i \in Jtis, NEW t \in Nat, doc[i].st \in {"live", "revoked"},
             doc' = [doc EXCEPT ![i].st = "revoked", ![i].upd = t]
      PROVE  Dated(j)'
  <2>1. doc'[j].exp = doc[j].exp /\ (Stored(j)' => Stored(j))
    BY <1>1, <1>4 DEF DocTypes, Stored
  <2> QED
    BY <1>3, <2>1
<1>5. ASSUME NEW p \in Procs, RevokeRefreshToken(p) PROVE Dated(j)'
  <2>1. h[p].tok \in Jtis /\ h[p].at \in Nat
    BY <1>5, SessionInvFacts DEF RevokeRefreshToken, HandlerOk, HandlerType
  <2> QED
    BY <1>3, <1>4, <1>5, <2>1 DEF RevokeRefreshToken, Stored
<1>6. ASSUME NEW p \in Procs, NEW i \in Jtis, RevokeOne(p, i) PROVE Dated(j)'
  <2>1. h[p].at \in Nat
    BY SessionInvFacts DEF HandlerType
  <2> QED
    BY <1>4, <1>6, <2>1 DEF RevokeOne, LiveOf, Live
<1>7. ASSUME NEW p \in Procs, NEW t \in 1 .. now, SaveRefreshToken(p, t)
      PROVE  Dated(j)'
  <2>1. PICK i \in Jtis : i = h[p].new
    BY <1>7, SessionInvFacts DEF SaveRefreshToken, HandlerOk, HandlerType
  <2>2. /\ doc'[i] = [st |-> "live", exp |-> t + Ticks(DocLife), upd |-> t]
        /\ i # j => doc'[j] = doc[j]
        /\ pair[i].at <= t /\ UNCHANGED pair
    BY <1>1, <1>7, <2>1 DEF SaveRefreshToken, DocTypes, SessionInv, TypeOK
  <2> QED
    BY <1>1, <2>2 DEF Dated, Stored, Ticks
<1>8. ASSUME NEW i \in Jtis, Remove(i) PROVE Dated(j)'
  <2>1. doc'[i].st = "deleted" /\ (i # j => doc'[j] = doc[j])
    BY <1>1, <1>8 DEF Remove, DocTypes
  <2> QED
    BY <1>1, <1>2, <2>1 DEF Dated, Stored, Known
<1> QED
  BY <1>3, <1>5, <1>6, <1>7, <1>8, DocSteps DEF Stored

LEMMA StaysKnown ==
  ASSUME SessionInv, [Next]_vars, NEW j \in Jtis, Known(j)
  PROVE  Known(j)'
<1>1. doc \in DocTypes
  BY DEF SessionInv, TypeOK, DocTypes
<1>2. ASSUME NEW p \in Procs, RevokeRefreshToken(p) PROVE Known(j)'
  BY <1>1, <1>2 DEF RevokeRefreshToken, DocTypes, Known
<1>3. ASSUME NEW p \in Procs, NEW t \in 1 .. now, SaveRefreshToken(p, t)
      PROVE  Known(j)'
  BY <1>1, <1>3 DEF SaveRefreshToken, DocTypes, Known
<1>4. ASSUME NEW p \in Procs, NEW i \in Jtis, RevokeOne(p, i) PROVE Known(j)'
  BY <1>1, <1>4 DEF RevokeOne, DocTypes, Known
<1>5. ASSUME NEW i \in Jtis, Remove(i) PROVE Known(j)'
  BY <1>1, <1>5 DEF Remove, DocTypes, Known
<1> QED
  BY <1>2, <1>3, <1>4, <1>5, DocSteps DEF Known

LEMMA BlockedNext ==
  ASSUME SessionInv, SessionInv', TimeInv, [Next]_vars, NEW j \in refused'
  PROVE  Blocked(j)'
<1>1. /\ now \in Nat /\ now' \in Nat /\ now <= now'
      /\ block \in [Jtis -> Nat] /\ j \in Jtis /\ AccessLife \in Nat
      /\ pair[j].at \in Nat
  BY ClockSteps, ClockAssumption DEF SessionInv, TypeOK
<1>2. Iat(j) \in Nat /\ AccessExp(j) \in Nat
  BY <1>1, SecFloor DEF Iat, AccessExp
<1>3. ASSUME Known(j) PROVE Known(j)' /\ AccessExp(j)' = AccessExp(j)
  BY <1>1, <1>3, StaysKnown, StaysExpired DEF AccessExp
<1>4. CASE UNCHANGED <<block, refused>>
  <2>1. Blocked(j)
    BY <1>4 DEF TimeInv
  <2> QED
    BY <1>1, <1>3, <1>4, <2>1, StaysExpired DEF Blocked, Ticks
<1>5. ASSUME NEW p \in Procs, BlockAccessToken(p) PROVE Blocked(j)'
  <2>1. PICK i \in Jtis : i = h[p].tok /\ Known(i)
    BY <1>5, SessionInvFacts DEF BlockAccessToken, HandlerOk, HandlerType
  <2>2. CASE i # j
    <3>1. Blocked(j) /\ block'[j] = block[j]
      BY <1>1, <1>5, <2>1, <2>2 DEF BlockAccessToken, TimeInv
    <3> QED
      BY <1>1, <1>3, <3>1, StaysExpired DEF Blocked, Ticks
  <2>3. CASE i = j
    <3>1. UNCHANGED now /\ h[p].at \in Nat /\ h[p].at <= now
      BY <1>5, SessionInvFacts DEF BlockAccessToken, HandlerType, TimeInv, PastOk
    <3> DEFINE s == Sec(h[p].at)
    <3>2. s \in Nat /\ Ticks(s) \in Nat /\ Ticks(s) <= h[p].at /\ s <= Sec(now)
          /\ Sec(now) \in Nat
      BY <1>1, <3>1, SecFloor, SecMonotone, TicksOrder
    <3>3. BlockTtl(p) = IF AccessExp(j) > s THEN AccessExp(j) - s ELSE 0
      BY <2>1, <2>3 DEF BlockTtl
    <3> HIDE DEF s
    <3>4. CASE AccessExp(j) > s /\ block'[j] = now + Ticks(BlockTtl(p))
      <4>1. BlockTtl(p) \in Nat /\ s + BlockTtl(p) = AccessExp(j)
        BY <1>2, <3>2, <3>3, <3>4
      <4>2. Ticks(AccessExp(j)) = Ticks(s) + Ticks(BlockTtl(p))
            /\ Ticks(BlockTtl(p)) \in Nat /\ Ticks(AccessExp(j)) \in Nat
        BY <3>2, <4>1, <1>2, TicksOrder
      <4>3. Ticks(AccessExp(j)) <= block'[j]
        BY <1>1, <3>1, <3>2, <3>4, <4>2
      <4> QED
        BY <1>3, <2>1, <2>3, <4>3 DEF Blocked, Ticks
    <3>5. CASE ~(AccessExp(j) > s)
      <4>1. ~VerifyAccessToken(j)
        BY <1>2, <3>2, <3>5 DEF VerifyAccessToken
      <4> QED
        BY <1>3, <2>1, <2>3, <4>1, StaysExpired DEF Blocked
    <3>6. CASE UNCHANGED <<block, refused>>
      BY <1>4, <3>6
    <3>7. BlockTtl(p) > 0 <=> AccessExp(j) > s
      BY <1>2, <3>2, <3>3
    <3> QED
      BY <1>1, <1>5, <2>1, <2>3, <3>4, <3>5, <3>6, <3>7 DEF BlockAccessToken
  <2> QED
    BY <2>2, <2>3
<1> QED
  BY <1>4, <1>5, BlockSteps

LEMMA TimeInvInit ==
  ASSUME Init
  PROVE  TimeInv
  BY DEF Init, TimeInv, PastOk, Idle, Dated, Stored

\* No clock value lies ahead, and the expiry of documents and of blocklist keys
\* is that of the pairs they stand for or later.
THEOREM TimeInvariance == Spec => []TimeInv
<1>1. Init => TimeInv
  BY TimeInvInit
<1>2. SessionInv /\ SessionInv' /\ TimeInv /\ [Next]_vars => TimeInv'
  BY PastNext, DatedNext, BlockedNext DEF TimeInv
<1> QED
  BY <1>1, <1>2, Invariance, PTL DEF Spec

-----------------------------------------------------------------------------
(* What clients can rely on *)

\* Only the TTL index and the nightly job remove a document.
LEMMA Removal ==
  ASSUME SessionInv, [Next]_vars, NEW j \in Jtis, Stored(j), doc'[j].st = "deleted"
  PROVE  Overdue(j)
<1>1. doc \in DocTypes /\ doc[j].st # "deleted"
  BY DEF SessionInv, TypeOK, DocTypes, Stored
<1>2. ~UNCHANGED doc
  BY <1>1
<1>3. ASSUME NEW p \in Procs, RevokeRefreshToken(p) PROVE FALSE
  <2>1. doc'[j].st \in {doc[j].st, "revoked"}
    BY <1>1, <1>3 DEF RevokeRefreshToken, DocTypes
  <2> QED
    BY <1>1, <2>1
<1>4. ASSUME NEW p \in Procs, NEW t \in 1 .. now, SaveRefreshToken(p, t) PROVE FALSE
  <2>1. doc'[j].st \in {doc[j].st, "live"}
    BY <1>1, <1>4 DEF SaveRefreshToken, DocTypes
  <2> QED
    BY <1>1, <2>1
<1>5. ASSUME NEW p \in Procs, NEW i \in Jtis, RevokeOne(p, i) PROVE FALSE
  <2>1. doc'[j].st \in {doc[j].st, "revoked"}
    BY <1>1, <1>5 DEF RevokeOne, DocTypes
  <2> QED
    BY <1>1, <2>1
<1>6. ASSUME NEW i \in Jtis, Overdue(i), Remove(i) PROVE Overdue(j)
  <2>1. i # j => doc'[j] = doc[j]
    BY <1>1, <1>6 DEF Remove, DocTypes
  <2> QED
    BY <1>1, <1>6, <2>1
<1> QED
  BY <1>2, <1>3, <1>4, <1>5, <1>6, DocSteps

\* Cleanup and the TTL index take the document of an unexpired refresh token
\* only if an update that was sent before the token was signed had revoked it.
THEOREM DocumentsGoInTime == Spec => OnlyDatedDocsGo
<1>1. ASSUME SessionInv, TimeInv, [Next]_vars, NEW j \in Jtis,
             Stored(j), doc'[j].st = "deleted", VerifyRefreshToken(j)
      PROVE  doc[j].st = "revoked" /\ doc[j].upd < pair[j].at
  <2>1. doc \in DocTypes /\ pair[j].at \in Nat /\ now \in Nat
    BY <1>1 DEF SessionInv, TypeOK, DocTypes
  <2>2. /\ doc[j].exp \in Nat /\ doc[j].upd \in Nat
        /\ Ticks(DocLife) \in Nat /\ Ticks(RevokedKeep) \in Nat
    BY <2>1, TicksOrder, ClockAssumption DEF DocTypes
  <2>3. Overdue(j)
    BY <1>1, Removal
  <2>4. ~(doc[j].exp <= now)
    <3>1. pair[j].at + Ticks(DocLife) <= doc[j].exp
      BY <1>1 DEF TimeInv, Dated
    <3>2. doc[j].exp <= now => pair[j].at + Ticks(DocLife) <= now
      BY <2>1, <2>2, <3>1
    <3> QED
      BY <1>1, <3>2, Expired, LifetimesFit, ClockAssumption
  <2>5. doc[j].st = "revoked" /\ doc[j].upd + Ticks(RevokedKeep) <= now
    BY <2>3, <2>4 DEF Overdue
  <2>6. doc[j].upd < pair[j].at
    <3>1. pair[j].at <= doc[j].upd => pair[j].at + Ticks(RevokedKeep) <= now
      BY <2>1, <2>2, <2>5
    <3> QED
      BY <1>1, <2>1, <2>2, <3>1, Expired, LifetimesFit, ClockAssumption
  <2> QED
    BY <2>5, <2>6
<1>2. SessionInv /\ TimeInv /\ [Next]_vars =>
        \A j \in Jtis :
          Stored(j) /\ doc'[j].st = "deleted" /\ VerifyRefreshToken(j)
            => doc[j].st = "revoked" /\ doc[j].upd < pair[j].at
  BY <1>1
<1> QED
  BY <1>2, Invariance, TimeInvariance, PTL DEF Spec, OnlyDatedDocsGo

\* A handler that goes on from one await to another has taken a step itself.
LEMMA MovedItself ==
  ASSUME SessionInv, [Next]_vars, NEW p \in Procs,
         h[p].pc # "idle", h'[p].pc # "idle", h'[p].pc # h[p].pc
  PROVE  HandlerStep(p)
<1>1. ASSUME NEW q \in Procs, Others(q) PROVE q = p
  BY <1>1 DEF Others
<1>2. ASSUME NEW q \in Procs, Request(q) PROVE FALSE
  <2>1. h[q].pc = "idle"
    BY <1>2 DEF Request, Login, ResetPassword, Refresh, Authenticate
  <2> QED
    BY <1>1, <1>2, <2>1, RequestEnters
<1>3. ASSUME NEW q \in Procs, HandlerStep(q) PROVE q = p
  BY <1>1, <1>3, HandlerStepEnters
<1>4. ASSUME NEW q \in Procs, Fail(q) \/ Disconnect(q) PROVE FALSE
  BY <1>1, <1>4, SessionInvFacts, ReplyFacts DEF Fail, Disconnect, Idle
<1>5. ~Surroundings
  BY DEF Surroundings, Tick, DeactivateUser, DeleteUser, VerifyEmail,
     TtlMonitor, CleanupExpiredTokens
<1> QED
  BY <1>2, <1>3, <1>4, <1>5 DEF Next, vars

\* A token that a logout has put on the blocklist stays there until it expires.
LEMMA BlockedLasts ==
  ASSUME SessionInv, TimeInv, NEW j \in refused
  PROVE  j \in Jtis /\ (block[j] > now \/ ~VerifyAccessToken(j))
<1>1. /\ j \in Jtis /\ now \in Nat /\ block[j] \in Nat /\ Blocked(j)
      /\ pair[j].at \in Nat /\ AccessLife \in Nat
  BY ClockAssumption DEF SessionInv, TypeOK, TimeInv
<1>2. AccessExp(j) \in Nat /\ Sec(now) \in Nat
  BY <1>1, SecFloor DEF AccessExp, Iat
<1>3. Ticks(AccessExp(j)) <= now => AccessExp(j) <= Sec(now)
  BY <1>1, <1>2, SecReached
<1>4. Ticks(AccessExp(j)) \in Nat
  BY <1>2, TicksOrder
<1> QED
  BY <1>1, <1>2, <1>3, <1>4 DEF Blocked, VerifyAccessToken

THEOREM BlockedUntilExpiry == Spec => []BlockLasts
<1>1. SessionInv /\ TimeInv => BlockLasts
  BY BlockedLasts DEF BlockLasts
<1> QED
  BY <1>1, Invariance, TimeInvariance, PTL

\* While Redis answers, a request with such a token gets past the blocklist
\* only if the token has expired since its signature was checked.
THEOREM RefusedStayOut ==
  ASSUME "redis" \notin Faults
  PROVE  Spec => RefusedNeverAdmitted
<1>1. SessionInv /\ TimeInv /\ [Next]_vars =>
        \A p \in Procs :
          h[p].pc = "blocklist" /\ h'[p].pc = "principal"
            => h[p].tok \notin refused \/ ~VerifyAccessToken(h[p].tok)
  <2>1. SUFFICES ASSUME SessionInv, TimeInv, [Next]_vars, NEW p \in Procs,
                        h[p].pc = "blocklist", h'[p].pc = "principal",
                        h[p].tok \in refused
                 PROVE  ~VerifyAccessToken(h[p].tok)
    OBVIOUS
  <2>2. HandlerStep(p)
    BY <2>1, MovedItself
  <2>3. IsAccessTokenBlocked(p)
    <3>1. ~(\E j \in Jtis : RevokeOne(p, j))
      BY <2>1 DEF RevokeOne
    <3> QED
      BY <2>1, <2>2, <3>1 DEF HandlerStep, FindRefreshToken, FindActiveUser,
         RevokeRefreshToken, Sign, SaveRefreshToken, StoreRefreshToken, Deliver,
         LoadPrincipal, Connect, ReadPassword, RefusePassword, WritePassword,
         RevokeAllUserTokens, ScanDocs, ScanDone, ScanFails, BlockAccessToken,
         Respond
  <2>4. ~Reply(p)
    BY <2>1, SessionInvFacts, ReplyFacts DEF Idle
  <2> QED
    BY <2>1, <2>3, <2>4, BlockedLasts DEF SessionInv, TypeOK, IsAccessTokenBlocked
<1> QED
  BY <1>1, Invariance, TimeInvariance, PTL DEF Spec, RefusedNeverAdmitted

\* A request goes past the middleware only when the user it read admits it.
LEMMA Admission ==
  ASSUME SessionInv, [Next]_vars, NEW p \in Procs,
         h[p].pc = "principal", h'[p].pc \in {"served", "read", "settle"}
  PROVE  Admits(h[p].sub, Iat(h[p].tok)) /\ h[p].sub \in Users /\ h[p].tok \in Jtis
<1>1. HandlerStep(p)
  BY MovedItself
<1>2. LoadPrincipal(p) \/ Connect(p)
  BY <1>1 DEF HandlerStep, FindRefreshToken, FindActiveUser, RevokeOne,
     RevokeRefreshToken, Sign, SaveRefreshToken, StoreRefreshToken, Deliver,
     IsAccessTokenBlocked, ReadPassword, RefusePassword, WritePassword,
     RevokeAllUserTokens, ScanDocs, ScanDone, ScanFails, BlockAccessToken, Respond
<1>3. h \in Handlers /\ h[p] \in HandlerType /\ HandlerOk(h[p])
  BY SessionInvFacts
<1>4. ~Reply(p)
  BY <1>3, ReplyFacts DEF Idle
<1>5. ~Goto(p, "connected")
  BY <1>3, GotoFacts DEF Pcs
<1>6. LoadPrincipal(p)
  BY <1>2, <1>4, <1>5 DEF Connect
<1> QED
  BY <1>3, <1>4, <1>6 DEF LoadPrincipal, HandlerOk, HandlerType

\* A request is let through only with a token signed less than a second before
\* the last change of the password or after it, and no pair is born too old.
THEOREM LockoutPrecision == Spec => LockoutWithinASecond
<1>1. ASSUME SessionInv, TimeInv, [Next]_vars, NEW p \in Procs,
             h[p].pc = "principal", h'[p].pc \in {"served", "read", "settle"}
      PROVE  pair[h[p].tok].at + TicksPerSec > user[h[p].sub].changedAt
  <2> DEFINE a == pair[h[p].tok].at
             c == user[h[p].sub].changedAt
  <2>1. /\ Admits(h[p].sub, Iat(h[p].tok)) /\ a \in Nat /\ c \in Nat
    <3>1. Admits(h[p].sub, Iat(h[p].tok)) /\ h[p].sub \in Users /\ h[p].tok \in Jtis
      BY <1>1, Admission
    <3>2. user \in [Users -> UserType] /\ pair[h[p].tok].at \in Nat
      BY <1>1, <3>1 DEF SessionInv, TypeOK, UserType
    <3> QED
      BY <3>1, <3>2 DEF UserType
  <2>2. ~(Sec(c) > Sec(a))
    BY <2>1 DEF Admits, IsPasswordChangedAfter, Iat
  <2> HIDE DEF a, c
  <2>3. /\ Sec(a) \in Nat /\ Sec(c) \in Nat
        /\ Ticks(Sec(a)) <= a /\ c < Ticks(Sec(c)) + TicksPerSec
    BY <2>1, SecFloor
  <2>4. Sec(c) <= Sec(a)
    BY <2>2, <2>3
  <2>5. Ticks(Sec(c)) <= Ticks(Sec(a)) /\ Ticks(Sec(c)) \in Nat /\ Ticks(Sec(a)) \in Nat
    BY <2>3, <2>4, TicksOrder
  <2>6. a + TicksPerSec > c
    BY <2>1, <2>3, <2>5, ClockAssumption
  <2> QED
    BY <2>6 DEF a, c
<1>2. ASSUME SessionInv, TimeInv, [Next]_vars, NEW u \in Users, NEW j \in Jtis,
             ~Issued(j), pair'[j].sub = u
      PROVE  ~IsPasswordChangedAfter(u, Sec(pair'[j].at))
  <2>1. now \in Nat /\ user[u].changedAt \in Nat /\ user[u].changedAt <= now
    <3>1. user \in [Users -> UserType]
      BY <1>2 DEF SessionInv, TypeOK, UserType
    <3> QED
      BY <1>2, <3>1 DEF UserType, SessionInv, TypeOK, TimeInv, PastOk
  <2>2. pair'[j].at = now
    <3>1. pair[j].sub # u
      BY <1>2, NoneIsFresh DEF Issued
    <3>2. PICK p \in Procs, i \in Jtis : Sign(p, i)
      BY <1>2, <3>1, PairSteps
    <3> QED
      BY <1>2, <3>1, <3>2 DEF Sign, SessionInv, TypeOK
  <2>3. Sec(user[u].changedAt) <= Sec(now) /\ Sec(now) \in Nat
        /\ Sec(user[u].changedAt) \in Nat
    BY <2>1, SecMonotone, SecFloor
  <2> QED
    BY <2>2, <2>3 DEF IsPasswordChangedAfter
<1>3. SessionInv /\ TimeInv /\ [Next]_vars =>
        /\ \A p \in Procs :
             h[p].pc = "principal" /\ h'[p].pc \in {"served", "read", "settle"}
               => pair[h[p].tok].at + TicksPerSec > user[h[p].sub].changedAt
        /\ \A u \in Users, j \in Jtis :
             ~Issued(j) /\ pair'[j].sub = u
               => ~IsPasswordChangedAfter(u, Sec(pair'[j].at))
  BY <1>1, <1>2
<1> QED
  BY <1>3, Invariance, TimeInvariance, PTL DEF Spec, LockoutWithinASecond

=============================================================================
