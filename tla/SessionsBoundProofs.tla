-------------------------- MODULE SessionsBoundProofs --------------------------
(***************************************************************************)
(* How far what Sessions does to excess can go: how many pairs a refresh   *)
(* token may be exchanged for, although the check and the revocation are   *)
(* two round trips, and how many steps a request may take to its answer.   *)
(***************************************************************************)
EXTENDS SessionsProofs, FiniteSetTheorems

-----------------------------------------------------------------------------
(* Exchanges of one refresh token *)

\* A refresh that has found its document live and has yet to sign.
Rotating == {"user", "revokeOld", "sign"}

Exchanging(j) == {p \in Procs : h[p].pc \in Rotating /\ h[p].tok = j}

Successors(j) == {i \in Jtis : pair[i].parent = j}

\* One token is exchanged for no more pairs than requests can be in flight at
\* once: whoever has been past the check when the first of them revokes may
\* still sign, and nobody after that (refreshTokens).
ExchangesBounded ==
  \A j \in Jtis :
    Cardinality(Successors(j)) + Cardinality(Exchanging(j)) <= Cardinality(Procs)

-----------------------------------------------------------------------------
(* The proof about exchanges *)

\* The handler p starts to rotate only a token it has found live.
Turned(p) ==
  h'[p].pc \in Rotating =>
    \/ h[p].pc \in Rotating /\ h'[p].tok = h[p].tok
    \/ h'[p].tok = None
    \/ Live(h'[p].tok)

LEMMA ReplyTurns ==
  ASSUME SessionInv, NEW p \in Procs, Reply(p)
  PROVE  Others(p) /\ Turned(p)
  BY SessionInvFacts, ReplyFacts DEF Turned, Rotating, Idle

LEMMA RequestTurns ==
  ASSUME SessionInv, NEW p \in Procs, Request(p)
  PROVE  Others(p) /\ Turned(p)
<1>1. h \in Handlers /\ now \in Nat
  BY SessionInvFacts
<1>2. ASSUME NEW u \in Users, NEW w \in Passwords, Login(p, u, w)
      PROVE  Others(p) /\ Turned(p)
  BY <1>1, <1>2, StartFacts DEF Login, Pcs, OpNames, Turned
<1>3. ASSUME NEW u \in Users, NEW w \in Passwords, ResetPassword(p, u, w)
      PROVE  Others(p) /\ Turned(p)
  <2> DEFINE r == [Idle EXCEPT !.pc = "write", !.op = "resetPassword",
                               !.sub = u, !.pw = w, !.at = now]
  <2>1. r \in HandlerType /\ r.pc = "write"
    BY <1>1, IdleType DEF HandlerType, Pcs, OpNames, Idle
  <2>2. Become(p, r)
    BY <1>3 DEF ResetPassword
  <2> HIDE DEF r
  <2> QED
    BY <1>1, <2>1, <2>2, BecomeFacts DEF Turned, Rotating
<1>4. ASSUME NEW j \in Jtis, NEW o \in OpNames, NEW c \in {"find", "blocklist"},
             Start(p, o, c, pair[j].sub, j)
      PROVE  Others(p) /\ Turned(p)
  <2>1. pair[j].sub \in Users \cup {None} /\ c \in Pcs
    BY DEF SessionInv, TypeOK, Pcs
  <2> QED
    BY <1>1, <1>4, <2>1, StartFacts DEF Turned, Rotating
<1> QED
  BY <1>2, <1>3, <1>4 DEF Request, Refresh, Authenticate, OpNames

LEMMA HandlerStepTurns ==
  ASSUME SessionInv, NEW p \in Procs, HandlerStep(p)
  PROVE  UNCHANGED h \/ (Others(p) /\ Turned(p))
<1>1. h \in Handlers /\ now \in Nat /\ h[p] \in HandlerType
  BY SessionInvFacts
<1>2. ASSUME NEW c \in Pcs, Goto(p, c),
             c \in Rotating => h[p].pc \in Rotating \/ Live(h[p].tok)
      PROVE  Others(p) /\ Turned(p)
  BY <1>1, <1>2, GotoFacts DEF Turned
<1>3. ASSUME NEW x \in Calls, Done(p, x) PROVE Others(p) /\ Turned(p)
  BY <1>1, <1>3, DoneFacts DEF Turned
<1>4. ASSUME NEW t \in SUBSET Calls, NEW o \in OpNames, EndSessions(p, o, t)
      PROVE  Others(p) /\ Turned(p)
  BY <1>1, <1>4, EndFacts DEF Turned, Rotating
<1>5. ASSUME NEW t \in SUBSET Calls, NEW s \in SUBSET Jtis, Await(p, t, s)
      PROVE  Others(p) /\ Turned(p)
  BY <1>1, <1>5, ScanFacts DEF Turned
<1>6. CASE FindRefreshToken(p) \/ FindActiveUser(p) \/ RevokeRefreshToken(p)
  <2>1. ASSUME h[p].pc = "user",
               Become(p, [h[p] EXCEPT !.pc = "revokeOld", !.at = now])
        PROVE  Others(p) /\ Turned(p)
    BY <1>1, <2>1, SendFacts DEF Turned, Rotating
  <2> QED
    BY <1>2, <1>4, <1>6, <2>1, ReplyTurns
    DEF FindRefreshToken, FindActiveUser, RevokeRefreshToken, Pcs, Rotating, Calls, OpNames
<1>7. CASE IsAccessTokenBlocked(p) \/ LoadPrincipal(p) \/ Connect(p)
  BY <1>2, <1>4, <1>7, ReplyTurns
  DEF IsAccessTokenBlocked, LoadPrincipal, Connect, Pcs, Rotating, Calls, OpNames
<1>8. CASE \E j \in Jtis : Sign(p, j)
  BY <1>1, <1>8, SignFacts DEF Sign, Turned, Rotating
<1>9. CASE \/ \E t \in 1 .. now : SaveRefreshToken(p, t)
           \/ StoreRefreshToken(p) \/ RevokeAllUserTokens(p) \/ BlockAccessToken(p)
  BY <1>3, <1>9 DEF SaveRefreshToken, StoreRefreshToken, RevokeAllUserTokens,
     BlockAccessToken, Calls
<1>10. CASE Deliver(p) \/ RefusePassword(p) \/ Respond(p)
  BY <1>10, ReplyTurns DEF Deliver, RefusePassword, Respond
<1>11. CASE \E w \in Passwords : ReadPassword(p, w)
  BY <1>1, <1>11, WriteFacts DEF ReadPassword, Turned, Rotating
<1>12. CASE \E t \in 1 .. now : WritePassword(p, t)
  <2>1. h[p].op \in OpNames /\ {"keys"} \in SUBSET Calls
    BY <1>1 DEF HandlerType, Calls
  <2> QED
    BY <1>4, <1>12, <2>1, ReplyTurns DEF WritePassword
<1>13. CASE ScanDocs(p) \/ ScanDone(p) \/ ScanFails(p)
  <2>1. /\ (h[p].todo \ {"docs"}) \cup {"scan"} \in SUBSET Calls
        /\ h[p].todo \ {"scan"} \in SUBSET Calls
        /\ h[p].todo \ {"docs", "scan"} \in SUBSET Calls
        /\ LiveOf(h[p].sub) \in SUBSET Jtis /\ {} \in SUBSET Jtis
    BY <1>1 DEF HandlerType, Calls, LiveOf
  <2> QED
    BY <1>5, <1>13, <2>1 DEF ScanDocs, ScanDone, ScanFails
<1>14. CASE \E j \in Jtis : RevokeOne(p, j)
  BY <1>14 DEF RevokeOne
<1> QED
  BY <1>6, <1>7, <1>8, <1>9, <1>10, <1>11, <1>12, <1>13, <1>14 DEF HandlerStep

LEMMA TurnSteps ==
  ASSUME SessionInv, [Next]_vars
  PROVE  UNCHANGED h \/ \E p \in Procs : Others(p) /\ Turned(p)
<1>1. ASSUME NEW p \in Procs, Fail(p) \/ Disconnect(p) PROVE Others(p) /\ Turned(p)
  BY <1>1, ReplyTurns DEF Fail, Disconnect
<1>2. CASE Surroundings
  BY <1>2 DEF Surroundings, Tick, DeactivateUser, DeleteUser, VerifyEmail,
     TtlMonitor, CleanupExpiredTokens
<1> QED
  BY <1>1, <1>2, RequestTurns, HandlerStepTurns DEF Next, vars

LEMMA ExchangeSets ==
  ASSUME IsFiniteSet(Procs), IsFiniteSet(Jtis), NEW j \in Jtis
  PROVE  /\ IsFiniteSet(Successors(j)) /\ Cardinality(Successors(j)) \in Nat
         /\ IsFiniteSet(Exchanging(j)) /\ Cardinality(Exchanging(j)) \in Nat
         /\ Cardinality(Exchanging(j)) <= Cardinality(Procs)
         /\ Cardinality(Procs) \in Nat
<1>1. Successors(j) \in SUBSET Jtis /\ Exchanging(j) \in SUBSET Procs
  BY DEF Successors, Exchanging
<1> QED
  BY <1>1, FS_Subset, FS_CardinalityType

\* A token that was exchanged is over, and one that is not can have no successor.
LEMMA LiveUnexchanged ==
  ASSUME SessionInv, NEW j \in Jtis, Live(j)
  PROVE  Successors(j) = {}
  BY NoneIsFresh DEF SessionInv, PairOk, Successors, Over, Live

LEMMA ExchangesNext ==
  ASSUME IsFiniteSet(Procs), IsFiniteSet(Jtis), SessionInv, [Next]_vars,
         NEW j \in Jtis,
         Cardinality(Successors(j)) + Cardinality(Exchanging(j)) <= Cardinality(Procs)
  PROVE  (Cardinality(Successors(j)) + Cardinality(Exchanging(j)) <= Cardinality(Procs))'
<1> DEFINE S == Successors(j)
           E == Exchanging(j)
<1>1. /\ IsFiniteSet(S) /\ Cardinality(S) \in Nat
      /\ IsFiniteSet(E) /\ Cardinality(E) \in Nat /\ Cardinality(Procs) \in Nat
  BY ExchangeSets
<1>2. /\ IsFiniteSet(S') /\ Cardinality(S') \in Nat
      /\ IsFiniteSet(E') /\ Cardinality(E') \in Nat
      /\ Cardinality(E') <= Cardinality(Procs)
  <2>1. S' \in SUBSET Jtis /\ E' \in SUBSET Procs
    BY DEF Successors, Exchanging
  <2> QED
    BY <2>1, FS_Subset, FS_CardinalityType
<1>3. CASE UNCHANGED pair
  <2>1. S' = S
    BY <1>3 DEF Successors
  <2>2. CASE Live(j)
    <3>1. Cardinality(S) = 0
      BY <2>2, LiveUnexchanged, FS_EmptySet
    <3> HIDE DEF S, E
    <3> QED
      BY <1>2, <2>1, <3>1 DEF S, E
  <2>3. CASE ~Live(j)
    <3>1. E' \in SUBSET E
      BY <2>3, TurnSteps, NoneIsFresh DEF Exchanging, Turned, Others
    <3>2. Cardinality(E') <= Cardinality(E)
      BY <1>1, <3>1, FS_Subset
    <3> HIDE DEF S, E
    <3>3. Cardinality(S') + Cardinality(E') <= Cardinality(Procs)
      BY <1>1, <1>2, <2>1, <3>2 DEF S, E
    <3> QED
      BY <3>3 DEF S, E
  <2> QED
    BY <2>2, <2>3
<1>4. ASSUME NEW p \in Procs, NEW i \in Jtis, Sign(p, i)
      PROVE  (Cardinality(Successors(j)) + Cardinality(Exchanging(j)) <= Cardinality(Procs))'
  <2>1. Others(p) /\ h'[p].pc = "store" /\ h[p].pc = "sign"
    BY <1>4, SessionInvFacts, SignFacts DEF Sign
  <2>2. E' = E \ {p}
    BY <2>1 DEF Exchanging, Others, Rotating
  <2>3. /\ pair'[i].parent = h[p].tok
        /\ \A k \in Jtis \ {i} : pair'[k] = pair[k]
    BY <1>4 DEF Sign, SessionInv, TypeOK
  <2>4. CASE h[p].tok = j
    <3>1. p \in E
      BY <2>1, <2>4 DEF Exchanging, Rotating
    <3>2. S' = S \cup {i}
      BY <2>3, <2>4 DEF Successors
    <3>3. Cardinality(E') = Cardinality(E) - 1
      BY <1>1, <2>2, <3>1, FS_RemoveElement
    <3>4. Cardinality(S') <= Cardinality(S) + 1
      <4>1. Cardinality(S \cup {i}) = IF i \in S THEN Cardinality(S) ELSE Cardinality(S) + 1
        BY <1>1, FS_AddElement
      <4> HIDE DEF S
      <4> QED
        BY <1>1, <3>2, <4>1 DEF S
    <3> HIDE DEF S, E
    <3>5. Cardinality(S') + Cardinality(E') <= Cardinality(Procs)
      BY <1>1, <1>2, <3>3, <3>4 DEF S, E
    <3> QED
      BY <3>5 DEF S, E
  <2>5. CASE h[p].tok # j
    <3>1. S' \in SUBSET S
      BY <2>3, <2>5 DEF Successors
    <3>2. E' \in SUBSET E
      BY <2>2
    <3>3. Cardinality(S') <= Cardinality(S) /\ Cardinality(E') <= Cardinality(E)
      BY <1>1, <3>1, <3>2, FS_Subset
    <3> HIDE DEF S, E
    <3>4. Cardinality(S') + Cardinality(E') <= Cardinality(Procs)
      BY <1>1, <1>2, <3>3 DEF S, E
    <3> QED
      BY <3>4 DEF S, E
  <2> QED
    BY <2>4, <2>5
<1> QED
  BY <1>3, <1>4, PairSteps

\* With any number of requests, rotations and logouts at once, and whatever
\* fails: a refresh token is worth at most as many pairs as requests fit in
\* flight.  With one request at a time it is worth one.
THEOREM DoubleExchangesBounded ==
  ASSUME IsFiniteSet(Procs), IsFiniteSet(Jtis)
  PROVE  Spec => []ExchangesBounded
<1>1. Init => ExchangesBounded
  <2> SUFFICES ASSUME Init, NEW j \in Jtis
               PROVE  Cardinality(Successors(j)) + Cardinality(Exchanging(j))
                        <= Cardinality(Procs)
    BY DEF ExchangesBounded
  <2>1. Successors(j) = {} /\ Exchanging(j) = {}
    BY NoneIsFresh DEF Init, Idle, Successors, Exchanging, Rotating
  <2> QED
    BY <2>1, FS_EmptySet, FS_CardinalityType
<1>2. SessionInv /\ ExchangesBounded /\ [Next]_vars => ExchangesBounded'
  BY ExchangesNext DEF ExchangesBounded
<1> QED
  BY <1>1, <1>2, Invariance, PTL DEF Spec

-----------------------------------------------------------------------------
(* The proof about what is left *)

LEMMA CallsLeftFacts ==
  ASSUME NEW t \in SUBSET Calls
  PROVE  /\ CallsLeft(t) \in Nat
         /\ \A x \in t : CallsLeft(t \ {x}) < CallsLeft(t)
         /\ "docs" \in t => CallsLeft((t \ {"docs"}) \cup {"scan"}) < CallsLeft(t)
         /\ t \cap {"docs", "scan"} # {} => CallsLeft(t \ {"docs", "scan"}) < CallsLeft(t)
<1>1. IsFiniteSet(Calls)
  <2>1. IsFiniteSet({"doc"})
    BY FS_Singleton
  <2>2. IsFiniteSet({"doc"} \cup {"key"})
    BY <2>1, FS_AddElement
  <2>3. IsFiniteSet({"doc"} \cup {"key"} \cup {"keys"})
    BY <2>2, FS_AddElement
  <2>4. IsFiniteSet({"doc"} \cup {"key"} \cup {"keys"} \cup {"docs"})
    BY <2>3, FS_AddElement
  <2>5. IsFiniteSet({"doc"} \cup {"key"} \cup {"keys"} \cup {"docs"} \cup {"scan"})
    BY <2>4, FS_AddElement
  <2>6. IsFiniteSet({"doc"} \cup {"key"} \cup {"keys"} \cup {"docs"} \cup {"scan"} \cup {"block"})
    BY <2>5, FS_AddElement
  <2>7. Calls = {"doc"} \cup {"key"} \cup {"keys"} \cup {"docs"} \cup {"scan"} \cup {"block"}
    BY DEF Calls
  <2> QED
    BY <2>6, <2>7
<1>2. ASSUME NEW s \in SUBSET Calls
      PROVE  /\ IsFiniteSet(s) /\ Cardinality(s) \in Nat
             /\ \A x \in s : /\ s \ {x} \in SUBSET Calls
                             /\ Cardinality(s \ {x}) = Cardinality(s) - 1
                             /\ Cardinality(s \ {x}) \in Nat
  <2>1. IsFiniteSet(s) /\ Cardinality(s) \in Nat
    BY <1>1, FS_Subset, FS_CardinalityType
  <2>2. ASSUME NEW x \in s
        PROVE  /\ s \ {x} \in SUBSET Calls
               /\ Cardinality(s \ {x}) = Cardinality(s) - 1
               /\ Cardinality(s \ {x}) \in Nat
    BY <2>1, FS_RemoveElement, FS_CardinalityType
  <2> QED
    BY <2>1, <2>2
<1>3. CallsLeft(t) \in Nat
  BY <1>2 DEF CallsLeft
<1>4. ASSUME NEW x \in t PROVE CallsLeft(t \ {x}) < CallsLeft(t)
  BY <1>2 DEF CallsLeft
<1>5. ASSUME "docs" \in t
      PROVE  CallsLeft((t \ {"docs"}) \cup {"scan"}) < CallsLeft(t)
  <2> DEFINE s == t \ {"docs"}
             w == s \cup {"scan"}
  <2>1. Cardinality(s) = Cardinality(t) - 1 /\ IsFiniteSet(s) /\ Cardinality(s) \in Nat
    BY <1>2, <1>5
  <2>2. Cardinality(w) = IF "scan" \in s THEN Cardinality(s) ELSE Cardinality(s) + 1
    BY <2>1, FS_AddElement
  <2>3. "docs" \notin w /\ Cardinality(t) \in Nat
    BY <1>2
  <2> HIDE DEF s, w
  <2>4. Cardinality(w) <= Cardinality(t)
    BY <2>1, <2>2, <2>3
  <2>5. CallsLeft(w) = Cardinality(w) /\ CallsLeft(t) = Cardinality(t) + 1
    BY <1>5, <2>1, <2>2, <2>3 DEF CallsLeft
  <2>6. Cardinality(w) \in Nat
    BY <2>1, <2>2
  <2> QED
    BY <2>3, <2>4, <2>5, <2>6 DEF s, w
<1>6. ASSUME t \cap {"docs", "scan"} # {}
      PROVE  CallsLeft(t \ {"docs", "scan"}) < CallsLeft(t)
  <2> DEFINE r == t \ {"docs", "scan"}
             s == t \ {"docs"}
  <2>1. CASE "docs" \in t
    <3>1. Cardinality(s) = Cardinality(t) - 1 /\ s \in SUBSET Calls
      BY <1>2, <2>1
    <3>2. r \in SUBSET s /\ IsFiniteSet(s) /\ Cardinality(s) \in Nat
      BY <1>2, <3>1
    <3>3. Cardinality(r) <= Cardinality(s) /\ IsFiniteSet(r)
      BY <3>2, FS_Subset
    <3>4. Cardinality(r) \in Nat /\ "docs" \notin r
      BY <3>3, FS_CardinalityType
    <3>5. CallsLeft(r) = Cardinality(r) /\ CallsLeft(t) = Cardinality(t) + 1
      <4> HIDE DEF r
      <4> QED
        BY <1>2, <2>1, <3>4 DEF CallsLeft
    <3> HIDE DEF r, s
    <3> QED
      BY <1>2, <3>1, <3>2, <3>3, <3>4, <3>5 DEF r
  <2>2. CASE "docs" \notin t
    <3>1. t \ {"docs", "scan"} = t \ {"scan"} /\ "scan" \in t
      BY <1>6, <2>2
    <3> QED
      BY <1>4, <3>1
  <2> QED
    BY <2>1, <2>2
<1> QED
  BY <1>3, <1>4, <1>5, <1>6

LEMMA CallsToSettle ==
  /\ CallsLeft({"keys"}) = 1
  /\ CallsLeft({"doc", "key"}) = 2
  /\ CallsLeft({"docs", "keys", "block"}) = 4
<1>1. Cardinality({"keys"}) = 1 /\ IsFiniteSet({"keys"})
  BY FS_Singleton
<1>2. Cardinality({"doc"}) = 1 /\ IsFiniteSet({"doc"})
  BY FS_Singleton
<1>3. Cardinality({"doc"} \cup {"key"}) = 2
  BY <1>2, FS_AddElement
<1>4. Cardinality({"keys"} \cup {"block"}) = 2 /\ IsFiniteSet({"keys"} \cup {"block"})
  BY <1>1, FS_AddElement
<1>5. Cardinality(({"keys"} \cup {"block"}) \cup {"docs"}) = 3
  BY <1>4, FS_AddElement
<1>6. /\ {"doc", "key"} = {"doc"} \cup {"key"}
      /\ {"docs", "keys", "block"} = ({"keys"} \cup {"block"}) \cup {"docs"}
  OBVIOUS
<1> QED
  BY <1>1, <1>3, <1>5, <1>6 DEF CallsLeft

LEMMA StepsLeftType ==
  ASSUME NEW r \in HandlerType
  PROVE  StepsLeft(r) \in Nat
<1>1. r.pc \in Pcs /\ r.todo \in SUBSET Calls
  BY DEF HandlerType, Calls
<1>2. CallsLeft(r.todo) \in Nat
  BY <1>1, CallsLeftFacts
<1> QED
  BY <1>1, <1>2 DEF StepsLeft, Calm, Pcs

\* A session that is over stays over, so there are never more to revoke.
LEMMA RevocableShrinks ==
  ASSUME IsFiniteSet(Jtis), SessionInv, [Next]_vars
  PROVE  /\ Revocable' \in SUBSET Revocable
         /\ IsFiniteSet(Revocable) /\ Cardinality(Revocable) \in Nat
         /\ Cardinality(Revocable') \in Nat
         /\ Cardinality(Revocable') <= Cardinality(Revocable)
<1>1. doc \in DocTypes
  BY DEF SessionInv, TypeOK, DocTypes
<1>2. ASSUME NEW j \in Jtis, Over(j) PROVE Over(j)'
  <2>1. ASSUME NEW p \in Procs, RevokeRefreshToken(p) PROVE Over(j)'
    <3>1. h[p].tok \in Jtis
      BY <2>1, SessionInvFacts DEF RevokeRefreshToken, HandlerOk, HandlerType
    <3> QED
      BY <1>1, <1>2, <2>1, <3>1 DEF RevokeRefreshToken, Over, DocTypes
  <2>2. ASSUME NEW p \in Procs, NEW t \in 1 .. now, SaveRefreshToken(p, t) PROVE Over(j)'
    <3>1. h[p].new # j
      BY <1>2, <2>2, SessionInvFacts DEF SaveRefreshToken, HandlerOk, Known, Over
    <3> QED
      BY <1>1, <1>2, <2>2, <3>1 DEF SaveRefreshToken, Over, DocTypes
  <2>3. ASSUME NEW p \in Procs, NEW i \in Jtis, RevokeOne(p, i) PROVE Over(j)'
    BY <1>1, <1>2, <2>3 DEF RevokeOne, Over, DocTypes
  <2>4. ASSUME NEW i \in Jtis, Remove(i) PROVE Over(j)'
    BY <1>1, <1>2, <2>4 DEF Remove, Over, DocTypes
  <2> QED
    BY <1>2, <2>1, <2>2, <2>3, <2>4, DocSteps DEF Over
<1>3. Revocable' \in SUBSET Revocable
  BY <1>2 DEF Revocable
<1>4. Revocable \in SUBSET Jtis
  BY DEF Revocable
<1>5. IsFiniteSet(Revocable)
  BY <1>4, FS_Subset
<1>6. IsFiniteSet(Revocable') /\ Cardinality(Revocable') <= Cardinality(Revocable)
  BY <1>3, <1>5, FS_Subset
<1> QED
  BY <1>3, <1>5, <1>6, FS_CardinalityType

LEMMA RecordGetsOn ==
  ASSUME SessionInv, NEW p \in Procs, HandlerStep(p),
         ~(\E j \in Jtis : RevokeOne(p, j))
  PROVE  /\ StepsLeft(h'[p]) \in Nat
         /\ StepsLeft(h'[p]) < StepsLeft(h[p])
<1>1. /\ h \in Handlers /\ now \in Nat /\ h[p] \in HandlerType
      /\ h[p].todo \in SUBSET Calls /\ h[p].op \in OpNames
  BY SessionInvFacts DEF HandlerType, Calls
<1>2. CallsLeft(h[p].todo) \in Nat
  BY <1>1, CallsLeftFacts
<1> USE DEF StepsLeft, Calm
<1>3. ASSUME Reply(p), h[p].pc \notin Calm, h[p].pc \in Pcs
      PROVE  StepsLeft(h'[p]) \in Nat /\ StepsLeft(h'[p]) < StepsLeft(h[p])
  <2>1. h'[p].pc = "idle"
    BY <1>1, <1>3, ReplyFacts DEF Idle
  <2> QED
    BY <1>2, <1>3, <2>1 DEF Pcs
<1>4. ASSUME NEW c \in Pcs, Goto(p, c) PROVE h'[p].pc = c
  BY <1>1, <1>4, GotoFacts
<1>5. ASSUME NEW t \in SUBSET Calls, NEW o \in OpNames, EndSessions(p, o, t)
      PROVE  h'[p].pc = "settle" /\ h'[p].todo = t
  BY <1>1, <1>5, EndFacts
<1>6. ASSUME NEW x \in h[p].todo, Done(p, x), h[p].pc \in {"settle", "store"}
      PROVE  StepsLeft(h'[p]) \in Nat /\ StepsLeft(h'[p]) < StepsLeft(h[p])
  <2>1. h'[p].pc = h[p].pc /\ h'[p].todo = h[p].todo \ {x}
    BY <1>1, <1>6, DoneFacts
  <2>2. CallsLeft(h[p].todo \ {x}) < CallsLeft(h[p].todo)
    BY <1>1, CallsLeftFacts
  <2>3. CallsLeft(h[p].todo \ {x}) \in Nat
    BY <1>1, CallsLeftFacts
  <2> QED
    BY <1>2, <1>6, <2>1, <2>2, <2>3
<1>7. ASSUME NEW t \in SUBSET Calls, NEW s \in SUBSET Jtis, Await(p, t, s),
             h[p].pc = "settle", CallsLeft(t) < CallsLeft(h[p].todo)
      PROVE  StepsLeft(h'[p]) \in Nat /\ StepsLeft(h'[p]) < StepsLeft(h[p])
  <2>1. h'[p].pc = "settle" /\ h'[p].todo = t
    BY <1>1, <1>7, ScanFacts
  <2>2. CallsLeft(t) \in Nat
    BY CallsLeftFacts
  <2> QED
    BY <1>2, <1>7, <2>1, <2>2
<1>8. /\ {"keys"} \in SUBSET Calls /\ {"docs", "keys", "block"} \in SUBSET Calls
      /\ "reuse" \in OpNames /\ "logout" \in OpNames
  BY DEF Calls, OpNames
<1>9. CASE FindRefreshToken(p)
  <2>1. h[p].pc = "find"
    BY <1>9 DEF FindRefreshToken
  <2>2. CASE Goto(p, "user")
    BY <1>4, <2>1, <2>2 DEF Pcs
  <2>3. CASE EndSessions(p, "reuse", {"keys"})
    BY <1>5, <1>8, <2>1, <2>3, CallsToSettle
  <2> QED
    BY <1>9, <2>2, <2>3 DEF FindRefreshToken
<1>10. CASE FindActiveUser(p) \/ RevokeRefreshToken(p)
  <2>1. CASE Reply(p) /\ h[p].pc = "user"
    BY <1>3, <2>1 DEF Pcs
  <2>2. CASE /\ h[p].pc = "user"
             /\ Become(p, [h[p] EXCEPT !.pc = "revokeOld", !.at = now])
    <3>1. h'[p].pc = "revokeOld"
      BY <1>1, <2>2, SendFacts
    <3> QED
      BY <1>2, <2>2, <3>1
  <2>3. CASE Goto(p, "sign") /\ h[p].pc = "revokeOld"
    BY <1>4, <2>3 DEF Pcs
  <2> QED
    BY <1>10, <2>1, <2>2, <2>3 DEF FindActiveUser, RevokeRefreshToken
<1>11. CASE \E j \in Jtis : Sign(p, j)
  <2>1. h[p].pc = "sign" /\ h'[p].pc = "store" /\ h'[p].todo = {"doc", "key"}
    BY <1>1, <1>11, SignFacts DEF Sign
  <2> QED
    BY <2>1, CallsToSettle
<1>12. CASE \/ \E t \in 1 .. now : SaveRefreshToken(p, t)
            \/ StoreRefreshToken(p) \/ RevokeAllUserTokens(p) \/ BlockAccessToken(p)
  BY <1>6, <1>12 DEF SaveRefreshToken, StoreRefreshToken, RevokeAllUserTokens,
     BlockAccessToken
<1>13. CASE Deliver(p) \/ RefusePassword(p) \/ Respond(p)
  BY <1>3, <1>13 DEF Deliver, RefusePassword, Respond, Pcs
<1>14. CASE IsAccessTokenBlocked(p)
  <2>1. h[p].pc = "blocklist"
    BY <1>14 DEF IsAccessTokenBlocked
  <2>2. CASE Reply(p)
    BY <1>3, <2>1, <2>2 DEF Pcs
  <2>3. CASE Goto(p, "principal")
    BY <1>4, <2>1, <2>3 DEF Pcs
  <2> QED
    BY <1>14, <2>2, <2>3 DEF IsAccessTokenBlocked
<1>15. CASE LoadPrincipal(p)
  <2>1. h[p].pc = "principal"
    BY <1>15 DEF LoadPrincipal
  <2>2. CASE Reply(p)
    BY <1>3, <2>1, <2>2 DEF Pcs
  <2>3. CASE Goto(p, "served") \/ Goto(p, "read")
    BY <1>4, <2>1, <2>3 DEF Pcs
  <2>4. CASE EndSessions(p, "logout", {"docs", "keys", "block"})
    BY <1>5, <1>8, <2>1, <2>4, CallsToSettle
  <2> QED
    BY <1>15, <2>2, <2>3, <2>4 DEF LoadPrincipal
<1>16. CASE Connect(p)
  <2>1. h[p].pc = "principal"
    BY <1>16 DEF Connect
  <2>2. CASE Reply(p)
    BY <1>3, <2>1, <2>2 DEF Pcs
  <2>3. CASE Goto(p, "connected")
    BY <1>4, <2>1, <2>3 DEF Pcs
  <2> QED
    BY <1>16, <2>2, <2>3 DEF Connect
<1>17. CASE \E w \in Passwords : ReadPassword(p, w)
  <2>1. h[p].pc = "read" /\ h'[p].pc = "write"
    BY <1>1, <1>17, WriteFacts DEF ReadPassword
  <2> QED
    BY <2>1
<1>18. CASE \E t \in 1 .. now : WritePassword(p, t)
  <2>1. h[p].pc = "write"
    BY <1>18 DEF WritePassword
  <2>2. CASE Reply(p)
    BY <1>3, <2>1, <2>2 DEF Pcs
  <2>3. CASE EndSessions(p, h[p].op, {"keys"})
    BY <1>1, <1>5, <1>8, <2>1, <2>3, CallsToSettle
  <2> QED
    BY <1>18, <2>2, <2>3 DEF WritePassword
<1>19. CASE ScanDocs(p) \/ ScanDone(p) \/ ScanFails(p)
  <2> DEFINE t == h[p].todo
  <2>1. /\ (t \ {"docs"}) \cup {"scan"} \in SUBSET Calls
        /\ t \ {"scan"} \in SUBSET Calls
        /\ t \ {"docs", "scan"} \in SUBSET Calls
        /\ LiveOf(h[p].sub) \in SUBSET Jtis /\ {} \in SUBSET Jtis
    BY <1>1 DEF Calls, LiveOf
  <2>2. /\ "docs" \in t => CallsLeft((t \ {"docs"}) \cup {"scan"}) < CallsLeft(t)
        /\ "scan" \in t => CallsLeft(t \ {"scan"}) < CallsLeft(t)
        /\ t \cap {"docs", "scan"} # {} => CallsLeft(t \ {"docs", "scan"}) < CallsLeft(t)
    BY <1>1, CallsLeftFacts
  <2> QED
    BY <1>7, <1>19, <2>1, <2>2 DEF ScanDocs, ScanDone, ScanFails
<1> QED
  BY <1>9, <1>10, <1>11, <1>12, <1>13, <1>14, <1>15, <1>16, <1>17, <1>18, <1>19
  DEF HandlerStep

LEMMA LeftShrinks ==
  ASSUME IsFiniteSet(Jtis), SessionInv, [Next]_vars, NEW p \in Procs
  PROVE  /\ HandlerStep(p) => Left(p)' < Left(p)
         /\ h'[p] = h[p] => Left(p)' <= Left(p)
<1>1. /\ Revocable' \in SUBSET Revocable /\ IsFiniteSet(Revocable)
      /\ Cardinality(Revocable) \in Nat /\ Cardinality(Revocable') \in Nat
      /\ Cardinality(Revocable') <= Cardinality(Revocable)
  BY RevocableShrinks
<1>2. StepsLeft(h[p]) \in Nat
  BY SessionInvFacts, StepsLeftType
<1>3. Left(p)' = StepsLeft(h'[p]) + Cardinality(Revocable')
  BY DEF Left
<1>4. CASE \E j \in Jtis : RevokeOne(p, j)
  <2>1. PICK j \in Jtis : RevokeOne(p, j)
    BY <1>4
  <2>2. j \in Revocable /\ j \notin Revocable' /\ h'[p] = h[p]
    BY <2>1 DEF RevokeOne, LiveOf, Live, Over, Revocable, SessionInv, TypeOK
  <2>3. Cardinality(Revocable') < Cardinality(Revocable)
    BY <1>1, <2>2, FS_Subset
  <2> QED
    BY <1>1, <1>2, <1>3, <2>2, <2>3 DEF Left
<1>5. CASE HandlerStep(p) /\ ~(\E j \in Jtis : RevokeOne(p, j))
  <2>1. StepsLeft(h'[p]) \in Nat /\ StepsLeft(h'[p]) < StepsLeft(h[p])
    BY <1>5, RecordGetsOn
  <2>2. h'[p] # h[p]
    BY <1>2, <2>1
  <2> QED
    BY <1>1, <1>2, <1>3, <2>1, <2>2 DEF Left
<1>6. CASE ~HandlerStep(p)
  BY <1>1, <1>2, <1>3, <1>6 DEF Left
<1> QED
  BY <1>4, <1>5, <1>6

\* The half of HandlersFinish that needs no fairness: no request can go on for
\* ever.  However it branches and whatever the others do, it takes at most
\* seven steps of its own and one for each session that can still be revoked.
THEOREM RequestsGetOn ==
  ASSUME IsFiniteSet(Jtis)
  PROVE  Spec => HandlersGetOn
<1>1. SessionInv /\ [Next]_vars =>
        \A p \in Procs : /\ HandlerStep(p) => Left(p)' < Left(p)
                         /\ h'[p] = h[p] => Left(p)' <= Left(p)
  BY LeftShrinks
<1> QED
  BY <1>1, Invariance, PTL DEF Spec, HandlersGetOn

=============================================================================
