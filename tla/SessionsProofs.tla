--------------------------- MODULE SessionsProofs ---------------------------
(***************************************************************************)
(* Proofs about Sessions, for any number of users, token pairs and         *)
(* requests, any lifetimes and any set of faults.                          *)
(***************************************************************************)
EXTENDS Sessions, TLAPS

-----------------------------------------------------------------------------
(* What the operators that move a handler do to h *)

Handlers == [Procs -> HandlerType]

Others(p) == \A q \in Procs \ {p} : h'[q] = h[q]

Calls == {"doc", "key", "keys", "docs", "scan", "block"}

LEMMA BecomeFacts ==
  ASSUME h \in Handlers, NEW p \in Procs, NEW r \in HandlerType, Become(p, r)
  PROVE  h' \in Handlers /\ h'[p] = r /\ Others(p)
  BY DEF Become, Handlers, Others

LEMMA IdleType == Idle \in HandlerType
  BY DEF Idle, HandlerType, Pcs, OpNames

LEMMA ReplyFacts ==
  ASSUME h \in Handlers, NEW p \in Procs, Reply(p)
  PROVE  h' \in Handlers /\ h'[p] = Idle /\ Others(p)
  BY BecomeFacts, IdleType DEF Reply

LEMMA StartFacts ==
  ASSUME h \in Handlers, NEW p \in Procs, NEW o \in OpNames, NEW c \in Pcs,
         NEW u \in Users \cup {None}, NEW j \in Jtis \cup {None},
         Start(p, o, c, u, j)
  PROVE  /\ h' \in Handlers /\ Others(p)
         /\ h'[p].pc = c /\ h'[p].op = o /\ h'[p].sub = u
         /\ h'[p].tok = j /\ h'[p].new = None /\ h'[p].pw = None
         /\ h'[p].at = 0 /\ h'[p].todo = {} /\ h'[p].scan = {}
         /\ h'[p].cut = {}
<1> DEFINE r == [Idle EXCEPT !.pc = c, !.op = o, !.sub = u, !.tok = j]
<1>1. Idle \in HandlerType
  BY IdleType
<1>2. r \in HandlerType
  BY <1>1 DEF HandlerType
<1>3. /\ r.pc = c /\ r.op = o /\ r.sub = u
      /\ r.tok = j /\ r.new = None /\ r.pw = None
      /\ r.at = 0 /\ r.todo = {} /\ r.scan = {}
      /\ r.cut = {}
  BY DEF Idle
<1>4. Become(p, r)
  BY DEF Start
<1> HIDE DEF r
<1> QED
  BY <1>2, <1>3, <1>4, BecomeFacts

LEMMA GotoFacts ==
  ASSUME h \in Handlers, NEW p \in Procs, NEW c \in Pcs, Goto(p, c)
  PROVE  /\ h' \in Handlers /\ Others(p)
         /\ h'[p].pc = c /\ h'[p].op = h[p].op /\ h'[p].sub = h[p].sub
         /\ h'[p].tok = h[p].tok /\ h'[p].new = h[p].new /\ h'[p].pw = h[p].pw
         /\ h'[p].at = h[p].at /\ h'[p].todo = h[p].todo /\ h'[p].scan = h[p].scan
         /\ h'[p].cut = h[p].cut
<1> DEFINE r == [h[p] EXCEPT !.pc = c]
<1>1. h[p] \in HandlerType
  BY DEF Handlers
<1>2. r \in HandlerType
  BY <1>1 DEF HandlerType
<1>3. /\ r.pc = c /\ r.op = h[p].op /\ r.sub = h[p].sub
      /\ r.tok = h[p].tok /\ r.new = h[p].new /\ r.pw = h[p].pw
      /\ r.at = h[p].at /\ r.todo = h[p].todo /\ r.scan = h[p].scan
      /\ r.cut = h[p].cut
  BY <1>1 DEF HandlerType
<1>4. Become(p, r)
  BY DEF Goto
<1> HIDE DEF r
<1> QED
  BY <1>2, <1>3, <1>4, BecomeFacts

LEMMA DoneFacts ==
  ASSUME h \in Handlers, NEW p \in Procs, NEW x \in Calls, Done(p, x)
  PROVE  /\ h' \in Handlers /\ Others(p)
         /\ h'[p].pc = h[p].pc /\ h'[p].op = h[p].op /\ h'[p].sub = h[p].sub
         /\ h'[p].tok = h[p].tok /\ h'[p].new = h[p].new /\ h'[p].pw = h[p].pw
         /\ h'[p].at = h[p].at /\ h'[p].todo = h[p].todo \ {x} /\ h'[p].scan = h[p].scan
         /\ h'[p].cut = h[p].cut
<1> DEFINE r == [h[p] EXCEPT !.todo = @ \ {x}]
<1>1. h[p] \in HandlerType
  BY DEF Handlers
<1>2. r \in HandlerType
  BY <1>1 DEF HandlerType
<1>3. /\ r.pc = h[p].pc /\ r.op = h[p].op /\ r.sub = h[p].sub
      /\ r.tok = h[p].tok /\ r.new = h[p].new /\ r.pw = h[p].pw
      /\ r.at = h[p].at /\ r.todo = h[p].todo \ {x} /\ r.scan = h[p].scan
      /\ r.cut = h[p].cut
  BY <1>1 DEF HandlerType
<1>4. Become(p, r)
  BY DEF Done
<1> HIDE DEF r
<1> QED
  BY <1>2, <1>3, <1>4, BecomeFacts

\* For the step that sends the revocation of the old token.
LEMMA SendFacts ==
  ASSUME h \in Handlers, NEW p \in Procs, now \in Nat,
         Become(p, [h[p] EXCEPT !.pc = "revokeOld", !.at = now])
  PROVE  /\ h' \in Handlers /\ Others(p)
         /\ h'[p].pc = "revokeOld" /\ h'[p].op = h[p].op /\ h'[p].sub = h[p].sub
         /\ h'[p].tok = h[p].tok /\ h'[p].new = h[p].new /\ h'[p].pw = h[p].pw
         /\ h'[p].at = now /\ h'[p].todo = h[p].todo /\ h'[p].scan = h[p].scan
         /\ h'[p].cut = h[p].cut
<1> DEFINE r == [h[p] EXCEPT !.pc = "revokeOld", !.at = now]
<1>1. h[p] \in HandlerType
  BY DEF Handlers
<1>2. r \in HandlerType
  BY <1>1 DEF HandlerType, Pcs
<1>3. /\ r.pc = "revokeOld" /\ r.op = h[p].op /\ r.sub = h[p].sub
      /\ r.tok = h[p].tok /\ r.new = h[p].new /\ r.pw = h[p].pw
      /\ r.at = now /\ r.todo = h[p].todo /\ r.scan = h[p].scan
      /\ r.cut = h[p].cut
  BY <1>1 DEF HandlerType
<1> HIDE DEF r
<1> QED
  BY <1>2, <1>3, BecomeFacts DEF r

\* For the three steps of an updateMany.
LEMMA ScanFacts ==
  ASSUME h \in Handlers, NEW p \in Procs, NEW t \in SUBSET Calls,
         NEW s \in SUBSET Jtis, Await(p, t, s)
  PROVE  /\ h' \in Handlers /\ Others(p)
         /\ h'[p].pc = h[p].pc /\ h'[p].op = h[p].op /\ h'[p].sub = h[p].sub
         /\ h'[p].tok = h[p].tok /\ h'[p].new = h[p].new /\ h'[p].pw = h[p].pw
         /\ h'[p].at = h[p].at /\ h'[p].todo = t /\ h'[p].scan = s
         /\ h'[p].cut = h[p].cut
<1> DEFINE r == [h[p] EXCEPT !.todo = t, !.scan = s]
<1>1. h[p] \in HandlerType
  BY DEF Handlers
<1>2. r \in HandlerType
  BY <1>1 DEF HandlerType, Calls
<1>3. /\ r.pc = h[p].pc /\ r.op = h[p].op /\ r.sub = h[p].sub
      /\ r.tok = h[p].tok /\ r.new = h[p].new /\ r.pw = h[p].pw
      /\ r.at = h[p].at /\ r.todo = t /\ r.scan = s
      /\ r.cut = h[p].cut
  BY <1>1 DEF HandlerType
<1>4. Become(p, r)
  BY DEF Await
<1> HIDE DEF r
<1> QED
  BY <1>2, <1>3, <1>4, BecomeFacts

LEMMA SignFacts ==
  ASSUME h \in Handlers, NEW p \in Procs, NEW j \in Jtis,
         Become(p, [h[p] EXCEPT !.pc = "store", !.new = j, !.todo = {"doc", "key"}])
  PROVE  /\ h' \in Handlers /\ Others(p)
         /\ h'[p].pc = "store" /\ h'[p].op = h[p].op /\ h'[p].sub = h[p].sub
         /\ h'[p].tok = h[p].tok /\ h'[p].new = j /\ h'[p].pw = h[p].pw
         /\ h'[p].at = h[p].at /\ h'[p].todo = {"doc", "key"} /\ h'[p].scan = h[p].scan
         /\ h'[p].cut = h[p].cut
<1> DEFINE r == [h[p] EXCEPT !.pc = "store", !.new = j, !.todo = {"doc", "key"}]
<1>1. h[p] \in HandlerType
  BY DEF Handlers
<1>2. r \in HandlerType
  BY <1>1 DEF HandlerType, Pcs
<1>3. /\ r.pc = "store" /\ r.op = h[p].op /\ r.sub = h[p].sub
      /\ r.tok = h[p].tok /\ r.new = j /\ r.pw = h[p].pw
      /\ r.at = h[p].at /\ r.todo = {"doc", "key"} /\ r.scan = h[p].scan
      /\ r.cut = h[p].cut
  BY <1>1 DEF HandlerType
<1>4. Become(p, r)
  OBVIOUS
<1> HIDE DEF r
<1> QED
  BY <1>2, <1>3, <1>4, BecomeFacts

LEMMA WriteFacts ==
  ASSUME h \in Handlers, NEW p \in Procs, now \in Nat, NEW w \in Passwords,
         Become(p, [h[p] EXCEPT !.pc = "write", !.pw = w, !.at = now])
  PROVE  /\ h' \in Handlers /\ Others(p)
         /\ h'[p].pc = "write" /\ h'[p].op = h[p].op /\ h'[p].sub = h[p].sub
         /\ h'[p].tok = h[p].tok /\ h'[p].new = h[p].new /\ h'[p].pw = w
         /\ h'[p].at = now /\ h'[p].todo = h[p].todo /\ h'[p].scan = h[p].scan
         /\ h'[p].cut = h[p].cut
<1> DEFINE r == [h[p] EXCEPT !.pc = "write", !.pw = w, !.at = now]
<1>1. h[p] \in HandlerType
  BY DEF Handlers
<1>2. r \in HandlerType
  BY <1>1 DEF HandlerType, Pcs
<1>3. /\ r.pc = "write" /\ r.op = h[p].op /\ r.sub = h[p].sub
      /\ r.tok = h[p].tok /\ r.new = h[p].new /\ r.pw = w
      /\ r.at = now /\ r.todo = h[p].todo /\ r.scan = h[p].scan
      /\ r.cut = h[p].cut
  BY <1>1 DEF HandlerType
<1>4. Become(p, r)
  OBVIOUS
<1> HIDE DEF r
<1> QED
  BY <1>2, <1>3, <1>4, BecomeFacts

LEMMA EndFacts ==
  ASSUME h \in Handlers, NEW p \in Procs, now \in Nat, NEW o \in OpNames,
         NEW t \in SUBSET Calls, EndSessions(p, o, t)
  PROVE  /\ h' \in Handlers /\ Others(p)
         /\ h'[p].pc = "settle" /\ h'[p].op = o /\ h'[p].sub = h[p].sub
         /\ h'[p].tok = h[p].tok /\ h'[p].new = h[p].new /\ h'[p].pw = h[p].pw
         /\ h'[p].at = now /\ h'[p].todo = t /\ h'[p].scan = h[p].scan
         /\ h'[p].cut = LiveOf(h[p].sub)
<1> DEFINE r == [h[p] EXCEPT !.pc = "settle", !.op = o, !.at = now,
                                !.todo = t, !.cut = LiveOf(h[p].sub)]
<1>1. h[p] \in HandlerType
  BY DEF Handlers
<1>2. r \in HandlerType
  BY <1>1 DEF HandlerType, Pcs, Calls, LiveOf
<1>3. /\ r.pc = "settle" /\ r.op = o /\ r.sub = h[p].sub
      /\ r.tok = h[p].tok /\ r.new = h[p].new /\ r.pw = h[p].pw
      /\ r.at = now /\ r.todo = t /\ r.scan = h[p].scan
      /\ r.cut = LiveOf(h[p].sub)
  BY <1>1 DEF HandlerType
<1>4. Become(p, r)
  BY DEF EndSessions
<1> HIDE DEF r
<1> QED
  BY <1>2, <1>3, <1>4, BecomeFacts

-----------------------------------------------------------------------------
(* Documents only age: most steps add none and bring none back *)

Aged ==
  \A j \in Jtis : /\ Known(j)' <=> Known(j)
                  /\ Over(j) => Over(j)'
                  /\ Live(j)' => Live(j)

LEMMA SameDocsAged ==
  ASSUME UNCHANGED doc
  PROVE  Aged
  BY DEF Aged, Known, Over, Live

LEMMA AgedHandler ==
  ASSUME NEW r \in HandlerType, HandlerOk(r), Aged, UNCHANGED pair
  PROVE  HandlerOk(r)'
<1>1. r.tok \in Jtis \cup {None} /\ r.cut \in SUBSET Jtis
  BY DEF HandlerType
<1> QED
  BY <1>1 DEF HandlerOk, Aged

LEMMA AgedPair ==
  ASSUME TypeOK, Aged, UNCHANGED pair, NEW j \in Jtis, PairOk(j),
         j \in held' => Known(j)', j \in dead' => Over(j)'
  PROVE  PairOk(j)'
<1>1. pair[j].parent \in Jtis \cup {None}
  BY DEF TypeOK
<1> QED
  BY <1>1 DEF PairOk, Aged, Issued

\* One handler moves, the documents age, no pair is signed.
LEMMA HandlerMoves ==
  ASSUME SessionInv, NEW p \in Procs, TypeOK', Others(p), Aged, UNCHANGED pair,
         HandlerOk(h[p])',
         "doc" \in h'[p].todo => "doc" \in h[p].todo /\ h'[p].new = h[p].new,
         \A j \in held' : Known(j)', \A j \in dead' : Over(j)'
  PROVE  SessionInv'
<1>1. ASSUME NEW q \in Procs PROVE HandlerOk(h[q])'
  <2>1. CASE q = p
    BY <2>1
  <2>2. CASE q # p
    <3>1. h'[q] = h[q] /\ h[q] \in HandlerType /\ HandlerOk(h[q])
      BY <2>2 DEF Others, SessionInv, TypeOK
    <3>2. ASSUME NEW r \in HandlerType, HandlerOk(r) PROVE HandlerOk(r)'
      BY <3>2, AgedHandler
    <3> QED
      BY <3>1, <3>2
  <2> QED
    BY <2>1, <2>2
<1>2. NewApart'
  BY DEF SessionInv, NewApart, Others
<1>3. ASSUME NEW j \in Jtis PROVE PairOk(j)'
  BY AgedPair DEF SessionInv
<1> QED
  BY <1>1, <1>2, <1>3 DEF SessionInv

\* The documents age and nothing else that the invariant relates changes.
LEMMA DocsMove ==
  ASSUME SessionInv, TypeOK', Aged, UNCHANGED <<pair, h, held, dead>>
  PROVE  SessionInv'
<1>1. ASSUME NEW q \in Procs PROVE HandlerOk(h[q])'
  <2>1. h[q] \in HandlerType /\ HandlerOk(h[q])
    BY DEF SessionInv, TypeOK
  <2>2. ASSUME NEW r \in HandlerType, HandlerOk(r) PROVE HandlerOk(r)'
    BY <2>2, AgedHandler
  <2> QED
    BY <2>1, <2>2
<1>2. NewApart'
  BY DEF SessionInv, NewApart
<1>3. ASSUME NEW j \in Jtis PROVE PairOk(j)'
  <2>1. PairOk(j) /\ TypeOK
    BY DEF SessionInv
  <2>2. (j \in held' => Known(j)') /\ (j \in dead' => Over(j)')
    BY <2>1 DEF PairOk, Aged
  <2> QED
    BY <2>1, <2>2, AgedPair
<1> QED
  BY <1>1, <1>2, <1>3 DEF SessionInv

-----------------------------------------------------------------------------
(* The steps that change nothing but their own handler *)

AllButHandlers == <<now, user, pair, doc, block, held, dead, refused>>

LEMMA HandlerOnly ==
  ASSUME SessionInv, NEW p \in Procs, UNCHANGED AllButHandlers,
         h' \in Handlers, Others(p), HandlerOk(h[p])',
         "doc" \in h'[p].todo => "doc" \in h[p].todo /\ h'[p].new = h[p].new
  PROVE  SessionInv'
<1>1. TypeOK' /\ UNCHANGED <<pair, doc, held, dead>>
  BY DEF AllButHandlers, SessionInv, TypeOK, Handlers
<1>2. Aged
  BY <1>1, SameDocsAged
<1>3. (\A j \in held' : Known(j)') /\ (\A j \in dead' : Over(j)')
  BY <1>1, <1>2 DEF SessionInv, TypeOK, PairOk, Aged
<1> QED
  BY <1>1, <1>2, <1>3, HandlerMoves

LEMMA SessionInvFacts ==
  ASSUME SessionInv, NEW p \in Procs
  PROVE  h \in Handlers /\ h[p] \in HandlerType /\ HandlerOk(h[p]) /\ now \in Nat
  BY DEF SessionInv, TypeOK, Handlers

\* HandlerOk of the new record follows from HandlerOk of the old one, field by
\* field, when the collections are the same.
LEMMA ReplyInv ==
  ASSUME SessionInv, NEW p \in Procs, UNCHANGED AllButHandlers, Reply(p)
  PROVE  SessionInv'
<1>1. h' \in Handlers /\ h'[p] = Idle /\ Others(p)
  BY SessionInvFacts, ReplyFacts
<1>2. HandlerOk(h[p])' /\ "doc" \notin h'[p].todo
  BY <1>1 DEF HandlerOk, Idle
<1> QED
  BY <1>1, <1>2, HandlerOnly

LEMMA StartInv ==
  ASSUME SessionInv, NEW p \in Procs, UNCHANGED AllButHandlers,
         NEW o \in OpNames, NEW u \in Users,
         \/ Start(p, o, "sign", u, None)
         \/ \E j \in held, c \in {"find", "blocklist"} :
              pair[j].sub = u /\ Start(p, o, c, u, j)
  PROVE  SessionInv'
<1>1. h \in Handlers
  BY SessionInvFacts
<1>2. CASE Start(p, o, "sign", u, None)
  <2>1. h' \in Handlers /\ Others(p) /\ h'[p].pc = "sign" /\ h'[p].sub = u
        /\ h'[p].tok = None /\ h'[p].todo = {} /\ h'[p].cut = {}
    BY <1>1, <1>2, StartFacts DEF Pcs
  <2>2. HandlerOk(h[p])' /\ "doc" \notin h'[p].todo
    BY <2>1 DEF HandlerOk
  <2> QED
    BY <2>1, <2>2, HandlerOnly
<1>3. ASSUME NEW j \in held, NEW c \in {"find", "blocklist"},
             pair[j].sub = u, Start(p, o, c, u, j)
      PROVE  SessionInv'
  <2>1. j \in Jtis /\ Known(j) /\ j # None
    BY NoneIsFresh DEF SessionInv, TypeOK, PairOk
  <2>2. h' \in Handlers /\ Others(p) /\ h'[p].pc = c /\ h'[p].sub = u
        /\ h'[p].tok = j /\ h'[p].todo = {} /\ h'[p].cut = {}
    BY <1>1, <1>3, <2>1, StartFacts DEF Pcs
  <2>3. HandlerOk(h[p])' /\ "doc" \notin h'[p].todo
    BY <1>3, <2>1, <2>2 DEF HandlerOk, AllButHandlers, Known
  <2> QED
    BY <2>2, <2>3, HandlerOnly
<1> QED
  BY <1>2, <1>3

LEMMA GotoInv ==
  ASSUME SessionInv, NEW p \in Procs, UNCHANGED AllButHandlers,
         \/ h[p].pc = "find" /\ Goto(p, "user")
         \/ h[p].pc = "blocklist" /\ Goto(p, "principal")
         \/ /\ h[p].pc = "principal"
            /\ Goto(p, "served") \/ Goto(p, "read") \/ Goto(p, "connected")
  PROVE  SessionInv'
<1>1. PICK c \in {"user", "principal", "served", "read", "connected"} :
        Goto(p, c) /\ h[p].pc \in {"find", "blocklist", "principal"}
  OBVIOUS
<1>2. /\ h' \in Handlers /\ Others(p) /\ h'[p].pc = c
      /\ h'[p].sub = h[p].sub /\ h'[p].tok = h[p].tok /\ h'[p].new = h[p].new
      /\ h'[p].todo = h[p].todo /\ h'[p].cut = h[p].cut /\ h'[p].scan = h[p].scan
  BY <1>1, GotoFacts, SessionInvFacts DEF Pcs
<1>3. HandlerOk(h[p])'
  BY <1>1, <1>2, SessionInvFacts DEF HandlerOk, AllButHandlers, Known, Over, Live
<1> QED
  BY <1>2, <1>3, HandlerOnly

LEMMA SendInv ==
  ASSUME SessionInv, NEW p \in Procs, UNCHANGED AllButHandlers, h[p].pc = "user",
         Become(p, [h[p] EXCEPT !.pc = "revokeOld", !.at = now])
  PROVE  SessionInv'
<1>1. now \in Nat
  BY DEF SessionInv, TypeOK
<1>2. /\ h' \in Handlers /\ Others(p) /\ h'[p].pc = "revokeOld"
      /\ h'[p].sub = h[p].sub /\ h'[p].tok = h[p].tok /\ h'[p].new = h[p].new
      /\ h'[p].todo = h[p].todo /\ h'[p].cut = h[p].cut /\ h'[p].scan = h[p].scan
  BY <1>1, SendFacts, SessionInvFacts
<1>3. HandlerOk(h[p])'
  BY <1>2, SessionInvFacts DEF HandlerOk, AllButHandlers, Known, Over, Live
<1>4. "doc" \in h'[p].todo => "doc" \in h[p].todo /\ h'[p].new = h[p].new
  BY <1>2
<1> QED
  BY <1>2, <1>3, <1>4, HandlerOnly

LEMMA DoneInv ==
  ASSUME SessionInv, NEW p \in Procs, UNCHANGED AllButHandlers,
         NEW x \in {"key", "keys"}, Done(p, x)
  PROVE  SessionInv'
<1>1. /\ h' \in Handlers /\ Others(p) /\ h'[p].pc = h[p].pc /\ h'[p].pw = h[p].pw
      /\ h'[p].sub = h[p].sub /\ h'[p].tok = h[p].tok /\ h'[p].new = h[p].new
      /\ h'[p].todo = h[p].todo \ {x} /\ h'[p].cut = h[p].cut
      /\ h'[p].scan = h[p].scan
  BY DoneFacts, SessionInvFacts DEF Calls
<1>2. HandlerOk(h[p])'
  BY <1>1, SessionInvFacts DEF HandlerOk, AllButHandlers, Known, Over, Live
<1> QED
  BY <1>1, <1>2, HandlerOnly

\* A handler that sends its revocations cuts exactly the live sessions.
LEMMA EndOk ==
  ASSUME SessionInv, NEW p \in Procs, NEW o \in OpNames,
         NEW t \in SUBSET {"keys", "docs", "block"}, UNCHANGED <<pair, doc>>,
         h[p].pc # "idle", EndSessions(p, o, t), "block" \in t => h[p].tok # None
  PROVE  h' \in Handlers /\ Others(p) /\ HandlerOk(h[p])' /\ "doc" \notin h'[p].todo
<1>1. /\ h' \in Handlers /\ Others(p) /\ h'[p].pc = "settle" /\ h'[p].todo = t
      /\ h'[p].sub = h[p].sub /\ h'[p].tok = h[p].tok
      /\ h'[p].cut = LiveOf(h[p].sub)
  BY EndFacts, SessionInvFacts DEF Calls
<1>2. \A j \in LiveOf(h[p].sub) : Known(j) /\ pair[j].sub = h[p].sub
  BY DEF LiveOf, Known, Live
<1> QED
  BY <1>1, <1>2, SessionInvFacts DEF HandlerOk, Known

LEMMA EndInv ==
  ASSUME SessionInv, NEW p \in Procs, NEW o \in OpNames,
         NEW t \in SUBSET {"keys", "docs", "block"}, UNCHANGED AllButHandlers,
         h[p].pc \in {"find", "principal"}, EndSessions(p, o, t)
  PROVE  SessionInv'
<1>1. h[p].tok # None
  BY SessionInvFacts DEF HandlerOk
<1> QED
  BY <1>1, EndOk, HandlerOnly DEF AllButHandlers

-----------------------------------------------------------------------------
(* The other steps, one lemma each *)

LEMMA WriteStarts ==
  ASSUME SessionInv, NEW p \in Procs, NEW w \in Passwords,
         \/ ReadPassword(p, w)
         \/ \E u \in Users : ResetPassword(p, u, w)
  PROVE  SessionInv'
<1>1. h \in Handlers /\ now \in Nat /\ HandlerOk(h[p])
  BY SessionInvFacts
<1>2. CASE ReadPassword(p, w)
  <2>1. /\ h' \in Handlers /\ Others(p) /\ h'[p].pc = "write" /\ h'[p].pw = w
        /\ h'[p].sub = h[p].sub /\ h'[p].tok = h[p].tok /\ h[p].pc = "read"
        /\ h'[p].todo = h[p].todo /\ h'[p].cut = h[p].cut
        /\ h'[p].scan = h[p].scan /\ h'[p].new = h[p].new
    BY <1>1, <1>2, WriteFacts DEF ReadPassword
  <2>2. UNCHANGED AllButHandlers
    BY <1>2 DEF ReadPassword, AllButHandlers
  <2>3. HandlerOk(h[p])'
    BY <1>1, <2>1, <2>2 DEF HandlerOk, AllButHandlers, Known, Over, Live
  <2> QED
    BY <2>1, <2>2, <2>3, HandlerOnly
<1>3. ASSUME NEW u \in Users, ResetPassword(p, u, w) PROVE SessionInv'
  <2> DEFINE r == [Idle EXCEPT !.pc = "write", !.op = "resetPassword",
                               !.sub = u, !.pw = w, !.at = now]
  <2>1. r \in HandlerType
    BY <1>1, IdleType DEF HandlerType, Pcs, OpNames
  <2>2. r.pc = "write" /\ r.sub = u /\ r.pw = w /\ r.tok = None /\ r.todo = {}
        /\ r.cut = {}
    BY DEF Idle
  <2>3. Become(p, r) /\ UNCHANGED AllButHandlers
    BY <1>3 DEF ResetPassword, AllButHandlers
  <2> HIDE DEF r
  <2>4. h' \in Handlers /\ Others(p) /\ h'[p] = r
    BY <1>1, <2>1, <2>3, BecomeFacts
  <2>5. HandlerOk(h[p])' /\ "doc" \notin h'[p].todo
    BY <2>2, <2>4 DEF HandlerOk
  <2> QED
    BY <2>3, <2>4, <2>5, HandlerOnly
<1> QED
  BY <1>2, <1>3

LEMMA WritePasswordInv ==
  ASSUME SessionInv, NEW p \in Procs, NEW t \in 1 .. now, WritePassword(p, t)
  PROVE  SessionInv'
<1>1. /\ h \in Handlers /\ h[p] \in HandlerType /\ HandlerOk(h[p]) /\ now \in Nat
      /\ h[p].pc = "write"
  BY SessionInvFacts DEF WritePassword
<1>2. CASE user[h[p].sub].status = "deleted"
  BY <1>2, ReplyInv DEF WritePassword, AllButHandlers
<1>3. CASE user[h[p].sub].status # "deleted"
  <2>1. h[p].sub \in Users /\ h[p].pw \in Passwords /\ h[p].op \in OpNames
    BY <1>1 DEF HandlerOk, HandlerType
  <2>2. /\ EndSessions(p, h[p].op, {"keys"})
        /\ UNCHANGED <<now, pair, doc, block, held, dead, refused>>
        /\ user' = [user EXCEPT ![h[p].sub].password = h[p].pw,
                                ![h[p].sub].changedAt = t]
    BY <1>3 DEF WritePassword
  <2>3. h' \in Handlers /\ Others(p) /\ HandlerOk(h[p])' /\ "doc" \notin h'[p].todo
    BY <1>1, <2>1, <2>2, EndOk
  <2>4. user' \in [Users -> [status : {"active", "inactive", "deleted"},
                             verified : BOOLEAN, password : Passwords,
                             changedAt : Nat]]
    BY <2>1, <2>2 DEF SessionInv, TypeOK
  <2>5. TypeOK'
    BY <2>2, <2>3, <2>4 DEF SessionInv, TypeOK, Handlers
  <2>6. Aged
    BY <2>2, SameDocsAged
  <2>7. (\A j \in held' : Known(j)') /\ (\A j \in dead' : Over(j)')
    BY <2>2, <2>6 DEF SessionInv, TypeOK, PairOk, Aged
  <2> QED
    BY <2>2, <2>3, <2>5, <2>6, <2>7, HandlerMoves
<1> QED
  BY <1>2, <1>3

DocTypes == [Jtis -> [st : {"unissued", "live", "revoked", "deleted"},
                      exp : Nat, upd : Nat]]

\* Revoking or removing a stored document ages it.
LEMMA RevokeFacts ==
  ASSUME doc \in DocTypes, NEW t \in Nat, NEW j \in Jtis, Known(j),
         doc' = [doc EXCEPT ![j].st = "revoked", ![j].upd = t]
  PROVE  doc' \in DocTypes /\ Aged /\ Over(j)'
<1>1. [doc[j] EXCEPT !.st = "revoked", !.upd = t]
        \in [st : {"unissued", "live", "revoked", "deleted"}, exp : Nat, upd : Nat]
  BY DEF DocTypes
<1>2. doc' = [doc EXCEPT ![j] = [doc[j] EXCEPT !.st = "revoked", !.upd = t]]
  BY DEF DocTypes
<1>3. doc' \in DocTypes
  BY <1>1, <1>2 DEF DocTypes
<1>4. doc'[j].st = "revoked" /\ \A i \in Jtis \ {j} : doc'[i] = doc[i]
  BY DEF DocTypes
<1> QED
  BY <1>3, <1>4 DEF Aged, Known, Over, Live

LEMMA RemoveFacts ==
  ASSUME doc \in DocTypes, NEW j \in Jtis, Stored(j), Remove(j)
  PROVE  doc' \in DocTypes /\ Aged
<1>1. doc' \in DocTypes
  BY DEF DocTypes, Remove
<1>2. doc'[j].st = "deleted" /\ \A i \in Jtis \ {j} : doc'[i] = doc[i]
  BY DEF DocTypes, Remove
<1> QED
  BY <1>1, <1>2 DEF Aged, Known, Over, Live, Stored

LEMMA RevokeRefreshTokenInv ==
  ASSUME SessionInv, NEW p \in Procs, RevokeRefreshToken(p)
  PROVE  SessionInv'
<1>1. /\ h \in Handlers /\ h[p] \in HandlerType /\ HandlerOk(h[p]) /\ now \in Nat
      /\ h[p].pc = "revokeOld"
  BY SessionInvFacts DEF RevokeRefreshToken
<1>2. PICK j \in Jtis : j = h[p].tok /\ j # None
  BY <1>1 DEF HandlerOk, HandlerType
<1>3. Known(j) /\ pair[j].sub = h[p].sub /\ doc \in DocTypes
  BY <1>1, <1>2 DEF HandlerOk, SessionInv, TypeOK, DocTypes
<1>4. doc' \in DocTypes /\ Aged /\ Over(j)'
  <2>1. CASE doc[j].st \in {"live", "revoked"}
    <3>1. h[p].at \in Nat
      BY <1>1 DEF HandlerType
    <3> QED
      BY <1>2, <1>3, <2>1, <3>1, RevokeFacts DEF RevokeRefreshToken
  <2>2. CASE doc[j].st \notin {"live", "revoked"}
    <3>1. UNCHANGED doc
      BY <1>2, <2>2 DEF RevokeRefreshToken
    <3>2. Over(j)
      BY <1>3, <2>2 DEF DocTypes, Known, Over
    <3> QED
      BY <1>3, <3>1, <3>2, SameDocsAged DEF Over
  <2> QED
    BY <2>1, <2>2
<1>5. /\ h' \in Handlers /\ Others(p) /\ h'[p].pc = "sign"
      /\ h'[p].sub = h[p].sub /\ h'[p].tok = j /\ h'[p].new = h[p].new
      /\ h'[p].todo = h[p].todo /\ h'[p].cut = h[p].cut /\ h'[p].scan = h[p].scan
  BY <1>1, <1>2, GotoFacts DEF RevokeRefreshToken, Pcs
<1>6. UNCHANGED <<now, user, pair, block, held, dead, refused>>
  BY DEF RevokeRefreshToken
<1>7. HandlerOk(h[p])'
  <2>1. h[p].cut \in SUBSET Jtis
    BY <1>1 DEF HandlerType
  <2> QED
    BY <1>1, <1>2, <1>3, <1>4, <1>5, <1>6, <2>1 DEF HandlerOk, Aged
<1>8. TypeOK'
  BY <1>4, <1>5, <1>6 DEF SessionInv, TypeOK, Handlers, DocTypes
<1>9. (\A i \in held' : Known(i)') /\ (\A i \in dead' : Over(i)')
  BY <1>4, <1>6 DEF SessionInv, TypeOK, PairOk, Aged
<1>10. "doc" \in h'[p].todo => "doc" \in h[p].todo /\ h'[p].new = h[p].new
  BY <1>5
<1> QED
  BY <1>4, <1>5, <1>6, <1>7, <1>8, <1>9, <1>10, HandlerMoves

LEMMA RevokeOneInv ==
  ASSUME SessionInv, NEW p \in Procs, NEW j \in Jtis, RevokeOne(p, j)
  PROVE  SessionInv'
<1>1. doc \in DocTypes /\ h[p].at \in Nat /\ Known(j)
  BY SessionInvFacts
  DEF SessionInv, TypeOK, DocTypes, HandlerType, RevokeOne, LiveOf, Live, Known
<1>2. doc' = [doc EXCEPT ![j].st = "revoked", ![j].upd = h[p].at]
      /\ UNCHANGED <<now, user, pair, block, h, held, dead, refused>>
  BY DEF RevokeOne
<1>3. doc' \in DocTypes /\ Aged
  BY <1>1, <1>2, RevokeFacts
<1>4. TypeOK'
  BY <1>2, <1>3 DEF SessionInv, TypeOK, DocTypes
<1> QED
  BY <1>2, <1>3, <1>4, DocsMove

LEMMA RemoveInv ==
  ASSUME SessionInv, NEW j \in Jtis, TtlMonitor(j) \/ CleanupExpiredTokens(j)
  PROVE  SessionInv'
<1>1. Stored(j) /\ Remove(j) /\ doc \in DocTypes
      /\ UNCHANGED <<now, user, pair, block, h, held, dead, refused>>
  BY DEF TtlMonitor, CleanupExpiredTokens, SessionInv, TypeOK, DocTypes
<1>2. doc' \in DocTypes /\ Aged
  BY <1>1, RemoveFacts
<1>3. TypeOK'
  BY <1>1, <1>2 DEF SessionInv, TypeOK, DocTypes
<1> QED
  BY <1>1, <1>2, <1>3, DocsMove

UserType == [status : {"active", "inactive", "deleted"}, verified : BOOLEAN,
             password : Passwords, changedAt : Nat]

\* The clock and the administrators.
LEMMA ElsewhereInv ==
  ASSUME SessionInv,
         \/ Tick
         \/ \E u \in Users : DeactivateUser(u) \/ DeleteUser(u) \/ VerifyEmail(u)
  PROVE  SessionInv'
<1>1. UNCHANGED <<pair, doc, block, h, held, dead, refused>>
  BY DEF Tick, DeactivateUser, DeleteUser, VerifyEmail
<1>2. now' \in Nat \ {0}
  BY DEF Tick, DeactivateUser, DeleteUser, VerifyEmail, SessionInv, TypeOK
<1>3. user' \in [Users -> [status : {"active", "inactive", "deleted"},
                           verified : BOOLEAN, password : Passwords,
                           changedAt : Nat]]
  <2>1. CASE Tick
    BY <2>1 DEF Tick, SessionInv, TypeOK
  <2>2. ASSUME NEW u \in Users, NEW r \in UserType, user' = [user EXCEPT ![u] = r]
        PROVE  user' \in [Users -> UserType]
    BY <2>2 DEF SessionInv, TypeOK, UserType
  <2>3. ASSUME NEW u \in Users, DeactivateUser(u) \/ DeleteUser(u)
        PROVE  user' \in [Users -> UserType]
    <3>1. PICK s \in {"inactive", "deleted"} :
            user' = [user EXCEPT ![u] = [user[u] EXCEPT !.status = s]]
      BY <2>3 DEF DeactivateUser, DeleteUser
    <3>2. [user[u] EXCEPT !.status = s] \in UserType
      BY DEF SessionInv, TypeOK, UserType
    <3> QED
      BY <2>2, <3>1, <3>2
  <2>4. ASSUME NEW u \in Users, VerifyEmail(u)
        PROVE  user' \in [Users -> UserType]
    <3>1. user' = [user EXCEPT ![u] = [user[u] EXCEPT !.verified = TRUE]]
      BY <2>4 DEF VerifyEmail
    <3>2. [user[u] EXCEPT !.verified = TRUE] \in UserType
      BY DEF SessionInv, TypeOK, UserType
    <3> QED
      BY <2>2, <3>1, <3>2
  <2> QED
    BY <2>1, <2>3, <2>4 DEF UserType
<1>4. TypeOK'
  BY <1>1, <1>2, <1>3 DEF SessionInv, TypeOK
<1> QED
  BY <1>1, <1>4, SameDocsAged, DocsMove

\* A fresh pair has no document, so no handler and no history knows of it.
LEMMA SignInv ==
  ASSUME SessionInv, NEW p \in Procs, NEW j \in Jtis, Sign(p, j)
  PROVE  SessionInv'
<1>1. /\ h \in Handlers /\ h[p] \in HandlerType /\ HandlerOk(h[p]) /\ now \in Nat
      /\ h[p].pc = "sign" /\ ~Issued(j)
  BY SessionInvFacts DEF Sign
<1>2. h[p].sub \in Users /\ h[p].sub # None
  BY <1>1, NoneIsFresh DEF HandlerOk
<1>3. /\ h' \in Handlers /\ Others(p) /\ h'[p].pc = "store" /\ h'[p].new = j
      /\ h'[p].sub = h[p].sub /\ h'[p].tok = h[p].tok /\ h'[p].cut = h[p].cut
      /\ h'[p].todo = {"doc", "key"}
  BY <1>1, SignFacts DEF Sign
<1>4. /\ pair' = [pair EXCEPT ![j] = [sub |-> h[p].sub, at |-> now,
                                      parent |-> h[p].tok]]
      /\ UNCHANGED <<now, user, doc, block, held, dead, refused>>
  BY DEF Sign
<1>5. ~Known(j)
  BY <1>1 DEF SessionInv, PairOk
<1>6. pair \in [Jtis -> [sub : Users \cup {None}, at : Nat, parent : Jtis \cup {None}]]
  BY DEF SessionInv, TypeOK
<1>7. [sub |-> h[p].sub, at |-> now, parent |-> h[p].tok]
        \in [sub : Users \cup {None}, at : Nat, parent : Jtis \cup {None}]
  BY <1>1, <1>2 DEF HandlerType
<1>8. /\ pair' \in [Jtis -> [sub : Users \cup {None}, at : Nat, parent : Jtis \cup {None}]]
      /\ pair'[j].sub = h[p].sub /\ pair'[j].parent = h[p].tok
      /\ \A i \in Jtis \ {j} : pair'[i] = pair[i]
  BY <1>4, <1>6, <1>7
<1>9. TypeOK'
  BY <1>3, <1>4, <1>8 DEF SessionInv, TypeOK, Handlers
<1>10. ASSUME NEW q \in Procs PROVE HandlerOk(h[q])'
  <2>1. CASE q = p
    <3>1. h[p].tok # None => h[p].tok \in Jtis /\ h[p].tok # j
      BY <1>1, <1>5 DEF HandlerType, HandlerOk
    <3>2. \A i \in h[p].cut : i \in Jtis /\ i # j
      BY <1>1, <1>5 DEF HandlerType, HandlerOk
    <3> QED
      BY <1>1, <1>2, <1>3, <1>4, <1>5, <1>8, <2>1, <3>1, <3>2
      DEF HandlerOk, Known, Over, Live
  <2>2. CASE q # p
    <3>1. h'[q] = h[q] /\ h[q] \in HandlerType /\ HandlerOk(h[q])
      BY <1>3, <2>2, SessionInvFacts DEF Others
    <3>2. h[q].tok # None => h[q].tok \in Jtis /\ h[q].tok # j
      BY <1>5, <3>1 DEF HandlerType, HandlerOk
    <3>3. \A i \in h[q].cut : i \in Jtis /\ i # j
      BY <1>5, <3>1 DEF HandlerType, HandlerOk
    <3>4. h[q].pc = "store" => h[q].new \in Jtis /\ h[q].new # j
      <4>1. h[q].pc = "store" => h[q].new \in Jtis /\ pair[h[q].new].sub \in Users
        BY <3>1 DEF HandlerOk
      <4> QED
        BY <1>1, <4>1, NoneIsFresh DEF Issued
    <3> QED
      BY <1>4, <1>8, <3>1, <3>2, <3>3, <3>4 DEF HandlerOk, Known, Over, Live
  <2> QED
    BY <2>1, <2>2
<1>11. NewApart'
  <2>1. ASSUME NEW q \in Procs, q # p, "doc" \in h[q].todo
        PROVE  h[q].new # j
    <3>1. h[q].pc = "store" /\ pair[h[q].new].sub \in Users
      BY <2>1, SessionInvFacts DEF HandlerOk
    <3> QED
      BY <1>1, <3>1, NoneIsFresh DEF Issued
  <2> QED
    BY <1>3, <2>1 DEF SessionInv, NewApart, Others
<1>12. ASSUME NEW i \in Jtis PROVE PairOk(i)'
  <2>1. CASE i = j
    <3>1. h[p].tok # None => h[p].tok \in Jtis /\ h[p].tok # j /\ Over(h[p].tok)
                            /\ pair[h[p].tok].sub = h[p].sub
      BY <1>1, <1>5 DEF HandlerType, HandlerOk
    <3>2. i \notin held /\ i \notin dead
      BY <1>5, <2>1 DEF SessionInv, PairOk, Known, Over
    <3> QED
      BY <1>2, <1>4, <1>5, <1>8, <2>1, <3>1, <3>2 DEF PairOk, Known, Over, Issued
  <2>2. CASE i # j
    <3>1. PairOk(i) /\ pair'[i] = pair[i] /\ pair[i].parent \in Jtis \cup {None}
      BY <1>6, <1>8, <2>2 DEF SessionInv
    <3>2. pair[i].parent # None => pair[i].parent # j
      BY <1>5, <3>1 DEF PairOk, Over, Known
    <3> QED
      BY <1>4, <1>8, <3>1, <3>2 DEF PairOk, Known, Over, Issued
  <2> QED
    BY <2>1, <2>2
<1> QED
  BY <1>9, <1>10, <1>11, <1>12 DEF SessionInv

\* The document that is inserted is the one no other handler is storing.
LEMMA SaveRefreshTokenInv ==
  ASSUME SessionInv, NEW p \in Procs, NEW t \in 1 .. now, SaveRefreshToken(p, t)
  PROVE  SessionInv'
<1>1. /\ h \in Handlers /\ h[p] \in HandlerType /\ HandlerOk(h[p]) /\ now \in Nat
      /\ h[p].pc = "store" /\ "doc" \in h[p].todo
  BY SessionInvFacts DEF SaveRefreshToken
<1>2. PICK j \in Jtis : j = h[p].new
  BY <1>1 DEF HandlerOk
<1>3. ~Known(j) /\ pair[j].sub = h[p].sub /\ h[p].sub \in Users /\ Issued(j)
  BY <1>1, <1>2, NoneIsFresh DEF HandlerOk, Issued
<1>4. /\ h' \in Handlers /\ Others(p) /\ h'[p].pc = "store" /\ h'[p].new = j
      /\ h'[p].sub = h[p].sub /\ h'[p].tok = h[p].tok /\ h'[p].cut = h[p].cut
      /\ h'[p].todo = h[p].todo \ {"doc"} /\ h'[p].scan = h[p].scan
  BY <1>1, <1>2, DoneFacts DEF SaveRefreshToken, Calls
<1>5. /\ doc' = [doc EXCEPT ![j] = [st |-> "live", exp |-> t + Ticks(DocLife),
                                    upd |-> t]]
      /\ UNCHANGED <<now, user, pair, block, held, dead, refused>>
  BY <1>2 DEF SaveRefreshToken
<1>6. doc \in DocTypes
  BY DEF SessionInv, TypeOK, DocTypes
<1>7. t + Ticks(DocLife) \in Nat
  BY <1>1, ClockAssumption DEF Ticks
<1>8. /\ doc' \in DocTypes /\ doc'[j].st = "live"
      /\ \A i \in Jtis \ {j} : doc'[i] = doc[i]
  BY <1>1, <1>5, <1>6, <1>7 DEF DocTypes
<1>9. TypeOK'
  BY <1>4, <1>5, <1>8 DEF SessionInv, TypeOK, Handlers, DocTypes
<1>10. ASSUME NEW q \in Procs PROVE HandlerOk(h[q])'
  <2>1. /\ h[q].tok # None => h[q].tok \in Jtis /\ h[q].tok # j
        /\ \A i \in h[q].cut : i \in Jtis /\ i # j
    BY <1>3, SessionInvFacts DEF HandlerType, HandlerOk
  <2>2. CASE q = p
    BY <1>1, <1>2, <1>4, <1>5, <1>8, <2>1, <2>2 DEF HandlerOk, Known, Over, Live
  <2>3. CASE q # p
    <3>1. h'[q] = h[q] /\ HandlerOk(h[q])
      BY <1>4, <2>3, SessionInvFacts DEF Others
    <3>2. h[q].pc = "store" => h[q].new # j
      <4>1. SUFFICES ASSUME h[q].pc = "store", h[q].new = j PROVE FALSE
        OBVIOUS
      <4>2. "doc" \in h[q].todo
        BY <1>3, <3>1, <4>1 DEF HandlerOk
      <4> QED
        BY <1>1, <1>2, <2>3, <4>1, <4>2 DEF SessionInv, NewApart
    <3> QED
      BY <1>5, <1>8, <2>1, <3>1, <3>2 DEF HandlerOk, Known, Over, Live
  <2> QED
    BY <2>2, <2>3
<1>11. NewApart'
  BY <1>2, <1>4 DEF SessionInv, NewApart, Others
<1>12. ASSUME NEW i \in Jtis PROVE PairOk(i)'
  <2>1. PairOk(i) /\ pair[i].parent \in Jtis \cup {None}
    BY DEF SessionInv, TypeOK
  <2>2. pair[i].parent # None => pair[i].parent # j
    BY <1>3, <2>1 DEF PairOk, Over, Known
  <2>3. i = j => i \notin held /\ i \notin dead
    BY <1>3, <2>1 DEF PairOk, Over, Known
  <2> QED
    BY <1>3, <1>5, <1>8, <2>1, <2>2, <2>3 DEF PairOk, Known, Over, Issued
<1> QED
  BY <1>9, <1>10, <1>11, <1>12 DEF SessionInv

LEMMA DeliverInv ==
  ASSUME SessionInv, NEW p \in Procs, Deliver(p)
  PROVE  SessionInv'
<1>1. h \in Handlers /\ HandlerOk(h[p]) /\ h[p].pc = "store" /\ h[p].todo = {}
  BY SessionInvFacts DEF Deliver
<1>2. h[p].new \in Jtis /\ Known(h[p].new)
  BY <1>1 DEF HandlerOk
<1>3. h' \in Handlers /\ h'[p] = Idle /\ Others(p)
  BY <1>1, ReplyFacts DEF Deliver
<1>4. held' = held \cup {h[p].new}
      /\ UNCHANGED <<now, user, pair, doc, block, dead, refused>>
  BY DEF Deliver
<1>5. TypeOK'
  BY <1>2, <1>3, <1>4 DEF SessionInv, TypeOK, Handlers
<1>6. Aged
  BY <1>4, SameDocsAged
<1>7. HandlerOk(h[p])' /\ "doc" \notin h'[p].todo
  BY <1>3 DEF HandlerOk, Idle
<1>8. (\A j \in held' : Known(j)') /\ (\A j \in dead' : Over(j)')
  BY <1>2, <1>4 DEF SessionInv, TypeOK, PairOk, Known, Over
<1> QED
  BY <1>3, <1>4, <1>5, <1>6, <1>7, <1>8, HandlerMoves

LEMMA ScanDocsInv ==
  ASSUME SessionInv, NEW p \in Procs, ScanDocs(p) \/ ScanFails(p)
  PROVE  SessionInv'
<1>1. /\ h \in Handlers /\ h[p] \in HandlerType /\ HandlerOk(h[p])
      /\ h[p].pc = "settle" /\ "doc" \notin h[p].todo
  BY SessionInvFacts DEF ScanDocs, ScanFails, HandlerOk
<1>2. UNCHANGED AllButHandlers
  BY DEF ScanDocs, ScanFails, AllButHandlers
<1>3. ASSUME NEW t \in SUBSET Calls, NEW s \in SUBSET Jtis,
             Await(p, t, s),
             "doc" \notin t, "scan" \in t => s = LiveOf(h[p].sub),
             "block" \in t => "block" \in h[p].todo
      PROVE  SessionInv'
  <2>1. /\ h' \in Handlers /\ Others(p) /\ h'[p].pc = "settle"
        /\ h'[p].sub = h[p].sub /\ h'[p].tok = h[p].tok /\ h'[p].cut = h[p].cut
        /\ h'[p].todo = t /\ h'[p].scan = s
    BY <1>1, <1>3, ScanFacts
  <2>2. UNCHANGED <<pair, doc>>
    BY <1>2 DEF AllButHandlers
  <2>3. ASSUME NEW j \in h[p].cut, Live(j), "scan" \in t
        PROVE  j \in s
    BY <1>1, <1>3, <2>3 DEF HandlerType, HandlerOk, LiveOf
  <2>4. HandlerOk(h[p])'
    BY <1>1, <1>3, <2>1, <2>2, <2>3 DEF HandlerOk, Known, Over, Live
  <2> QED
    BY <1>2, <1>3, <2>1, <2>4, HandlerOnly
<1>4. h[p].todo \in SUBSET Calls /\ h[p].scan \in SUBSET Jtis
      /\ LiveOf(h[p].sub) \in SUBSET Jtis
  BY <1>1 DEF HandlerType, Calls, LiveOf
<1>5. CASE ScanDocs(p)
  <2>1. Await(p, (h[p].todo \ {"docs"}) \cup {"scan"}, LiveOf(h[p].sub))
    BY <1>5 DEF ScanDocs
  <2>2. (h[p].todo \ {"docs"}) \cup {"scan"} \in SUBSET Calls
    BY <1>4 DEF Calls
  <2> QED
    BY <1>1, <1>3, <1>4, <2>1, <2>2
<1>6. CASE ScanFails(p)
  <2>1. Await(p, h[p].todo \ {"docs", "scan"}, {})
    BY <1>6 DEF ScanFails
  <2>2. h[p].todo \ {"docs", "scan"} \in SUBSET Calls
    BY <1>4
  <2> QED
    BY <1>1, <1>3, <2>1, <2>2
<1> QED
  BY <1>5, <1>6

\* Every live session of the cut was still to be visited, and none is left.
LEMMA ScanDoneInv ==
  ASSUME SessionInv, NEW p \in Procs, ScanDone(p)
  PROVE  SessionInv'
<1>1. /\ h \in Handlers /\ h[p] \in HandlerType /\ HandlerOk(h[p])
      /\ h[p].pc = "settle" /\ "doc" \notin h[p].todo /\ "scan" \in h[p].todo
  BY SessionInvFacts DEF ScanDone, HandlerOk
<1>2. dead' = dead \cup h[p].cut
      /\ UNCHANGED <<now, user, pair, doc, block, held, refused>>
  BY DEF ScanDone
<1>3. ASSUME NEW j \in h[p].cut PROVE j \in Jtis /\ Over(j)
  <2>1. j \in Jtis /\ Known(j) /\ ~Live(j)
    BY <1>1 DEF HandlerType, HandlerOk, ScanDone
  <2>2. doc \in DocTypes
    BY DEF SessionInv, TypeOK, DocTypes
  <2> QED
    BY <2>1, <2>2 DEF Over, Known, Live, DocTypes
<1>4. h[p].todo \ {"scan"} \in SUBSET Calls /\ {} \in SUBSET Jtis
  BY <1>1 DEF HandlerType, Calls
<1>5. Await(p, h[p].todo \ {"scan"}, {})
  BY DEF ScanDone
<1>6. /\ h' \in Handlers /\ Others(p) /\ h'[p].pc = "settle"
      /\ h'[p].sub = h[p].sub /\ h'[p].tok = h[p].tok /\ h'[p].cut = h[p].cut
      /\ h'[p].todo = h[p].todo \ {"scan"}
  BY <1>1, <1>4, <1>5, ScanFacts
<1>7. HandlerOk(h[p])'
  BY <1>1, <1>2, <1>6 DEF HandlerOk, Known, Over, Live
<1>8. TypeOK'
  BY <1>2, <1>3, <1>6 DEF SessionInv, TypeOK, Handlers
<1>9. Aged
  BY <1>2, SameDocsAged
<1>10. (\A j \in held' : Known(j)') /\ (\A j \in dead' : Over(j)')
  BY <1>2, <1>3 DEF SessionInv, TypeOK, PairOk, Known, Over
<1> QED
  BY <1>1, <1>2, <1>6, <1>7, <1>8, <1>9, <1>10, HandlerMoves

LEMMA BlockAccessTokenInv ==
  ASSUME SessionInv, NEW p \in Procs, BlockAccessToken(p)
  PROVE  SessionInv'
<1>1. /\ h \in Handlers /\ h[p] \in HandlerType /\ HandlerOk(h[p]) /\ now \in Nat
      /\ h[p].pc = "settle" /\ "doc" \notin h[p].todo
  BY SessionInvFacts DEF BlockAccessToken, HandlerOk
<1>2. UNCHANGED <<now, user, pair, doc, held, dead>>
  BY DEF BlockAccessToken
<1>3. /\ h' \in Handlers /\ Others(p) /\ h'[p].pc = "settle"
      /\ h'[p].sub = h[p].sub /\ h'[p].tok = h[p].tok /\ h'[p].cut = h[p].cut
      /\ h'[p].todo = h[p].todo \ {"block"} /\ h'[p].scan = h[p].scan
  BY <1>1, DoneFacts DEF BlockAccessToken, Calls
<1>4. block' \in [Jtis -> Nat] /\ refused' \in SUBSET Jtis
  <2>1. PICK j \in Jtis : j = h[p].tok
    BY <1>1 DEF HandlerType, HandlerOk, BlockAccessToken
  <2>2. pair[j].at \in Nat /\ block \in [Jtis -> Nat] /\ refused \in SUBSET Jtis
        /\ h[p].at \in Nat
    BY <1>1 DEF SessionInv, TypeOK, HandlerType
  <2>3. Ticks(BlockTtl(p)) \in Nat
    <3>1. Sec(h[p].at) \in Nat /\ AccessExp(j) \in Nat
      BY <2>2, ClockAssumption DEF Sec, AccessExp, Iat
    <3>2. BlockTtl(p) \in Nat
      BY <2>1, <3>1 DEF BlockTtl
    <3> QED
      BY <3>2, ClockAssumption DEF Ticks
  <2> QED
    BY <1>1, <2>1, <2>2, <2>3 DEF BlockAccessToken
<1>5. HandlerOk(h[p])'
  BY <1>1, <1>2, <1>3 DEF HandlerOk, Known, Over, Live
<1>6. TypeOK'
  BY <1>2, <1>3, <1>4 DEF SessionInv, TypeOK, Handlers
<1>7. Aged
  BY <1>2, SameDocsAged
<1>8. (\A j \in held' : Known(j)') /\ (\A j \in dead' : Over(j)')
  BY <1>2, <1>7 DEF SessionInv, TypeOK, PairOk, Aged
<1> QED
  BY <1>1, <1>2, <1>3, <1>5, <1>6, <1>7, <1>8, HandlerMoves

-----------------------------------------------------------------------------
(* The inductive invariant *)

LEMMA SessionInvInit ==
  ASSUME Init
  PROVE  SessionInv
<1>1. TypeOK
  <2>1. user \in [Users -> UserType]
    BY DEF Init, UserType
  <2>2. h \in [Procs -> HandlerType]
    BY IdleType DEF Init
  <2>3. doc \in DocTypes
    BY DEF Init, DocTypes
  <2> QED
    BY <2>1, <2>2, <2>3 DEF Init, TypeOK, UserType, DocTypes
<1>2. ASSUME NEW p \in Procs PROVE HandlerOk(h[p]) /\ h[p].todo = {}
  BY DEF Init, Idle, HandlerOk
<1>3. ASSUME NEW j \in Jtis PROVE PairOk(j)
  BY DEF Init, PairOk, Known
<1> QED
  BY <1>1, <1>2, <1>3 DEF SessionInv, NewApart

LEMMA SessionInvNext ==
  ASSUME SessionInv, [Next]_vars
  PROVE  SessionInv'
<1>1. CASE UNCHANGED vars
  <2>1. UNCHANGED <<pair, doc, h, held, dead>> /\ TypeOK'
    BY <1>1 DEF vars, SessionInv, TypeOK
  <2> QED
    BY <2>1, SameDocsAged, DocsMove
<1>2. ASSUME NEW p \in Procs, Request(p) PROVE SessionInv'
  <2>1. ASSUME NEW u \in Users, NEW w \in Passwords, Login(p, u, w)
        PROVE  SessionInv'
    BY <2>1, StartInv DEF Login, AllButHandlers, OpNames
  <2>2. ASSUME NEW u \in Users, NEW w \in Passwords, ResetPassword(p, u, w)
        PROVE  SessionInv'
    BY <2>2, WriteStarts
  <2>3. ASSUME NEW j \in Jtis, j \in held PROVE pair[j].sub \in Users
    BY <2>3 DEF SessionInv, TypeOK, PairOk, Issued
  <2>4. ASSUME NEW j \in Jtis, Refresh(p, j) PROVE SessionInv'
    BY <2>3, <2>4, StartInv DEF Refresh, AllButHandlers, OpNames
  <2>5. ASSUME NEW j \in Jtis, NEW o \in Ops, Authenticate(p, j, o) PROVE SessionInv'
    BY <2>3, <2>5, StartInv DEF Authenticate, AllButHandlers, OpNames
  <2> QED
    BY <1>2, <2>1, <2>2, <2>4, <2>5 DEF Request
<1>3. ASSUME NEW p \in Procs, HandlerStep(p) PROVE SessionInv'
  <2>1. CASE FindRefreshToken(p)
    BY <2>1, GotoInv, EndInv DEF FindRefreshToken, AllButHandlers, OpNames
  <2>2. CASE FindActiveUser(p)
    BY <2>2, SendInv, ReplyInv DEF FindActiveUser, AllButHandlers
  <2>3. CASE StoreRefreshToken(p) \/ RevokeAllUserTokens(p)
    BY <2>3, DoneInv DEF StoreRefreshToken, RevokeAllUserTokens, AllButHandlers
  <2>4. CASE IsAccessTokenBlocked(p)
    BY <2>4, GotoInv, ReplyInv DEF IsAccessTokenBlocked, AllButHandlers
  <2>5. CASE LoadPrincipal(p)
    BY <2>5, GotoInv, ReplyInv, EndInv DEF LoadPrincipal, AllButHandlers, OpNames
  <2>6. CASE RefusePassword(p) \/ Respond(p)
    BY <2>6, ReplyInv DEF RefusePassword, Respond, AllButHandlers
  <2>7. CASE Connect(p)
    BY <2>7, GotoInv, ReplyInv DEF Connect, AllButHandlers
  <2> QED
    BY <1>3, <2>1, <2>2, <2>3, <2>4, <2>5, <2>6, <2>7, RevokeRefreshTokenInv, SignInv,
       SaveRefreshTokenInv, DeliverInv, WriteStarts, WritePasswordInv,
       ScanDocsInv, RevokeOneInv, ScanDoneInv, BlockAccessTokenInv
    DEF HandlerStep
<1>4. ASSUME NEW p \in Procs, Fail(p) \/ Disconnect(p) PROVE SessionInv'
  BY <1>4, ReplyInv DEF Fail, Disconnect, AllButHandlers
<1>5. CASE Surroundings
  BY <1>5, ElsewhereInv, RemoveInv DEF Surroundings
<1> QED
  BY <1>1, <1>2, <1>3, <1>4, <1>5 DEF Next

\* What handlers remember agrees with the collections, always.
THEOREM Invariance == Spec => []SessionInv
<1>1. Init => SessionInv
  BY SessionInvInit
<1>2. SessionInv /\ [Next]_vars => SessionInv'
  BY SessionInvNext
<1> QED
  BY <1>1, <1>2, PTL DEF Spec

\* Every variable keeps its type (types of the collections, of the handlers and
\* of the histories).
THEOREM TypeCorrect == Spec => []TypeOK
<1>1. SessionInv => TypeOK
  BY DEF SessionInv
<1> QED
  BY <1>1, Invariance, PTL

\* refreshTokens never leaves the token it exchanged usable, for any number of
\* concurrent refreshes, logouts and crashes.
THEOREM RotationRetires == Spec => []ParentRetired
<1>1. SessionInv => ParentRetired
  BY DEF SessionInv, PairOk, ParentRetired, Over, Live
<1> QED
  BY <1>1, Invariance, PTL

\* What the completed updateMany of a logout covered is never live again.
THEOREM LogoutIsFinal == Spec => []LoggedOutStaysOut
<1>1. SessionInv => LoggedOutStaysOut
  <2>1. SUFFICES ASSUME SessionInv, NEW j \in dead PROVE ~Live(j)
    BY DEF LoggedOutStaysOut
  <2>2. PairOk(j) /\ j \in dead
    BY <2>1 DEF SessionInv, TypeOK
  <2> QED
    BY <2>2 DEF PairOk, Over, Live
<1> QED
  BY <1>1, Invariance, PTL

-----------------------------------------------------------------------------
(* Action properties and the contract *)

\* The documents that the TTL index and the nightly job may remove.
Overdue(j) ==
  /\ Stored(j)
  /\ \/ doc[j].exp <= now
     \/ doc[j].st = "revoked" /\ doc[j].upd + Ticks(RevokedKeep) <= now

\* The only steps that touch the tokens collection, the only one that signs
\* and the only ones that write a user.
LEMMA DocSteps ==
  ASSUME [Next]_vars
  PROVE  \/ UNCHANGED doc
         \/ \E p \in Procs : RevokeRefreshToken(p)
         \/ \E p \in Procs, t \in 1 .. now : SaveRefreshToken(p, t)
         \/ \E p \in Procs, j \in Jtis : RevokeOne(p, j)
         \/ \E j \in Jtis : Overdue(j) /\ Remove(j) /\ UNCHANGED <<now, pair>>
<1>1. CASE UNCHANGED vars
  BY <1>1 DEF vars
<1>2. ASSUME NEW p \in Procs, Request(p) PROVE UNCHANGED doc
  BY <1>2 DEF Request, Login, ResetPassword, Refresh, Authenticate
<1>3. ASSUME NEW p \in Procs, HandlerStep(p)
      PROVE  \/ UNCHANGED doc
             \/ RevokeRefreshToken(p)
             \/ \E t \in 1 .. now : SaveRefreshToken(p, t)
             \/ \E j \in Jtis : RevokeOne(p, j)
  BY <1>3 DEF HandlerStep, FindRefreshToken, FindActiveUser, Sign,
     StoreRefreshToken, Deliver, IsAccessTokenBlocked, LoadPrincipal, Connect,
     ReadPassword, RefusePassword, WritePassword, RevokeAllUserTokens,
     ScanDocs, ScanDone, ScanFails, BlockAccessToken, Respond
<1>4. ASSUME NEW p \in Procs, Fail(p) \/ Disconnect(p) PROVE UNCHANGED doc
  BY <1>4 DEF Fail, Disconnect
<1>5. CASE Surroundings
  BY <1>5 DEF Surroundings, Tick, DeactivateUser, DeleteUser, VerifyEmail,
     TtlMonitor, CleanupExpiredTokens, Overdue
<1> QED
  BY <1>1, <1>2, <1>3, <1>4, <1>5 DEF Next

LEMMA PairSteps ==
  ASSUME [Next]_vars
  PROVE  UNCHANGED pair \/ \E p \in Procs, j \in Jtis : Sign(p, j)
<1>1. CASE UNCHANGED vars
  BY <1>1 DEF vars
<1>2. ASSUME NEW p \in Procs, Request(p) \/ Fail(p) \/ Disconnect(p)
      PROVE  UNCHANGED pair
  BY <1>2 DEF Request, Login, ResetPassword, Refresh, Authenticate, Fail, Disconnect
<1>3. ASSUME NEW p \in Procs, HandlerStep(p)
      PROVE  UNCHANGED pair \/ \E j \in Jtis : Sign(p, j)
  BY <1>3 DEF HandlerStep, FindRefreshToken, FindActiveUser,
     RevokeRefreshToken, SaveRefreshToken, StoreRefreshToken, Deliver,
     IsAccessTokenBlocked, LoadPrincipal, Connect, ReadPassword, RefusePassword,
     WritePassword, RevokeAllUserTokens, ScanDocs, RevokeOne, ScanDone,
     ScanFails, BlockAccessToken, Respond
<1>4. CASE Surroundings
  BY <1>4 DEF Surroundings, Tick, DeactivateUser, DeleteUser, VerifyEmail,
     TtlMonitor, CleanupExpiredTokens
<1> QED
  BY <1>1, <1>2, <1>3, <1>4 DEF Next

LEMMA UserSteps ==
  ASSUME [Next]_vars
  PROVE  \/ UNCHANGED user
         \/ \E p \in Procs, t \in 1 .. now : WritePassword(p, t)
         \/ \E u \in Users : DeactivateUser(u) \/ DeleteUser(u) \/ VerifyEmail(u)
<1>1. CASE UNCHANGED vars
  BY <1>1 DEF vars
<1>2. ASSUME NEW p \in Procs, Request(p) \/ Fail(p) \/ Disconnect(p)
      PROVE  UNCHANGED user
  BY <1>2 DEF Request, Login, ResetPassword, Refresh, Authenticate, Fail, Disconnect
<1>3. ASSUME NEW p \in Procs, HandlerStep(p)
      PROVE  UNCHANGED user \/ \E t \in 1 .. now : WritePassword(p, t)
  BY <1>3 DEF HandlerStep, FindRefreshToken, FindActiveUser, RevokeRefreshToken,
     Sign, SaveRefreshToken, StoreRefreshToken, Deliver, IsAccessTokenBlocked,
     LoadPrincipal, Connect, ReadPassword, RefusePassword, RevokeAllUserTokens,
     ScanDocs, RevokeOne, ScanDone, ScanFails, BlockAccessToken, Respond
<1>4. CASE Surroundings
  BY <1>4 DEF Surroundings, Tick, TtlMonitor, CleanupExpiredTokens
<1> QED
  BY <1>1, <1>2, <1>3, <1>4 DEF Next

LEMMA OwnSessionsStep ==
  ASSUME SessionInv, [Next]_vars, NEW j \in Jtis, Live(j), doc'[j].st = "revoked"
  PROVE  \E p \in Procs : h[p].sub = pair[j].sub
<1>1. doc \in DocTypes /\ Known(j)
  BY DEF SessionInv, TypeOK, DocTypes, Live, Known
<1>2. ASSUME NEW p \in Procs, RevokeRefreshToken(p)
      PROVE  h[p].sub = pair[j].sub
  <2>1. HandlerOk(h[p]) /\ h[p].pc = "revokeOld"
    BY <1>2, SessionInvFacts DEF RevokeRefreshToken
  <2>2. h[p].tok = j
    BY <1>1, <1>2 DEF RevokeRefreshToken, DocTypes, Live
  <2> QED
    BY <2>1, <2>2 DEF HandlerOk
<1>3. ASSUME NEW p \in Procs, NEW t \in 1 .. now, SaveRefreshToken(p, t)
      PROVE  FALSE
  BY <1>1, <1>3 DEF SaveRefreshToken, DocTypes, Live
<1>4. ASSUME NEW p \in Procs, NEW i \in Jtis, RevokeOne(p, i)
      PROVE  h[p].sub = pair[j].sub
  BY <1>1, <1>4 DEF RevokeOne, LiveOf, DocTypes, Live
<1>5. ASSUME NEW i \in Jtis, Remove(i) PROVE FALSE
  BY <1>1, <1>5 DEF Remove, DocTypes, Live
<1> QED
  BY <1>2, <1>3, <1>4, <1>5, DocSteps DEF Live

\* No handler revokes a session of another account.
THEOREM OwnSessions == Spec => OwnSessionsOnly
<1>1. SessionInv /\ [Next]_vars =>
        \A j \in Jtis : Live(j) /\ doc'[j].st = "revoked"
                          => \E p \in Procs : h[p].sub = pair[j].sub
  BY OwnSessionsStep
<1> QED
  BY <1>1, Invariance, PTL DEF Spec, OwnSessionsOnly

Working == {"revokeOld", "sign", "store", "read", "write"}

\* A handler is on the way to issuing a pair or to writing a password only for
\* the user it was working for before the step, or for one that the step has
\* found active; a socket is opened only for such a user; and the clock it
\* remembers is of this step or of an earlier one.
Entered(p) ==
  /\ h'[p].pc \in Working =>
       \/ h[p].pc \in Working /\ h'[p].sub = h[p].sub
       \/ user[h'[p].sub].status = "active"
  /\ h'[p].pc = "connected" =>
       h[p].pc = "connected" \/ user[h'[p].sub].status = "active"
  /\ h'[p].at \in {0, h[p].at, now}

LEMMA RequestEnters ==
  ASSUME SessionInv, NEW p \in Procs, Request(p)
  PROVE  Others(p) /\ Entered(p)
<1>1. h \in Handlers /\ now \in Nat
  BY SessionInvFacts
<1>2. ASSUME NEW u \in Users, NEW w \in Passwords, Login(p, u, w)
      PROVE  Others(p) /\ Entered(p)
  <2>1. Others(p) /\ h'[p].sub = u /\ h'[p].at = 0
    BY <1>1, <1>2, StartFacts DEF Login, Pcs, OpNames
  <2> QED
    BY <1>2, <2>1 DEF Login, Entered
<1>3. ASSUME NEW u \in Users, NEW w \in Passwords, ResetPassword(p, u, w)
      PROVE  Others(p) /\ Entered(p)
  <2> DEFINE r == [Idle EXCEPT !.pc = "write", !.op = "resetPassword",
                               !.sub = u, !.pw = w, !.at = now]
  <2>1. r \in HandlerType /\ r.pc = "write" /\ r.sub = u /\ r.at = now
    BY <1>1, IdleType DEF HandlerType, Pcs, OpNames, Idle
  <2>2. Become(p, r)
    BY <1>3 DEF ResetPassword
  <2> HIDE DEF r
  <2>3. Others(p) /\ h'[p].pc = "write" /\ h'[p].sub = u /\ h'[p].at = now
    BY <1>1, <2>1, <2>2, BecomeFacts
  <2> QED
    BY <1>3, <2>3 DEF Entered, Working, ResetPassword
<1>4. ASSUME NEW j \in Jtis, NEW o \in OpNames, NEW c \in {"find", "blocklist"},
             Start(p, o, c, pair[j].sub, j)
      PROVE  Others(p) /\ Entered(p)
  <2>1. pair[j].sub \in Users \cup {None} /\ c \in Pcs
    BY DEF SessionInv, TypeOK, Pcs
  <2>2. Others(p) /\ h'[p].pc = c /\ h'[p].at = 0
    BY <1>1, <1>4, <2>1, StartFacts
  <2> QED
    BY <2>2 DEF Entered, Working
<1> QED
  BY <1>2, <1>3, <1>4 DEF Request, Refresh, Authenticate, OpNames

LEMMA ReplyEnters ==
  ASSUME SessionInv, NEW p \in Procs, Reply(p)
  PROVE  Others(p) /\ Entered(p)
  BY SessionInvFacts, ReplyFacts DEF Entered, Working, Idle

LEMMA HandlerStepEnters ==
  ASSUME SessionInv, NEW p \in Procs, HandlerStep(p)
  PROVE  UNCHANGED h \/ (Others(p) /\ Entered(p))
<1>1. h \in Handlers /\ now \in Nat /\ h[p] \in HandlerType
  BY SessionInvFacts
<1>2. ASSUME NEW c \in Pcs, Goto(p, c),
             c \in Working \cup {"connected"} =>
               \/ c \in Working /\ h[p].pc \in Working
               \/ user[h[p].sub].status = "active"
      PROVE  Others(p) /\ Entered(p)
  BY <1>1, <1>2, GotoFacts DEF Entered, Working
<1>3. ASSUME NEW x \in Calls, Done(p, x) PROVE Others(p) /\ Entered(p)
  BY <1>1, <1>3, DoneFacts DEF Entered
<1>4. ASSUME NEW t \in SUBSET Calls, NEW o \in OpNames, EndSessions(p, o, t)
      PROVE  Others(p) /\ Entered(p)
  BY <1>1, <1>4, EndFacts DEF Entered, Working
<1>5. ASSUME NEW t \in SUBSET Calls, NEW s \in SUBSET Jtis, Await(p, t, s)
      PROVE  Others(p) /\ Entered(p)
  BY <1>1, <1>5, ScanFacts DEF Entered
<1>6. CASE \/ FindRefreshToken(p) \/ FindActiveUser(p) \/ RevokeRefreshToken(p)
           \/ IsAccessTokenBlocked(p) \/ LoadPrincipal(p) \/ Connect(p)
  <2>1. CASE FindActiveUser(p)
    <3>1. CASE /\ user[h[p].sub].status = "active"
               /\ Become(p, [h[p] EXCEPT !.pc = "revokeOld", !.at = now])
      BY <1>1, <3>1, SendFacts DEF Entered, Working
    <3> QED
      BY <2>1, <3>1, ReplyEnters DEF FindActiveUser
  <2>5. CASE RevokeRefreshToken(p)
    BY <1>2, <2>5 DEF RevokeRefreshToken, Pcs, Working
  <2>2. CASE FindRefreshToken(p) \/ IsAccessTokenBlocked(p)
    BY <1>2, <1>4, <2>2, ReplyEnters
    DEF FindRefreshToken, IsAccessTokenBlocked, Pcs, Working, Calls, OpNames
  <2>3. CASE LoadPrincipal(p)
    BY <1>2, <1>4, <2>3, ReplyEnters
    DEF LoadPrincipal, Admits, Pcs, Working, Calls, OpNames
  <2>4. CASE Connect(p)
    BY <1>2, <2>4, ReplyEnters DEF Connect, Pcs, Working
  <2> QED
    BY <1>6, <2>1, <2>2, <2>3, <2>4, <2>5
<1>7. CASE \E j \in Jtis : Sign(p, j)
  BY <1>1, <1>7, SignFacts DEF Sign, Entered, Working
<1>8. CASE \/ \E t \in 1 .. now : SaveRefreshToken(p, t)
           \/ StoreRefreshToken(p) \/ RevokeAllUserTokens(p) \/ BlockAccessToken(p)
  BY <1>3, <1>8 DEF SaveRefreshToken, StoreRefreshToken, RevokeAllUserTokens,
     BlockAccessToken, Calls
<1>9. CASE Deliver(p) \/ RefusePassword(p) \/ Respond(p)
  BY <1>9, ReplyEnters DEF Deliver, RefusePassword, Respond
<1>10. CASE \E w \in Passwords : ReadPassword(p, w)
  BY <1>1, <1>10, WriteFacts DEF ReadPassword, Entered, Working
<1>11. CASE \E t \in 1 .. now : WritePassword(p, t)
  <2>1. h[p].op \in OpNames /\ {"keys"} \in SUBSET Calls
    BY <1>1 DEF HandlerType, Calls
  <2> QED
    BY <1>4, <1>11, <2>1, ReplyEnters DEF WritePassword
<1>12. CASE ScanDocs(p) \/ ScanDone(p) \/ ScanFails(p)
  <2>1. /\ (h[p].todo \ {"docs"}) \cup {"scan"} \in SUBSET Calls
        /\ h[p].todo \ {"scan"} \in SUBSET Calls
        /\ h[p].todo \ {"docs", "scan"} \in SUBSET Calls
        /\ LiveOf(h[p].sub) \in SUBSET Jtis /\ {} \in SUBSET Jtis
    BY <1>1 DEF HandlerType, Calls, LiveOf
  <2> QED
    BY <1>5, <1>12, <2>1 DEF ScanDocs, ScanDone, ScanFails
<1>13. CASE \E j \in Jtis : RevokeOne(p, j)
  BY <1>13 DEF RevokeOne
<1> QED
  BY <1>6, <1>7, <1>8, <1>9, <1>10, <1>11, <1>12, <1>13 DEF HandlerStep

\* Which handler moves, and what it then remembers.
LEMMA HandlerSteps ==
  ASSUME SessionInv, [Next]_vars
  PROVE  \/ UNCHANGED h
         \/ \E p \in Procs : Others(p) /\ Entered(p)
<1>1. ASSUME NEW p \in Procs, Fail(p) \/ Disconnect(p) PROVE Others(p) /\ Entered(p)
  BY <1>1, ReplyEnters DEF Fail, Disconnect
<1>2. CASE Surroundings
  BY <1>2 DEF Surroundings, Tick, DeactivateUser, DeleteUser, VerifyEmail,
     TtlMonitor, CleanupExpiredTokens
<1> QED
  BY <1>1, <1>2, RequestEnters, HandlerStepEnters DEF Next, vars

LEMMA QuietStep ==
  ASSUME SessionInv, [Next]_vars, NEW u \in Users, Quiet(u)
  PROVE  /\ Quiet(u)'
         /\ \A j \in Jtis : pair'[j].sub = u => pair[j].sub = u
         /\ \A p \in Procs :
              h'[p].pc = "connected" /\ h'[p].sub = u => h[p].pc = "connected"
         /\ user'[u].password = user[u].password
<1>1. user'[u].status # "active" /\ user'[u].password = user[u].password
  <2>1. user \in [Users -> UserType] /\ user[u].status # "active"
    BY DEF SessionInv, TypeOK, UserType, Quiet
  <2>2. CASE UNCHANGED user
    BY <2>1, <2>2
  <2>3. ASSUME NEW p \in Procs, NEW t \in 1 .. now, WritePassword(p, t)
        PROVE  user'[u] = user[u]
    <3>1. h[p].sub # u
      BY <2>3 DEF WritePassword, Quiet
    <3> QED
      BY <2>1, <2>3, <3>1 DEF WritePassword, UserType
  <2>4. ASSUME NEW v \in Users, DeactivateUser(v) \/ DeleteUser(v) \/ VerifyEmail(v)
        PROVE  user'[u].status # "active" /\ user'[u].password = user[u].password
    BY <2>1, <2>4 DEF DeactivateUser, DeleteUser, VerifyEmail, UserType
  <2> QED
    BY <2>1, <2>2, <2>3, <2>4, UserSteps
<1>2. UNCHANGED h \/ \E p \in Procs : Others(p) /\ Entered(p)
  BY HandlerSteps
<1>3. ASSUME NEW q \in Procs, h'[q].sub = u
      PROVE  /\ h'[q].pc \notin Working
             /\ h'[q].pc = "connected" => h[q].pc = "connected"
  <2>1. h[q].sub = u => h[q].pc \notin Working
    BY DEF Quiet, Working
  <2>2. CASE h'[q] = h[q]
    BY <1>3, <2>1, <2>2
  <2>3. CASE Entered(q)
    BY <1>3, <2>1, <2>3 DEF Entered, Quiet
  <2> QED
    BY <1>2, <2>2, <2>3 DEF Others
<1>4. ASSUME NEW j \in Jtis, pair'[j].sub = u PROVE pair[j].sub = u
  <2>1. ASSUME NEW p \in Procs, NEW i \in Jtis, Sign(p, i)
        PROVE  pair[j].sub = u
    <3>1. h[p].sub # u
      BY <2>1 DEF Sign, Quiet
    <3> QED
      BY <1>4, <2>1, <3>1 DEF Sign, SessionInv, TypeOK
  <2> QED
    BY <1>4, <2>1, PairSteps
<1> QED
  BY <1>1, <1>3, <1>4 DEF Quiet, Working

\* A closed account without handlers on the way to issuing a pair or writing a
\* password gets no pair and no socket, keeps its password and stays closed.
THEOREM ClosedAccountsGetNothing == Spec => ClosedAccountStaysClosed
<1>1. SessionInv /\ [Next]_vars =>
        \A u \in Users :
          Quiet(u) =>
            /\ Quiet(u)'
            /\ \A j \in Jtis : pair'[j].sub = u => pair[j].sub = u
            /\ \A p \in Procs :
                 h'[p].pc = "connected" /\ h'[p].sub = u => h[p].pc = "connected"
            /\ user'[u].password = user[u].password
  BY QuietStep
<1> QED
  BY <1>1, Invariance, PTL DEF Spec, ClosedAccountStaysClosed

-----------------------------------------------------------------------------
(* Sessions implements SessionContract *)

State == [j \in Jtis |-> doc[j].st]

Owner == [j \in Jtis |-> IF doc[j].st = "unissued" THEN None ELSE pair[j].sub]

Successor ==
  [j \in Jtis |-> IF doc[j].st = "unissued" THEN None ELSE pair[j].parent]

\* A step that leaves doc alone is a stutter: pairs are signed only for jtis
\* that have no document yet.
LEMMA SignedUnknown ==
  ASSUME SessionInv, [Next]_vars, NEW j \in Jtis, Known(j)
  PROVE  pair'[j] = pair[j]
<1>1. ASSUME NEW p \in Procs, NEW i \in Jtis, Sign(p, i)
      PROVE  pair'[j] = pair[j]
  <2>1. i # j
    BY <1>1 DEF Sign, SessionInv, PairOk
  <2> QED
    BY <1>1, <2>1 DEF Sign, SessionInv, TypeOK
<1> QED
  BY <1>1, PairSteps

LEMMA ContractStep ==
  ASSUME SessionInv, [Next]_vars
  PROVE  [Contract!Next]_(Contract!vars)
<1> USE DEF Contract!vars
<1>1. doc \in DocTypes
  BY DEF SessionInv, TypeOK, DocTypes
<1>2. CASE UNCHANGED doc
  <2>1. UNCHANGED Owner /\ UNCHANGED Successor /\ UNCHANGED State
    BY <1>2, SignedUnknown DEF Owner, Successor, State, Known
  <2> QED
    BY <2>1 DEF Owner, Successor, State
<1>3. ASSUME NEW j \in Jtis, Known(j), UNCHANGED pair,
             NEW s \in {"revoked", "deleted"}, doc'[j].st = s,
             doc' \in DocTypes, \A i \in Jtis \ {j} : doc'[i] = doc[i]
      PROVE  /\ State' = [State EXCEPT ![j] = s]
             /\ UNCHANGED Owner /\ UNCHANGED Successor
  BY <1>1, <1>3 DEF State, Owner, Successor, DocTypes, Known
<1>4. ASSUME NEW j \in Jtis, doc[j].st \in {"live", "revoked"}, UNCHANGED pair,
             NEW t \in Nat,
             doc' = [doc EXCEPT ![j].st = "revoked", ![j].upd = t]
      PROVE  Contract!Retire(j) \/ UNCHANGED Contract!vars
  <2>1. doc' \in DocTypes /\ doc'[j].st = "revoked" /\ Known(j)
        /\ \A i \in Jtis \ {j} : doc'[i] = doc[i]
    <3>1. Known(j)
      BY <1>4 DEF Known
    <3> QED
      BY <1>1, <1>4, <3>1, RevokeFacts DEF DocTypes
  <2>2. State' = [State EXCEPT ![j] = "revoked"]
        /\ UNCHANGED Owner /\ UNCHANGED Successor
    BY <1>3, <1>4, <2>1
  <2>3. CASE State[j] = "live"
    BY <2>2, <2>3 DEF Contract!Retire, State, Owner, Successor
  <2>4. CASE State[j] = "revoked"
    <3>1. UNCHANGED State
      BY <2>2, <2>4 DEF State
    <3> QED
      BY <2>2, <3>1 DEF State, Owner, Successor
  <2> QED
    BY <1>4, <2>3, <2>4 DEF State
<1>5. ASSUME NEW p \in Procs, RevokeRefreshToken(p)
      PROVE  [Contract!Next]_(Contract!vars)
  <2>1. PICK j \in Jtis : j = h[p].tok
    BY <1>5, SessionInvFacts DEF RevokeRefreshToken, HandlerOk, HandlerType
  <2>2. CASE doc[j].st \in {"live", "revoked"}
    <3>1. h[p].at \in Nat
      BY SessionInvFacts DEF HandlerType
    <3> QED
      BY <1>4, <1>5, <2>1, <2>2, <3>1 DEF RevokeRefreshToken, Contract!Next
  <2>3. CASE doc[j].st \notin {"live", "revoked"}
    BY <1>2, <1>5, <2>1, <2>3 DEF RevokeRefreshToken
  <2> QED
    BY <2>2, <2>3
<1>6. ASSUME NEW p \in Procs, NEW j \in Jtis, RevokeOne(p, j)
      PROVE  [Contract!Next]_(Contract!vars)
  <2>1. doc[j].st \in {"live", "revoked"}
    BY <1>6 DEF RevokeOne, LiveOf, Live
  <2>2. h[p].at \in Nat
    BY SessionInvFacts DEF HandlerType
  <2> QED
    BY <1>4, <1>6, <2>1, <2>2 DEF RevokeOne, Contract!Next
<1>7. ASSUME NEW j \in Jtis, Stored(j), Remove(j), UNCHANGED pair
      PROVE  Contract!Next
  <2>1. doc' \in DocTypes /\ doc'[j].st = "deleted" /\ Known(j)
        /\ \A i \in Jtis \ {j} : doc'[i] = doc[i]
    BY <1>1, <1>7 DEF Remove, DocTypes, Stored, Known
  <2>2. State' = [State EXCEPT ![j] = "deleted"]
        /\ UNCHANGED Owner /\ UNCHANGED Successor
    BY <1>3, <1>7, <2>1
  <2>3. Contract!Forget(j)
    BY <1>7, <2>2 DEF Contract!Forget, State, Owner, Successor, Stored
  <2> QED
    BY <2>3 DEF Contract!Next
<1>8. ASSUME NEW p \in Procs, NEW t \in 1 .. now, SaveRefreshToken(p, t)
      PROVE  Contract!Next
  <2>1. HandlerOk(h[p]) /\ h[p] \in HandlerType /\ h[p].pc = "store"
        /\ "doc" \in h[p].todo
    BY <1>8, SessionInvFacts DEF SaveRefreshToken
  <2>2. PICK j \in Jtis, u \in Users, q \in Jtis \cup {None} :
          /\ j = h[p].new /\ u = h[p].sub /\ q = h[p].tok
          /\ ~Known(j) /\ pair[j].sub = u /\ pair[j].parent = q
          /\ q # None => Over(q) /\ pair[q].sub = u
    BY <2>1 DEF HandlerOk, HandlerType
  <2>3. /\ doc'[j].st = "live" /\ UNCHANGED pair
        /\ doc' = [doc EXCEPT ![j] = doc'[j]]
    BY <1>1, <1>8, <2>2 DEF SaveRefreshToken, DocTypes
  <2>4. /\ State' = [State EXCEPT ![j] = "live"]
        /\ Owner' = [Owner EXCEPT ![j] = u]
        /\ Successor' = [Successor EXCEPT ![j] = q]
    BY <1>1, <2>2, <2>3 DEF State, Owner, Successor, DocTypes, Known
  <2>5. State[j] = "unissued" /\ (q # None => State[q] \in {"revoked", "deleted"} /\ Owner[q] = u)
    BY <2>2, NoneIsFresh DEF State, Owner, Known, Over
  <2>6. Contract!Grant(j, u, q)
    BY <2>4, <2>5 DEF Contract!Grant, Contract!Over, State, Owner, Successor
  <2> QED
    BY <2>6 DEF Contract!Next
<1> QED
  BY <1>2, <1>5, <1>6, <1>7, <1>8, DocSteps DEF Overdue

LEMMA ContractInit ==
  ASSUME Init
  PROVE  Contract!Init
  BY DEF Init, Contract!Init

\* Handlers, jobs and the TTL index together grant, retire and forget sessions
\* as the contract says, whatever is in flight.
THEOREM Implementation == Spec => ImplementsContract
<1>1. Init => Contract!Init
  BY ContractInit
<1>2. SessionInv /\ [Next]_vars => [Contract!Next]_(Contract!vars)
  BY ContractStep
<1> QED
  BY <1>1, <1>2, Invariance, PTL DEF Spec, ImplementsContract, Contract!Spec

=============================================================================
