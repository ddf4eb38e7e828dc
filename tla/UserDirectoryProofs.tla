------------------------- MODULE UserDirectoryProofs -------------------------
(***************************************************************************)
(* Proofs about UserDirectory, for any number of accounts, requests and    *)
(* field values, any subset of the routes in use and any faults.           *)
(***************************************************************************)
EXTENDS UserDirectory, TLAPS

-----------------------------------------------------------------------------
(* What the operators that move a request do to h *)

\* Named, so that the provers need not look into them.
Flags == BOOLEAN

Todos == SUBSET {"user", "list"}

Statuses == {0, 200, 400, 403, 404}

OpNames == Routes \cup {"none"}

Pcs == {"idle", "get", "find", "set", "list", "write", "invalidate", "answered"}

Body == [name : Names \cup {None}, role : Roles \cup {None}]

Request ==
  [pc : Pcs, op : OpNames, actor : Users \cup {None}, role : Roles,
   target : Users \cup {None}, body : Body, copy : Accounts \cup {None},
   missed : Flags, todo : Todos, status : Statuses]

Requests == [Procs -> Request]

Copy == [val : Accounts \cup {None}, missed : Flags]

Others(p) == \A q \in Procs \ {p} : h'[q] = h[q]

\* What DirectoryInv says of request r.
RequestOk(r) ==
  /\ r.pc \notin {"idle", "answered"} => r.target \in Users
  /\ r.pc = "write" => Entitled(r)
  /\ r.pc = "set" => r.missed \/ r.copy = user[r.target]

\* What DirectoryInv says of the copy of account u.
CopyOk(u) == Stale(u) => Invalidating(u) \/ cache[u].missed

LEMMA InvParts ==
  DirectoryInv <=> /\ user \in [Users -> Accounts]
                   /\ cache \in [Users -> Copy]
                   /\ h \in Requests
                   /\ \A p \in Procs : RequestOk(h[p])
                   /\ \A u \in Users : CopyOk(u)
  BY DEF DirectoryInv, TypeOK, StaleOnlyIfMissed, RequestOk, CopyOk, Requests, Request,
         Copy, Body, Pcs, Flags, Todos, Statuses, OpNames

LEMMA InvPartsNext ==
  ASSUME user' \in [Users -> Accounts], cache' \in [Users -> Copy], h' \in Requests,
         \A p \in Procs : RequestOk(h[p])', \A u \in Users : CopyOk(u)'
  PROVE  DirectoryInv'
  BY DEF DirectoryInv, TypeOK, StaleOnlyIfMissed, RequestOk, CopyOk, Requests, Request,
         Copy, Body, Pcs, Flags, Todos, Statuses, OpNames

LEMMA IdleType == Idle \in Request
  BY DEF Idle, Request, Pcs, Body, Empty, Roles, Flags, Todos, Statuses, OpNames

Resting(o, s, b) == [Idle EXCEPT !.pc = "answered", !.op = o, !.status = s, !.body = b]

LEMMA RestingType ==
  ASSUME NEW o \in OpNames, NEW s \in Statuses, NEW b \in Body
  PROVE  Resting(o, s, b) \in Request
<1>1. "answered" \in Pcs
  BY DEF Pcs
<1> QED
  BY <1>1, IdleType DEF Request, Resting

LEMMA AnsweredFacts ==
  ASSUME NEW r \in Request, NEW s \in {200, 400, 403, 404}
  PROVE  Answered(r, s) \in Request /\ Answered(r, s).pc = "answered"
<1>1. r.op \in OpNames /\ r.body \in Body /\ Empty \in Body /\ s \in Statuses
  BY DEF Request, Empty, Body, Statuses
<1>2. Answered(r, s) = Resting(r.op, s, r.body) \/ Answered(r, s) = Resting(r.op, s, Empty)
  BY DEF Answered, Resting
<1>3. Answered(r, s).pc = "answered"
  BY DEF Answered, Idle
<1> QED
  BY <1>1, <1>2, <1>3, RestingType

LEMMA BecomeFacts ==
  ASSUME h \in Requests, NEW p \in Procs, NEW r \in Request, Become(p, r)
  PROVE  h' \in Requests /\ h'[p] = r /\ Others(p)
  BY DEF Become, Requests, Others

LEMMA AnswerFacts ==
  ASSUME h \in Requests, NEW p \in Procs, NEW s \in {200, 400, 403, 404}, Answer(p, s)
  PROVE  h' \in Requests /\ h'[p].pc = "answered" /\ Others(p)
<1>1. h[p] \in Request
  BY DEF Requests
<1> QED
  BY <1>1, AnsweredFacts, BecomeFacts DEF Answer

-----------------------------------------------------------------------------
(* Steps that leave the accounts alone *)

\* A step of p that writes to no account, and deletes no mark of a pending
\* deletion while the copy stays, keeps the invariant if what it makes of p and
\* of the copies is in order.
LEMMA QuietStep ==
  ASSUME DirectoryInv, NEW p \in Procs,
         user' = user, h' \in Requests, Others(p),
         RequestOk(h'[p]),
         cache' \in [Users -> Copy],
         \A u \in Users : cache'[u] = cache[u] \/ cache'[u].val = None
                            \/ cache'[u].missed \/ cache'[u].val = user[u],
         \A u \in Users : cache'[u] = cache[u] /\ h[p].pc = "invalidate" /\ h[p].target = u
                            /\ "user" \in h[p].todo
                          => \/ /\ h'[p].pc = "invalidate" /\ h'[p].target = u
                                /\ "user" \in h'[p].todo
                             \/ cache[u].val = None \/ cache[u].missed
  PROVE  DirectoryInv'
<1>1. /\ user \in [Users -> Accounts] /\ cache \in [Users -> Copy] /\ h \in Requests
      /\ \A q \in Procs : RequestOk(h[q])
      /\ \A u \in Users : CopyOk(u)
  BY InvParts
<1>2. ASSUME NEW q \in Procs PROVE RequestOk(h[q])'
  BY <1>1 DEF RequestOk, Others
<1>3. ASSUME NEW u \in Users PROVE CopyOk(u)'
  <2>1. CASE cache'[u] = cache[u]
    <3>1. Invalidating(u) => Invalidating(u)' \/ cache[u].val = None \/ cache[u].missed
      <4> SUFFICES ASSUME NEW q \in Procs, h[q].pc = "invalidate", h[q].target = u,
                          "user" \in h[q].todo, cache[u].val # None, ~cache[u].missed
                   PROVE  Invalidating(u)'
        BY DEF Invalidating
      <4>1. h'[q].pc = "invalidate" /\ h'[q].target = u /\ "user" \in h'[q].todo
        BY <2>1 DEF Others
      <4> QED
        BY <4>1 DEF Invalidating
    <3> QED
      BY <1>1, <2>1, <3>1 DEF CopyOk, Stale
  <2>2. CASE cache'[u].val = None \/ cache'[u].missed \/ cache'[u].val = user[u]
    BY <2>2 DEF CopyOk, Stale
  <2> QED
    BY <2>1, <2>2
<1> QED
  BY <1>1, <1>2, <1>3, InvPartsNext

\* A step of p that is not one of a deletion and touches h[p] alone.
LEMMA LocalStep ==
  ASSUME DirectoryInv, NEW p \in Procs,
         UNCHANGED <<user, cache>>, h' \in Requests, Others(p), RequestOk(h'[p]),
         h[p].pc # "invalidate" \/ "user" \notin h[p].todo
  PROVE  DirectoryInv'
<1>1. cache \in [Users -> Copy]
  BY InvParts
<1> QED
  BY <1>1, QuietStep

\* A request that is answered or idle is in order.
LEMMA RestOk ==
  ASSUME NEW r, r.pc \in {"idle", "answered"}
  PROVE  RequestOk(r)
  BY DEF RequestOk

-----------------------------------------------------------------------------
(* Each action keeps the invariant *)

LEMMA InitEstablishes == Init => DirectoryInv
<1> SUFFICES ASSUME Init PROVE DirectoryInv
  OBVIOUS
<1>1. user \in [Users -> Accounts]
  BY ScopeAssumption DEF Init, Accounts
<1>2. cache \in [Users -> Copy] /\ \A u \in Users : cache[u].val = None
  BY DEF Init, NoCopy, Copy, Flags
<1>3. h \in Requests /\ \A p \in Procs : h[p].pc = "idle"
  BY IdleType DEF Init, Requests, Idle
<1> QED
  BY <1>1, <1>2, <1>3, RestOk, InvParts DEF CopyOk, Stale

\* What guard and validation admit is entitled: no body reaches a handler with a
\* role in it but that of updateUserRole.
LEMMA AdmittedIsEntitled ==
  ASSUME NEW a \in Users, NEW t \in Users, NEW r \in Roles, NEW o \in Writes,
         NEW b \in Bodies, NEW q,
         Permits(o, a, r, t), Valid(o, b), ~HasId(o) => t = a,
         q.op = o, q.actor = a, q.role = r, q.target = t, q.body = StripUnknown(o, b)
  PROVE  Entitled(q)
  BY DEF Entitled, Permits, StripUnknown, TakesName, HasId, Writes, Admin,
         AuthorizeOwnerOrRole, AuthorizeRoles, RequirePermission

LEMMA CallKeeps ==
  ASSUME DirectoryInv, NEW p \in Procs, NEW a \in Users, NEW t \in Users, NEW o \in Ops,
         NEW b \in Bodies, Call(p, a, o, t, b)
  PROVE  DirectoryInv'
<1> DEFINE request == [Idle EXCEPT !.op = o, !.actor = a, !.role = user[a].role,
                                   !.target = t, !.body = b]
           admitted == [request EXCEPT !.pc = Entry(o), !.body = StripUnknown(o, b)]
<1>1. h \in Requests /\ user[a].role \in Roles
  BY InvParts DEF Accounts
<1>2. o \in Routes /\ o \in OpNames /\ b \in Body
  BY ScopeAssumption DEF Call, Bodies, Body, OpNames
<1>3. request \in Request
  BY <1>1, <1>2, IdleType DEF Request
<1>4. UNCHANGED <<user, cache>> /\ h[p].pc # "invalidate"
  BY DEF Call
<1>5. ASSUME NEW s \in {400, 403}, Become(p, Answered(request, s))
      PROVE  DirectoryInv'
  BY <1>1, <1>3, <1>4, <1>5, AnsweredFacts, BecomeFacts, RestOk, LocalStep
<1>6. CASE /\ Permits(o, a, user[a].role, t) /\ Valid(o, b)
           /\ Become(p, admitted)
  <2>1. StripUnknown(o, b) \in Body
    BY <1>2 DEF StripUnknown, Body
  <2>2. Entry(o) \in Pcs \ {"set", "invalidate", "idle", "answered"}
    BY DEF Entry, Pcs
  <2>3. admitted \in Request
    BY <1>3, <2>1, <2>2 DEF Request
  <2>4. /\ admitted.pc = Entry(o) /\ admitted.op = o /\ admitted.actor = a
        /\ admitted.role = user[a].role /\ admitted.target = t
        /\ admitted.body = StripUnknown(o, b)
    BY DEF Idle
  <2>5. admitted.pc = "write" => Entitled(admitted)
    <3>1. Entry(o) = "write" => o \in Writes
      BY <1>2 DEF Entry, Routes
    <3>2. ~HasId(o) => t = a
      BY DEF Call
    <3> HIDE DEF admitted
    <3> QED
      BY <1>1, <1>6, <2>4, <3>1, <3>2, AdmittedIsEntitled
  <2> HIDE DEF admitted
  <2>6. RequestOk(admitted)
    BY <2>2, <2>4, <2>5 DEF RequestOk
  <2> QED
    BY <1>1, <1>4, <1>6, <2>3, <2>6, BecomeFacts, LocalStep
<1> QED
  BY <1>5, <1>6 DEF Call

LEMMA RequestAt == ASSUME DirectoryInv, NEW p \in Procs PROVE h[p] \in Request
  BY InvParts DEF Requests

\* Steps that only answer, only look something up or only move on.
LEMMA AnswerKeeps ==
  ASSUME DirectoryInv, NEW p \in Procs, NEW s \in {200, 400, 403, 404}, Answer(p, s),
         UNCHANGED <<user, cache>>, h[p].pc # "invalidate" \/ "user" \notin h[p].todo
  PROVE  DirectoryInv'
<1>1. h \in Requests
  BY InvParts
<1> QED
  BY <1>1, AnswerFacts, RestOk, LocalStep

LEMMA GetUserFromCacheKeeps ==
  ASSUME DirectoryInv, NEW p \in Procs, GetUserFromCache(p)
  PROVE  DirectoryInv'
<1>1. h \in Requests /\ h[p] \in Request /\ RequestOk(h[p])
  BY InvParts, RequestAt
<1>2. UNCHANGED <<user, cache>> /\ h[p].pc = "get"
  BY DEF GetUserFromCache
<1>3. CASE Answer(p, 200)
  BY <1>2, <1>3, AnswerKeeps
<1>4. CASE Become(p, [h[p] EXCEPT !.pc = "find"])
  <2> DEFINE r == [h[p] EXCEPT !.pc = "find"]
  <2>1. "find" \in Pcs
    BY DEF Pcs
  <2>2. r \in Request
    BY <1>1, <2>1 DEF Request
  <2>3. r.pc = "find" /\ r.target = h[p].target
    BY <1>1 DEF Request
  <2>4. RequestOk(r)
    BY <1>1, <1>2, <2>3 DEF RequestOk
  <2> HIDE DEF r
  <2>5. Become(p, r)
    BY <1>4 DEF r
  <2> QED
    BY <1>1, <1>2, <2>2, <2>4, <2>5, BecomeFacts, LocalStep
<1> QED
  BY <1>3, <1>4 DEF GetUserFromCache

LEMMA FindByIdKeeps ==
  ASSUME DirectoryInv, NEW p \in Procs, FindById(p)
  PROVE  DirectoryInv'
<1>1. h \in Requests /\ h[p] \in Request /\ RequestOk(h[p])
  BY InvParts, RequestAt
<1>2. UNCHANGED <<user, cache>> /\ h[p].pc = "find"
  BY DEF FindById
<1>3. CASE Answer(p, 404)
  BY <1>2, <1>3, AnswerKeeps
<1>4. CASE Become(p, [h[p] EXCEPT !.pc = "set", !.copy = user[h[p].target]])
  <2> DEFINE r == [h[p] EXCEPT !.pc = "set", !.copy = user[h[p].target]]
  <2>1. h[p].target \in Users
    BY <1>1, <1>2 DEF RequestOk
  <2>2. user[h[p].target] \in Accounts \cup {None} /\ "set" \in Pcs
    BY <2>1, InvParts DEF Pcs
  <2>3. r \in Request
    BY <1>1, <2>2 DEF Request
  <2>4. r.pc = "set" /\ r.target = h[p].target /\ r.copy = user[h[p].target]
    BY <1>1 DEF Request
  <2> HIDE DEF r
  <2>5. RequestOk(r)
    BY <2>1, <2>4 DEF RequestOk
  <2>6. Become(p, r)
    BY <1>4 DEF r
  <2> QED
    BY <1>1, <1>2, <2>3, <2>5, <2>6, BecomeFacts, LocalStep
<1> QED
  BY <1>3, <1>4 DEF FindById

\* The copy that fills the cache is marked unless it is up to date.
LEMMA SetUserInCacheKeeps ==
  ASSUME DirectoryInv, NEW p \in Procs, SetUserInCache(p)
  PROVE  DirectoryInv'
<1>1. h \in Requests /\ h[p] \in Request /\ RequestOk(h[p]) /\ cache \in [Users -> Copy]
  BY InvParts, RequestAt
<1>2. user' = user /\ h[p].pc = "set" /\ Answer(p, 200)
  BY DEF SetUserInCache
<1>3. h' \in Requests /\ h'[p].pc = "answered" /\ Others(p)
  BY <1>1, <1>2, AnswerFacts
<1>4. h[p].target \in Users /\ (h[p].missed \/ h[p].copy = user[h[p].target])
  BY <1>1, <1>2 DEF RequestOk
<1>5. CASE cache' = [cache EXCEPT ![h[p].target] = [val |-> h[p].copy, missed |-> h[p].missed]]
  <2>1. [val |-> h[p].copy, missed |-> h[p].missed] \in Copy
    BY <1>1 DEF Request, Copy, Flags
  <2>2. cache' \in [Users -> Copy]
    BY <1>1, <1>5, <2>1
  <2>3. \A u \in Users : cache'[u] = cache[u] \/ cache'[u].missed \/ cache'[u].val = user[u]
    BY <1>1, <1>4, <1>5
  <2> QED
    BY <1>2, <1>3, <2>2, <2>3, RestOk, QuietStep
<1>6. CASE UNCHANGED cache
  BY <1>2, <1>6, AnswerKeeps
<1> QED
  BY <1>5, <1>6 DEF SetUserInCache

LEMMA CloseKeeps ==
  ASSUME DirectoryInv, NEW p \in Procs, Close(p)
  PROVE  DirectoryInv'
<1>1. h \in Requests
  BY InvParts
<1>2. UNCHANGED <<user, cache>> /\ h[p].pc = "answered" /\ Become(p, Idle) /\ Idle.pc = "idle"
  BY DEF Close, Idle
<1> QED
  BY <1>1, <1>2, IdleType, BecomeFacts, RestOk, LocalStep

\* The work left to a request that invalidates shrinks.
LEMMA TodoFacts ==
  ASSUME NEW r \in Request, NEW x
  PROVE  LET n == [r EXCEPT !.todo = @ \ {x}] IN
         n \in Request /\ n.pc = r.pc /\ n.target = r.target /\ n.todo = r.todo \ {x}
<1>1. r.todo \ {x} \in Todos
  BY DEF Request, Todos
<1> QED
  BY <1>1 DEF Request

LEMMA InvalidateUserListCacheKeeps ==
  ASSUME DirectoryInv, NEW p \in Procs, InvalidateUserListCache(p)
  PROVE  DirectoryInv'
<1> DEFINE r == [h[p] EXCEPT !.todo = @ \ {"list"}]
<1>1. h \in Requests /\ h[p] \in Request /\ RequestOk(h[p]) /\ cache \in [Users -> Copy]
  BY InvParts, RequestAt
<1>2. UNCHANGED <<user, cache>> /\ h[p].pc = "invalidate" /\ Become(p, r)
  BY DEF InvalidateUserListCache
<1>3. r \in Request /\ r.pc = h[p].pc /\ r.target = h[p].target /\ r.todo = h[p].todo \ {"list"}
  BY <1>1, TodoFacts
<1> HIDE DEF r
<1>4. h' \in Requests /\ h'[p] = r /\ Others(p)
  BY <1>1, <1>2, <1>3, BecomeFacts
<1>5. RequestOk(h'[p])
  BY <1>1, <1>2, <1>3, <1>4 DEF RequestOk
<1>6. /\ h'[p].pc = "invalidate" /\ h'[p].target = h[p].target
      /\ "user" \in h[p].todo => "user" \in h'[p].todo
  BY <1>2, <1>3, <1>4
<1> QED
  BY <1>1, <1>2, <1>4, <1>5, <1>6, QuietStep

LEMMA MarkedFacts ==
  ASSUME cache \in [Users -> Copy], NEW t \in Users,
         cache' = [cache EXCEPT ![t].missed = cache[t].val # None]
  PROVE  /\ cache' \in [Users -> Copy]
         /\ \A u \in Users \ {t} : cache'[u] = cache[u]
         /\ cache'[t].val = cache[t].val
         /\ cache'[t].val = None \/ cache'[t].missed
<1> DEFINE e == cache[t].val # None
<1>1. e \in Flags /\ (e = TRUE \/ cache[t].val = None)
  BY DEF Flags
<1>2. cache' = [cache EXCEPT ![t].missed = e]
  OBVIOUS
<1> HIDE DEF e
<1>3. cache' \in [Users -> Copy] /\ \A u \in Users \ {t} : cache'[u] = cache[u]
  BY <1>1, <1>2 DEF Copy
<1>4. cache'[t].val = cache[t].val /\ cache'[t].missed = e
  BY <1>2 DEF Copy
<1> QED
  BY <1>1, <1>3, <1>4

\* The copy is gone, or marked.
LEMMA DeleteUserFromCacheKeeps ==
  ASSUME DirectoryInv, NEW p \in Procs, DeleteUserFromCache(p)
  PROVE  DirectoryInv'
<1> DEFINE r == [h[p] EXCEPT !.todo = @ \ {"user"}]
           t == h[p].target
<1>1. h \in Requests /\ h[p] \in Request /\ RequestOk(h[p]) /\ cache \in [Users -> Copy]
  BY InvParts, RequestAt
<1>2. user' = user /\ h[p].pc = "invalidate" /\ Become(p, r)
  BY DEF DeleteUserFromCache
<1>3. r \in Request /\ r.pc = h[p].pc /\ r.target = h[p].target
  BY <1>1, TodoFacts
<1>4. t \in Users
  BY <1>1, <1>2 DEF RequestOk
<1> HIDE DEF r
<1>5. h' \in Requests /\ h'[p] = r /\ Others(p)
  BY <1>1, <1>2, <1>3, BecomeFacts
<1>6. RequestOk(h'[p])
  BY <1>1, <1>2, <1>3, <1>5 DEF RequestOk
<1>7. /\ cache' \in [Users -> Copy]
      /\ \A u \in Users \ {t} : cache'[u] = cache[u]
      /\ cache'[t].val = None \/ cache'[t].missed
  <2>1. CASE cache' = [cache EXCEPT ![t] = NoCopy]
    BY <1>1, <1>4, <2>1 DEF NoCopy, Copy, Flags
  <2>2. CASE cache' = [cache EXCEPT ![t].missed = cache[t].val # None]
    BY <1>1, <1>4, <2>2, MarkedFacts
  <2> QED
    BY <2>1, <2>2 DEF DeleteUserFromCache
<1>8. \A u \in Users : h[p].target = u => cache'[u].val = None \/ cache'[u].missed
  BY <1>7
<1> QED
  BY <1>1, <1>2, <1>4, <1>5, <1>6, <1>7, <1>8, QuietStep

-----------------------------------------------------------------------------
(* Writes *)

LEMMA PassByFacts ==
  ASSUME h \in Requests, NEW u \in Users, NEW p \in Procs \cup {None}, NEW r \in Request,
         PassBy(u, p, r)
  PROVE  /\ h' \in Requests
         /\ p \in Procs => h'[p] = r
         /\ \A q \in Procs \ {p} :
              \/ h'[q] = h[q] /\ ~(h[q].pc = "set" /\ h[q].target = u)
              \/ /\ h[q].pc = "set" /\ h'[q].pc = "set"
                 /\ h'[q].target = h[q].target /\ h'[q].missed
<1>1. ASSUME NEW q \in Procs
      PROVE  /\ [h[q] EXCEPT !.missed = TRUE] \in Request
             /\ [h[q] EXCEPT !.missed = TRUE].pc = h[q].pc
             /\ [h[q] EXCEPT !.missed = TRUE].target = h[q].target
             /\ [h[q] EXCEPT !.missed = TRUE].missed = TRUE
  <2>1. h[q] \in Request /\ TRUE \in Flags
    BY DEF Requests, Flags
  <2> QED
    BY <2>1 DEF Request
<1>2. ASSUME NEW q \in Procs \ {p}
      PROVE  \/ h'[q] = h[q] /\ ~(h[q].pc = "set" /\ h[q].target = u)
             \/ /\ h[q].pc = "set" /\ h[q].target = u
                /\ h'[q] = [h[q] EXCEPT !.missed = TRUE]
  BY DEF PassBy
<1>3. h' \in Requests
  BY <1>1 DEF PassBy, Requests
<1>4. p \in Procs => h'[p] = r
  BY DEF PassBy
<1>5. ASSUME NEW q \in Procs \ {p}, h'[q] # h[q] \/ (h[q].pc = "set" /\ h[q].target = u)
      PROVE  /\ h[q].pc = "set" /\ h'[q].pc = "set"
             /\ h'[q].target = h[q].target /\ h'[q].missed
  <2>1. h[q].pc = "set" /\ h[q].target = u /\ h'[q] = [h[q] EXCEPT !.missed = TRUE]
    BY <1>2, <1>5
  <2> QED
    BY <1>1, <2>1
<1> QED
  BY <1>3, <1>4, <1>5

\* A write to account u keeps the invariant if its copy is then gone, marked or
\* about to be deleted by the writer.
LEMMA WriteKeeps ==
  ASSUME DirectoryInv, NEW u \in Users, NEW p \in Procs \cup {None}, NEW r \in Request,
         PassBy(u, p, r),
         p \in Procs => /\ h[p].pc # "invalidate" /\ r.pc = "invalidate" /\ r.target = u
                        /\ "user" \in r.todo,
         user' \in [Users -> Accounts], \A v \in Users \ {u} : user'[v] = user[v],
         cache' \in [Users -> Copy], \A v \in Users \ {u} : cache'[v] = cache[v],
         p \in Procs \/ cache'[u].val = None \/ cache'[u].missed
  PROVE  DirectoryInv'
<1>1. h \in Requests /\ (\A q \in Procs : RequestOk(h[q])) /\ \A v \in Users : CopyOk(v)
  BY InvParts
<1>2. /\ h' \in Requests
      /\ p \in Procs => h'[p] = r
      /\ \A q \in Procs \ {p} :
           \/ h'[q] = h[q] /\ ~(h[q].pc = "set" /\ h[q].target = u)
           \/ /\ h[q].pc = "set" /\ h'[q].pc = "set"
              /\ h'[q].target = h[q].target /\ h'[q].missed
  BY <1>1, PassByFacts
<1>3. ASSUME NEW q \in Procs PROVE RequestOk(h[q])'
  <2>1. CASE q = p
    BY <1>2, <2>1 DEF RequestOk
  <2>2. CASE q # p /\ h'[q] = h[q] /\ ~(h[q].pc = "set" /\ h[q].target = u)
    BY <1>1, <2>2 DEF RequestOk
  <2>3. CASE /\ h[q].pc = "set" /\ h'[q].pc = "set"
             /\ h'[q].target = h[q].target /\ h'[q].missed
    BY <1>1, <2>3 DEF RequestOk
  <2> QED
    BY <1>2, <2>1, <2>2, <2>3
<1>4. ASSUME NEW v \in Users, v # u PROVE CopyOk(v)'
  <2>1. Invalidating(v) => Invalidating(v)'
    BY <1>2 DEF Invalidating
  <2> QED
    BY <1>1, <1>4, <2>1 DEF CopyOk, Stale
<1>5. CopyOk(u)'
  BY <1>2 DEF CopyOk, Stale, Invalidating
<1> QED
  BY <1>2, <1>3, <1>4, <1>5, InvPartsNext

LEMMA AuthWriteKeeps ==
  ASSUME DirectoryInv, NEW u \in Users, AuthWrite(u)
  PROVE  DirectoryInv'
<1>1. user \in [Users -> Accounts] /\ cache \in [Users -> Copy]
  BY InvParts
<1>2. user' \in [Users -> Accounts] /\ \A v \in Users \ {u} : user'[v] = user[v]
  <2> DEFINE s == ~user[u].seen
  <2>1. s \in BOOLEAN /\ user' = [user EXCEPT ![u].seen = s]
    BY DEF AuthWrite
  <2> HIDE DEF s
  <2>2. [user[u] EXCEPT !.seen = s] \in Accounts
    BY <1>1, <2>1 DEF Accounts
  <2> QED
    BY <1>1, <2>1, <2>2
<1>3. /\ cache' \in [Users -> Copy]
      /\ \A v \in Users \ {u} : cache'[v] = cache[v]
      /\ cache'[u].val = None \/ cache'[u].missed
  BY <1>1, MarkedFacts DEF AuthWrite
<1>4. PassBy(u, None, Idle) /\ None \notin Procs
  BY NoneIsFresh DEF AuthWrite
<1> QED
  BY <1>2, <1>3, <1>4, IdleType, WriteKeeps

LEMMA UpdatedType ==
  ASSUME NEW d \in Accounts, NEW r \in Request
  PROVE  Updated(d, r) \in Accounts
<1>1. r.body \in Body
  BY DEF Request
<1>2. r.body.name \in Names \cup {None} /\ r.body.role \in Roles \cup {None}
  BY <1>1 DEF Body
<1>3. CASE r.op = "deleteUser"
  BY <1>3 DEF Updated, Accounts
<1>4. CASE r.op = "deactivateUser"
  BY <1>4 DEF Updated, Accounts
<1>5. CASE r.op \notin {"deleteUser", "deactivateUser"}
  <2> DEFINE n == IF r.body.name # None THEN r.body.name ELSE d.name
             o == IF r.body.role # None THEN r.body.role ELSE d.role
  <2>1. n \in Names /\ o \in Roles
    BY <1>2 DEF Accounts
  <2>2. Updated(d, r) = [d EXCEPT !.name = n, !.role = o]
    BY <1>5 DEF Updated
  <2> HIDE DEF n, o
  <2> QED
    BY <2>1, <2>2 DEF Accounts
<1> QED
  BY <1>3, <1>4, <1>5

\* What a write does: account t alone changes, and the writer goes on to delete
\* the copy.
LEMMA UpdateByIdFacts ==
  ASSUME DirectoryInv, NEW p \in Procs, UpdateById(p), user[h[p].target].there
  PROVE  LET t == h[p].target IN
         /\ t \in Users /\ Entitled(h[p]) /\ cache' = cache
         /\ user' = [user EXCEPT ![t] = Updated(user[t], h[p])]
         /\ \E r \in Request :
              /\ PassBy(t, p, r)
              /\ r.pc = "invalidate" /\ r.target = t /\ "user" \in r.todo
<1> DEFINE t == h[p].target
           todo == IF h[p].op \in {"updateUser", "updateProfile", "deleteUser"}
                   THEN {"user", "list"} ELSE {"user"}
           r == [h[p] EXCEPT !.pc = "invalidate", !.todo = todo]
<1>1. h[p] \in Request /\ RequestOk(h[p]) /\ h[p].pc = "write"
  BY InvParts, RequestAt DEF UpdateById
<1>2. t \in Users /\ Entitled(h[p])
  BY <1>1 DEF RequestOk
<1>3. cache' = cache /\ user' = [user EXCEPT ![t] = Updated(user[t], h[p])] /\ PassBy(t, p, r)
  BY DEF UpdateById
<1>4. todo \in Todos /\ "user" \in todo /\ "invalidate" \in Pcs
  BY DEF Todos, Pcs
<1> HIDE DEF todo
<1>5. r \in Request /\ r.pc = "invalidate" /\ r.target = t /\ r.todo = todo
  BY <1>1, <1>4 DEF Request
<1> HIDE DEF r
<1> QED
  BY <1>2, <1>3, <1>4, <1>5

LEMMA UpdateByIdKeeps ==
  ASSUME DirectoryInv, NEW p \in Procs, UpdateById(p)
  PROVE  DirectoryInv'
<1>1. user \in [Users -> Accounts] /\ cache \in [Users -> Copy] /\ h[p] \in Request
  BY InvParts, RequestAt
<1>2. CASE ~user[h[p].target].there
  <2>1. Answer(p, 404) /\ UNCHANGED <<user, cache>> /\ h[p].pc = "write"
    BY <1>2 DEF UpdateById
  <2> QED
    BY <2>1, AnswerKeeps
<1>3. CASE user[h[p].target].there
  <2>1. PICK r \in Request :
          PassBy(h[p].target, p, r) /\ r.pc = "invalidate" /\ r.target = h[p].target
            /\ "user" \in r.todo
    BY <1>3, UpdateByIdFacts
  <2>2. /\ h[p].target \in Users /\ cache' = cache /\ h[p].pc # "invalidate"
        /\ user' = [user EXCEPT ![h[p].target] = Updated(user[h[p].target], h[p])]
    BY <1>3, UpdateByIdFacts DEF UpdateById
  <2>3. user' \in [Users -> Accounts]
    BY <1>1, <2>2, UpdatedType
  <2> QED
    BY <1>1, <2>1, <2>2, <2>3, WriteKeeps
<1> QED
  BY <1>2, <1>3

-----------------------------------------------------------------------------

LEMMA HandlerStepKeeps ==
  ASSUME DirectoryInv, NEW p \in Procs, HandlerStep(p)
  PROVE  DirectoryInv'
<1>1. CASE List(p)
  BY <1>1, AnswerKeeps DEF List
<1>2. CASE Respond(p)
  BY <1>2, AnswerKeeps DEF Respond
<1> QED
  BY <1>1, <1>2, GetUserFromCacheKeeps, FindByIdKeeps, SetUserInCacheKeeps, UpdateByIdKeeps,
     DeleteUserFromCacheKeeps, InvalidateUserListCacheKeeps, CloseKeeps DEF HandlerStep

LEMMA ExpireKeeps ==
  ASSUME DirectoryInv, NEW u \in Users, Expire(u)
  PROVE  DirectoryInv'
<1>1. /\ user \in [Users -> Accounts] /\ cache \in [Users -> Copy] /\ h \in Requests
      /\ \A q \in Procs : RequestOk(h[q])
      /\ \A v \in Users : CopyOk(v)
  BY InvParts
<1>2. UNCHANGED <<user, h>> /\ cache' = [cache EXCEPT ![u] = NoCopy]
  BY DEF Expire
<1>3. cache' \in [Users -> Copy]
  BY <1>1, <1>2 DEF NoCopy, Copy, Flags
<1>4. ASSUME NEW q \in Procs PROVE RequestOk(h[q])'
  BY <1>1, <1>2 DEF RequestOk
<1>5. ASSUME NEW v \in Users PROVE CopyOk(v)'
  BY <1>1, <1>2 DEF CopyOk, Stale, Invalidating, NoCopy
<1> QED
  BY <1>1, <1>2, <1>3, <1>4, <1>5, InvPartsNext

LEMMA StutterKeeps ==
  ASSUME DirectoryInv, UNCHANGED vars
  PROVE  DirectoryInv'
<1>1. UNCHANGED <<user, cache, h>>
  BY DEF vars
<1> QED
  BY <1>1 DEF DirectoryInv, TypeOK, StaleOnlyIfMissed, Stale, Invalidating

\* In every reachable state requests at work are about an account, writes are
\* entitled, and a copy is up to date, marked or about to be deleted.
THEOREM DirectoryInvariance == Spec => []DirectoryInv
<1>1. DirectoryInv /\ [Next]_vars => DirectoryInv'
  BY CallKeeps, HandlerStepKeeps, AuthWriteKeeps, ExpireKeeps, StutterKeeps DEF Next
<1> QED
  BY <1>1, InitEstablishes, PTL DEF Spec

\* Every variable keeps its type.
THEOREM DirectoryTyped == Spec => []TypeOK
<1>1. DirectoryInv => TypeOK
  BY DEF DirectoryInv
<1> QED
  BY <1>1, DirectoryInvariance, PTL

\* A copy is stale only while its deletion is pending or when it missed a write
\* for good.
THEOREM StaleCopies == Spec => []StaleOnlyIfMissed
<1>1. DirectoryInv => StaleOnlyIfMissed
  BY DEF DirectoryInv
<1> QED
  BY <1>1, DirectoryInvariance, PTL

-----------------------------------------------------------------------------
(* Authorisation *)

\* ChangesAreAuthorised of one step.
Authorised ==
  \A u \in Users :
    /\ user'[u].name # user[u].name => WrittenFor(u, Owner(u) \cup Callers(Admin))
    /\ (user'[u].role # user[u].role \/ user'[u].active # user[u].active)
         => WrittenFor(u, Callers(Admin))
    /\ user'[u].there # user[u].there => WrittenFor(u, Callers({"super_admin"}))

\* Which fields a write changes, by its route and its body.
LEMMA UpdatedFacts ==
  ASSUME NEW d \in Accounts, NEW r \in Request
  PROVE  /\ Updated(d, r).name # d.name =>
              r.op \notin {"deleteUser", "deactivateUser"} /\ r.body.name # None
         /\ Updated(d, r).role # d.role =>
              r.op \notin {"deleteUser", "deactivateUser"} /\ r.body.role # None
         /\ Updated(d, r).active # d.active => r.op = "deactivateUser"
         /\ Updated(d, r).there # d.there => r.op = "deleteUser"
<1>1. CASE r.op = "deleteUser"
  BY <1>1 DEF Updated, Accounts
<1>2. CASE r.op = "deactivateUser"
  BY <1>2 DEF Updated, Accounts
<1>3. CASE r.op \notin {"deleteUser", "deactivateUser"}
  BY <1>3 DEF Updated, Accounts
<1> QED
  BY <1>1, <1>2, <1>3

LEMMA UpdateByIdAuthorised ==
  ASSUME DirectoryInv, NEW p \in Procs, UpdateById(p)
  PROVE  Authorised
<1>1. user \in [Users -> Accounts] /\ h[p] \in Request /\ h[p].pc = "write"
  BY InvParts, RequestAt DEF UpdateById
<1>2. CASE ~user[h[p].target].there
  BY <1>2 DEF UpdateById, Authorised
<1>3. CASE user[h[p].target].there
  <2> DEFINE t == h[p].target
  <2>1. /\ t \in Users /\ Entitled(h[p])
        /\ user' = [user EXCEPT ![t] = Updated(user[t], h[p])]
    BY <1>3, UpdateByIdFacts
  <2>2. PICK r \in Request : PassBy(t, p, r) /\ r.pc = "invalidate"
    BY <1>3, UpdateByIdFacts
  <2>3. h'[p].pc # "write"
    BY <2>2 DEF PassBy
  <2>4. ASSUME NEW requests, p \in requests PROVE WrittenFor(t, requests)
    BY <1>1, <2>3, <2>4 DEF WrittenFor
  <2>5. user[t] \in Accounts /\ user'[t] = Updated(user[t], h[p])
    BY <1>1, <2>1
  <2>6. user'[t].name # user[t].name => p \in Owner(t) \cup Callers(Admin)
    BY <1>1, <2>1, <2>5, UpdatedFacts DEF Entitled, Owner, Callers
  <2>7. user'[t].role # user[t].role \/ user'[t].active # user[t].active
          => p \in Callers(Admin)
    BY <1>1, <2>1, <2>5, UpdatedFacts DEF Entitled, Callers
  <2>8. user'[t].there # user[t].there => p \in Callers({"super_admin"})
    BY <1>1, <2>1, <2>5, UpdatedFacts DEF Entitled, Callers
  <2>9. \A u \in Users \ {t} : user'[u] = user[u]
    BY <1>1, <2>1
  <2> QED
    BY <2>4, <2>6, <2>7, <2>8, <2>9 DEF Authorised
<1> QED
  BY <1>2, <1>3

\* The auth module changes none of the fields that are guarded.
LEMMA AuthWriteAuthorised ==
  ASSUME DirectoryInv, NEW u \in Users, AuthWrite(u)
  PROVE  Authorised
<1> DEFINE s == ~user[u].seen
<1>1. user \in [Users -> Accounts] /\ user' = [user EXCEPT ![u].seen = s]
  BY InvParts DEF AuthWrite
<1> HIDE DEF s
<1>2. \A v \in Users : /\ user'[v].name = user[v].name /\ user'[v].role = user[v].role
                      /\ user'[v].active = user[v].active /\ user'[v].there = user[v].there
  BY <1>1 DEF Accounts
<1> QED
  BY <1>2 DEF Authorised

LEMMA StepsAuthorised ==
  ASSUME DirectoryInv, Next
  PROVE  Authorised
<1>1. CASE user' = user
  BY <1>1 DEF Authorised
<1>2. ASSUME NEW p \in Procs, UpdateById(p) PROVE Authorised
  BY <1>2, UpdateByIdAuthorised
<1>3. ASSUME NEW u \in Users, AuthWrite(u) PROVE Authorised
  BY <1>3, AuthWriteAuthorised
<1>4. \/ user' = user
      \/ \E p \in Procs : UpdateById(p)
      \/ \E u \in Users : AuthWrite(u)
  <2>1. ASSUME NEW p \in Procs, HandlerStep(p), ~UpdateById(p)
        PROVE  user' = user
    BY <2>1 DEF HandlerStep, GetUserFromCache, FindById, SetUserInCache, List,
                DeleteUserFromCache, InvalidateUserListCache, Respond, Close
  <2>2. ASSUME NEW p \in Procs, NEW a \in Users, NEW t \in Users, NEW o \in Ops,
               NEW b \in Bodies, Call(p, a, o, t, b)
        PROVE  user' = user
    BY <2>2 DEF Call
  <2>3. ASSUME NEW u \in Users, Expire(u)
        PROVE  user' = user
    BY <2>3 DEF Expire
  <2> QED
    BY <2>1, <2>2, <2>3 DEF Next
<1> QED
  BY <1>1, <1>2, <1>3, <1>4

\* Every change of a profile, a role, an activity flag or an account's existence
\* is made for a caller who is entitled to it.
THEOREM AuthorisedChanges == Spec => ChangesAreAuthorised
<1>1. DirectoryInv /\ [Next]_vars => [Authorised]_vars
  BY StepsAuthorised
<1> QED
  BY <1>1, DirectoryInvariance, PTL DEF Spec, ChangesAreAuthorised, Authorised

-----------------------------------------------------------------------------
(* How requests get on, and copies get well *)

\* Two requests that are at the same place with the same data, up to marks.
Alike(r, s) == r.pc = s.pc /\ r.todo = s.todo /\ r.copy = s.copy /\ r.target = s.target

LEMMA AlikeSteps ==
  ASSUME NEW r, NEW s, Alike(r, s)
  PROVE  StepsLeft(r) = StepsLeft(s)
  BY DEF Alike, StepsLeft

\* What is left of a request, place by place.
LEMMA StepsLeftAt ==
  ASSUME NEW r
  PROVE  /\ StepsLeft(r) \in 0 .. 5
         /\ r.pc = "idle" => StepsLeft(r) = 0
         /\ r.pc = "answered" => StepsLeft(r) = 1
         /\ r.pc \in {"set", "list"} => StepsLeft(r) = 2
         /\ r.pc = "find" => StepsLeft(r) = 3
         /\ r.pc = "get" => StepsLeft(r) = 4
         /\ r.pc = "write" => StepsLeft(r) = 5
         /\ r.pc = "invalidate" => StepsLeft(r) \in 2 .. 4
  BY DEF StepsLeft

\* A write to u moves the requests of others by a mark at most.
LEMMA PassByOthers ==
  ASSUME h \in Requests, NEW u, NEW p, NEW r, PassBy(u, p, r), NEW q \in Procs, q # p
  PROVE  Alike(h[q], h'[q])
<1>1. h'[q] \in {h[q], [h[q] EXCEPT !.missed = TRUE]}
  BY DEF PassBy
<1>2. h[q] \in Request
  BY DEF Requests
<1> QED
  BY <1>1, <1>2 DEF Alike, Request

\* What a step of p does: p itself has less to do, and reads what it will fill the
\* cache with; the others stay where they are.
Moved(p) ==
  /\ StepsLeft(h'[p]) < StepsLeft(h[p])
  /\ h'[p].pc = "set" => h'[p].copy = user[h'[p].target]
  /\ \A q \in Procs \ {p} : Alike(h[q], h'[q])

LEMMA OthersAlike ==
  ASSUME NEW p, Others(p)
  PROVE  \A q \in Procs \ {p} : Alike(h[q], h'[q])
  BY DEF Others, Alike

LEMMA AnswerMoves ==
  ASSUME h \in Requests, NEW p \in Procs, NEW s \in {200, 400, 403, 404}, Answer(p, s),
         h[p].pc \notin {"idle", "answered"}
  PROVE  Moved(p)
<1>1. h[p].pc \in Pcs
  BY DEF Requests, Request
<1>2. StepsLeft(h[p]) > 1
  BY <1>1, StepsLeftAt DEF Pcs
<1>3. h'[p].pc = "answered" /\ Others(p)
  BY AnswerFacts
<1> QED
  BY <1>2, <1>3, StepsLeftAt, OthersAlike DEF Moved

LEMMA UpdateByIdMoves ==
  ASSUME DirectoryInv, NEW p \in Procs, UpdateById(p)
  PROVE  Moved(p)
<1>1. h \in Requests /\ h[p].pc = "write"
  BY InvParts DEF UpdateById
<1>2. CASE user[h[p].target].there
  <2>1. PICK r \in Request : PassBy(h[p].target, p, r) /\ r.pc = "invalidate"
    BY <1>2, UpdateByIdFacts
  <2>2. h'[p] = r
    BY <2>1 DEF PassBy
  <2>3. StepsLeft(h'[p]) < StepsLeft(h[p])
    BY <1>1, <2>1, <2>2, StepsLeftAt
  <2> QED
    BY <1>1, <2>1, <2>2, <2>3, PassByOthers DEF Moved
<1>3. CASE ~user[h[p].target].there
  BY <1>1, <1>3, AnswerMoves DEF UpdateById
<1> QED
  BY <1>2, <1>3

\* A deletion in Redis leaves one step fewer.
LEMMA TodoMoves ==
  ASSUME h \in Requests, NEW p \in Procs, NEW x \in {"user", "list"},
         h[p].pc = "invalidate", x \in h[p].todo,
         Become(p, [h[p] EXCEPT !.todo = @ \ {x}])
  PROVE  Moved(p)
<1> DEFINE r == [h[p] EXCEPT !.todo = @ \ {x}]
<1>1. h[p] \in Request
  BY DEF Requests
<1>2. r \in Request /\ r.pc = h[p].pc /\ r.todo = h[p].todo \ {x}
  BY <1>1, TodoFacts
<1> HIDE DEF r
<1>3. h'[p] = r /\ Others(p)
  BY <1>2, BecomeFacts DEF r
<1>4. StepsLeft(r) < StepsLeft(h[p])
  BY <1>2 DEF StepsLeft
<1> QED
  BY <1>2, <1>3, <1>4, OthersAlike DEF Moved

LEMMA HandlerMoves ==
  ASSUME DirectoryInv, NEW p \in Procs, HandlerStep(p)
  PROVE  Moved(p)
<1>1. h \in Requests /\ h[p] \in Request
  BY InvParts, RequestAt
<1>2. CASE GetUserFromCache(p)
  <2>1. h[p].pc = "get"
    BY <1>2 DEF GetUserFromCache
  <2>2. CASE Answer(p, 200)
    BY <1>1, <2>1, <2>2, AnswerMoves
  <2>3. CASE Become(p, [h[p] EXCEPT !.pc = "find"])
    <3>1. [h[p] EXCEPT !.pc = "find"] \in Request /\ [h[p] EXCEPT !.pc = "find"].pc = "find"
      BY <1>1 DEF Request, Pcs
    <3>2. h'[p].pc = "find" /\ Others(p)
      BY <1>1, <2>3, <3>1, BecomeFacts
    <3> QED
      BY <2>1, <3>2, StepsLeftAt, OthersAlike DEF Moved
  <2> QED
    BY <1>2, <2>2, <2>3 DEF GetUserFromCache
<1>3. CASE FindById(p)
  <2>1. h[p].pc = "find"
    BY <1>3 DEF FindById
  <2>2. CASE Answer(p, 404)
    BY <1>1, <2>1, <2>2, AnswerMoves
  <2>3. CASE Become(p, [h[p] EXCEPT !.pc = "set", !.copy = user[h[p].target]])
    <3>1. Others(p) /\ h'[p] = [h[p] EXCEPT !.pc = "set", !.copy = user[h[p].target]]
      BY <1>1, <2>3 DEF Become, Requests, Others
    <3>2. h'[p].pc = "set" /\ h'[p].copy = user[h'[p].target]
      BY <1>1, <3>1 DEF Request
    <3>3. StepsLeft(h'[p]) < StepsLeft(h[p])
      BY <2>1, <3>2, StepsLeftAt
    <3> QED
      BY <3>1, <3>2, <3>3, OthersAlike DEF Moved
  <2> QED
    BY <1>3, <2>2, <2>3 DEF FindById
<1>4. CASE SetUserInCache(p) \/ List(p)
  BY <1>1, <1>4, AnswerMoves DEF SetUserInCache, List
<1>5. CASE UpdateById(p)
  BY <1>5, UpdateByIdMoves
<1>6. CASE DeleteUserFromCache(p) \/ InvalidateUserListCache(p)
  BY <1>1, <1>6, TodoMoves DEF DeleteUserFromCache, InvalidateUserListCache
<1>7. CASE Respond(p)
  BY <1>1, <1>7, AnswerMoves DEF Respond
<1>8. CASE Close(p)
  <2>1. h'[p].pc = "idle" /\ Others(p) /\ h[p].pc = "answered"
    BY <1>1, <1>8, IdleType, BecomeFacts DEF Close, Idle
  <2> QED
    BY <2>1, StepsLeftAt, OthersAlike DEF Moved
<1> QED
  BY <1>2, <1>3, <1>4, <1>5, <1>6, <1>7, <1>8 DEF HandlerStep

\* A call starts on a request that is idle and moves no other; what the auth
\* module and Redis do moves none.
LEMMA CallMoves ==
  ASSUME DirectoryInv, NEW p \in Procs, NEW a \in Users, NEW t \in Users, NEW o \in Ops,
         NEW b \in Bodies, Call(p, a, o, t, b)
  PROVE  /\ h[p].pc = "idle" /\ h'[p].pc # "set" /\ UNCHANGED <<user, cache>>
         /\ \A q \in Procs \ {p} : Alike(h[q], h'[q])
<1>1. h \in Requests
  BY InvParts
<1>2. Others(p) /\ h[p].pc = "idle" /\ UNCHANGED <<user, cache>>
  BY <1>1 DEF Call, Become, Others, Requests
<1>3. h'[p].pc # "set"
  <2> DEFINE request == [Idle EXCEPT !.op = o, !.actor = a, !.role = user[a].role,
                                     !.target = t, !.body = b]
  <2>1. ASSUME NEW r, Become(p, r) PROVE h'[p] = r
    BY <1>1, <2>1 DEF Become, Requests
  <2>2. ASSUME NEW s PROVE Answered(request, s).pc = "answered"
    BY DEF Answered, Idle
  <2>3. [request EXCEPT !.pc = Entry(o), !.body = StripUnknown(o, b)].pc = Entry(o)
    BY DEF Idle
  <2>4. Entry(o) # "set"
    BY DEF Entry
  <2> QED
    BY <2>1, <2>2, <2>3, <2>4 DEF Call
<1> QED
  BY <1>2, <1>3, OthersAlike

LEMMA WorldMoves ==
  ASSUME DirectoryInv, NEW u \in Users, AuthWrite(u) \/ Expire(u)
  PROVE  \A q \in Procs : Alike(h[q], h'[q])
<1>1. h \in Requests
  BY InvParts
<1>2. CASE AuthWrite(u)
  <2>1. PassBy(u, None, Idle) /\ None \notin Procs
    BY <1>2, NoneIsFresh DEF AuthWrite
  <2> QED
    BY <1>1, <2>1, PassByOthers
<1>3. CASE Expire(u)
  BY <1>3 DEF Expire, Alike
<1> QED
  BY <1>2, <1>3

\* A request takes at most five steps, whatever the others do, and is through then
\* (user.controller.js, user.service.js).
THEOREM RequestsGetOn == Spec => HandlersGetOn
<1> DEFINE GetOn == \A p \in Procs :
                      /\ h[p].pc # "idle" => StepsLeft(h'[p]) <= StepsLeft(h[p])
                      /\ HandlerStep(p) => StepsLeft(h'[p]) < StepsLeft(h[p])
<1>1. DirectoryInv /\ [Next]_vars => [GetOn]_vars
  <2> SUFFICES ASSUME DirectoryInv, Next, NEW p \in Procs
               PROVE  /\ h[p].pc # "idle" => StepsLeft(h'[p]) <= StepsLeft(h[p])
                      /\ HandlerStep(p) => StepsLeft(h'[p]) < StepsLeft(h[p])
    OBVIOUS
  <2>1. HandlerStep(p) => StepsLeft(h'[p]) < StepsLeft(h[p])
    BY HandlerMoves DEF Moved
  <2>2. StepsLeft(h[p]) \in Nat /\ StepsLeft(h'[p]) \in Nat
    BY StepsLeftAt
  <2>3. Alike(h[p], h'[p]) => StepsLeft(h'[p]) <= StepsLeft(h[p])
    BY <2>2, AlikeSteps
  <2>4. ASSUME NEW q \in Procs, HandlerStep(q), q # p
        PROVE  Alike(h[p], h'[p])
    BY <2>4, HandlerMoves DEF Moved
  <2>5. ASSUME NEW q \in Procs, NEW a \in Users, NEW t \in Users, NEW o \in Ops,
               NEW b \in Bodies, Call(q, a, o, t, b), h[p].pc # "idle"
        PROVE  Alike(h[p], h'[p])
    BY <2>5, CallMoves
  <2>6. ASSUME NEW u \in Users, AuthWrite(u) \/ Expire(u)
        PROVE  Alike(h[p], h'[p])
    BY <2>6, WorldMoves
  <2> QED
    BY <2>1, <2>2, <2>3, <2>4, <2>5, <2>6 DEF Next
<1> QED
  BY <1>1, DirectoryInvariance, PTL DEF Spec, HandlersGetOn

\* A request that is about to fill the cache has read just now what it will write,
\* or held it before.
LEMMA HoldingMoves ==
  ASSUME DirectoryInv, Next, NEW q \in Procs, h'[q].pc = "set"
  PROVE  \/ h'[q].copy = user[h'[q].target]
         \/ Alike(h[q], h'[q])
<1>1. ASSUME NEW p \in Procs, HandlerStep(p)
      PROVE  h'[q].copy = user[h'[q].target] \/ Alike(h[q], h'[q])
  BY <1>1, HandlerMoves DEF Moved
<1>2. ASSUME NEW p \in Procs, NEW a \in Users, NEW t \in Users, NEW o \in Ops,
             NEW b \in Bodies, Call(p, a, o, t, b)
      PROVE  Alike(h[q], h'[q])
  BY <1>2, CallMoves
<1>3. ASSUME NEW u \in Users, AuthWrite(u) \/ Expire(u)
      PROVE  Alike(h[q], h'[q])
  BY <1>3, WorldMoves
<1> QED
  BY <1>1, <1>2, <1>3 DEF Next

LEMMA MarkedVal ==
  ASSUME cache \in [Users -> Copy], NEW t, NEW u \in Users,
         cache' = [cache EXCEPT ![t].missed = cache[t].val # None]
  PROVE  cache'[u].val = cache[u].val
<1>1. CASE u = t
  BY <1>1, MarkedFacts
<1>2. CASE u # t
  BY <1>2
<1> QED
  BY <1>1, <1>2

\* A copy that differs afterwards, though the accounts stay as they are, differed
\* before or was filled in by this step.
LEMMA FillMoves ==
  ASSUME DirectoryInv, Next, user' = user, NEW u \in Users, Stale(u)', ~Stale(u)
  PROVE  \E p \in Late : h[p].target = u /\ h'[p].pc # "set"
<1>1. cache \in [Users -> Copy] /\ h \in Requests
  BY InvParts
<1>2. cache'[u].val # None /\ cache'[u].val # user[u] /\ cache'[u].val # cache[u].val
  BY DEF Stale
<1>3. ASSUME NEW p \in Procs, SetUserInCache(p)
      PROVE  \E q \in Late : h[q].target = u /\ h'[q].pc # "set"
  <2>1. h[p].pc = "set" /\ Answer(p, 200)
    BY <1>3 DEF SetUserInCache
  <2>2. h'[p].pc = "answered"
    BY <1>1, <2>1, AnswerFacts
  <2>3. h[p].target = u /\ cache'[u].val = h[p].copy
    BY <1>1, <1>2, <1>3 DEF SetUserInCache
  <2> QED
    BY <1>2, <2>1, <2>2, <2>3 DEF Late
<1>4. ASSUME NEW p \in Procs, DeleteUserFromCache(p)
      PROVE  FALSE
  <2>1. CASE cache' = [cache EXCEPT ![h[p].target] = NoCopy]
    BY <1>1, <1>2, <2>1 DEF NoCopy
  <2>2. CASE cache' = [cache EXCEPT ![h[p].target].missed = cache[h[p].target].val # None]
    BY <1>1, <1>2, <2>2, MarkedVal
  <2> QED
    BY <1>4, <2>1, <2>2 DEF DeleteUserFromCache
<1>5. ASSUME NEW v \in Users, AuthWrite(v) \/ Expire(v)
      PROVE  FALSE
  <2>1. CASE cache' = [cache EXCEPT ![v] = NoCopy]
    BY <1>1, <1>2, <2>1 DEF NoCopy
  <2>2. CASE cache' = [cache EXCEPT ![v].missed = cache[v].val # None]
    BY <1>1, <1>2, <2>2, MarkedVal
  <2> QED
    BY <1>5, <2>1, <2>2 DEF AuthWrite, Expire
<1>6. ASSUME NEW p \in Procs, HandlerStep(p), ~SetUserInCache(p), ~DeleteUserFromCache(p)
      PROVE  cache' = cache
  BY <1>6 DEF HandlerStep, GetUserFromCache, FindById, List, UpdateById,
              InvalidateUserListCache, Respond, Close
<1>7. ASSUME NEW p \in Procs, NEW a \in Users, NEW t \in Users, NEW o \in Ops,
             NEW b \in Bodies, Call(p, a, o, t, b)
      PROVE  cache' = cache
  BY <1>7 DEF Call
<1> QED
  BY <1>2, <1>3, <1>4, <1>5, <1>6, <1>7 DEF Next

\* While no document is written, outdated data is only used up: each request that
\* holds some fills the cache with it once, and no other copy goes stale
\* (cache/user.cache.js).
THEOREM CopiesGetWell == Spec => CopiesHeal
<1> DEFINE Heal == user' = user =>
                     /\ Late' \subseteq Late
                     /\ \A u \in Users : Stale(u)' /\ ~Stale(u) =>
                          \E p \in Late \ Late' : h[p].target = u
<1>1. DirectoryInv /\ [Next]_vars => [Heal]_vars
  <2> SUFFICES ASSUME DirectoryInv, Next, user' = user
               PROVE  /\ Late' \subseteq Late
                      /\ \A u \in Users : Stale(u)' /\ ~Stale(u) =>
                           \E p \in Late \ Late' : h[p].target = u
    OBVIOUS
  <2>1. ASSUME NEW q \in Late'
        PROVE  q \in Late
    <3>1. q \in Procs /\ h'[q].pc = "set" /\ h'[q].copy # user[h'[q].target]
      BY <2>1 DEF Late
    <3>2. Alike(h[q], h'[q])
      BY <3>1, HoldingMoves
    <3> QED
      BY <3>1, <3>2 DEF Late, Alike
  <2>2. ASSUME NEW u \in Users, Stale(u)', ~Stale(u)
        PROVE  \E p \in Late \ Late' : h[p].target = u
    <3>1. PICK p \in Late : h[p].target = u /\ h'[p].pc # "set"
      BY <2>2, FillMoves
    <3>2. p \notin Late'
      BY <3>1 DEF Late
    <3> QED
      BY <3>1, <3>2
  <2> QED
    BY <2>1, <2>2
<1> QED
  BY <1>1, DirectoryInvariance, PTL DEF Spec, CopiesHeal

=============================================================================
