--------------------------- MODULE LifecycleProofs ---------------------------
(***************************************************************************)
(* Proofs about Lifecycle, for any number of client connections and any    *)
(* limit on the attempts to connect.                                       *)
(***************************************************************************)
EXTENDS Lifecycle, TLAPS

-----------------------------------------------------------------------------
(* The inductive invariant *)

\* Nothing has started when the process is loaded.
LEMMA InitEstablishes == Init => LifeInv
<1> SUFFICES ASSUME Init PROVE LifeInv
  OBVIOUS
<1> USE DEF Init
<1>1. TypeOK
  <2>1. retries \in 0 .. MaxRetries
    BY RetriesAssumption
  <2>2. conn \in [Conns -> {"none", "idle", "request", "orphan", "socket"}]
    OBVIOUS
  <2>3. worker \in [Queues -> {"off", "idle", "busy"}]
    OBVIOUS
  <2> QED
    BY <2>1, <2>2, <2>3 DEF TypeOK
<1>2. early \/ InStep
  BY DEF InStep
<1> QED
  BY <1>1, <1>2, RetriesAssumption DEF LifeInv

\* Boot: the limit on attempts, and that the server begins to listen with its
\* databases connected unless a signal came first.
LEMMA BootKeeps ==
  ASSUME LifeInv, Boot
  PROVE  LifeInv'
<1> USE RetriesAssumption DEF LifeInv, TypeOK, InStep, Held, Handled, Running, Queues, shutdownVars
<1>1. CASE ConnectMongo
  BY <1>1 DEF ConnectMongo, GetRedisClient
<1>2. CASE ConnectMongoFails
  BY <1>2 DEF ConnectMongoFails
<1>3. CASE RetryMongo
  BY <1>3 DEF RetryMongo
<1>4. CASE Listen
  BY <1>4 DEF Listen, StartAllWorkers, StartAllJobs
<1>5. CASE ListenFails
  BY <1>5 DEF ListenFails, StartAllWorkers, StartAllJobs
<1> QED
  BY <1>1, <1>2, <1>3, <1>4, <1>5 DEF Boot

\* Serving: connections move only while there are any, or the server listens.
LEMMA ServeKeeps ==
  ASSUME LifeInv, Serve
  PROVE  LifeInv'
<1> USE DEF LifeInv, TypeOK, InStep, Held, Handled, Running, Queues, shutdownVars
<1>1. ASSUME NEW c \in Conns, Accept(c)
      PROVE  LifeInv'
  BY <1>1 DEF Accept, Use
<1>2. ASSUME NEW c \in Conns, NEW from \in {"idle", "request", "socket"},
             NEW to \in {"none", "idle", "request", "orphan", "socket"}, Use(c, from, to)
      PROVE  LifeInv'
  BY <1>2 DEF Use
<1>3. ASSUME NEW c \in Conns, Finish(c)
      PROVE  LifeInv'
  BY <1>3 DEF Finish, Use
<1>4. ASSUME NEW c \in Conns, UseRedis(c)
      PROVE  LifeInv'
  BY <1>4 DEF UseRedis, GetRedisClient
<1>5. CASE CleanUp
  BY <1>5 DEF CleanUp
<1>6. ASSUME NEW q \in Queues, WorkerStep(q)
      PROVE  LifeInv'
  BY <1>6 DEF WorkerStep
<1> QED
  BY <1>1, <1>2, <1>3, <1>4, <1>5, <1>6
     DEF Serve, NextRequest, Answer, Upgrade, Leave, HangUp

\* Shutdown: the closers start once nobody is connected, and each is accounted
\* for until the process exits.
LEMMA ShutdownKeeps ==
  ASSUME LifeInv, Shutdown
  PROVE  LifeInv'
<1> USE DEF LifeInv, TypeOK, InStep, Held, Handled, Running, Queues, shutdownVars
<1>1. CASE Signal
  <2>1. CASE http = "listening"
    BY <1>1, <2>1 DEF Signal, StopListening
  <2>2. CASE http = "new"
    BY <1>1, <2>2 DEF Signal, StartClosers, Closers, StopAllJobs
  <2> QED
    BY <1>1, <2>1, <2>2 DEF Signal
<1>2. CASE Drained
  BY <1>2 DEF Drained, StartClosers, Closers, StopAllJobs
<1>3. CASE CloseMongo
  BY <1>3 DEF CloseMongo
<1>4. CASE CloseRedis
  BY <1>4 DEF CloseRedis
<1>5. ASSUME NEW q \in Queues, StopWorker(q)
      PROVE  LifeInv'
  BY <1>5 DEF StopWorker
<1>6. ASSUME NEW x \in todo, CloserRejects(x)
      PROVE  LifeInv'
  BY <1>6 DEF CloserRejects
<1>7. CASE ExitCleanly
  BY <1>7 DEF ExitCleanly
<1>8. CASE ForceExit
  BY <1>8 DEF ForceExit
<1> QED
  BY <1>1, <1>2, <1>3, <1>4, <1>5, <1>6, <1>7, <1>8 DEF Shutdown

LEMMA StutterKeeps ==
  ASSUME LifeInv, UNCHANGED vars
  PROVE  LifeInv'
  BY DEF LifeInv, TypeOK, InStep, Held, Handled, Running, Queues, vars, shutdownVars

\* LifeInv holds in every reachable state: boot, server and shutdown stay in
\* step, and every closer is through, rejected or waited for.
THEOREM LifecycleInvariance == Spec => []LifeInv
<1>1. Init => LifeInv
  BY InitEstablishes
<1>2. LifeInv /\ [Next]_vars => LifeInv'
  BY BootKeeps, ServeKeeps, ShutdownKeeps, StutterKeeps DEF Next
<1> QED
  BY <1>1, <1>2, PTL DEF Spec

-----------------------------------------------------------------------------
(* What follows from it *)

\* Every variable keeps its type: in particular the count of attempts to
\* connect never passes its limit.
THEOREM LifecycleTyped == Spec => []TypeOK
<1>1. LifeInv => TypeOK
  BY DEF LifeInv
<1> QED
  BY <1>1, LifecycleInvariance, PTL

\* While a client waits for an answer or holds a web socket, the databases are
\* connected; a handler whose client has hung up has no such promise.
THEOREM RequestsSafe == Spec => []RequestsKeepMongo
<1>1. LifeInv => RequestsKeepMongo
  BY DEF LifeInv, InStep, Held, RequestsKeepMongo
<1> QED
  BY <1>1, LifecycleInvariance, PTL

\* Exit code 0 means that the server was drained, and that what it does not wait
\* for, handlers whose client has hung up, was over too unless one of them still
\* ran when the closers started.
THEOREM CleanExit == Spec => []CleanExitIsDrained
<1>1. LifeInv => CleanExitIsDrained
  BY DEF LifeInv, InStep, Held, Handled, CleanExitIsDrained
<1> QED
  BY <1>1, LifecycleInvariance, PTL

\* However many signals arrive, the closers run once.
THEOREM ClosersOnce == Spec => ClosersRunOnce
<1> DEFINE Once == shut = "closing" => todo' \subseteq todo
<1>1. [Next]_vars => [Once]_vars
  <2> SUFFICES ASSUME Next, shut = "closing"
               PROVE  todo' \subseteq todo
    OBVIOUS
  <2>1. CASE Boot
    BY <2>1 DEF Boot, ConnectMongo, ConnectMongoFails, RetryMongo, Listen, ListenFails, shutdownVars
  <2>2. CASE Serve
    BY <2>2 DEF Serve, Accept, NextRequest, Answer, Upgrade, Leave, HangUp, Finish, Use,
                UseRedis, CleanUp, WorkerStep, shutdownVars
  <2>3. CASE Shutdown
    BY <2>3 DEF Shutdown, Signal, Drained, CloseMongo, CloseRedis, StopWorker, CloserRejects,
                ExitCleanly, ForceExit, shutdownVars
  <2> QED
    BY <2>1, <2>2, <2>3 DEF Next
<1> QED
  BY <1>1, PTL DEF Spec, ClosersRunOnce

-----------------------------------------------------------------------------
(* The boot sequence *)

\* What is left of the boot sequence is a number.
LEMMA BootLeftIsNat ==
  ASSUME TypeOK
  PROVE  BootLeft \in Nat
  BY RetriesAssumption DEF TypeOK, BootLeft

\* Bootstrap takes at most 2 * MaxRetries + 1 steps, whatever clients, signals and
\* closers do meanwhile; LifeInv says that until it is through or the process has
\* exited, an attempt to connect is being made or due, or it can listen.
THEOREM BootIsBounded == Spec => BootGetsOn
<1> DEFINE GetsOn == BootLeft' <= BootLeft /\ (Boot => BootLeft' < BootLeft)
<1>1. LifeInv /\ LifeInv' /\ [Next]_vars => [GetsOn]_vars
  <2> SUFFICES ASSUME LifeInv, LifeInv', Next
               PROVE  GetsOn
    OBVIOUS
  <2> TypeOK /\ TypeOK'
    BY DEF LifeInv
  <2>1. ASSUME Boot
        PROVE  BootLeft' < BootLeft
    <3> USE RetriesAssumption DEF BootLeft, LifeInv, TypeOK, shutdownVars
    <3>1. CASE ConnectMongo
      BY <3>1 DEF ConnectMongo
    <3>2. CASE ConnectMongoFails
      BY <3>2 DEF ConnectMongoFails
    <3>3. CASE RetryMongo
      BY <3>3 DEF RetryMongo
    <3>4. CASE Listen
      BY <3>4 DEF Listen
    <3>5. CASE ListenFails
      BY <3>5 DEF ListenFails
    <3> QED
      BY <2>1, <3>1, <3>2, <3>3, <3>4, <3>5 DEF Boot
  <2>2. ASSUME Serve \/ Shutdown
        PROVE  BootLeft' <= BootLeft
    <3>1. BootLeft \in Nat
      BY BootLeftIsNat
    <3>2. ASSUME UNCHANGED <<boot, retries, mongo>>
          PROVE  BootLeft' = BootLeft
      BY <3>2 DEF BootLeft
    <3>3. CASE Serve
      BY <3>1, <3>2, <3>3 DEF Serve, Accept, NextRequest, Answer, Upgrade, Leave, HangUp, Finish, Use,
                UseRedis, CleanUp, WorkerStep
    <3>4. CASE CloseMongo
      BY <3>1, <3>4 DEF CloseMongo, BootLeft, LifeInv
    <3>5. CASE Shutdown /\ ~CloseMongo
      BY <3>1, <3>2, <3>5 DEF Shutdown, Signal, Drained, CloseRedis, StopWorker, CloserRejects,
                              ExitCleanly, ForceExit
    <3> QED
      BY <2>2, <3>3, <3>4, <3>5
  <2>3. BootLeft \in Nat /\ BootLeft' \in Nat
    <3>1. BootLeft \in Nat
      BY BootLeftIsNat
    <3>2. BootLeft' \in Nat
      BY RetriesAssumption DEF TypeOK, BootLeft
    <3> QED
      BY <3>1, <3>2
  <2>4. CASE Boot
    BY <2>1, <2>3, <2>4
  <2>5. CASE ~Boot
    BY <2>2, <2>3, <2>5 DEF Next
  <2> QED
    BY <2>4, <2>5
<1> QED
  BY <1>1, LifecycleInvariance, PTL DEF Spec, BootGetsOn

=============================================================================
