------------------------------ MODULE Lifecycle ------------------------------
(***************************************************************************)
(* The life of the server process (server.js): boot sequence with bounded  *)
(* retries of the MongoDB connection, serving, graceful shutdown with its  *)
(* 15 second limit, and exit.                                              *)
(*                                                                         *)
(* Each await of bootstrap and of gracefulShutdown ends a step.  Once the  *)
(* process has exited nothing moves any more.                              *)
(***************************************************************************)
EXTENDS Naturals, FiniteSets

CONSTANTS
  Conns,      \* TCP connections, and handlers whose connection has gone, at once
  MaxRetries  \* MAX_RETRIES of database/mongoose.js

ASSUME RetriesAssumption == MaxRetries \in Nat \ {0}

VARIABLES
  boot,     \* where bootstrap is
  retries,  \* retryCount
  http,     \* the HTTP server
  conn,     \* what each connection is used for
  mongo,    \* the connection to MongoDB
  redis,    \* the client of database/redis.js
  worker,   \* of each queue
  cron,     \* are the cron jobs scheduled
  cleanup,  \* is one of them in hand
  shut,     \* gracefulShutdown
  todo,     \* the closers that its callback still waits for
  rejected, \* history: the closers that rejected
  early,    \* history: the shutdown began before the server listened
  orphaned, \* history: a handler whose client had gone saw the closers start
  exit      \* "running", or how it ended: exit code 0 is "success"

shutdownVars == <<shut, todo, rejected, early, orphaned>>

vars == <<boot, retries, http, conn, mongo, redis, worker, cron, cleanup, shutdownVars, exit>>

Queues == {"email", "notification"}

\* The rate limiters ask for the Redis client while the application is loaded, if
\* their store can be built.
Init ==
  /\ boot = "mongo" /\ retries = 0
  /\ http = "new" /\ conn = [c \in Conns |-> "none"]
  /\ mongo = "connecting" /\ redis \in {"none", "open"}
  /\ worker = [q \in Queues |-> "off"] /\ cron = FALSE /\ cleanup = FALSE
  /\ shut = "no" /\ todo = {} /\ rejected = {} /\ early = FALSE /\ orphaned = FALSE
  /\ exit = "running"

Running == exit = "running"

-----------------------------------------------------------------------------
(* bootstrap *)

\* The shared client is created when it is first asked for.
GetRedisClient == redis' = "open"

StartAllWorkers == worker' = [q \in Queues |-> "idle"]

StartAllJobs == cron' = TRUE

StopAllJobs == cron' = FALSE

\* connect() resolves and the Redis client is created.
ConnectMongo ==
  /\ Running /\ boot = "mongo" /\ mongo = "connecting"
  /\ boot' = "smtp" /\ mongo' = "up" /\ retries' = 0 /\ GetRedisClient
  /\ UNCHANGED <<http, conn, worker, cron, cleanup, shutdownVars, exit>>

\* Mutant: the count starts again with each attempt.
ConnectMongoFailsForever ==
  /\ Running /\ boot = "mongo" /\ mongo = "connecting"
  /\ retries' = 1 /\ mongo' = "down"
  /\ UNCHANGED <<boot, http, conn, redis, worker, cron, cleanup, shutdownVars, exit>>

\* Mutant: one attempt too many.
ConnectMongoFailsOnceMore ==
  /\ Running /\ boot = "mongo" /\ mongo = "connecting"
  /\ retries' = retries + 1 /\ mongo' = "down"
  /\ exit' = IF retries + 1 > MaxRetries THEN "failure" ELSE exit
  /\ UNCHANGED <<boot, http, conn, redis, worker, cron, cleanup, shutdownVars>>

\* A rejection counts; at the limit the process exits.
ConnectMongoFails ==
  /\ Running /\ boot = "mongo" /\ mongo = "connecting"
  /\ retries' = retries + 1 /\ mongo' = "down"
  /\ exit' = IF retries + 1 >= MaxRetries THEN "failure" ELSE exit
  /\ UNCHANGED <<boot, http, conn, redis, worker, cron, cleanup, shutdownVars>>

\* RETRY_DELAY_MS later connect calls itself.
RetryMongo ==
  /\ Running /\ boot = "mongo" /\ mongo = "down"
  /\ mongo' = "connecting"
  /\ UNCHANGED <<boot, retries, http, conn, redis, worker, cron, cleanup, shutdownVars, exit>>

\* verifyTransporter has answered, well or not.  Without a further await the
\* workers and the cron jobs start and the server listens, whether or not a
\* shutdown has begun meanwhile.
Listen ==
  /\ Running /\ boot = "smtp"
  /\ boot' = "done" /\ StartAllWorkers /\ StartAllJobs
  /\ http' = "listening"
  /\ UNCHANGED <<retries, conn, mongo, redis, cleanup, shutdownVars, exit>>

\* The port is taken: the error event ends the process.
ListenFails ==
  /\ Running /\ boot = "smtp"
  /\ boot' = "done" /\ StartAllWorkers /\ StartAllJobs
  /\ exit' = "failure"
  /\ UNCHANGED <<retries, http, conn, mongo, redis, cleanup, shutdownVars>>

-----------------------------------------------------------------------------
(* Serving *)

\* A connection is used: a request comes or is answered, Socket.IO takes the
\* connection over, it is closed.  A handler whose client has gone is an orphan.
Use(c, from, to) ==
  /\ Running /\ conn[c] = from
  /\ conn' = [conn EXCEPT ![c] = to]
  /\ UNCHANGED <<boot, retries, http, mongo, redis, worker, cron, cleanup, shutdownVars, exit>>

Accept(c) == http = "listening" /\ Use(c, "none", "request")

\* A kept-alive connection brings its next request, the server still accepting
\* new connections or not.
NextRequest(c) == Use(c, "idle", "request")

Answer(c) == Use(c, "request", "idle")

\* The handshake is over.
Upgrade(c) == Use(c, "request", "socket")

Leave(c) == Use(c, "idle", "none") \/ Use(c, "socket", "none")

\* The client hangs up before the answer: the connection is gone, and the handler
\* goes on without it.
HangUp(c) == Use(c, "request", "orphan")

Finish(c) == Use(c, "orphan", "none")

\* A handler needs the cache.
UseRedis(c) ==
  /\ Running /\ conn[c] \in {"request", "orphan"}
  /\ redis = "none" /\ GetRedisClient
  /\ UNCHANGED <<boot, retries, http, conn, mongo, worker, cron, cleanup, shutdownVars, exit>>

\* The cleanup of token documents starts on schedule, and ends.
CleanUp ==
  /\ Running
  /\ cron \/ cleanup
  /\ cleanup' = ~cleanup
  /\ UNCHANGED <<boot, retries, http, conn, mongo, redis, worker, cron, shutdownVars, exit>>

\* A worker takes a job of its queue, unless it is closing, or is through with
\* one.
WorkerStep(q) ==
  /\ Running
  /\ \/ worker[q] = "idle" /\ q \notin todo /\ worker' = [worker EXCEPT ![q] = "busy"]
     \/ worker[q] = "busy" /\ worker' = [worker EXCEPT ![q] = "idle"]
  /\ UNCHANGED <<boot, retries, http, conn, mongo, redis, cron, cleanup, shutdownVars, exit>>

-----------------------------------------------------------------------------
(* gracefulShutdown *)

\* What the callback of server.close starts: the connections that exist are
\* closed, the workers that have been started are stopped.
Closers ==
  {x \in {"mongo"} : mongo # "down"} \cup {x \in {"redis"} : redis # "none"}
    \cup {q \in Queues : worker[q] # "off"}

\* Connections that a client still holds open: what server.close waits for.
Held == {c \in Conns : conn[c] \notin {"none", "orphan"}}

\* Without an await on the way, the closers start and the cron jobs stop; a job in
\* hand goes on.
StartClosers ==
  /\ shut' = "closing" /\ todo' = Closers /\ StopAllJobs
  /\ orphaned' = (orphaned \/ \E c \in Conns : conn[c] = "orphan")

\* Node closes the connections on which nothing is being served.
StopListening ==
  /\ http' = "closing"
  /\ conn' = [c \in Conns |-> IF conn[c] = "idle" THEN "none" ELSE conn[c]]

\* Mutant: the shutdown does not remember that it has begun.
SignalAgain ==
  /\ Running
  /\ \/ /\ http \in {"listening", "closing"}
        /\ StopListening /\ shut' = "draining"
        /\ UNCHANGED <<todo, cron, early, orphaned>>
     \/ /\ http \in {"new", "closed"}
        /\ StartClosers /\ early' = (early \/ shut = "no")
        /\ UNCHANGED <<http, conn>>
  /\ UNCHANGED <<boot, retries, mongo, redis, worker, cleanup, rejected, exit>>

\* SIGTERM, SIGINT, an uncaught exception or an unhandled rejection: the first
\* one counts.  A server that does not listen yet has nothing to drain, its
\* close callback runs at once.
Signal ==
  /\ Running /\ shut = "no"
  /\ \/ /\ http = "listening"
        /\ StopListening /\ shut' = "draining"
        /\ UNCHANGED <<todo, cron, early, orphaned>>
     \/ /\ http = "new"
        /\ StartClosers /\ early' = TRUE
        /\ UNCHANGED <<http, conn>>
  /\ UNCHANGED <<boot, retries, mongo, redis, worker, cleanup, rejected, exit>>

\* Mutant: the callback does not wait for open connections.
DrainedEarly ==
  /\ Running /\ shut = "draining"
  /\ StartClosers /\ http' = "closed"
  /\ UNCHANGED <<boot, retries, conn, mongo, redis, worker, cleanup, rejected, early, exit>>

\* The last connection has gone: server.close calls back, whatever still runs for
\* a client that has left.
Drained ==
  /\ Running /\ shut = "draining"
  /\ Held = {}
  /\ StartClosers /\ http' = "closed"
  /\ UNCHANGED <<boot, retries, conn, mongo, redis, worker, cleanup, rejected, early, exit>>

\* mongoose closes a connection that is still being opened once it is open.
CloseMongo ==
  /\ Running /\ "mongo" \in todo /\ mongo = "up"
  /\ mongo' = "closed" /\ todo' = todo \ {"mongo"}
  /\ UNCHANGED <<boot, retries, http, conn, redis, worker, cron, cleanup, shut, rejected, early, orphaned, exit>>

CloseRedis ==
  /\ Running /\ "redis" \in todo
  /\ redis' = "none" /\ todo' = todo \ {"redis"}
  /\ UNCHANGED <<boot, retries, http, conn, mongo, worker, cron, cleanup, shut, rejected, early, orphaned, exit>>

\* Mutant: the worker is left in the middle of its job.
StopWorkerHard(q) ==
  /\ Running /\ q \in todo
  /\ todo' = todo \ {q}
  /\ worker' = [worker EXCEPT ![q] = IF @ = "idle" THEN "off" ELSE @]
  /\ UNCHANGED <<boot, retries, http, conn, mongo, redis, cron, cleanup, shut, rejected, early, orphaned, exit>>

\* worker.close waits for the job in hand.
StopWorker(q) ==
  /\ Running /\ q \in todo /\ worker[q] = "idle"
  /\ worker' = [worker EXCEPT ![q] = "off"] /\ todo' = todo \ {q}
  /\ UNCHANGED <<boot, retries, http, conn, mongo, redis, cron, cleanup, shut, rejected, early, orphaned, exit>>

\* allSettled: a closer that rejects is not noticed.
CloserRejects(x) ==
  /\ Running /\ x \in todo
  /\ todo' = todo \ {x} /\ rejected' = rejected \cup {x}
  /\ UNCHANGED <<boot, retries, http, conn, mongo, redis, worker, cron, cleanup, shut, early, orphaned, exit>>

\* Every closer has settled.
ExitCleanly ==
  /\ Running /\ shut = "closing" /\ todo = {}
  /\ exit' = "success"
  /\ UNCHANGED <<boot, retries, http, conn, mongo, redis, worker, cron, cleanup, shutdownVars>>

\* Mutant: the timer is set by the callback of server.close only.
ForceExitOnceDrained ==
  /\ Running /\ shut = "closing"
  /\ exit' = "failure"
  /\ UNCHANGED <<boot, retries, http, conn, mongo, redis, worker, cron, cleanup, shutdownVars>>

\* Fifteen seconds after the signal.
ForceExit ==
  /\ Running /\ shut # "no"
  /\ exit' = "failure"
  /\ UNCHANGED <<boot, retries, http, conn, mongo, redis, worker, cron, cleanup, shutdownVars>>

-----------------------------------------------------------------------------

Boot == ConnectMongo \/ ConnectMongoFails \/ RetryMongo \/ Listen \/ ListenFails

Serve ==
  \/ \E c \in Conns :
       \/ Accept(c) \/ NextRequest(c) \/ Answer(c) \/ Upgrade(c)
       \/ Leave(c) \/ HangUp(c) \/ Finish(c) \/ UseRedis(c)
  \/ CleanUp
  \/ \E q \in Queues : WorkerStep(q)

Shutdown ==
  \/ Signal \/ Drained \/ CloseMongo \/ CloseRedis
  \/ \E q \in Queues : StopWorker(q)
  \/ \E x \in todo : CloserRejects(x)
  \/ ExitCleanly \/ ForceExit

Next == Boot \/ Serve \/ Shutdown

Spec == Init /\ [][Next]_vars

\* Attempts to connect end one way or the other, and timers fire.  Clients,
\* workers and the closers need not come to an end.
FairSpec == Spec /\ WF_vars(Boot) /\ WF_vars(ForceExit)

-----------------------------------------------------------------------------
(* Properties *)

TypeOK ==
  /\ boot \in {"mongo", "smtp", "done"} /\ retries \in 0 .. MaxRetries
  /\ http \in {"new", "listening", "closing", "closed"}
  /\ conn \in [Conns -> {"none", "idle", "request", "orphan", "socket"}]
  /\ mongo \in {"down", "connecting", "up", "closed"} /\ redis \in {"none", "open"}
  /\ worker \in [Queues -> {"off", "idle", "busy"}] 
  /\ cron \in BOOLEAN /\ cleanup \in BOOLEAN
  /\ shut \in {"no", "draining", "closing"}
  /\ todo \in SUBSET ({"mongo", "redis"} \cup Queues)
  /\ rejected \in SUBSET ({"mongo", "redis"} \cup Queues)
  /\ early \in BOOLEAN /\ orphaned \in BOOLEAN
  /\ exit \in {"running", "success", "failure"}

\* A request whose client waits for the answer, and a web socket, have their
\* databases: the shutdown closes them only after the last connection, unless the
\* signal came before the server had begun to listen.  Nothing of the kind is true
\* of a handler whose client has hung up.
RequestsKeepMongo ==
  ~early => \A c \in Conns :
              conn[c] \in {"request", "socket"} => mongo = "up" /\ redis = "open"

\* Exit code 0 means that the server was drained: no client was connected, no job
\* of a queue in hand, and MongoDB, workers and schedule were down but for what
\* refused to close; and unless a client had hung up on a handler that still ran
\* when the closers started, no handler was left, nor a Redis client made anew.
\* Exit code 0 does not wait for such a handler, nor for a cleanup in hand.
CleanExitIsDrained ==
  exit = "success" /\ ~early =>
    /\ Held = {}
    /\ mongo = "closed" \/ "mongo" \in rejected
    /\ \A q \in Queues : worker[q] = "off" \/ q \in rejected
    /\ ~cron
    /\ \/ orphaned
       \/ /\ \A c \in Conns : conn[c] = "none"
          /\ redis = "none" \/ "redis" \in rejected

\* However many signals arrive, the closers run once.
ClosersRunOnce == [][shut = "closing" => todo' \subseteq todo]_vars

\* The closer x, with done telling what it has achieved, is through, has rejected
\* or is waited for.
Handled(x, done) == done \/ x \in rejected \cup todo

\* How far boot, server and shutdown can be apart, while the signal did not come
\* before the server listened.
InStep ==
  /\ shut # "no" => boot = "done"
  /\ shut = "no" => http \in {"new", "listening"}
  /\ boot # "mongo" /\ shut # "closing" => mongo = "up" /\ redis = "open"
  /\ shut = "closing" =>
       /\ http = "closed" /\ ~cron
       /\ Held = {}
       /\ Handled("mongo", mongo = "closed")
       /\ orphaned \/ ((\A c \in Conns : conn[c] = "none") /\ Handled("redis", redis = "none"))
       /\ \A q \in Queues : Handled(q, worker[q] = "off")

\* The inductive invariant of LifecycleProofs.
LifeInv ==
  /\ TypeOK
  /\ Running => retries < MaxRetries
  /\ boot # "done" => http = "new" /\ ~cron /\ ~cleanup
  /\ boot = "mongo" => mongo \in {"down", "connecting"}
  /\ http = "new" => \A c \in Conns : conn[c] = "none"
  /\ shut = "draining" => http = "closing"
  /\ todo # {} => shut = "closing"
  /\ early \/ InStep
  /\ exit = "success" => shut = "closing" /\ todo = {}

\* How many steps bootstrap can still take: two for each attempt to connect that
\* is left, one to start the next attempt, one to begin to listen.
BootLeft ==
  CASE boot = "mongo" -> 2 * (MaxRetries - retries) + (IF mongo = "down" THEN 2 ELSE 1)
    [] boot = "smtp" -> 1
    [] OTHER -> 0

\* The boot sequence gets on: each of its steps leaves fewer to take, and neither
\* a signal nor anything served meanwhile adds to them.
BootGetsOn ==
  [][/\ BootLeft' <= BootLeft
     /\ Boot => BootLeft' < BootLeft]_vars

\* A signal ends the process, though a client keeps its web socket open, a job
\* never ends or a closer hangs.
SignalEndsProcess == (shut # "no") ~> ~Running

\* The process does not hang in its boot sequence: it listens or exits.
BootEnds == <>(boot = "done" \/ ~Running)

=============================================================================
