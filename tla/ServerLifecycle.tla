-------------------------- MODULE ServerLifecycle --------------------------
(***************************************************************************)
(* The life of a process, from main to its exit, around the requests it    *)
(* serves.  cmd/server runs both servers and a goroutine that shuts them   *)
(* down, in an errgroup; cmd/api and cmd/grpc run one server each, and a   *)
(* signal simply kills them.                                               *)
(*                                                                         *)
(* Of net/http, grpc, errgroup and pgxpool what main relies on is modelled:*)
(* Shutdown and GracefulStop stop accepting at once and then wait, Shutdown*)
(* until its context ends; Serve refuses a server that has been stopped;   *)
(* the group's context ends with the first error; Wait waits for all;      *)
(* Pool.Close waits for the statements in progress.                        *)
(***************************************************************************)
EXTENDS Integers

CONSTANTS
  HttpRequests,
  GrpcCalls,
  Streams,      \* those of them to reflection, the one service that streams
  None

Requests == HttpRequests \union GrpcCalls

ASSUME KindsAssumption == HttpRequests \intersect GrpcCalls = {} /\ Streams \subseteq GrpcCalls
ASSUME ExitAssumption == None \notin {"0", "1", "killed"}

VARIABLES
  program,   \* which main this is
  main,      \* where main is
  stores,    \* the connected stores
  exit,      \* the exit code, None while the process runs
  http,      \* the HTTP server: "new", "serving", "down", or "failed"
  grpc,      \* the gRPC server: "new", "listening", "serving", "stopping",
             \* "stopped", "refused" when stopped before Serve, or "failed"
  running,   \* the goroutines of the group that have not returned
  stopper,   \* the shutdown goroutine: "waiting", "http", "grpc", "done"
  done,      \* the group's context has ended
  signalled, \* SIGINT or SIGTERM has come
  failed,    \* the group has an error
  timedOut,  \* shutdownCtx has ended
  work       \* each request: "none", "running", or "query" in a statement

servers == <<http, grpc, running>>
group == <<stopper, done, signalled, failed, timedOut>>
vars == <<program, main, stores, exit, servers, group, work>>

HasHttp == program \in {"server", "api"}
HasGrpc == program \in {"server", "grpc"}
Up == main = "wait"
Busy(R) == {r \in R : work[r] # "none"}

Init ==
  /\ program \in {"server", "api", "grpc"}
  /\ main = "config"
  /\ stores = {}
  /\ exit = None
  /\ http = "new" /\ grpc = "new"
  /\ running = {"http", "grpc", "stopper"}
  /\ stopper = "waiting"
  /\ done = FALSE /\ signalled = FALSE /\ failed = FALSE /\ timedOut = FALSE
  /\ work = [r \in Requests |-> "none"]

\* The process ends, and with it whatever it was doing.
Exit(code) ==
  /\ main' = "exited"
  /\ exit' = code
  /\ UNCHANGED <<program, stores, servers, group, work>>

----------------------------------------------------------------------------
(* main, until it waits.  Any failure is fatal; the stores that are open   *)
(* by then go with the process.                                            *)

Step(from, to, s) ==
  /\ main = from
  /\ main' = to
  /\ stores' = s
  /\ UNCHANGED <<program, exit, servers, group, work>>

\* Mutant: the error of NewClient is only logged.
ConnectRedisUnchecked ==
  \E s \in SUBSET {"redis"} : Step("redis", "wait", {"postgres"} \union s)

LoadConfig == Step("config", "postgres", {})
ConnectPostgres == Step("postgres", "redis", {"postgres"})
ConnectRedis == Step("redis", "wait", {"postgres", "redis"})
StartFails == main \in {"config", "postgres", "redis"} /\ Exit("1")

\* A signal: fatal, but for the server between NotifyContext and the deferred
\* stop, where all but the first are ignored.
Signal ==
  /\ exit = None
  /\ \/ program = "server" /\ main = "wait"
        /\ done' = TRUE /\ signalled' = TRUE /\ UNCHANGED <<main, exit>>
     \/ ~(program = "server" /\ main = "wait")
        /\ main' = "exited" /\ exit' = "killed" /\ UNCHANGED <<done, signalled>>
  /\ UNCHANGED <<program, stores, servers, stopper, failed, timedOut, work>>

----------------------------------------------------------------------------
(* The goroutines that serve.                                              *)

Return(g) == running' = running \ {g} /\ UNCHANGED <<group, main, exit>>

\* Mutant: the group's context is that of the signal only.
ReturnErrorAlone(g) ==
  /\ running' = running \ {g}
  /\ failed' = TRUE
  /\ \/ program = "server" /\ UNCHANGED <<main, exit>>
     \/ program # "server" /\ main' = "exited" /\ exit' = "1"
  /\ UNCHANGED <<stopper, done, signalled, timedOut>>

\* In the group an error ends the context; elsewhere log.Fatalf.
ReturnError(g) ==
  /\ running' = running \ {g}
  /\ failed' = TRUE
  /\ \/ program = "server" /\ done' = TRUE /\ UNCHANGED <<main, exit>>
     \/ program # "server" /\ main' = "exited" /\ exit' = "1" /\ UNCHANGED done
  /\ UNCHANGED <<stopper, signalled, timedOut>>

HttpServes ==
  /\ Up /\ HasHttp /\ http = "new"
  /\ http' = "serving"
  /\ UNCHANGED <<program, main, stores, exit, grpc, running, group, work>>

\* The port is taken, or Accept fails for good.
HttpFails ==
  /\ Up /\ HasHttp /\ http \in {"new", "serving"}
  /\ http' = "failed"
  /\ ReturnError("http")
  /\ UNCHANGED <<program, stores, grpc, work>>

\* ErrServerClosed, also when Shutdown came before ListenAndServe.
HttpReturns ==
  /\ Up /\ http = "down" /\ "http" \in running
  /\ Return("http")
  /\ UNCHANGED <<program, stores, http, grpc, work>>

GrpcListens ==
  /\ Up /\ HasGrpc /\ grpc = "new"
  /\ grpc' = "listening"
  /\ UNCHANGED <<program, main, stores, exit, http, running, group, work>>

GrpcServes ==
  /\ Up /\ grpc = "listening"
  /\ grpc' = "serving"
  /\ UNCHANGED <<program, main, stores, exit, http, running, group, work>>

GrpcFails ==
  /\ Up /\ HasGrpc /\ grpc \in {"new", "listening", "serving"}
  /\ grpc' = "failed"
  /\ ReturnError("grpc")
  /\ UNCHANGED <<program, stores, http, work>>

\* Serve waits until GracefulStop is through.
GrpcReturns ==
  /\ Up /\ grpc = "stopped" /\ "grpc" \in running
  /\ Return("grpc")
  /\ UNCHANGED <<program, stores, http, grpc, work>>

\* Mutant: ErrServerStopped counts as a clean return, as ErrServerClosed does.
GrpcRefusedUnnoticed ==
  /\ Up /\ grpc = "refused" /\ "grpc" \in running
  /\ Return("grpc")
  /\ UNCHANGED <<program, stores, http, grpc, work>>

\* Serve after GracefulStop: ErrServerStopped (or the port was taken).
GrpcRefused ==
  /\ Up /\ grpc = "refused" /\ "grpc" \in running
  /\ ReturnError("grpc")
  /\ UNCHANGED <<program, stores, http, grpc, work>>

----------------------------------------------------------------------------
(* The shutdown goroutine of cmd/server.                                   *)

ShutdownBegins ==
  /\ Up /\ program = "server" /\ done /\ stopper = "waiting"
  /\ stopper' = "http"
  /\ http' = IF http = "failed" THEN http ELSE "down"
  /\ UNCHANGED <<program, main, stores, exit, grpc, running, done, signalled, failed, timedOut, work>>

\* Mutant: Shutdown is given a context without a timeout.
TimeoutNever == FALSE /\ UNCHANGED vars

\* Five seconds after ShutdownBegins.
Timeout ==
  /\ stopper = "http" /\ ~timedOut
  /\ timedOut' = TRUE
  /\ UNCHANGED <<program, main, stores, exit, servers, stopper, done, signalled, failed, work>>

\* Shutdown returns, with an error that is only logged or without;
\* GracefulStop begins.
HttpIsDown ==
  /\ Up /\ stopper = "http"
  /\ timedOut \/ Busy(HttpRequests) = {}
  /\ stopper' = "grpc"
  /\ grpc' = IF grpc = "serving" THEN "stopping"
             ELSE IF grpc = "failed" THEN "failed" ELSE "refused"
  /\ UNCHANGED <<program, main, stores, exit, http, running, done, signalled, failed, timedOut, work>>

\* Mutant: grpcServer.Stop() instead.
GrpcStopsAtOnce ==
  /\ Up /\ stopper = "grpc"
  /\ stopper' = "done"
  /\ grpc' = IF grpc = "stopping" THEN "stopped" ELSE grpc
  /\ running' = running \ {"stopper"}
  /\ UNCHANGED <<program, main, stores, exit, http, done, signalled, failed, timedOut, work>>

GrpcIsDown ==
  /\ Up /\ stopper = "grpc"
  /\ Busy(GrpcCalls) = {}
  /\ stopper' = "done"
  /\ grpc' = IF grpc = "stopping" THEN "stopped" ELSE grpc
  /\ running' = running \ {"stopper"}
  /\ UNCHANGED <<program, main, stores, exit, http, done, signalled, failed, timedOut, work>>

----------------------------------------------------------------------------
(* g.Wait, and the deferred calls.                                         *)

WaitFails == Up /\ running = {} /\ failed /\ Exit("1")
WaitReturns == ~failed /\ running = {} /\ Step("wait", "closeRedis", stores)
CloseRedis == Step("closeRedis", "closePostgres", stores \ {"redis"})

\* Pool.Close waits for the connections in use.
ClosePostgres ==
  /\ \A r \in Requests : work[r] # "query"
  /\ Step("closePostgres", "return", {})

MainReturns == main = "return" /\ Exit("0")

----------------------------------------------------------------------------
(* The requests.                                                           *)

Becomes(r, w) ==
  /\ exit = None
  /\ work' = [work EXCEPT ![r] = w]
  /\ UNCHANGED <<program, main, stores, exit, servers, group>>

Arrives(r) ==
  /\ work[r] = "none"
  /\ \/ r \in HttpRequests /\ http = "serving"
     \/ r \in GrpcCalls /\ grpc = "serving"
  /\ Becomes(r, "running")

\* Once Pool.Close has been called a statement fails, and the handler goes on.
\* Reflection asks no store.
Queries(r) ==
  /\ work[r] = "running" /\ r \notin Streams
  /\ main \in {"wait", "closeRedis"}
  /\ Becomes(r, "query")
QueryEnds(r) == work[r] = "query" /\ Becomes(r, "running")

\* The handler returns; that of a stream when its client ends it.
Answers(r) == work[r] = "running" /\ Becomes(r, "none")

----------------------------------------------------------------------------

Serving ==
  \/ HttpServes \/ HttpReturns
  \/ GrpcListens \/ GrpcServes \/ GrpcReturns \/ GrpcRefused

Stopping ==
  \/ ShutdownBegins \/ HttpIsDown \/ GrpcIsDown
  \/ WaitFails \/ WaitReturns \/ CloseRedis \/ ClosePostgres \/ MainReturns

Next ==
  \/ LoadConfig \/ ConnectPostgres \/ ConnectRedis \/ StartFails
  \/ Signal \/ HttpFails \/ GrpcFails
  \/ Serving \/ Stopping \/ Timeout
  \/ \E r \in Requests : Arrives(r) \/ Queries(r) \/ QueryEnds(r) \/ Answers(r)

Spec == Init /\ [][Next]_vars

\* Goroutines run, timers fire, PostgreSQL answers, and a call of UserService
\* ends.  Of an HTTP request and of a stream nothing is assumed.
FairSpec ==
  /\ Spec
  /\ WF_vars(Serving) /\ WF_vars(Stopping) /\ WF_vars(Timeout)
  /\ \A r \in Requests : WF_vars(QueryEnds(r))
  /\ \A r \in GrpcCalls \ Streams : SF_vars(Answers(r))

----------------------------------------------------------------------------
(* Properties.                                                             *)

\* Every variable has its type, and no goroutine starts, and so no request
\* comes, before main has both stores.
TypeOK ==
  /\ program \in {"server", "api", "grpc"}
  /\ main \in {"config", "postgres", "redis", "wait", "closeRedis", "closePostgres", "return", "exited"}
  /\ stores \subseteq {"postgres", "redis"}
  /\ exit \in {None, "0", "1", "killed"}
  /\ http \in {"new", "serving", "down", "failed"}
  /\ grpc \in {"new", "listening", "serving", "stopping", "stopped", "refused", "failed"}
  /\ running \subseteq {"http", "grpc", "stopper"}
  /\ stopper \in {"waiting", "http", "grpc", "done"}
  /\ done \in BOOLEAN /\ signalled \in BOOLEAN /\ failed \in BOOLEAN /\ timedOut \in BOOLEAN
  /\ work \in [Requests -> {"none", "running", "query"}]
  /\ main \in {"config", "postgres", "redis"} => http = "new" /\ grpc = "new" /\ Busy(Requests) = {}
  /\ main = "wait" => stores = {"postgres", "redis"}

\* main closes the stores under no gRPC call, and under an HTTP request only
\* when that has outlived the five seconds of Shutdown; the same holds of the
\* requests that an orderly exit cuts off.
StoresOutliveRequests ==
  main \in {"closeRedis", "closePostgres", "return"} \/ exit = "0" =>
    Busy(GrpcCalls) = {} /\ (timedOut \/ Busy(HttpRequests) = {})

\* "service stopped gracefully", and exit code 0, only after a signal and with
\* both servers stopped without an error.
GracefulMeansGraceful ==
  exit = "0" => signalled /\ http = "down" /\ grpc = "stopped"

\* A signal ends the server, whatever its HTTP requests do, unless a client
\* holds a stream open for ever: GracefulStop has no limit of its own.
StreamsLetGo == []<>(Busy(Streams) = {})
SignalEnds == StreamsLetGo => (signalled ~> exit # None)

\* So does the failure of either of its servers.
FailureEnds == StreamsLetGo => (failed ~> exit # None)
============================================================================
