-------------------------- MODULE LifecycleProofs --------------------------
(***************************************************************************)
(* Proofs about the life of a process, for any number of requests: its     *)
(* type invariant, that the stores outlive the requests, and that an exit  *)
(* code of 0 means an orderly shutdown.                                    *)
(***************************************************************************)
EXTENDS ServerLifecycle, TLAPS

(* What every step of the shutdown goroutine has ensured by the time the   *)
(* next one begins.  HTTP stops accepting when it starts, and is drained   *)
(* or timed out when GracefulStop starts; then gRPC stops accepting, and   *)
(* is drained when the goroutine returns.                                  *)
HttpClosed == stopper # "waiting" => done /\ http \in {"down", "failed"}

HttpDrained ==
  stopper \in {"grpc", "done"} =>
    /\ timedOut \/ Busy(HttpRequests) = {}
    /\ grpc \in {"stopping", "stopped", "refused", "failed"}

GrpcOpen ==
  stopper \in {"waiting", "http"} => grpc \in {"new", "listening", "serving", "failed"}

GrpcDrained ==
  stopper = "done" => Busy(GrpcCalls) = {}

(* What it means that a goroutine of the group has returned: the end of    *)
(* the shutdown, or a server that stopped as it was told or left an error. *)
Returned ==
  /\ "stopper" \notin running => stopper = "done"
  /\ "http" \notin running => failed \/ http = "down"
  /\ "grpc" \notin running => failed \/ grpc = "stopped"
  /\ done => signalled \/ failed

(* main is past Wait only when all have returned and none with an error.   *)
Closing == main \in {"closeRedis", "closePostgres", "return"} \/ exit = "0"
Waited == Closing => running = {} /\ ~failed
Exited == exit = None <=> main # "exited"

Inv ==
  /\ TypeOK /\ HttpClosed /\ HttpDrained /\ GrpcOpen /\ GrpcDrained
  /\ Returned /\ Waited /\ Exited

USE ExitAssumption DEF
  Inv, TypeOK, HttpClosed, HttpDrained, GrpcOpen, GrpcDrained, Returned, Waited, Closing,
  Exited, Busy, servers, group

LEMMA InitInv == Init => Inv
  BY DEF Init, Requests

----------------------------------------------------------------------------
(* main until it waits, and what may end it.                               *)

LEMMA LoadConfigInv == ASSUME Inv, LoadConfig PROVE Inv'
  BY DEF LoadConfig, Step, Up

LEMMA ConnectPostgresInv == ASSUME Inv, ConnectPostgres PROVE Inv'
  BY DEF ConnectPostgres, Step, Up

LEMMA ConnectRedisInv == ASSUME Inv, ConnectRedis PROVE Inv'
  BY DEF ConnectRedis, Step, Up

LEMMA StartFailsInv == ASSUME Inv, StartFails PROVE Inv'
  BY DEF StartFails, Exit, Up

LEMMA SignalInv == ASSUME Inv, Signal PROVE Inv'
  <1> USE DEF Signal
  <1>1. UNCHANGED <<program, stores, http, grpc, running, stopper, failed, timedOut, work>>
    OBVIOUS
  <1>2. TypeOK'
    <2>1. main' \in {main, "exited"} /\ exit' \in {None, "killed"}
      OBVIOUS
    <2>2. done' \in BOOLEAN /\ signalled' \in BOOLEAN
      OBVIOUS
    <2> QED BY <1>1, <2>1, <2>2
  <1>3. HttpClosed' /\ HttpDrained' /\ GrpcOpen' /\ GrpcDrained'
    BY <1>1
  <1>4. Returned' /\ Waited' /\ Exited'
    BY <1>1
  <1> QED BY <1>2, <1>3, <1>4

LEMMA HttpFailsInv == ASSUME Inv, HttpFails PROVE Inv'
  BY DEF HttpFails, ReturnError, Up

LEMMA GrpcFailsInv == ASSUME Inv, GrpcFails PROVE Inv'
  <1>1. TypeOK'
    BY DEF GrpcFails, ReturnError, Up
  <1>2. HttpClosed' /\ HttpDrained' /\ GrpcOpen' /\ GrpcDrained'
    BY DEF GrpcFails, ReturnError, Up
  <1>3. Returned' /\ Waited' /\ Exited'
    BY DEF GrpcFails, ReturnError, Up
  <1> QED BY <1>1, <1>2, <1>3

----------------------------------------------------------------------------
(* The goroutines that serve.                                              *)

LEMMA HttpServesInv == ASSUME Inv, HttpServes PROVE Inv'
  BY DEF HttpServes, Up

LEMMA HttpReturnsInv == ASSUME Inv, HttpReturns PROVE Inv'
  BY DEF HttpReturns, Return, Up

LEMMA GrpcListensInv == ASSUME Inv, GrpcListens PROVE Inv'
  BY DEF GrpcListens, Up

LEMMA GrpcServesInv == ASSUME Inv, GrpcServes PROVE Inv'
  BY DEF GrpcServes, Up

LEMMA GrpcReturnsInv == ASSUME Inv, GrpcReturns PROVE Inv'
  BY DEF GrpcReturns, Return, Up

LEMMA GrpcRefusedInv == ASSUME Inv, GrpcRefused PROVE Inv'
  <1>1. TypeOK'
    BY DEF GrpcRefused, ReturnError, Up
  <1>2. HttpClosed' /\ HttpDrained' /\ GrpcOpen' /\ GrpcDrained'
    BY DEF GrpcRefused, ReturnError, Up
  <1>3. Returned' /\ Waited' /\ Exited'
    BY DEF GrpcRefused, ReturnError, Up
  <1> QED BY <1>1, <1>2, <1>3

----------------------------------------------------------------------------
(* The shutdown, Wait and the deferred calls.                              *)

LEMMA ShutdownBeginsInv == ASSUME Inv, ShutdownBegins PROVE Inv'
  BY DEF ShutdownBegins, Up

LEMMA HttpIsDownInv == ASSUME Inv, HttpIsDown PROVE Inv'
  <1> USE DEF HttpIsDown
  <1>1. TypeOK'
    BY DEF Up
  <1>2. HttpClosed' /\ GrpcOpen' /\ GrpcDrained'
    OBVIOUS
  <1>3. HttpDrained'
    OBVIOUS
  <1>4. Returned' /\ Waited' /\ Exited'
    BY DEF Up
  <1> QED BY <1>1, <1>2, <1>3, <1>4

LEMMA GrpcIsDownInv == ASSUME Inv, GrpcIsDown PROVE Inv'
  BY DEF GrpcIsDown, Up

LEMMA WaitFailsInv == ASSUME Inv, WaitFails PROVE Inv'
  BY DEF WaitFails, Exit, Up

LEMMA WaitReturnsInv == ASSUME Inv, WaitReturns PROVE Inv'
  BY DEF WaitReturns, Step, Up

LEMMA CloseRedisInv == ASSUME Inv, CloseRedis PROVE Inv'
  BY DEF CloseRedis, Step, Up

LEMMA ClosePostgresInv == ASSUME Inv, ClosePostgres PROVE Inv'
  BY DEF ClosePostgres, Step, Up

LEMMA MainReturnsInv == ASSUME Inv, MainReturns PROVE Inv'
  BY DEF MainReturns, Exit, Up

LEMMA TimeoutInv == ASSUME Inv, Timeout PROVE Inv'
  BY DEF Timeout, Up

----------------------------------------------------------------------------
(* The requests: none arrives at a server that has stopped accepting.      *)

LEMMA ArrivesInv == ASSUME Inv, NEW r \in Requests, Arrives(r) PROVE Inv'
  BY KindsAssumption DEF Arrives, Becomes, Requests

LEMMA QueriesInv == ASSUME Inv, NEW r \in Requests, Queries(r) PROVE Inv'
  BY KindsAssumption DEF Queries, Becomes, Requests

LEMMA QueryEndsInv == ASSUME Inv, NEW r \in Requests, QueryEnds(r) PROVE Inv'
  BY KindsAssumption DEF QueryEnds, Becomes, Requests

LEMMA AnswersInv == ASSUME Inv, NEW r \in Requests, Answers(r) PROVE Inv'
  BY KindsAssumption DEF Answers, Becomes, Requests

----------------------------------------------------------------------------

LEMMA NextInv == Inv /\ [Next]_vars => Inv'
  <1> SUFFICES ASSUME Inv, [Next]_vars PROVE Inv'
    OBVIOUS
  <1>1. CASE LoadConfig \/ ConnectPostgres \/ ConnectRedis \/ StartFails
    BY <1>1, LoadConfigInv, ConnectPostgresInv, ConnectRedisInv, StartFailsInv
  <1>2. CASE Signal \/ HttpFails \/ GrpcFails \/ Timeout
    BY <1>2, SignalInv, HttpFailsInv, GrpcFailsInv, TimeoutInv
  <1>3. CASE Serving
    BY <1>3, HttpServesInv, HttpReturnsInv, GrpcListensInv, GrpcServesInv, GrpcReturnsInv,
       GrpcRefusedInv DEF Serving
  <1>4. CASE Stopping
    BY <1>4, ShutdownBeginsInv, HttpIsDownInv, GrpcIsDownInv, WaitFailsInv, WaitReturnsInv,
       CloseRedisInv, ClosePostgresInv, MainReturnsInv DEF Stopping
  <1>5. ASSUME NEW r \in Requests, Arrives(r) \/ Queries(r) \/ QueryEnds(r) \/ Answers(r)
        PROVE  Inv'
    BY <1>5, ArrivesInv, QueriesInv, QueryEndsInv, AnswersInv
  <1>6. CASE UNCHANGED vars
    BY <1>6 DEF vars
  <1> QED BY <1>1, <1>2, <1>3, <1>4, <1>5, <1>6 DEF Next

HIDE ExitAssumption DEF
  Inv, TypeOK, HttpClosed, HttpDrained, GrpcOpen, GrpcDrained, Returned, Waited, Closing,
  Exited, Busy, servers, group

LEMMA Invariance == Spec => []Inv
  BY InitInv, NextInv, PTL DEF Spec

----------------------------------------------------------------------------

\* For any number of requests every variable has its type, and no server runs
\* before main has both stores (main, NewPool, NewClient).
THEOREM LifecycleTypes == Spec => []TypeOK
  <1>1. Inv => TypeOK
    BY DEF Inv
  <1> QED BY <1>1, Invariance, PTL

\* main closes its stores under no gRPC call, and under an HTTP request only
\* after the timeout of Shutdown (main, the shutdown goroutine and the defers).
THEOREM StoresStayOpen == Spec => []StoresOutliveRequests
  <1>1. ASSUME Inv, Closing PROVE Busy(GrpcCalls) = {} /\ (timedOut \/ Busy(HttpRequests) = {})
    <2>1. stopper = "done"
      BY <1>1 DEF Inv, Waited, Returned
    <2> QED BY <1>1, <2>1 DEF Inv, HttpDrained, GrpcDrained
  <1>2. Inv => StoresOutliveRequests
    BY <1>1 DEF StoresOutliveRequests, Closing
  <1> QED BY <1>2, Invariance, PTL

\* The exit code 0 stands for a signal and two servers that stopped as told.
THEOREM GracefulIsGraceful == Spec => []GracefulMeansGraceful
  <1>1. ASSUME Inv, exit = "0" PROVE signalled /\ http = "down" /\ grpc = "stopped"
    <2>1. running = {} /\ ~failed
      BY <1>1 DEF Inv, Waited, Closing
    <2>2. stopper = "done" /\ http = "down" /\ grpc = "stopped"
      BY <1>1, <2>1 DEF Inv, Returned
    <2>3. done
      BY <1>1, <2>2 DEF Inv, HttpClosed
    <2> QED BY <1>1, <2>1, <2>2, <2>3 DEF Inv, Returned
  <1>2. Inv => GracefulMeansGraceful
    BY <1>1 DEF GracefulMeansGraceful
  <1> QED BY <1>2, Invariance, PTL
============================================================================
