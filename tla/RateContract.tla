---------------------------- MODULE RateContract ---------------------------
(***************************************************************************)
(* What the rate limiter promises: every key has one token bucket that is  *)
(* there all the time.  No map, no locks, no cleanup.                      *)
(*                                                                         *)
(* A key may be forgotten, when its bucket is full or somebody resets it.  *)
(* A call in progress at that moment may be overtaken: its answer is then  *)
(* free, and costs the key nothing.                                        *)
(***************************************************************************)
EXTENDS Integers

CONSTANTS Callers, Keys, Burst, None

VARIABLES
  level,      \* the tokens of each key
  resetting,  \* the keys a reset in progress is about
  asking,     \* the key each call in progress is about
  overtaken,  \* the calls in progress whose key was forgotten meanwhile
  granted     \* the last answer to each caller

cvars == <<level, resetting, asking, overtaken, granted>>

CInit ==
  /\ level = [k \in Keys |-> Burst]
  /\ resetting = {}
  /\ asking = [c \in Callers |-> None]
  /\ overtaken = {}
  /\ granted = [c \in Callers |-> None]

Ask(c) ==
  /\ asking[c] = None
  /\ \E k \in Keys : asking' = [asking EXCEPT ![c] = k]
  /\ granted' = [granted EXCEPT ![c] = None]
  /\ UNCHANGED <<level, resetting, overtaken>>

Answer(c, a) ==
  /\ asking' = [asking EXCEPT ![c] = None]
  /\ overtaken' = overtaken \ {c}
  /\ granted' = [granted EXCEPT ![c] = a]
  /\ UNCHANGED resetting

Grant(c) ==
  /\ asking[c] # None /\ c \notin overtaken
  /\ level[asking[c]] > 0
  /\ level' = [level EXCEPT ![asking[c]] = @ - 1]
  /\ Answer(c, TRUE)

Refuse(c) ==
  /\ asking[c] # None /\ c \notin overtaken
  /\ level[asking[c]] = 0
  /\ Answer(c, FALSE)
  /\ UNCHANGED level

AnswerLate(c) ==
  /\ c \in overtaken
  /\ \E a \in BOOLEAN : Answer(c, a)
  /\ UNCHANGED level

Pass ==
  /\ level' = [k \in Keys |-> IF level[k] < Burst THEN level[k] + 1 ELSE level[k]]
  /\ UNCHANGED <<resetting, asking, overtaken, granted>>

\* Calls about the keys K may be overtaken, and no others.
Overtake(K) ==
  /\ \E S \in SUBSET {c \in Callers : asking[c] \in K} : overtaken' = overtaken \union S
  /\ UNCHANGED <<asking, granted>>

Forget(k) == level[k] = Burst /\ Overtake({k}) /\ UNCHANGED <<level, resetting>>

AskReset ==
  /\ resetting = {}
  /\ resetting' \in {Keys} \union {{k} : k \in Keys}
  /\ UNCHANGED <<level, asking, overtaken, granted>>

Refill ==
  /\ resetting # {}
  /\ level' = [k \in Keys |-> IF k \in resetting THEN Burst ELSE level[k]]
  /\ resetting' = {}
  /\ Overtake(resetting)

CNext ==
  \/ \E c \in Callers : Ask(c) \/ Grant(c) \/ Refuse(c) \/ AnswerLate(c)
  \/ \E k \in Keys : Forget(k)
  \/ Pass \/ AskReset \/ Refill

CSpec == CInit /\ [][CNext]_cvars
============================================================================
