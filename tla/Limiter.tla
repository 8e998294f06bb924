------------------------------ MODULE Limiter ------------------------------
(***************************************************************************)
(* The token-bucket limiter that the HTTP and gRPC transports ask before a *)
(* request is served (internal/pkg/ratelimit).                             *)
(*                                                                         *)
(* The mutex of the Limiter protects its map and nothing else: the look-up *)
(* and the creation of a bucket are two critical sections, and the bucket  *)
(* is used after the second, outside both.  The cleanup goroutine holds    *)
(* the mutex through its whole scan, while callers that already have their *)
(* bucket go on using it.                                                  *)
(*                                                                         *)
(* A bucket is a golang.org/x/time/rate.Limiter, an object of its own: a   *)
(* caller keeps the one it got even when the map no longer has it.  Time   *)
(* advances by the interval in which a bucket gains one token.             *)
(***************************************************************************)
EXTENDS Integers, FiniteSets

CONSTANTS
  Callers,  \* goroutines that serve requests
  Keys,     \* client addresses and user keys
  Buckets,  \* identities for *rate.Limiter objects; what nobody holds is reused
  Burst,
  None

ASSUME BurstAssumption == Burst \in Nat \ {0}
ASSUME AbsentAssumption == None \notin Keys \union Buckets \union BOOLEAN

VARIABLES
  limiters,  \* the map: the bucket of each key, or None
  tokens,    \* the tokens of each bucket
  pc,        \* where each caller is: "idle", "create", "allow"
  key,       \* the key it is called with
  held,      \* the bucket getLimiter gave it
  allowed,   \* the answer it got, None until it has one
  cleaning,  \* the cleanup goroutine holds the mutex
  todo,      \* the keys its range loop has yet to visit
  dropping,  \* the key it is about to delete
  resetting  \* the keys that a call of Reset or ResetAll is about to delete

callers == <<pc, key, held, allowed>>
others == <<cleaning, todo, dropping, resetting>>
vars == <<limiters, tokens, callers, others>>

Present == {k \in Keys : limiters[k] # None}
Live == {limiters[k] : k \in Present} \union {held[c] : c \in Callers}

Init ==
  /\ limiters = [k \in Keys |-> None]
  /\ tokens = [b \in Buckets |-> Burst]
  /\ pc = [c \in Callers |-> "idle"]
  /\ key = [c \in Callers |-> None]
  /\ held = [c \in Callers |-> None]
  /\ allowed = [c \in Callers |-> None]
  /\ cleaning = FALSE
  /\ todo = {}
  /\ dropping = None
  /\ resetting = {}

----------------------------------------------------------------------------
(* Allow(key): getLimiter, then the bucket's own Allow.                    *)

Hold(c, b) == held' = [held EXCEPT ![c] = b] /\ pc' = [pc EXCEPT ![c] = "allow"]

\* The look under the read lock.
Lookup(c) ==
  /\ pc[c] = "idle" /\ ~cleaning
  /\ \E k \in Keys :
       /\ key' = [key EXCEPT ![c] = k]
       /\ \/ limiters[k] # None /\ Hold(c, limiters[k])
          \/ limiters[k] = None /\ pc' = [pc EXCEPT ![c] = "create"] /\ UNCHANGED held
  /\ allowed' = [allowed EXCEPT ![c] = None]
  /\ UNCHANGED <<limiters, tokens, others>>

\* A new bucket is one that nobody holds: Go's allocator sees to that.
Insert(c) ==
  \E b \in Buckets \ Live :
    /\ limiters' = [limiters EXCEPT ![key[c]] = b]
    /\ tokens' = [tokens EXCEPT ![b] = Burst]
    /\ Hold(c, b)

\* Mutant: no second look.
CreateBlindly(c) ==
  /\ pc[c] = "create" /\ ~cleaning
  /\ Insert(c)
  /\ UNCHANGED <<key, allowed, others>>

\* Under the write lock: the second look, and a new bucket if still none.
Create(c) ==
  /\ pc[c] = "create" /\ ~cleaning
  /\ \/ limiters[key[c]] # None /\ Hold(c, limiters[key[c]]) /\ UNCHANGED <<limiters, tokens>>
     \/ limiters[key[c]] = None /\ Insert(c)
  /\ UNCHANGED <<key, allowed, others>>

Answer(c, a) ==
  /\ pc' = [pc EXCEPT ![c] = "idle"]
  /\ key' = [key EXCEPT ![c] = None]
  /\ held' = [held EXCEPT ![c] = None]
  /\ allowed' = [allowed EXCEPT ![c] = a]

\* Mutant: the bucket may be overdrawn.
AllowAlways(c) ==
  /\ pc[c] = "allow"
  /\ tokens' = [tokens EXCEPT ![held[c]] = @ - 1]
  /\ Answer(c, TRUE)
  /\ UNCHANGED <<limiters, others>>

\* rate.Limiter.Allow: atomic in the bucket, and outside the Limiter's mutex.
Allow(c) ==
  /\ pc[c] = "allow"
  /\ \/ /\ tokens[held[c]] > 0
        /\ tokens' = [tokens EXCEPT ![held[c]] = @ - 1]
        /\ Answer(c, TRUE)
     \/ /\ tokens[held[c]] = 0
        /\ Answer(c, FALSE)
        /\ UNCHANGED tokens
  /\ UNCHANGED <<limiters, others>>

\* Time: every bucket gains a token, up to its burst.
Gain(n) == IF n < Burst THEN n + 1 ELSE n
Tick == tokens' = [b \in Buckets |-> Gain(tokens[b])] /\ UNCHANGED <<limiters, callers, others>>

----------------------------------------------------------------------------
(* cleanupLimiters, and the resets.                                        *)

CleanupBegins ==
  /\ ~cleaning
  /\ cleaning' = TRUE
  /\ todo' = Present
  /\ UNCHANGED <<limiters, tokens, callers, dropping, resetting>>

CleanupKeeps(k) ==
  /\ k \in todo /\ dropping = None
  /\ tokens[limiters[k]] # Burst
  /\ todo' = todo \ {k}
  /\ UNCHANGED <<limiters, tokens, callers, cleaning, dropping, resetting>>

\* Tokens() says that the bucket is full (AllowN for 0 tokens never refuses) ...
CleanupFindsFull(k) ==
  /\ k \in todo /\ dropping = None
  /\ tokens[limiters[k]] = Burst
  /\ dropping' = k
  /\ UNCHANGED <<limiters, tokens, callers, cleaning, todo, resetting>>

\* Mutant: the entry stays.
CleanupForgetsToDelete ==
  /\ dropping # None
  /\ todo' = todo \ {dropping}
  /\ dropping' = None
  /\ UNCHANGED <<limiters, tokens, callers, cleaning, resetting>>

\* ... and then it is deleted, though a caller may have used it in between.
CleanupDeletes ==
  /\ dropping # None
  /\ limiters' = [limiters EXCEPT ![dropping] = None]
  /\ todo' = todo \ {dropping}
  /\ dropping' = None
  /\ UNCHANGED <<tokens, callers, cleaning, resetting>>

CleanupEnds ==
  /\ cleaning /\ todo = {}
  /\ cleaning' = FALSE
  /\ UNCHANGED <<limiters, tokens, callers, todo, dropping, resetting>>

Cleanup ==
  \/ CleanupBegins
  \/ \E k \in Keys : CleanupKeeps(k) \/ CleanupFindsFull(k)
  \/ CleanupDeletes
  \/ CleanupEnds

\* Reset(key) and ResetAll are called, one at a time: the mutex keeps them apart.
BeginReset ==
  /\ resetting = {}
  /\ \/ \E k \in Keys : resetting' = {k}
     \/ resetting' = Keys
  /\ UNCHANGED <<limiters, tokens, callers, cleaning, todo, dropping>>

\* Under the write lock: the keys go, whatever their buckets hold.
Reset ==
  /\ resetting # {} /\ ~cleaning
  /\ limiters' = [k \in Keys |-> IF k \in resetting THEN None ELSE limiters[k]]
  /\ resetting' = {}
  /\ UNCHANGED <<tokens, callers, cleaning, todo, dropping>>

----------------------------------------------------------------------------

Step(c) == Lookup(c) \/ Create(c) \/ Allow(c)

Next ==
  \/ \E c \in Callers : Step(c)
  \/ Cleanup \/ Tick \/ BeginReset \/ Reset

Spec == Init /\ [][Next]_vars

\* Time passes, and the ticker of the cleanup goroutine fires.
FairSpec == Spec /\ WF_vars(Tick) /\ WF_vars(Cleanup)

----------------------------------------------------------------------------
(* Properties.                                                             *)

\* Every variable has its type; no bucket is overdrawn; a call in progress has
\* what its next step uses.
TypeOK ==
  /\ limiters \in [Keys -> Buckets \union {None}]
  /\ tokens \in [Buckets -> 0 .. Burst]
  /\ pc \in [Callers -> {"idle", "create", "allow"}]
  /\ key \in [Callers -> Keys \union {None}]
  /\ held \in [Callers -> Buckets \union {None}]
  /\ allowed \in [Callers -> BOOLEAN \union {None}]
  /\ cleaning \in BOOLEAN
  /\ todo \subseteq Present
  /\ dropping \in todo \union {None}
  /\ todo # {} => cleaning
  /\ resetting \subseteq Keys
  /\ \A c \in Callers : pc[c] = "idle" <=> key[c] = None
  /\ \A c \in Callers : pc[c] = "allow" <=> held[c] # None

\* The calls whose bucket was thrown away, or is about to be, under their hands.
Overtaken ==
  {c \in Callers : pc[c] = "allow" /\ (held[c] # limiters[key[c]] \/ key[c] = dropping)}

\* What a key may still use: a key without a bucket gets a full one.
Level(k) == IF limiters[k] = None \/ k = dropping THEN Burst ELSE tokens[limiters[k]]

Levels == [k \in Keys |-> Level(k)]

Contract == INSTANCE RateContract WITH
  level     <- Levels,
  asking    <- key,
  resetting <- resetting,
  overtaken <- Overtaken,
  granted   <- allowed

\* For its callers the Limiter is one bucket per key that exists all the time:
\* concurrent first calls share it, the cleanup goroutine does not show, and
\* only the calls it overtakes are answered otherwise.
ImplementsContract == Contract!CSpec

\* The map does not keep a key that nobody uses any more.
IdleKeysGo ==
  \A k \in Keys : <>[](\A c \in Callers : key[c] # k) => <>[](limiters[k] = None)
============================================================================
