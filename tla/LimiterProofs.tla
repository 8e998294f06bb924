--------------------------- MODULE LimiterProofs ---------------------------
(***************************************************************************)
(* Proofs about the limiter, for any number of callers, keys and buckets   *)
(* and any burst: its type invariant, and that it implements the contract. *)
(***************************************************************************)
EXTENDS Limiter, TLAPS

(* The inductive invariant.  A cleanup in progress keeps the map as it was  *)
(* when the scan began, except for what it deletes (in TypeOK); a new       *)
(* bucket is a fresh one, so no caller draws from another key's bucket.     *)
KeysApart ==
  /\ \A k, l \in Present : limiters[k] = limiters[l] => k = l
  /\ \A c \in Callers, k \in Present : held[c] = limiters[k] => key[c] = k

Inv == TypeOK /\ KeysApart

LEMMA InitInv == Init => Inv
  <1> SUFFICES ASSUME Init PROVE Inv
    OBVIOUS
  <1>1. Present = {}
    BY DEF Init, Present
  <1>2. tokens \in [Buckets -> 0 .. Burst]
    BY BurstAssumption DEF Init
  <1>3. allowed \in [Callers -> BOOLEAN \union {None}]
    BY DEF Init
  <1>4. cleaning \in BOOLEAN /\ todo \subseteq Present /\ dropping \in todo \union {None}
    BY DEF Init
  <1>5. TypeOK
    BY <1>2, <1>3, <1>4, AbsentAssumption DEF Init, TypeOK
  <1>6. KeysApart
    BY <1>1 DEF KeysApart
  <1> QED BY <1>5, <1>6 DEF Inv

----------------------------------------------------------------------------
(* The steps of a call.                                                    *)

LEMMA LookupInv ==
  ASSUME Inv, NEW c \in Callers, Lookup(c)
  PROVE  Inv'
  <1>1. PICK k \in Keys :
          /\ key' = [key EXCEPT ![c] = k]
          /\ \/ limiters[k] # None /\ Hold(c, limiters[k])
             \/ limiters[k] = None /\ pc' = [pc EXCEPT ![c] = "create"] /\ UNCHANGED held
    BY DEF Lookup
  <1>2. /\ pc[c] = "idle" /\ allowed' = [allowed EXCEPT ![c] = None]
        /\ UNCHANGED <<limiters, tokens, cleaning, todo, dropping, resetting>>
    BY DEF Lookup, others
  <1>3. key[c] = None /\ held[c] = None
    BY <1>2, AbsentAssumption DEF Inv, TypeOK
  <1>4. CASE limiters[k] # None /\ Hold(c, limiters[k])
    <2>1. /\ pc' = [pc EXCEPT ![c] = "allow"]
          /\ held' = [held EXCEPT ![c] = limiters[k]]
      BY <1>4 DEF Hold
    <2>2. limiters[k] \in Buckets
      BY <1>4 DEF Inv, TypeOK
    <2>3. TypeOK'
      BY <1>1, <1>2, <2>1, <2>2, AbsentAssumption DEF Inv, TypeOK, Present
    <2>4. KeysApart'
      BY <1>1, <1>2, <1>4, <2>1 DEF Inv, TypeOK, KeysApart, Present
    <2> QED BY <2>3, <2>4 DEF Inv
  <1>5. CASE limiters[k] = None /\ pc' = [pc EXCEPT ![c] = "create"] /\ UNCHANGED held
    <2>1. TypeOK'
      BY <1>1, <1>2, <1>3, <1>5, AbsentAssumption DEF Inv, TypeOK, Present
    <2>2. KeysApart'
      BY <1>1, <1>2, <1>3, <1>5 DEF Inv, TypeOK, KeysApart, Present
    <2> QED BY <2>1, <2>2 DEF Inv
  <1> QED BY <1>1, <1>4, <1>5

LEMMA CreateInv ==
  ASSUME Inv, NEW c \in Callers, Create(c)
  PROVE  Inv'
  <1>1. /\ pc[c] = "create" /\ ~cleaning
        /\ UNCHANGED <<key, allowed, cleaning, todo, dropping, resetting>>
    BY DEF Create, others
  <1>2. key[c] \in Keys /\ held[c] = None
    BY <1>1 DEF Inv, TypeOK
  <1>3. todo = {} /\ dropping = None
    BY <1>1 DEF Inv, TypeOK
  <1>4. CASE /\ limiters[key[c]] # None /\ Hold(c, limiters[key[c]])
             /\ UNCHANGED <<limiters, tokens>>
    <2>1. /\ pc' = [pc EXCEPT ![c] = "allow"]
          /\ held' = [held EXCEPT ![c] = limiters[key[c]]]
      BY <1>4 DEF Hold
    <2>2. limiters[key[c]] \in Buckets
      BY <1>2, <1>4 DEF Inv, TypeOK
    <2>3. TypeOK'
      BY <1>1, <1>2, <1>3, <1>4, <2>1, <2>2, AbsentAssumption DEF Inv, TypeOK, Present
    <2>4. KeysApart'
      BY <1>1, <1>2, <1>4, <2>1 DEF Inv, TypeOK, KeysApart, Present
    <2> QED BY <2>3, <2>4 DEF Inv
  <1>5. CASE limiters[key[c]] = None /\ Insert(c)
    <2>1. PICK b \in Buckets \ Live :
            /\ limiters' = [limiters EXCEPT ![key[c]] = b]
            /\ tokens' = [tokens EXCEPT ![b] = Burst]
            /\ pc' = [pc EXCEPT ![c] = "allow"]
            /\ held' = [held EXCEPT ![c] = b]
      BY <1>5 DEF Insert, Hold
    <2>2. /\ \A k \in Present : limiters[k] # b
          /\ \A d \in Callers : held[d] # b
      BY <2>1 DEF Live
    <2>3. Burst \in 0 .. Burst
      BY BurstAssumption
    <2>4. TypeOK'
      BY <1>1, <1>2, <1>3, <2>1, <2>3, AbsentAssumption DEF Inv, TypeOK, Present
    <2>5. KeysApart'
      BY <1>1, <1>2, <2>1, <2>2 DEF Inv, TypeOK, KeysApart, Present
    <2> QED BY <2>4, <2>5 DEF Inv
  <1> QED BY <1>4, <1>5 DEF Create

LEMMA AllowInv ==
  ASSUME Inv, NEW c \in Callers, Allow(c)
  PROVE  Inv'
  <1>1. pc[c] = "allow" /\ UNCHANGED <<limiters, cleaning, todo, dropping, resetting>>
    BY DEF Allow, others
  <1>2. held[c] \in Buckets /\ tokens[held[c]] \in 0 .. Burst
    BY <1>1 DEF Inv, TypeOK
  <1>3. PICK a \in BOOLEAN : Answer(c, a)
    BY DEF Allow
  <1>4. tokens' \in [Buckets -> 0 .. Burst]
    <2>1. CASE tokens[held[c]] > 0 /\ tokens' = [tokens EXCEPT ![held[c]] = @ - 1]
      <3>1. tokens[held[c]] - 1 \in 0 .. Burst
        BY <1>2, <2>1, BurstAssumption
      <3> QED BY <2>1, <3>1 DEF Inv, TypeOK
    <2>2. CASE UNCHANGED tokens
      BY <2>2 DEF Inv, TypeOK
    <2> QED BY <2>1, <2>2 DEF Allow
  <1>5. TypeOK'
    BY <1>1, <1>3, <1>4, AbsentAssumption DEF Inv, TypeOK, Answer, Present
  <1>6. KeysApart'
    BY <1>1, <1>3, AbsentAssumption DEF Inv, TypeOK, KeysApart, Answer, Present
  <1> QED BY <1>5, <1>6 DEF Inv

LEMMA TickInv == Inv /\ Tick => Inv'
  <1> SUFFICES ASSUME Inv, Tick PROVE Inv'
    OBVIOUS
  <1>1. UNCHANGED <<limiters, pc, key, held, allowed, cleaning, todo, dropping, resetting>>
    BY DEF Tick, callers, others
  <1>2. tokens' \in [Buckets -> 0 .. Burst]
    BY BurstAssumption DEF Tick, Gain, Inv, TypeOK
  <1> QED BY <1>1, <1>2 DEF Inv, TypeOK, KeysApart, Present

----------------------------------------------------------------------------
(* The cleanup and the resets.                                             *)

LEMMA CleanupInv == Inv /\ Cleanup => Inv'
  <1> SUFFICES ASSUME Inv, Cleanup PROVE Inv'
    OBVIOUS
  <1>1. CASE CleanupBegins
    BY <1>1 DEF CleanupBegins, callers, Inv, TypeOK, KeysApart, Present
  <1>2. CASE \E k \in Keys : CleanupKeeps(k) \/ CleanupFindsFull(k)
    BY <1>2 DEF CleanupKeeps, CleanupFindsFull, callers, Inv, TypeOK, KeysApart, Present
  <1>3. CASE CleanupDeletes
    <2>1. /\ dropping \in todo /\ dropping' = None /\ todo' = todo \ {dropping}
          /\ limiters' = [limiters EXCEPT ![dropping] = None]
          /\ UNCHANGED <<tokens, pc, key, held, allowed, cleaning, resetting>>
      BY <1>3 DEF CleanupDeletes, callers, Inv, TypeOK
    <2>2. TypeOK'
      BY <2>1 DEF Inv, TypeOK, Present
    <2>3. KeysApart'
      BY <2>1 DEF Inv, TypeOK, KeysApart, Present
    <2> QED BY <2>2, <2>3 DEF Inv
  <1>4. CASE CleanupEnds
    BY <1>4 DEF CleanupEnds, callers, Inv, TypeOK, KeysApart, Present
  <1> QED BY <1>1, <1>2, <1>3, <1>4 DEF Cleanup

LEMMA BeginResetInv == Inv /\ BeginReset => Inv'
  <1> SUFFICES ASSUME Inv, BeginReset PROVE Inv'
    OBVIOUS
  <1>1. resetting' \subseteq Keys
    BY DEF BeginReset
  <1> QED BY <1>1 DEF BeginReset, callers, Inv, TypeOK, KeysApart, Present

LEMMA ResetInv == Inv /\ Reset => Inv'
  <1> SUFFICES ASSUME Inv, Reset PROVE Inv'
    OBVIOUS
  <1>1. /\ ~cleaning /\ resetting' = {}
        /\ UNCHANGED <<tokens, pc, key, held, allowed, cleaning, todo, dropping>>
    BY DEF Reset, callers
  <1>2. limiters' = [k \in Keys |-> IF k \in resetting THEN None ELSE limiters[k]]
    BY DEF Reset
  <1>3. todo = {} /\ dropping = None
    BY <1>1 DEF Inv, TypeOK
  <1>4. TypeOK'
    BY <1>1, <1>2, <1>3 DEF Inv, TypeOK, Present
  <1>5. KeysApart'
    BY <1>1, <1>2 DEF Inv, TypeOK, KeysApart, Present
  <1> QED BY <1>4, <1>5 DEF Inv

LEMMA NextInv == Inv /\ [Next]_vars => Inv'
  <1> SUFFICES ASSUME Inv, [Next]_vars PROVE Inv'
    OBVIOUS
  <1>1. CASE \E c \in Callers : Step(c)
    BY <1>1, LookupInv, CreateInv, AllowInv DEF Step
  <1>2. CASE Cleanup
    BY <1>2, CleanupInv
  <1>3. CASE Tick
    BY <1>3, TickInv
  <1>4. CASE BeginReset
    BY <1>4, BeginResetInv
  <1>5. CASE Reset
    BY <1>5, ResetInv
  <1>6. CASE UNCHANGED vars
    BY <1>6 DEF vars, callers, others, Inv, TypeOK, KeysApart, Present
  <1> QED BY <1>1, <1>2, <1>3, <1>4, <1>5, <1>6 DEF Next

\* The invariant holds in every reachable state.
THEOREM LimiterInvariance == Spec => []Inv
  BY InitInv, NextInv, PTL DEF Spec

\* In every behaviour the variables keep their types: above all no bucket is
\* ever overdrawn or over-full (rate.NewLimiter, Allow).
THEOREM LimiterTypes == Spec => []TypeOK
  <1>1. Inv => TypeOK
    BY DEF Inv
  <1> QED BY <1>1, LimiterInvariance, PTL

----------------------------------------------------------------------------
(* The refinement: every step is a step of the contract or a stutter.       *)

LEMMA LevelsUnchanged ==
  ASSUME UNCHANGED <<limiters, tokens, dropping>>
  PROVE  Levels' = Levels
  BY DEF Levels, Level

LEMMA InitImplements == Init => Contract!CInit
  BY DEF Init, Contract!CInit, Levels, Level, Overtaken

LEMMA LookupImplements ==
  ASSUME Inv, NEW c \in Callers, Lookup(c)
  PROVE  Contract!CNext
  <1>1. PICK k \in Keys :
          /\ key' = [key EXCEPT ![c] = k]
          /\ \/ limiters[k] # None /\ Hold(c, limiters[k])
             \/ limiters[k] = None /\ pc' = [pc EXCEPT ![c] = "create"] /\ UNCHANGED held
    BY DEF Lookup
  <1>2. /\ pc[c] = "idle" /\ ~cleaning /\ allowed' = [allowed EXCEPT ![c] = None]
        /\ UNCHANGED <<limiters, tokens, cleaning, todo, dropping, resetting>>
    BY DEF Lookup, others
  <1>3. key[c] = None /\ dropping = None
    BY <1>2 DEF Inv, TypeOK
  <1>4. Levels' = Levels
    BY <1>2, LevelsUnchanged
  <1>5. Overtaken' = Overtaken
    BY <1>1, <1>2, <1>3, AbsentAssumption DEF Overtaken, Hold, Inv, TypeOK
  <1>6. Contract!Ask(c)
    BY <1>1, <1>2, <1>3, <1>4, <1>5 DEF Contract!Ask
  <1> QED BY <1>6 DEF Contract!CNext

\* A bucket is full when it is made: its key may use as much as before.
LEMMA CreateImplements ==
  ASSUME Inv, NEW c \in Callers, Create(c)
  PROVE  UNCHANGED Contract!cvars
  <1>1. /\ pc[c] = "create" /\ ~cleaning
        /\ UNCHANGED <<key, allowed, cleaning, todo, dropping, resetting>>
    BY DEF Create, others
  <1>2. key[c] \in Keys /\ held[c] = None /\ dropping = None
    BY <1>1 DEF Inv, TypeOK
  <1>3. CASE /\ limiters[key[c]] # None /\ Hold(c, limiters[key[c]])
             /\ UNCHANGED <<limiters, tokens>>
    <2>1. Levels' = Levels
      BY <1>1, <1>3, LevelsUnchanged
    <2>2. Overtaken' = Overtaken
      BY <1>1, <1>2, <1>3, AbsentAssumption DEF Overtaken, Hold, Inv, TypeOK
    <2> QED BY <1>1, <2>1, <2>2 DEF Contract!cvars
  <1>4. CASE limiters[key[c]] = None /\ Insert(c)
    <2>1. PICK b \in Buckets \ Live :
            /\ limiters' = [limiters EXCEPT ![key[c]] = b]
            /\ tokens' = [tokens EXCEPT ![b] = Burst]
            /\ pc' = [pc EXCEPT ![c] = "allow"]
            /\ held' = [held EXCEPT ![c] = b]
      BY <1>4 DEF Insert, Hold
    <2>2. /\ \A k \in Present : limiters[k] # b
          /\ \A d \in Callers : held[d] # b
          /\ b # None
      BY <2>1, AbsentAssumption DEF Live
    <2>3. \A k \in Keys : Level(k)' = Level(k)
      BY <1>1, <1>2, <1>4, <2>1, <2>2 DEF Level, Present, Inv, TypeOK
    <2>4. Levels' = Levels
      BY <2>3 DEF Levels
    <2>5. Overtaken' = Overtaken
      <3>1. ASSUME NEW d \in Callers PROVE d \in Overtaken' <=> d \in Overtaken
        <4>1. CASE d = c
          BY <1>1, <1>2, <2>1, <4>1 DEF Overtaken, Inv, TypeOK
        <4>2. CASE d # c
          BY <1>1, <1>2, <1>4, <2>1, <2>2, <4>2, AbsentAssumption DEF Overtaken, Inv, TypeOK
        <4> QED BY <4>1, <4>2
      <3> QED BY <3>1 DEF Overtaken
    <2> QED BY <1>1, <2>4, <2>5 DEF Contract!cvars
  <1> QED BY <1>3, <1>4 DEF Create

\* The answer ends the call, whether or not it was overtaken.
LEMMA AnswerImplements ==
  ASSUME Inv, NEW c \in Callers, pc[c] = "allow", NEW a, Answer(c, a),
         UNCHANGED <<limiters, dropping, resetting>>
  PROVE  Contract!Answer(c, a)
  <1>1. Overtaken' = Overtaken \ {c}
    BY DEF Overtaken, Answer, Inv, TypeOK
  <1> QED BY <1>1 DEF Answer, Contract!Answer

LEMMA AllowImplements ==
  ASSUME Inv, NEW c \in Callers, Allow(c)
  PROVE  Contract!CNext
  <1>1. pc[c] = "allow" /\ UNCHANGED <<limiters, cleaning, todo, dropping, resetting>>
    BY DEF Allow, others
  <1>2. /\ key[c] \in Keys /\ key[c] # None
        /\ held[c] \in Buckets /\ tokens[held[c]] \in 0 .. Burst
    BY <1>1, AbsentAssumption DEF Inv, TypeOK
  <1>3. PICK a \in BOOLEAN : Answer(c, a) /\ Contract!Answer(c, a)
    BY <1>1, AnswerImplements DEF Allow
  <1>4. \A k \in Present : limiters[k] = held[c] => k = key[c]
    BY DEF Inv, KeysApart
  <1>5. CASE c \in Overtaken
    <2>1. \A b \in Buckets : b # held[c] => tokens'[b] = tokens[b]
      BY DEF Allow, Inv, TypeOK
    <2>2. \A k \in Keys : limiters[k] = held[c] => limiters[k] = None \/ k = dropping
      BY <1>4, <1>5 DEF Overtaken, Present
    <2>3. ASSUME NEW k \in Keys, limiters[k] # None, k # dropping
          PROVE  tokens'[limiters[k]] = tokens[limiters[k]]
      BY <2>1, <2>2, <2>3 DEF Inv, TypeOK
    <2>4. \A k \in Keys : Level(k)' = Level(k)
      BY <1>1, <2>3 DEF Level
    <2>5. Levels' = Levels
      BY <2>4 DEF Levels
    <2>6. Contract!AnswerLate(c)
      BY <1>3, <1>5, <2>5 DEF Contract!AnswerLate
    <2> QED BY <2>6 DEF Contract!CNext
  <1>6. CASE c \notin Overtaken
    <2>1. held[c] = limiters[key[c]] /\ key[c] # dropping
      BY <1>1, <1>6 DEF Overtaken
    <2>2. Levels[key[c]] = tokens[held[c]]
      BY <1>2, <2>1, AbsentAssumption DEF Levels, Level
    <2>3. CASE /\ tokens[held[c]] > 0
               /\ tokens' = [tokens EXCEPT ![held[c]] = @ - 1]
               /\ Answer(c, TRUE)
      <3>1. ASSUME NEW k \in Keys
            PROVE  Level(k)' = IF k = key[c] THEN Level(k) - 1 ELSE Level(k)
        BY <1>1, <1>2, <1>4, <2>1, <2>3, AbsentAssumption DEF Level, Present, Inv, TypeOK
      <3>2. Levels' = [Levels EXCEPT ![key[c]] = @ - 1]
        BY <3>1, <1>2 DEF Levels
      <3>3. Contract!Answer(c, TRUE)
        BY <1>1, <2>3, AnswerImplements
      <3>4. Contract!Grant(c)
        BY <1>2, <1>6, <2>2, <2>3, <3>2, <3>3 DEF Contract!Grant
      <3> QED BY <3>4 DEF Contract!CNext
    <2>4. CASE tokens[held[c]] = 0 /\ Answer(c, FALSE) /\ UNCHANGED tokens
      <3>1. Levels' = Levels
        BY <1>1, <2>4, LevelsUnchanged
      <3>2. Contract!Answer(c, FALSE)
        BY <1>1, <2>4, AnswerImplements
      <3>3. Contract!Refuse(c)
        BY <1>2, <1>6, <2>2, <2>4, <3>1, <3>2 DEF Contract!Refuse
      <3> QED BY <3>3 DEF Contract!CNext
    <2> QED BY <2>3, <2>4 DEF Allow
  <1> QED BY <1>5, <1>6

LEMMA TickImplements == Inv /\ Tick => Contract!CNext
  <1> SUFFICES ASSUME Inv, Tick PROVE Contract!CNext
    OBVIOUS
  <1>1. UNCHANGED <<limiters, pc, key, held, allowed, cleaning, todo, dropping, resetting>>
    BY DEF Tick, callers, others
  <1>2. ASSUME NEW k \in Keys PROVE Level(k)' = Gain(Level(k))
    <2>1. CASE limiters[k] = None \/ k = dropping
      BY <1>1, <2>1, BurstAssumption DEF Level, Gain
    <2>2. CASE limiters[k] # None /\ k # dropping
      BY <1>1, <2>2 DEF Level, Tick, Inv, TypeOK
    <2> QED BY <2>1, <2>2
  <1>3. Levels' = [k \in Keys |-> IF Levels[k] < Burst THEN Levels[k] + 1 ELSE Levels[k]]
    BY <1>2 DEF Levels, Gain
  <1>4. Overtaken' = Overtaken
    BY <1>1 DEF Overtaken
  <1>5. Contract!Pass
    BY <1>1, <1>3, <1>4 DEF Contract!Pass
  <1> QED BY <1>5 DEF Contract!CNext

\* The key is forgotten when its bucket is found full: from then on the calls
\* that hold the bucket are overtaken.  The deletion itself does not show.
LEMMA CleanupImplements == Inv /\ Cleanup => Contract!CNext \/ UNCHANGED Contract!cvars
  <1> SUFFICES ASSUME Inv, Cleanup PROVE Contract!CNext \/ UNCHANGED Contract!cvars
    OBVIOUS
  <1>1. CASE CleanupBegins \/ CleanupEnds \/ \E k \in Keys : CleanupKeeps(k)
    <2>1. UNCHANGED <<limiters, tokens, pc, key, held, allowed, dropping, resetting>>
      BY <1>1 DEF CleanupBegins, CleanupEnds, CleanupKeeps, callers
    <2>2. Levels' = Levels /\ Overtaken' = Overtaken
      BY <2>1, LevelsUnchanged DEF Overtaken
    <2> QED BY <2>1, <2>2 DEF Contract!cvars
  <1>2. CASE \E k \in Keys : CleanupFindsFull(k)
    <2>1. PICK k \in Keys : CleanupFindsFull(k)
      BY <1>2
    <2>2. /\ k \in todo /\ dropping = None /\ tokens[limiters[k]] = Burst /\ dropping' = k
          /\ UNCHANGED <<limiters, tokens, pc, key, held, allowed, resetting>>
      BY <2>1 DEF CleanupFindsFull, callers
    <2>3. limiters[k] # None /\ k # None
      BY <2>2, AbsentAssumption DEF Inv, TypeOK, Present
    <2>4. \A l \in Keys : Level(l)' = Level(l)
      BY <2>2, <2>3, AbsentAssumption DEF Level
    <2>5. Levels' = Levels /\ Levels[k] = Burst
      BY <2>2, <2>3, <2>4, AbsentAssumption DEF Levels, Level
    <2>6. \A c \in Callers : key[c] # None => key[c] # dropping
      BY <2>2
    <2>7. Overtaken' = Overtaken \union {c \in Callers : pc[c] = "allow" /\ key[c] = k}
      BY <2>2, <2>6, AbsentAssumption DEF Overtaken, Inv, TypeOK
    <2>8. {c \in Callers : pc[c] = "allow" /\ key[c] = k}
            \in SUBSET {c \in Callers : key[c] \in {k}}
      OBVIOUS
    <2>9. Contract!Forget(k)
      BY <2>2, <2>5, <2>7, <2>8 DEF Contract!Forget, Contract!Overtake
    <2> QED BY <2>9 DEF Contract!CNext
  <1>3. CASE CleanupDeletes
    <2>1. /\ dropping # None /\ dropping' = None
          /\ dropping \in todo /\ dropping \in Keys
          /\ limiters' = [limiters EXCEPT ![dropping] = None]
          /\ UNCHANGED <<tokens, pc, key, held, allowed, resetting>>
      BY <1>3 DEF CleanupDeletes, callers, Inv, TypeOK, Present
    <2>2. \A k \in Keys : Level(k)' = Level(k)
      BY <2>1, AbsentAssumption DEF Level, Inv, TypeOK
    <2>3. Levels' = Levels
      BY <2>2 DEF Levels
    <2>4. Overtaken' = Overtaken
      BY <2>1, AbsentAssumption DEF Overtaken, Inv, TypeOK
    <2> QED BY <2>1, <2>3, <2>4 DEF Contract!cvars
  <1> QED BY <1>1, <1>2, <1>3 DEF Cleanup

LEMMA BeginResetImplements == BeginReset => Contract!CNext
  <1> SUFFICES ASSUME BeginReset PROVE Contract!CNext
    OBVIOUS
  <1>1. UNCHANGED <<limiters, tokens, pc, key, held, allowed, cleaning, todo, dropping>>
    BY DEF BeginReset, callers
  <1>2. Levels' = Levels /\ Overtaken' = Overtaken
    BY <1>1, LevelsUnchanged DEF Overtaken
  <1>3. resetting = {} /\ resetting' \in {Keys} \union {{k} : k \in Keys}
    BY DEF BeginReset
  <1>4. Contract!AskReset
    BY <1>1, <1>2, <1>3 DEF Contract!AskReset
  <1> QED BY <1>4 DEF Contract!CNext

LEMMA ResetImplements == Inv /\ Reset => Contract!CNext
  <1> SUFFICES ASSUME Inv, Reset PROVE Contract!CNext
    OBVIOUS
  <1>1. /\ resetting # {} /\ resetting' = {} /\ ~cleaning
        /\ UNCHANGED <<tokens, pc, key, held, allowed, cleaning, todo, dropping>>
    BY DEF Reset, callers
  <1>2. limiters' = [k \in Keys |-> IF k \in resetting THEN None ELSE limiters[k]]
    BY DEF Reset
  <1>3. dropping = None
    BY <1>1 DEF Inv, TypeOK
  <1>4. Levels' = [k \in Keys |-> IF k \in resetting THEN Burst ELSE Levels[k]]
    BY <1>1, <1>2, <1>3, AbsentAssumption DEF Levels, Level
  <1> DEFINE Reached == {c \in Callers : pc[c] = "allow" /\ key[c] \in resetting}
  <1>5. Overtaken' = Overtaken \union Reached
    BY <1>1, <1>2, <1>3, AbsentAssumption DEF Overtaken, Inv, TypeOK
  <1>6. Reached \in SUBSET {c \in Callers : key[c] \in resetting}
    OBVIOUS
  <1>7. Contract!Refill
    BY <1>1, <1>4, <1>5, <1>6 DEF Contract!Refill, Contract!Overtake
  <1> QED BY <1>7 DEF Contract!CNext

LEMMA StepImplements == Inv /\ [Next]_vars => [Contract!CNext]_(Contract!cvars)
  <1> SUFFICES ASSUME Inv, [Next]_vars PROVE Contract!CNext \/ UNCHANGED Contract!cvars
    OBVIOUS
  <1>1. CASE \E c \in Callers : Step(c)
    BY <1>1, LookupImplements, CreateImplements, AllowImplements DEF Step
  <1>2. CASE Cleanup
    BY <1>2, CleanupImplements
  <1>3. CASE Tick
    BY <1>3, TickImplements
  <1>4. CASE BeginReset
    BY <1>4, BeginResetImplements
  <1>5. CASE Reset
    BY <1>5, ResetImplements
  <1>6. CASE UNCHANGED vars
    <2>1. Levels' = Levels /\ Overtaken' = Overtaken
      BY <1>6, LevelsUnchanged DEF vars, callers, others, Overtaken
    <2> QED BY <1>6, <2>1 DEF vars, callers, others, Contract!cvars
  <1> QED BY <1>1, <1>2, <1>3, <1>4, <1>5, <1>6 DEF Next

\* The Limiter implements one ideal bucket per key: neither the two-step
\* creation of a bucket (getLimiter) nor the cleanup goroutine shows in its
\* answers, except to the calls the cleanup or a reset overtakes.
THEOREM LimiterImplementation == Spec => ImplementsContract
  BY InitImplements, StepImplements, LimiterInvariance, PTL
     DEF Spec, ImplementsContract, Contract!CSpec
============================================================================
