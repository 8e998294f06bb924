------------------------- MODULE UserVersionsProofs -------------------------
(***************************************************************************)
(* The user service implements UserRegistry: its initial state is one of   *)
(* the registry's, and each of its steps is a step of the registry or      *)
(* leaves the registry as it is.                                           *)
(***************************************************************************)
EXTENDS UserVersions, UserServiceProofs

\* The inductive invariant.
HInv == Inv /\ past \in [Ids -> SUBSET Rows] /\ Provenance

----------------------------------------------------------------------------
(* What a step does to the users in the hands of the service.              *)

NowVersionOf(u, id) == \E v \in past'[id] : u = v \/ u = Public(v)

\* A request's user stays with the request, or is the id's row.
KeepsUser(c) == pc[c] # "idle" /\ pc'[c] # "idle" /\ user'[c] = user[c] /\ req'[c] = req[c]

TakesRow(c) ==
  /\ pc'[c] # "idle" /\ req'[c].id \in Ids /\ db'[req'[c].id] \in Rows
  /\ user'[c] \in {db'[req'[c].id], Public(db'[req'[c].id])}

Hands(c) == user'[c] # None => KeepsUser(c) \/ TakesRow(c)

\* An entry stays, goes, or is what a request held.
Entry(i) ==
  \/ cache'[i] \in {cache[i], None}
  \/ \E c \in Clients : user[c] # None /\ req[c].id = i /\ cache'[i] = user[c]

LEMMA PastGrows ==
  ASSUME past \in [Ids -> SUBSET Rows], Record, db' \in [Ids -> Rows \union {None}]
  PROVE  /\ past' \in [Ids -> SUBSET Rows]
         /\ \A i \in Ids : past[i] \subseteq past'[i]
         /\ \A i \in Ids : db'[i] # None => db'[i] \in past'[i]
  BY DEF Record

LEMMA StepProvenance ==
  ASSUME HInv, Inv', Record,
         \A c \in Clients : Hands(c),
         \A i \in Ids : Entry(i),
         \A c \in Clients : pc'[c] = "CacheDelete" /\ req'[c].op = "delete" => db'[req'[c].id] = None
  PROVE  HInv'
  <1>1. /\ past' \in [Ids -> SUBSET Rows]
        /\ \A i \in Ids : past[i] \subseteq past'[i]
        /\ \A i \in Ids : db'[i] # None => db'[i] \in past'[i]
    BY PastGrows DEF HInv, Inv, TypeOK
  <1>2. \A i \in Ids : \A u : VersionOf(u, i) => NowVersionOf(u, i)
    BY <1>1 DEF VersionOf, NowVersionOf
  <1>3. \A c \in Clients : user[c] # None =>
          pc[c] # "idle" /\ req[c].id \in Ids /\ VersionOf(user[c], req[c].id)
    BY DEF HInv, Provenance
  <1>4. \A i \in Ids : cache'[i] # None => NowVersionOf(cache'[i], i)
    BY <1>2, <1>3 DEF Entry, HInv, Provenance
  <1>5. ASSUME NEW c \in Clients, user'[c] # None
        PROVE  pc'[c] # "idle" /\ req'[c].id \in Ids /\ NowVersionOf(user'[c], req'[c].id)
    <2>1. CASE KeepsUser(c)
      BY <1>2, <1>3, <1>5, <2>1 DEF KeepsUser
    <2>2. CASE TakesRow(c)
      BY <1>1, <2>2, RowsAreUsers DEF TakesRow, NowVersionOf
    <2> QED BY <1>5, <2>1, <2>2 DEF Hands
  <1>6. Provenance'
    BY <1>1, <1>4, <1>5 DEF Provenance, VersionOf, NowVersionOf
  <1> QED BY <1>1, <1>6 DEF HInv

----------------------------------------------------------------------------
(* Each step.                                                              *)

LEMMA ReturnHands ==
  ASSUME NEW c \in Clients, TypeOK, NEW code, NEW u, Return(c, code, u)
  PROVE  Hands(c)
  BY DEF TypeOK, Return, Finish, Hands

LEMMA ProceedHands ==
  ASSUME NEW c \in Clients, TypeOK, NEW call, Proceed(c, call), call # "idle", pc[c] # "idle"
  PROVE  Hands(c)
  BY ProceedMoves DEF Hands, KeepsUser

LEMMA AfterCacheHands ==
  ASSUME NEW c \in Clients, TypeOK, pc[c] # "idle", AfterCacheDelete(c) \/ AfterCacheSet(c)
  PROVE  Hands(c)
  BY ReturnHands, ProceedHands DEF AfterCacheDelete, AfterCacheSet

LEMMA BeginHands ==
  ASSUME NEW c \in Clients, HInv, BeginRequest(c)
  PROVE  Hands(c) /\ \A i \in Ids : Entry(i)
  <1>1. pc[c] = "idle" /\ UNCHANGED cache
    BY DEF BeginRequest, BeginCreate, BeginGet, BeginDelete, BeginUpdate, BeginUpdateUnhashable, Begin
  <1>2. user[c] = None
    BY <1>1 DEF HInv, Provenance
  <1>3. user' = user \/ \E code : Return(c, code, None)
    BY DEF BeginRequest, BeginCreate, BeginGet, BeginDelete, BeginUpdate, BeginUpdateUnhashable, Begin
  <1>4. Hands(c)
    BY <1>2, <1>3, ReturnHands DEF Hands, HInv, Inv
  <1> QED BY <1>1, <1>4 DEF Entry

LEMMA SelectHands ==
  ASSUME NEW c \in Clients, HInv, NEW next \in {"CacheSet", "CacheDelete"}, SelectRow(c, next),
         req[c].id \in Ids
  PROVE  Hands(c)
  <1>1. TypeOK
    BY DEF HInv, Inv
  <1>2. CASE Return(c, "NOT_FOUND", None)
    BY <1>1, <1>2, ReturnHands
  <1>3. CASE /\ db[req[c].id] # None
             /\ user' = [user EXCEPT ![c] = db[req[c].id]]
             /\ Goto(c, next)
             /\ UNCHANGED <<req, result>>
    <2>1. /\ pc'[c] = next /\ req' = req /\ db' = db /\ db[req[c].id] \in Rows
          /\ user'[c] = db[req[c].id]
      BY <1>1, <1>3 DEF SelectRow, TypeOK, Goto, table
    <2> QED BY <2>1 DEF Hands, TakesRow
  <1> QED BY <1>2, <1>3 DEF SelectRow

LEMMA CallHands ==
  ASSUME NEW c \in Clients, HInv, Call(c)
  PROVE  Hands(c) /\ \A i \in Ids : Entry(i)
  <1>1. TypeOK /\ PreparedFor(c) /\ req[c] \in Requests
    BY DEF HInv, Inv, Prepared, TypeOK
  <1>2. CASE \/ GetByEmail(c) \/ CreateRefused(c) \/ SendWelcomeEmail(c) \/ CacheGet(c)
             \/ UpdateRefused(c) \/ Delete(c) \/ DeleteRefused(c)
    <2>1. /\ pc[c] # "idle" /\ UNCHANGED cache
          /\ \/ \E code, u : Return(c, code, u)
             \/ \E call \in {"Create", "GetByID", "CacheDelete"} : Proceed(c, call)
      BY <1>2 DEF GetByEmail, Hash, CreateRefused, SendWelcomeEmail, CacheGet, UpdateRefused,
                  Delete, DeleteRow, DeleteRefused, Proceed
    <2> QED BY <1>1, <2>1, ReturnHands, ProceedHands DEF Entry
  <1>3. CASE GetByID(c) \/ UpdateNothing(c)
    <2>1. req[c].id \in Ids
      BY <1>1, <1>3 DEF GetByID, UpdateNothing, PreparedFor, Requests
    <2> QED BY <1>3, <2>1, SelectHands DEF GetByID, UpdateNothing, SelectRow, Entry
  <1>4. CASE Create(c)
    <2>1. NewRow(c) \in Rows /\ nextId \in Ids
      BY <1>1, <1>4, NewRowType DEF Create, InsertRow
    <2>2. /\ pc'[c] = "CacheSet" /\ req'[c].id = nextId /\ user'[c] = Public(NewRow(c))
          /\ db'[nextId] = NewRow(c) /\ cache' = cache
      BY <1>1, <1>4, <2>1 DEF Create, InsertRow, TypeOK, Goto, Requests
    <2> QED BY <2>1, <2>2 DEF Hands, TakesRow, Entry
  <1>5. CASE Update(c)
    <2>1. /\ req[c].op = "update" /\ req[c].input.password \notin Unhashable
          /\ req[c].id \in Ids /\ req[c].input \in Updates
      BY <1>1, <1>5 DEF Update, UpdateRow, PreparedFor, Requests
    <2>2. /\ pc'[c] = "CacheDelete" /\ req' = req /\ cache' = cache
          /\ db'[req[c].id] = Merge(db[req[c].id], req[c].input) /\ db[req[c].id] \in Rows
          /\ user'[c] = Public(db'[req[c].id])
      BY <1>1, <1>5, <2>1 DEF Update, UpdateRow, TypeOK, Goto
    <2>3. db'[req[c].id] \in Rows
      BY <2>1, <2>2, MergeType
    <2> QED BY <2>1, <2>2, <2>3 DEF Hands, TakesRow, Entry
  <1>6. CASE CacheDelete(c)
    <2>1. pc[c] # "idle" /\ AfterCacheDelete(c) /\ cache' = [cache EXCEPT ![req[c].id] = None]
      BY <1>6 DEF CacheDelete
    <2> QED BY <1>1, <2>1, AfterCacheHands DEF Entry, TypeOK
  <1>7. CASE CacheSet(c)
    <2>1. /\ pc[c] # "idle" /\ AfterCacheSet(c) /\ cache' = [cache EXCEPT ![req[c].id] = user[c]]
          /\ user[c] # None
      BY <1>1, <1>7 DEF CacheSet, PreparedFor
    <2>2. \A i \in Ids : Entry(i)
      BY <1>1, <2>1 DEF Entry, TypeOK
    <2> QED BY <1>1, <2>1, <2>2, AfterCacheHands
  <1> QED BY <1>2, <1>3, <1>4, <1>5, <1>6, <1>7 DEF Call

LEMMA FaultHands ==
  ASSUME NEW c \in Clients, HInv, Fault(c)
  PROVE  Hands(c) /\ \A i \in Ids : Entry(i)
  <1>1. TypeOK
    BY DEF HInv, Inv
  <1>2. CASE DbFails(c) \/ DbAnswerLost(c) \/ CacheFails(c)
    <2>1. /\ pc[c] # "idle" /\ UNCHANGED cache
          /\ \/ \E code, u : Return(c, code, u)
             \/ \E call \in {"Create", "GetByID"} : Proceed(c, call)
             \/ AfterCacheDelete(c) \/ AfterCacheSet(c)
      BY <1>2 DEF DbFails, Hash, DbAnswerLost, InsertRow, UpdateRow, DeleteRow, CacheFails
    <2> QED BY <1>1, <2>1, ReturnHands, ProceedHands, AfterCacheHands DEF Entry
  <1>3. CASE Crash(c)
    BY <1>1, <1>3 DEF Crash, Finish, TypeOK, Hands, Entry
  <1> QED BY <1>2, <1>3 DEF Fault

\* A request comes to drop the entry of a user it deleted by deleting it.
LEMMA DeleterKnows ==
  ASSUME NEW c \in Clients, HInv, BeginRequest(c) \/ Call(c) \/ Fault(c), Next,
         NEW d \in Clients, pc'[d] = "CacheDelete", req'[d].op = "delete"
  PROVE  db'[req'[d].id] = None
  <1>1. TypeOK /\ PreparedFor(d) /\ req[d] \in Requests /\ Inv
    BY DEF HInv, Inv, Prepared, TypeOK
  <1>2. CASE d # c \/ (pc[d] = "CacheDelete" /\ req'[d] = req[d])
    <2>1. pc[d] = "CacheDelete" /\ req'[d] = req[d]
      BY <1>1, <1>2, BeginOthersSame, CallOthersSame, FaultOthersSame DEF OthersSame
    <2>2. req[d].id \in Ids /\ req[d].id < nextId /\ db[req[d].id] = None
      BY <1>1, <2>1 DEF PreparedFor, Requests, HInv, Provenance
    <2> QED BY <1>1, <2>1, <2>2, GoneStays
  <1>3. CASE d = c /\ Delete(c)
    <2>1. req[c].id \in Ids /\ req' = req /\ db' = [db EXCEPT ![req[c].id] = None]
      BY <1>1, <1>3 DEF Delete, DeleteRow, PreparedFor, Requests
    <2> QED BY <1>1, <1>3, <2>1 DEF TypeOK
  <1>4. CASE d = c /\ ~Delete(c)
    <2>1. \A code, u : ~Return(c, code, u)
      BY <1>1, <1>4, ReturnMoves
    <2>2. \A call : Proceed(c, call) => call = "CacheDelete"
      BY <1>1, <1>4, ProceedMoves
    <2>3. \A call : Goto(c, call) => call = "CacheDelete"
      BY <1>1, <1>4 DEF TypeOK, Goto
    <2>4. ~BeginRequest(c)
      BY <2>1, <2>3 DEF BeginRequest, BeginCreate, BeginGet, BeginDelete, BeginUpdate,
                        BeginUpdateUnhashable, Begin
    <2>5. ~Fault(c)
      BY <2>1, <2>2, <2>3 DEF Fault, DbFails, Hash, DbAnswerLost, CacheFails, AfterCacheDelete,
                              AfterCacheSet, Crash, Finish
    <2>6. UpdateNothing(c) \/ Update(c)
      BY <1>4, <2>1, <2>2, <2>3, <2>4, <2>5 DEF Call, GetByEmail, Hash, Create, CreateRefused,
         SendWelcomeEmail, CacheGet, GetByID, SelectRow, UpdateRefused, DeleteRefused,
         CacheDelete, CacheSet, AfterCacheDelete, AfterCacheSet
    <2>7. req[c].op = "update" /\ req' = req
      BY <1>1, <1>4, <2>1, <2>6 DEF UpdateNothing, SelectRow, Update, UpdateRow, PreparedFor
    <2> QED BY <1>4, <2>7
  <1> QED BY <1>2, <1>3, <1>4

LEMMA HNextInv == HInv /\ [HNext]_hvars => HInv'
  <1> SUFFICES ASSUME HInv, [HNext]_hvars PROVE HInv'
    OBVIOUS
  <1>1. Inv'
    BY NextInv DEF HInv, HNext, hvars
  <1>2. CASE UNCHANGED hvars
    BY <1>1, <1>2 DEF hvars, vars, HInv, Provenance, VersionOf
  <1>3. ASSUME NEW c \in Clients, BeginRequest(c) \/ Call(c) \/ Fault(c), Record
        PROVE  HInv'
    <2>1. Next
      BY <1>3 DEF Next
    <2>2. Hands(c) /\ \A i \in Ids : Entry(i)
      BY <1>3, BeginHands, CallHands, FaultHands
    <2>3. \A d \in Clients : Hands(d)
      <3>1. \A d \in Clients \ {c} : pc'[d] = pc[d] /\ req'[d] = req[d] /\ user'[d] = user[d]
        BY <1>3, BeginOthersSame, CallOthersSame, FaultOthersSame DEF OthersSame, HInv, Inv
      <3> QED BY <2>2, <3>1 DEF Hands, KeepsUser, HInv, Provenance
    <2>4. \A d \in Clients : pc'[d] = "CacheDelete" /\ req'[d].op = "delete" => db'[req'[d].id] = None
      BY <1>3, <2>1, DeleterKnows
    <2> QED BY <1>1, <1>3, <2>2, <2>3, <2>4, StepProvenance
  <1>4. ASSUME NEW id \in Ids, Expire(id), Record
        PROVE  HInv'
    <2>1. /\ UNCHANGED <<db, pc, req, user>> /\ \A i \in Ids : cache'[i] \in {cache[i], None}
      BY <1>4 DEF Expire, table, HInv, Inv, TypeOK
    <2> QED BY <1>1, <1>4, <2>1, StepProvenance DEF Hands, KeepsUser, Entry, HInv, Provenance
  <1> QED BY <1>2, <1>3, <1>4 DEF HNext, Next

LEMMA HInitInv == HInit => HInv
  <1> SUFFICES ASSUME HInit PROVE HInv
    OBVIOUS
  <1>1. Inv
    BY InitInv DEF HInit
  <1>2. Provenance
    BY DEF HInit, Init, Provenance
  <1> QED BY <1>1, <1>2 DEF HInv, HInit

\* Every user in the table, in the cache and in a running request is a version
\* of the user it is used for.
THEOREM VersionsAreWhole == HSpec => []Provenance
  <1>1. HInv => Provenance
    BY DEF HInv
  <1> QED BY <1>1, HInitInv, HNextInv, PTL DEF HSpec

----------------------------------------------------------------------------
(* The steps of the service as steps of the registry.                      *)

LEMMA PastStays ==
  ASSUME HInv, Record, \A i \in Ids : db'[i] \in {db[i], None}
  PROVE  past' = past
  <1>1. \A i \in Ids : past'[i] = past[i]
    BY DEF Record, HInv, Provenance
  <1> QED BY <1>1 DEF Record, HInv

LEMMA PastStores ==
  ASSUME HInv, Record, NEW row \in Rows, db' = [db EXCEPT ![row.id] = row]
  PROVE  past' = [past EXCEPT ![row.id] = @ \union {row}]
  <1>1. row.id \in Ids /\ row # None /\ TypeOK
    BY RowsAreUsers DEF Rows, HInv, Inv
  <1>2. \A i \in Ids : past'[i] = IF i = row.id THEN past[i] \union {row} ELSE past[i]
    BY <1>1 DEF Record, HInv, Provenance, TypeOK
  <1> QED BY <1>1, <1>2 DEF Record, HInv

\* What the registry sees of a request: the user it is about.
LEMMA AskedAfter ==
  ASSUME TypeOK, NEW c \in Clients, NEW r, req' = [req EXCEPT ![c] = r]
  PROVE  [d \in Clients |-> req'[d].id] = [[d \in Clients |-> req[d].id] EXCEPT ![c] = r.id]
  BY DEF TypeOK

LEMMA AskedOfReturn ==
  ASSUME TypeOK, NEW c \in Clients, Finish(c)
  PROVE  [d \in Clients |-> req'[d].id] = [[d \in Clients |-> req[d].id] EXCEPT ![c] = None]
  <1>1. req' = [req EXCEPT ![c] = NoRequest] /\ NoRequest.id = None
    BY DEF Finish, NoRequest
  <1> QED BY <1>1, AskedAfter

LEMMA AskedSame ==
  ASSUME TypeOK, NEW c \in Clients, req' = req
  PROVE  /\ [d \in Clients |-> req'[d].id] = [[d \in Clients |-> req[d].id] EXCEPT ![c] = req[c].id]
         /\ req[c].id \in Ids \union {None}
  BY DEF TypeOK, Requests

\* A statement that changes the table changes the registry.
LEMMA RowStepModifies ==
  ASSUME HInv, Record, NEW c \in Clients, InsertRow(c) \/ UpdateRow(c) \/ DeleteRow(c)
  PROVE  Registry!Modify
  <1>1. TypeOK /\ Numbered /\ PreparedFor(c) /\ req[c] \in Requests
    BY DEF HInv, Inv, Prepared, TypeOK
  <1>2. CASE InsertRow(c)
    <2> DEFINE row == NewRow(c)
    <2>1. row \in Rows /\ row.id = nextId /\ row.email = req[c].input.email
      BY <1>1, <1>2, NewRowType DEF InsertRow, NewRow
    <2>2. past' = [past EXCEPT ![row.id] = @ \union {row}]
      BY <1>2, <2>1, PastStores DEF InsertRow
    <2>3. Registry!Free(row.email, row.id)
      BY <1>2, <2>1, NoneAssumption DEF InsertRow, EmailTaken, Registry!Free
    <2>4. row.id > nextId - 1 /\ nextId' - 1 = row.id
      BY <1>1, <1>2, <2>1 DEF InsertRow, TypeOK, Ids
    <2>5. Registry!Register(row)
      BY <1>2, <2>1, <2>2, <2>3, <2>4 DEF InsertRow, Registry!Register, Registry!Store
    <2> QED BY <2>1, <2>5 DEF Registry!Modify
  <1>3. CASE UpdateRow(c)
    <2> DEFINE row == Merge(db[req[c].id], req[c].input)
    <2>1. /\ req[c].op = "update" /\ req[c].input.password \notin Unhashable
          /\ req[c].id \in Ids /\ req[c].input \in Updates
      BY <1>1, <1>3 DEF UpdateRow, PreparedFor, Requests
    <2>2. db[req[c].id] \in Rows /\ db[req[c].id].id = req[c].id
      BY <1>1, <1>3, <2>1 DEF UpdateRow, TypeOK, Numbered
    <2>3. row \in Rows /\ row.id = req[c].id
      BY <2>1, <2>2, MergeType DEF Merge, Rows
    <2>4. past' = [past EXCEPT ![row.id] = @ \union {row}]
      BY <1>3, <2>3, PastStores DEF UpdateRow
    <2>5. Registry!Free(row.email, row.id)
      BY <1>3, <2>3 DEF UpdateRow, EmailTaken, Registry!Free
    <2>6. Registry!Change(row)
      BY <1>3, <2>3, <2>4, <2>5 DEF UpdateRow, Registry!Change, Registry!Store
    <2> QED BY <2>3, <2>6 DEF Registry!Modify
  <1>4. CASE DeleteRow(c)
    <2>1. req[c].id \in Ids
      BY <1>1, <1>4 DEF DeleteRow, PreparedFor, Requests
    <2>2. past' = past
      BY <1>1, <1>4, PastStays DEF DeleteRow, TypeOK
    <2> QED BY <1>4, <2>1, <2>2 DEF DeleteRow, Registry!Modify, Registry!Remove
  <1> QED BY <1>2, <1>3, <1>4

LEMMA ErrorAnswers ==
  ASSUME HInv, Record, NEW c \in Clients,
         NEW code \in {"NOT_FOUND", "CONFLICT", "INTERNAL_ERROR"}, Return(c, code, None),
         UNCHANGED table
  PROVE  Registry!Answer(c)
  <1>1. past' = past /\ UNCHANGED <<db, nextId>>
    BY PastStays DEF table
  <1>2. [code |-> code, user |-> None] \in Registry!Error
    BY DEF Registry!Error
  <1>3. Registry!AnswerError(c)
    BY <1>2 DEF Return, Registry!AnswerError, Registry!Reply
  <1> QED BY <1>1, <1>3, AskedOfReturn DEF Return, Registry!Answer, HInv, Inv

LEMMA UserAnswers ==
  ASSUME HInv, Record, NEW c \in Clients, NEW u, Return(c, "OK", u), UNCHANGED table,
         req[c].id \in Ids, VersionOf(u, req[c].id)
  PROVE  Registry!Answer(c)
  <1>1. past' = past /\ UNCHANGED <<db, nextId>>
    BY PastStays DEF table
  <1>2. req[c].id # None
    BY NoneAssumption
  <1>3. Registry!AnswerUser(c)
    BY <1>2 DEF Return, VersionOf, Public, Registry!AnswerUser, Registry!Reply, Registry!Blank
  <1> QED BY <1>1, <1>3, AskedOfReturn DEF Return, Registry!Answer, HInv, Inv

LEMMA RemovalAnswers ==
  ASSUME HInv, Record, NEW c \in Clients, Return(c, "OK", None), UNCHANGED table,
         pc[c] = "CacheDelete", req[c].op = "delete"
  PROVE  Registry!Answer(c)
  <1>1. past' = past /\ UNCHANGED <<db, nextId>>
    BY PastStays DEF table
  <1>2. req[c].id # None /\ db[req[c].id] = None
    BY DEF HInv, Inv, Prepared, PreparedFor, Provenance
  <1>3. Registry!AnswerRemoved(c)
    BY <1>2 DEF Return, Registry!AnswerRemoved, Registry!Reply
  <1> QED BY <1>1, <1>3, AskedOfReturn DEF Return, Registry!Answer, HInv, Inv

\* The registry does not see a request go from one call to the next.
LEMMA MoveStutters ==
  ASSUME HInv, Record, UNCHANGED <<table, req, result>>
  PROVE  UNCHANGED Registry!rvars
  <1>1. past' = past /\ UNCHANGED <<db, nextId>>
    BY PastStays DEF table
  <1> QED BY <1>1 DEF Registry!rvars

LEMMA BeginStep ==
  ASSUME HInv, Record, NEW c \in Clients, BeginRequest(c)
  PROVE  Registry!RNext
  <1>1. CASE BeginUpdateUnhashable(c)
    BY <1>1, ErrorAnswers DEF BeginUpdateUnhashable, Registry!RNext
  <1>2. CASE ~BeginUpdateUnhashable(c)
    <2>1. PICK id \in Ids \union {None} : \E op, in, call : Begin(c, op, id, in, call)
      <3>1. CASE BeginCreate(c)
        BY <3>1, Zenon DEF BeginCreate
      <3>2. CASE BeginGet(c)
        BY <3>2, Zenon DEF BeginGet
      <3>3. CASE BeginDelete(c)
        BY <3>3, Zenon DEF BeginDelete
      <3>4. CASE BeginUpdate(c)
        BY <3>4, Zenon DEF BeginUpdate
      <3> QED BY <1>2, <3>1, <3>2, <3>3, <3>4 DEF BeginRequest
    <2>2. past' = past /\ UNCHANGED <<db, nextId>> /\ result' = [result EXCEPT ![c] = None]
      BY <2>1, PastStays DEF Begin, table
    <2>3. [d \in Clients |-> req'[d].id] = [[d \in Clients |-> req[d].id] EXCEPT ![c] = id]
      <3>1. PICK op, in, call : Begin(c, op, id, in, call)
        BY <2>1
      <3>2. req' = [req EXCEPT ![c] = [op |-> op, id |-> id, input |-> in]]
        BY <3>1 DEF Begin
      <3>3. TypeOK
        BY DEF HInv, Inv
      <3> DEFINE r == [op |-> op, id |-> id, input |-> in]
      <3>4. req' = [req EXCEPT ![c] = r] /\ r.id = id
        BY <3>2
      <3> HIDE DEF r
      <3> QED BY <3>3, <3>4, AskedAfter
    <2>4. Registry!Ask(c)
      BY <2>1, <2>2, <2>3 DEF Registry!Ask, Registry!Reply
    <2> QED BY <2>4 DEF Registry!RNext
  <1> QED BY <1>1, <1>2

LEMMA SelectStep ==
  ASSUME HInv, Record, NEW c \in Clients, NEW next, SelectRow(c, next)
  PROVE  Registry!RNext \/ UNCHANGED Registry!rvars
  <1>1. CASE Return(c, "NOT_FOUND", None)
    BY <1>1, ErrorAnswers DEF SelectRow, Registry!RNext
  <1>2. CASE UNCHANGED <<req, result>>
    BY <1>2, MoveStutters DEF SelectRow
  <1> QED BY <1>1, <1>2 DEF SelectRow

LEMMA HashStep ==
  ASSUME HInv, Record, NEW c \in Clients, Hash(c), UNCHANGED table
  PROVE  Registry!RNext \/ UNCHANGED Registry!rvars
  <1>1. CASE Return(c, "INTERNAL_ERROR", None)
    BY <1>1, ErrorAnswers DEF Registry!RNext
  <1>2. CASE Proceed(c, "Create")
    BY <1>2, MoveStutters DEF Proceed
  <1> QED BY <1>1, <1>2 DEF Hash

\* A request whose user is whole answers it, or goes on.
LEMMA HeldUserStep ==
  ASSUME HInv, Record, NEW c \in Clients, UNCHANGED table,
         pc[c] \in {"CacheSet", "SendWelcomeEmail"},
         Return(c, "OK", user[c]) \/ Proceed(c, "SendWelcomeEmail")
  PROVE  Registry!RNext \/ UNCHANGED Registry!rvars
  <1>1. CASE Return(c, "OK", user[c])
    <2>1. user[c] # None
      BY DEF HInv, Inv, Prepared, PreparedFor
    <2>2. req[c].id \in Ids /\ VersionOf(user[c], req[c].id)
      BY <2>1 DEF HInv, Provenance
    <2> QED BY <1>1, <2>2, UserAnswers DEF Registry!RNext
  <1>2. CASE Proceed(c, "SendWelcomeEmail")
    BY <1>2, MoveStutters DEF Proceed
  <1> QED BY <1>1, <1>2

LEMMA AfterCacheDeleteStep ==
  ASSUME HInv, Record, NEW c \in Clients, UNCHANGED table, pc[c] = "CacheDelete", AfterCacheDelete(c)
  PROVE  Registry!RNext \/ UNCHANGED Registry!rvars
  <1>1. CASE req[c].op = "delete" /\ Return(c, "OK", None)
    BY <1>1, RemovalAnswers DEF Registry!RNext
  <1>2. CASE Proceed(c, "CacheSet")
    BY <1>2, MoveStutters DEF Proceed
  <1> QED BY <1>1, <1>2 DEF AfterCacheDelete

\* A change that the registry sees without an answer to it.
LEMMA CommitStep ==
  ASSUME HInv, Record, NEW c \in Clients, Create(c) \/ Update(c) \/ Delete(c)
  PROVE  Registry!RNext
  <1>1. Registry!Modify /\ result' = result /\ TypeOK
    BY RowStepModifies DEF Create, Update, Delete, HInv, Inv
  <1>2. \E id \in Ids \union {None} :
          [d \in Clients |-> req'[d].id] = [[d \in Clients |-> req[d].id] EXCEPT ![c] = id]
    <2>1. CASE Create(c)
      <3>1. nextId \in Ids /\ req' = [req EXCEPT ![c].id = nextId]
        BY <2>1 DEF Create, InsertRow
      <3> QED BY <1>1, <3>1 DEF TypeOK, Requests
    <2>2. CASE Update(c) \/ Delete(c)
      BY <1>1, <2>2, AskedSame DEF Update, Delete
    <2> QED BY <2>1, <2>2
  <1>3. Registry!Perform(c)
    BY <1>1, <1>2 DEF Registry!Perform
  <1> QED BY <1>3 DEF Registry!RNext

LEMMA RefusedInsertStep ==
  ASSUME HInv, Record, NEW c \in Clients, CreateRefused(c)
  PROVE  Registry!RNext
  <1>1. past' = past /\ db' = db /\ nextId' - 1 > nextId - 1
    BY PastStays DEF CreateRefused, HInv, Inv, TypeOK
  <1>2. Registry!Modify
    BY <1>1 DEF Registry!Modify, Registry!Skip
  <1>3. [d \in Clients |-> req'[d].id] = [[d \in Clients |-> req[d].id] EXCEPT ![c] = None]
    BY AskedOfReturn DEF CreateRefused, Return, HInv, Inv
  <1>4. \E a \in Registry!Error : Registry!Reply(c, a)
    BY DEF CreateRefused, Return, Registry!Error, Registry!Reply
  <1>5. Registry!Perform(c)
    BY <1>2, <1>3, <1>4 DEF Registry!Perform
  <1> QED BY <1>5 DEF Registry!RNext

LEMMA CallStep ==
  ASSUME HInv, Record, NEW c \in Clients, Call(c)
  PROVE  Registry!RNext \/ UNCHANGED Registry!rvars
  <1>1. CASE GetByEmail(c)
    BY <1>1, HashStep, ErrorAnswers DEF GetByEmail, Registry!RNext
  <1>2. CASE Create(c) \/ Update(c) \/ Delete(c)
    BY <1>2, CommitStep
  <1>3. CASE CreateRefused(c)
    BY <1>3, RefusedInsertStep
  <1>4. CASE SendWelcomeEmail(c)
    BY <1>4, HeldUserStep DEF SendWelcomeEmail
  <1>5. CASE CacheGet(c)
    <2>1. CASE cache[req[c].id] # None /\ Return(c, "OK", cache[req[c].id])
      <3>1. req[c].id \in Ids
        BY <1>5 DEF CacheGet, HInv, Inv, TypeOK, Requests, Prepared, PreparedFor
      <3>2. VersionOf(cache[req[c].id], req[c].id)
        BY <2>1, <3>1 DEF HInv, Provenance
      <3> QED BY <1>5, <2>1, <3>1, <3>2, UserAnswers DEF CacheGet, Registry!RNext
    <2>2. CASE Proceed(c, "GetByID")
      BY <1>5, <2>2, MoveStutters DEF CacheGet, Proceed
    <2> QED BY <1>5, <2>1, <2>2 DEF CacheGet
  <1>6. CASE GetByID(c) \/ UpdateNothing(c)
    BY <1>6, SelectStep DEF GetByID, UpdateNothing
  <1>7. CASE UpdateRefused(c) \/ DeleteRefused(c)
    BY <1>7, ErrorAnswers DEF UpdateRefused, DeleteRefused, Registry!RNext
  <1>8. CASE CacheDelete(c)
    BY <1>8, AfterCacheDeleteStep DEF CacheDelete
  <1>9. CASE CacheSet(c)
    BY <1>9, HeldUserStep DEF CacheSet, AfterCacheSet
  <1> QED BY <1>1, <1>2, <1>3, <1>4, <1>5, <1>6, <1>7, <1>8, <1>9 DEF Call

LEMMA FaultStep ==
  ASSUME HInv, Record, NEW c \in Clients, Fault(c)
  PROVE  Registry!RNext \/ UNCHANGED Registry!rvars
  <1>1. CASE DbFails(c)
    BY <1>1, HashStep, ErrorAnswers DEF DbFails, Registry!RNext
  <1>2. CASE DbAnswerLost(c)
    <2>1. PICK code \in {"NOT_FOUND", "INTERNAL_ERROR"} : Return(c, code, None)
      BY <1>2 DEF DbAnswerLost
    <2>2. Registry!Modify
      BY <1>2, RowStepModifies DEF DbAnswerLost
    <2>3. [d \in Clients |-> req'[d].id] = [[d \in Clients |-> req[d].id] EXCEPT ![c] = None]
      BY <2>1, AskedOfReturn DEF Return, HInv, Inv
    <2>4. \E a \in Registry!Error : Registry!Reply(c, a)
      BY <2>1 DEF Return, Registry!Error, Registry!Reply
    <2>5. Registry!Perform(c)
      BY <2>2, <2>3, <2>4 DEF Registry!Perform
    <2> QED BY <2>5 DEF Registry!RNext
  <1>3. CASE CacheFails(c)
    <2>1. CASE Proceed(c, "GetByID")
      BY <1>3, <2>1, MoveStutters DEF CacheFails, Proceed
    <2>2. CASE pc[c] = "CacheDelete" /\ AfterCacheDelete(c)
      BY <1>3, <2>2, AfterCacheDeleteStep DEF CacheFails
    <2>3. CASE pc[c] = "CacheSet" /\ AfterCacheSet(c)
      BY <1>3, <2>3, HeldUserStep DEF CacheFails, AfterCacheSet
    <2> QED BY <1>3, <2>1, <2>2, <2>3 DEF CacheFails
  <1>4. CASE Crash(c)
    <2>1. past' = past /\ UNCHANGED <<db, nextId, result>>
      BY <1>4, PastStays DEF Crash, table
    <2>2. Registry!Abandon(c)
      BY <1>4, <2>1, AskedOfReturn DEF Crash, Registry!Abandon, HInv, Inv
    <2> QED BY <2>2 DEF Registry!RNext
  <1> QED BY <1>1, <1>2, <1>3, <1>4 DEF Fault

LEMMA StepImplements == HInv /\ [HNext]_hvars => [Registry!RNext]_(Registry!rvars)
  <1> SUFFICES ASSUME HInv, [HNext]_hvars PROVE Registry!RNext \/ UNCHANGED Registry!rvars
    OBVIOUS
  <1>1. CASE UNCHANGED hvars
    BY <1>1 DEF hvars, vars, Registry!rvars
  <1>2. ASSUME NEW id \in Ids, Expire(id), Record
        PROVE  UNCHANGED Registry!rvars
    BY <1>2, MoveStutters DEF Expire
  <1> QED BY <1>1, <1>2, BeginStep, CallStep, FaultStep DEF HNext, Next

\* The service, whatever fails underneath it, is a registry of users: no number
\* is used twice, no address held twice, every user answered is one whole version
\* of the user asked for, and a confirmed deletion is final.
THEOREM Implementation == HSpec => ImplementsRegistry
  <1>1. HInit => Registry!RInit
    BY DEF HInit, Init, NoRequest, Registry!RInit
  <1> QED BY <1>1, HInitInv, HNextInv, StepImplements, PTL
       DEF HSpec, ImplementsRegistry, Registry!RSpec
============================================================================
