--------------------------- MODULE UserApiProofs ---------------------------
(***************************************************************************)
(* Proofs about UserApi, for every number of requests, users, addresses    *)
(* and passwords, whatever the validator refuses and whatever fails.       *)
(***************************************************************************)
EXTENDS UserApi, UserServiceProofs

Typed ==
  /\ call \in [Clients -> Served \union {None}]
  /\ answer \in Responses \union {None}
  /\ loose \subseteq Ids

\* A request is in the service exactly while its handler waits for it.
WaitsFor(c) ==
  /\ call[c] = None => pc[c] = "idle" /\ result[c] = None
  /\ call[c] # None /\ pc[c] = "idle" => result[c] # None

\* What a handler that waits knows of its request: there is no result before
\* the service returns; the handler of CreateUser, which blanks nothing, waits
\* for a create, whose user came from RETURNING; and what came over HTTP has
\* been validated.
PendingFor(c) ==
  /\ pc[c] # "idle" => result[c] = None
  /\ req[c].op = "create" /\ pc[c] \in {"CacheSet", "SendWelcomeEmail"} => user[c].password = None
  /\ call[c] # None =>
       /\ call[c].route = "create" /\ pc[c] # "idle" => req[c].op = "create"
       /\ call[c].route = "create" /\ result[c] # None /\ result[c].user # None =>
            result[c].user.password = None
       /\ call[c].via = "http" /\ pc[c] # "idle" /\ req[c].op \in {"create", "update"} =>
            Valid(req[c].input)

Pending == \A c \in Clients : WaitsFor(c) /\ PendingFor(c)

\* The inductive invariant.
ApiInv == Inv /\ Typed /\ Pending /\ NoHashLeaves /\ HttpRowsAreValid

\* What a step of one request leaves of the others.
OthersWait(c) ==
  /\ OthersSame(c)
  /\ \A d \in Clients \ {c} : call'[d] = call[d] /\ result'[d] = result[d]

LEMMA OthersPending ==
  ASSUME NEW c \in Clients, Pending, OthersWait(c), WaitsFor(c)', PendingFor(c)'
  PROVE  Pending'
  <1> SUFFICES ASSUME NEW d \in Clients, d # c
               PROVE  WaitsFor(d)' /\ PendingFor(d)'
    BY DEF Pending
  <1> QED BY DEF Pending, OthersWait, OthersSame, WaitsFor, PendingFor, Valid

\* A step that writes no answer with a user leaves no hash.
LEMMA NoUserNoHash ==
  ASSUME answer' = None
  PROVE  NoHashLeaves'
  BY DEF NoHashLeaves

LEMMA TableKeepsRows ==
  ASSUME HttpRowsAreValid, db' = db, loose' = loose
  PROVE  HttpRowsAreValid'
  BY DEF HttpRowsAreValid

----------------------------------------------------------------------------
(* The steps of the service.                                               *)

WorkStep(c) == Call(c) \/ DbFails(c) \/ DbAnswerLost(c) \/ CacheFails(c)

\* The service returns; to a create with a user that has no password.
Returns(c) ==
  \E code \in Codes, u \in Users \union {None} :
    /\ Return(c, code, u)
    /\ req[c].op = "create" /\ u # None => u.password = None

\* The service goes on, with the same request.
GoesOn(c) ==
  /\ result' = result
  /\ pc'[c] # "idle"
  /\ req'[c].op = req[c].op /\ req'[c].input = req[c].input
  /\ req[c].op = "create" /\ pc'[c] \in {"CacheSet", "SendWelcomeEmail"} => user'[c].password = None

LEMMA ReturnsNone ==
  ASSUME NEW c \in Clients, NEW code \in Codes, Return(c, code, None)
  PROVE  Returns(c)
  BY DEF Returns

LEMMA ProceedGoesOn ==
  ASSUME NEW c \in Clients, TypeOK, NEW next, next # "idle", Proceed(c, next),
         next \in {"CacheSet", "SendWelcomeEmail"} /\ req[c].op = "create" => user[c].password = None
  PROVE  GoesOn(c)
  BY DEF GoesOn, Proceed, Goto, TypeOK

LEMMA HashOutcome ==
  ASSUME NEW c \in Clients, TypeOK, Hash(c)
  PROVE  Returns(c) \/ GoesOn(c)
  <1>1. "INTERNAL_ERROR" \in Codes
    BY DEF Codes
  <1> QED BY <1>1, ReturnsNone, ProceedGoesOn DEF Hash

LEMMA SelectOutcome ==
  ASSUME NEW c \in Clients, TypeOK, NEW next \in {"CacheSet", "CacheDelete"},
         SelectRow(c, next), req[c].op # "create"
  PROVE  Returns(c) \/ GoesOn(c)
  <1>1. "NOT_FOUND" \in Codes
    BY DEF Codes
  <1>2. CASE Return(c, "NOT_FOUND", None)
    BY <1>1, <1>2, ReturnsNone
  <1>3. CASE Goto(c, next) /\ UNCHANGED <<req, result>>
    BY <1>3 DEF GoesOn, Goto, TypeOK
  <1> QED BY <1>2, <1>3 DEF SelectRow

LEMMA AfterCacheOutcome ==
  ASSUME NEW c \in Clients, Inv, PendingFor(c),
         \/ pc[c] = "CacheDelete" /\ AfterCacheDelete(c)
         \/ pc[c] = "CacheSet" /\ AfterCacheSet(c)
  PROVE  Returns(c) \/ GoesOn(c)
  <1>1. "OK" \in Codes /\ TypeOK /\ user[c] \in Users \union {None}
    BY DEF Codes, Inv, TypeOK
  <1>2. CASE pc[c] = "CacheDelete" /\ AfterCacheDelete(c)
    BY <1>1, <1>2, ReturnsNone, ProceedGoesOn DEF AfterCacheDelete
  <1>3. CASE pc[c] = "CacheSet" /\ AfterCacheSet(c)
    <2>1. req[c].op = "create" => user[c].password = None
      BY <1>3 DEF PendingFor
    <2>2. CASE Proceed(c, "SendWelcomeEmail")
      BY <1>1, <2>1, <2>2, ProceedGoesOn
    <2>3. CASE Return(c, "OK", user[c])
      BY <1>1, <2>1, <2>3 DEF Returns
    <2> QED BY <1>3, <2>2, <2>3 DEF AfterCacheSet
  <1> QED BY <1>2, <1>3

LEMMA WorkOutcome ==
  ASSUME NEW c \in Clients, Inv, PendingFor(c), WorkStep(c)
  PROVE  pc[c] # "idle" /\ (Returns(c) \/ GoesOn(c))
  <1>0. /\ TypeOK /\ PreparedFor(c) /\ "OK" \in Codes /\ "NOT_FOUND" \in Codes
        /\ "CONFLICT" \in Codes /\ "INTERNAL_ERROR" \in Codes /\ user[c] \in Users \union {None}
    BY DEF Inv, Prepared, Codes, TypeOK
  <1>1. pc[c] # "idle"
    BY DEF WorkStep, Call, GetByEmail, Create, InsertRow, CreateRefused, SendWelcomeEmail, CacheGet,
           GetByID, UpdateNothing, Update, UpdateRow, UpdateRefused, Delete, DeleteRow,
           DeleteRefused, CacheDelete, CacheSet, DbFails, DbAnswerLost, CacheFails
  <1>2. CASE GetByEmail(c)
    BY <1>0, <1>2, ReturnsNone, HashOutcome DEF GetByEmail
  <1>3. CASE Create(c)
    <2>1. /\ user' = [user EXCEPT ![c] = Public(NewRow(c))] /\ req' = [req EXCEPT ![c].id = nextId]
          /\ Goto(c, "CacheSet") /\ result' = result
      BY <1>3 DEF Create
    <2>2. /\ user'[c].password = None
          /\ req'[c].op = req[c].op /\ req'[c].input = req[c].input /\ pc'[c] = "CacheSet"
      <3>1. req[c] \in Requests /\ req \in [Clients -> Requests]
        BY <1>0 DEF TypeOK
      <3>2. req'[c] = [req[c] EXCEPT !.id = nextId]
        BY <2>1, <3>1
      <3>3. req'[c].op = req[c].op /\ req'[c].input = req[c].input
        BY <3>1, <3>2 DEF Requests
      <3>4. user'[c] = Public(NewRow(c)) /\ pc'[c] = "CacheSet"
        BY <1>0, <2>1 DEF TypeOK, Goto
      <3>5. Public(NewRow(c)).password = None
        BY DEF Public, NewRow
      <3> QED BY <3>3, <3>4, <3>5
    <2> QED BY <1>1, <2>1, <2>2 DEF GoesOn
  <1>4. CASE CreateRefused(c) \/ UpdateRefused(c) \/ DeleteRefused(c)
    BY <1>0, <1>1, <1>4, ReturnsNone DEF CreateRefused, UpdateRefused, DeleteRefused
  <1>5. CASE SendWelcomeEmail(c)
    <2>1. Return(c, "OK", user[c]) /\ user[c].password = None
      BY <1>0, <1>5 DEF SendWelcomeEmail, PendingFor, PreparedFor
    <2> QED BY <1>0, <1>1, <2>1 DEF Returns
  <1>6. CASE CacheGet(c)
    <2>1. req[c].op = "get" /\ req[c].id \in Ids
      BY <1>0, <1>6 DEF CacheGet, PreparedFor, TypeOK, Requests
    <2>2. cache[req[c].id] \in Users \union {None}
      BY <1>0, <2>1 DEF TypeOK
    <2>3. CASE Return(c, "OK", cache[req[c].id])
      BY <1>0, <1>1, <2>1, <2>2, <2>3 DEF Returns
    <2>4. CASE Proceed(c, "GetByID")
      BY <1>0, <1>1, <2>4, ProceedGoesOn
    <2> QED BY <1>6, <2>3, <2>4 DEF CacheGet
  <1>7. CASE GetByID(c) \/ UpdateNothing(c)
    <2>1. req[c].op # "create"
      BY <1>0, <1>7 DEF GetByID, UpdateNothing, PreparedFor
    <2> QED BY <1>0, <1>1, <1>7, <2>1, SelectOutcome DEF GetByID, UpdateNothing
  <1>8. CASE Update(c)
    <2>1. /\ req[c].op = "update" /\ Goto(c, "CacheDelete") /\ UNCHANGED <<req, result>>
      BY <1>0, <1>8 DEF Update, UpdateRow, PreparedFor
    <2> QED BY <1>0, <1>1, <2>1 DEF GoesOn, Goto, TypeOK
  <1>9. CASE Delete(c)
    <2>1. Proceed(c, "CacheDelete")
      BY <1>9 DEF Delete, Proceed
    <2> QED BY <1>0, <1>1, <2>1, ProceedGoesOn
  <1>10. CASE CacheDelete(c) \/ CacheSet(c)
    BY <1>1, <1>10, AfterCacheOutcome DEF CacheDelete, CacheSet
  <1>11. CASE DbFails(c)
    <2>1. Proceed(c, "CacheDelete") => GoesOn(c)
      BY <1>0, ProceedGoesOn
    <2> QED BY <1>0, <1>1, <1>11, ReturnsNone, HashOutcome DEF DbFails
  <1>12. CASE DbAnswerLost(c)
    BY <1>0, <1>1, <1>12, ReturnsNone DEF DbAnswerLost
  <1>13. CASE CacheFails(c)
    <2>1. Proceed(c, "GetByID") => GoesOn(c)
      BY <1>0, ProceedGoesOn
    <2> QED BY <1>1, <1>13, <2>1, AfterCacheOutcome DEF CacheFails
  <1> QED BY <1>2, <1>3, <1>4, <1>5, <1>6, <1>7, <1>8, <1>9, <1>10, <1>11, <1>12, <1>13
          DEF WorkStep, Call

\* An answer or a next call keeps what is known of the request.
LEMMA OutcomePending ==
  ASSUME NEW c \in Clients, Inv, Pending, UNCHANGED call, OthersSame(c),
         pc[c] # "idle", Returns(c) \/ GoesOn(c)
  PROVE  Pending'
  <1>0. /\ TypeOK /\ pc \in [Clients -> Calls] /\ result \in [Clients -> Answers \union {None}]
        /\ WaitsFor(c) /\ PendingFor(c) /\ call'[c] = call[c]
    BY DEF Inv, TypeOK, Pending
  <1>1. CASE Returns(c)
    <2>1. PICK code \in Codes, u \in Users \union {None} :
            Return(c, code, u) /\ (req[c].op = "create" /\ u # None => u.password = None)
      BY <1>1 DEF Returns
    <2> DEFINE a == [code |-> code, user |-> u]
    <2>2. result' = [result EXCEPT ![c] = a] /\ a \in Answers /\ a.user = u
      BY <2>1 DEF Return, Answers
    <2>3. pc'[c] = "idle" /\ result'[c] = a /\ a # None
      BY <1>0, <2>1, <2>2, ReturnMoves, NoneAssumption
    <2>4. OthersWait(c)
      BY <1>0, <2>2 DEF OthersWait
    <2> HIDE DEF a
    <2>5. WaitsFor(c)'
      BY <1>0, <2>3 DEF WaitsFor
    <2>6. PendingFor(c)'
      BY <1>0, <2>1, <2>2, <2>3 DEF PendingFor
    <2> QED BY <2>4, <2>5, <2>6, OthersPending
  <1>2. CASE GoesOn(c)
    <2>1. result' = result /\ OthersWait(c)
      BY <1>2 DEF GoesOn, OthersWait
    <2>2. WaitsFor(c)'
      BY <1>0, <1>2 DEF WaitsFor, GoesOn
    <2>3. PendingFor(c)'
      BY <1>0, <1>2 DEF PendingFor, GoesOn, Valid
    <2> QED BY <2>1, <2>2, <2>3, OthersPending
  <1> QED BY <1>1, <1>2

\* A row that is written over HTTP is valid: a new one is the body of the
\* request, an updated one has each field from the body or from the valid row.
LEMMA RowsStayValid ==
  ASSUME NEW c \in Clients, Inv, Typed, Pending, HttpRowsAreValid, pc[c] # "idle",
         db' = db \/ WritesRow(c),
         loose' = loose \union {i \in Ids : db'[i] # db[i] /\ call[c].via = "grpc"}
  PROVE  HttpRowsAreValid'
  <1> SUFFICES ASSUME NEW i \in Ids, db'[i] # None, i \notin loose'
               PROVE  /\ db'[i].name \notin Misnamed /\ db'[i].email \notin Malformed
                      /\ db'[i].password \notin Short
    BY DEF HttpRowsAreValid
  <1>0. /\ TypeOK /\ PreparedFor(c) /\ PendingFor(c) /\ i \notin loose
        /\ call[c] # None /\ call[c] \in Served
    BY DEF Inv, Prepared, Pending, WaitsFor, Typed
  <1>1. CASE db'[i] = db[i]
    BY <1>0, <1>1 DEF HttpRowsAreValid
  <1>2. CASE db'[i] # db[i]
    <2>1. call[c].via = "http"
      BY <1>0, <1>2 DEF Served
    <2>2. req[c].op \in {"create", "update"} => Valid(req[c].input)
      BY <1>0, <2>1 DEF PendingFor
    <2>3. CASE InsertRow(c)
      <3>1. db' = [db EXCEPT ![nextId] = NewRow(c)] /\ pc[c] = "Create"
        BY <2>3 DEF InsertRow
      <3>2. db'[i] = NewRow(c)
        BY <1>0, <1>2, <3>1 DEF TypeOK
      <3>3. Valid(req[c].input)
        BY <1>0, <2>2, <3>1 DEF PreparedFor
      <3> QED BY <3>2, <3>3 DEF Valid, NewRow
    <2>4. CASE UpdateRow(c)
      <3>1. /\ db' = [db EXCEPT ![req[c].id] = Merge(db[req[c].id], req[c].input)]
            /\ pc[c] = "Update" /\ db[req[c].id] # None
        BY <2>4 DEF UpdateRow
      <3>2. i = req[c].id /\ db'[i] = Merge(db[i], req[c].input) /\ db[i] # None /\ db[i] \in Rows
        BY <1>0, <1>2, <3>1 DEF TypeOK
      <3>3. Valid(req[c].input) /\ Valid(db[i])
        BY <1>0, <2>2, <3>1, <3>2 DEF PreparedFor, HttpRowsAreValid, Valid
      <3> QED BY <3>2, <3>3 DEF Valid, Merge, Given, Rows
    <2>5. CASE DeleteRow(c)
      BY <1>0, <1>2, <2>5 DEF DeleteRow, TypeOK
    <2> QED BY <1>2, <2>3, <2>4, <2>5 DEF WritesRow
  <1> QED BY <1>1, <1>2

LEMMA WorkInv ==
  ASSUME NEW c \in Clients, ApiInv, Work(c)
  PROVE  ApiInv'
  <1>0. /\ Inv /\ TypeOK /\ Typed /\ Pending /\ HttpRowsAreValid /\ PendingFor(c)
        /\ WorkStep(c) /\ answer' = None /\ UNCHANGED call
        /\ loose' = loose \union {i \in Ids : db'[i] # db[i] /\ call[c].via = "grpc"}
    BY DEF ApiInv, Inv, Pending, Work, WorkStep
  <1>1. Call(c) \/ Fault(c)
    BY <1>0 DEF WorkStep, Fault
  <1>2. Inv' /\ OthersSame(c)
    BY <1>0, <1>1, CallInv, FaultInv, CallOthersSame, FaultOthersSame
  <1>3. pc[c] # "idle" /\ (Returns(c) \/ GoesOn(c))
    BY <1>0, WorkOutcome
  <1>4. Pending'
    BY <1>0, <1>2, <1>3, OutcomePending
  <1>5. HttpRowsAreValid'
    BY <1>0, <1>1, <1>3, CallOnTable, FaultOnTable, RowsStayValid
  <1>6. Typed'
    BY <1>0 DEF Typed
  <1> QED BY <1>0, <1>2, <1>4, <1>5, <1>6, NoUserNoHash DEF ApiInv

----------------------------------------------------------------------------
(* A request arrives.                                                      *)

\* What the handlers do to start the service: a request, validated if it came
\* over HTTP, or the answer to a password that bcrypt refuses.
Starts(c, via, route) ==
  /\ \/ \E op, id, in, next :
          /\ Begin(c, op, id, in, next) /\ next # "idle" /\ next \notin {"CacheSet", "SendWelcomeEmail"}
          /\ route = "create" => op = "create"
          /\ via = "http" /\ op \in {"create", "update"} => Valid(in)
     \/ /\ route # "create" /\ Return(c, "INTERNAL_ERROR", None)
        /\ UNCHANGED <<table, cache, mailed>>
  /\ Serve(c, via, route)

LEMMA StartsInv ==
  ASSUME NEW c \in Clients, ApiInv, Inv', Free(c), OthersSame(c),
         NEW via \in {"http", "grpc"}, NEW route \in Open \union Protected, Starts(c, via, route)
  PROVE  ApiInv'
  <1> DEFINE s == [via |-> via, route |-> route]
  <1>0. /\ Inv /\ TypeOK /\ Typed /\ Pending /\ HttpRowsAreValid
        /\ call \in [Clients -> Served \union {None}]
        /\ s \in Served /\ s # None /\ s.via = via /\ s.route = route
        /\ call' = [call EXCEPT ![c] = s] /\ answer' = None /\ loose' = loose
    BY ApiNoneAssumption DEF ApiInv, Inv, Starts, Serve, Typed, Served
  <1>1. Typed' /\ call'[c] = s
    BY <1>0 DEF Typed
  <1> HIDE DEF s
  <1>2. CASE \E op, id, in, next :
               /\ Begin(c, op, id, in, next) /\ next # "idle" /\ next \notin {"CacheSet", "SendWelcomeEmail"}
               /\ route = "create" => op = "create"
               /\ via = "http" /\ op \in {"create", "update"} => Valid(in)
    <2>1. PICK op, id, in, next :
            /\ Begin(c, op, id, in, next) /\ next # "idle" /\ next \notin {"CacheSet", "SendWelcomeEmail"}
            /\ route = "create" => op = "create"
            /\ via = "http" /\ op \in {"create", "update"} => Valid(in)
      BY <1>2
    <2>2. /\ pc'[c] = next /\ req'[c] = [op |-> op, id |-> id, input |-> in]
          /\ result'[c] = None /\ \A d \in Clients \ {c} : result'[d] = result[d]
          /\ db' = db
      BY <1>0, <2>1 DEF Begin, Goto, TypeOK, table
    <2>3. WaitsFor(c)'
      BY <1>0, <1>1, <2>1, <2>2 DEF WaitsFor
    <2>4. PendingFor(c)'
      BY <1>0, <1>1, <2>1, <2>2 DEF PendingFor, Valid
    <2>5. OthersWait(c)
      BY <1>0, <2>2 DEF OthersWait
    <2> QED BY <1>0, <1>1, <2>2, <2>3, <2>4, <2>5, OthersPending, NoUserNoHash, TableKeepsRows DEF ApiInv
  <1>3. CASE /\ route # "create" /\ Return(c, "INTERNAL_ERROR", None)
             /\ UNCHANGED <<table, cache, mailed>>
    <2> DEFINE a == [code |-> "INTERNAL_ERROR", user |-> None]
    <2>1. a \in Answers /\ a # None
      BY NoneAssumption DEF Answers, Codes
    <2>2. /\ pc'[c] = "idle" /\ result'[c] = a /\ \A d \in Clients \ {c} : result'[d] = result[d]
          /\ db' = db
      BY <1>0, <1>3 DEF Return, Finish, Goto, TypeOK, table
    <2> HIDE DEF a
    <2>3. WaitsFor(c)'
      BY <1>0, <1>1, <2>1, <2>2 DEF WaitsFor
    <2>4. PendingFor(c)'
      BY <1>0, <1>1, <1>3, <2>2 DEF PendingFor
    <2>5. OthersWait(c)
      BY <1>0, <2>2 DEF OthersWait
    <2> QED BY <1>0, <1>1, <2>2, <2>3, <2>4, <2>5, OthersPending, NoUserNoHash, TableKeepsRows DEF ApiInv
  <1> QED BY <1>2, <1>3 DEF Starts

LEMMA BeginCreateStarts ==
  ASSUME NEW c \in Clients, TypeOK, BeginCreate(c), NEW via, Serve(c, via, "create"),
         via = "http" => Valid(req'[c].input)
  PROVE  Starts(c, via, "create")
  <1>1. PICK in \in CreateInputs : Begin(c, "create", None, in, "GetByEmail")
    BY DEF BeginCreate
  <1>2. req'[c].input = in
    BY <1>1 DEF Begin, TypeOK
  <1> QED BY <1>1, <1>2 DEF Starts

LEMMA BeginOtherStarts ==
  ASSUME NEW c \in Clients, BeginGet(c) \/ BeginDelete(c),
         NEW via, NEW route, route # "create", Serve(c, via, route)
  PROVE  Starts(c, via, route)
  <1>1. PICK op, id, in, next :
          Begin(c, op, id, in, next) /\ op \in {"get", "delete"} /\ next \in {"CacheGet", "Delete"}
    <2>1. ASSUME NEW id, Begin(c, "get", id, None, "CacheGet") \/ Begin(c, "delete", id, None, "Delete")
          PROVE  \E op, i, in, next :
                   Begin(c, op, i, in, next) /\ op \in {"get", "delete"} /\ next \in {"CacheGet", "Delete"}
      BY <2>1
    <2> QED BY <2>1 DEF BeginGet, BeginDelete
  <1>2. next # "idle" /\ next \notin {"CacheSet", "SendWelcomeEmail"} /\ op \notin {"create", "update"}
    BY <1>1
  <1> QED BY <1>1, <1>2 DEF Starts

LEMMA BeginUpdateStarts ==
  ASSUME NEW c \in Clients, TypeOK, NEW via, Serve(c, via, "update"),
         \/ BeginUpdate(c) /\ (via = "http" => Valid(req'[c].input))
         \/ BeginUpdateUnhashable(c)
  PROVE  Starts(c, via, "update")
  <1>1. CASE BeginUpdate(c) /\ (via = "http" => Valid(req'[c].input))
    <2>1. PICK id \in Ids, in \in UpdateInputs : Begin(c, "update", id, in, "Update")
      BY <1>1 DEF BeginUpdate
    <2>2. req'[c].input = in
      BY <2>1 DEF Begin, TypeOK
    <2> QED BY <1>1, <2>1, <2>2 DEF Starts
  <1>2. CASE BeginUpdateUnhashable(c)
    BY <1>2 DEF BeginUpdateUnhashable, Starts
  <1> QED BY <1>1, <1>2

\* GetProfile asks for the user of the token, whom the sequence has numbered.
LEMMA GetProfileInv ==
  ASSUME NEW c \in Clients, ApiInv, Free(c), NEW bearer \in Bearers, GetProfile(c, bearer)
  PROVE  ApiInv'
  <1>0. Inv /\ TypeOK /\ Begin(c, "get", bearer, None, "CacheGet") /\ Serve(c, "http", "me")
    BY DEF ApiInv, Inv, GetProfile
  <1>1. bearer \in Ids
    BY <1>0, MaxIdAssumption DEF TypeOK, Bearers, Ids
  <1>2. [op |-> "get", id |-> bearer, input |-> None] \in Requests /\ "CacheGet" \in Calls
    BY <1>1 DEF Requests, Calls
  <1>3. PreparedFor(c)'
    BY <1>0, <1>1, NoneAssumption DEF TypeOK, Begin, Goto, PreparedFor
  <1>4. Inv'
    BY <1>0, <1>2, <1>3, BeginKeeps
  <1>5. OthersSame(c)
    BY <1>0 DEF OthersSame, Begin, Goto, TypeOK
  <1>6. Starts(c, "http", "me") /\ "me" \in Open \union Protected
    BY <1>0 DEF Starts, Protected
  <1> QED BY <1>4, <1>5, <1>6, StartsInv

LEMMA ReceiveInv ==
  ASSUME NEW c \in Clients, ApiInv, Receive(c)
  PROVE  ApiInv'
  <1>0. /\ Free(c) /\ Inv /\ TypeOK
        /\ {"create", "get", "update", "delete"} \subseteq Open \union Protected
    BY DEF Receive, ApiInv, Inv, Open, Protected
  <1>1. ASSUME BeginRequest(c),
               NEW via \in {"http", "grpc"}, NEW route \in {"create", "get", "update", "delete"},
               Starts(c, via, route)
        PROVE  ApiInv'
    BY <1>0, <1>1, BeginRequestInv, BeginOthersSame, StartsInv
  <1>2. CASE HttpCreateUser(c) \/ GrpcCreateUser(c)
    BY <1>0, <1>1, <1>2, BeginCreateStarts DEF HttpCreateUser, GrpcCreateUser, BeginRequest
  <1>3. CASE HttpGetUserByID(c) \/ GrpcGetUserByID(c)
    BY <1>0, <1>1, <1>3, BeginOtherStarts DEF HttpGetUserByID, GrpcGetUserByID, BeginRequest
  <1>4. CASE HttpUpdateUser(c) \/ GrpcUpdateUser(c)
    BY <1>0, <1>1, <1>4, BeginUpdateStarts DEF HttpUpdateUser, GrpcUpdateUser, BeginRequest
  <1>5. CASE HttpDeleteUser(c) \/ GrpcDeleteUser(c)
    BY <1>0, <1>1, <1>5, BeginOtherStarts DEF HttpDeleteUser, GrpcDeleteUser, BeginRequest
  <1>6. ASSUME NEW bearer \in Bearers \union {None}, HttpRefusal("me", bearer, FALSE, FALSE) = None,
               GetProfile(c, bearer)
        PROVE  ApiInv'
    <2>1. bearer # None
      BY <1>6, ApiNoneAssumption DEF HttpRefusal, Protected, HttpStatuses
    <2> QED BY <1>0, <1>6, <2>1, GetProfileInv
  <1>7. ASSUME HttpReceive(c) PROVE ApiInv'
    <2>1. PICK route \in Open \union Protected, bearer \in Bearers \union {None} :
            HttpRefusal(route, bearer, FALSE, FALSE) = None /\ HttpServe(c, route, bearer)
      BY <1>7 DEF HttpReceive
    <2> QED BY <2>1, <1>2, <1>3, <1>4, <1>5, <1>6 DEF HttpServe
  <1> QED BY <1>2, <1>3, <1>4, <1>5, <1>7 DEF Receive, GrpcReceive

----------------------------------------------------------------------------
(* The answers.                                                            *)

\* Whatever is answered without the service is a status, and carries no user.
LEMMA AtOnceTypes == HttpAtOnce \union GrpcAtOnce \subseteq HttpStatuses \union GrpcStatuses
  <1>1. ASSUME NEW r, NEW b, NEW l \in BOOLEAN, NEW d \in BOOLEAN
        PROVE  HttpRefusal(r, b, l, d) \in HttpStatuses \union {None}
    BY DEF HttpRefusal, HttpStatuses
  <1>2. ASSUME NEW r
        PROVE  Outcomes(r) \subseteq HttpStatuses
    BY DEF Outcomes, Login, Refresh, ListUsers, SendEmail, HttpStatuses
  <1>3. ASSUME NEW route, NEW bearer
        PROVE  HttpAnswers(route, bearer) \subseteq HttpStatuses
    <2>1. HttpRefusals(route, bearer) \subseteq HttpStatuses
      BY <1>1 DEF HttpRefusals
    <2>2. "422" \in HttpStatuses
      BY DEF HttpStatuses
    <2> QED BY <1>2, <2>1, <2>2 DEF HttpAnswers
  <1>4. HttpAtOnce \subseteq HttpStatuses
    <2>1. "204" \in HttpStatuses
      BY DEF HttpStatuses
    <2> QED BY <1>3, <2>1 DEF HttpAtOnce
  <1>5. ASSUME NEW b
        PROVE  GrpcAnswers(b) \subseteq GrpcStatuses
    BY DEF GrpcAnswers, GrpcRefusal, GrpcStatuses
  <1>6. GrpcAtOnce \subseteq GrpcStatuses
    <2>1. StreamAnswers \subseteq GrpcStatuses
      BY DEF StreamAnswers, GrpcStatuses
    <2>2. \A b : GrpcAnswers(b) \subseteq GrpcStatuses
      BY <1>5
    <2>3. UNION {GrpcAnswers(b) : b \in Bearers \union {None}} \subseteq GrpcStatuses
      BY <2>2
    <2> QED BY <2>1, <2>3 DEF GrpcAtOnce
  <1> QED BY <1>4, <1>6

LEMMA AnswerAtOnceInv ==
  ASSUME NEW c \in Clients, ApiInv, AnswerAtOnce(c)
  PROVE  ApiInv'
  <1>1. PICK status \in HttpStatuses \union GrpcStatuses : answer' = [status |-> status, user |-> None]
    BY AtOnceTypes DEF AnswerAtOnce, Write
  <1>2. UNCHANGED <<vars, call, loose>>
    BY DEF AnswerAtOnce
  <1>3. answer' \in Responses /\ answer'.user = None
    BY <1>1 DEF Responses
  <1>4. Inv'
    BY <1>2 DEF ApiInv, vars, Inv, TypeOK, EmailsUnique, Numbered, Prepared, PreparedFor
  <1>5. Typed' /\ NoHashLeaves'
    BY <1>2, <1>3 DEF ApiInv, Typed, NoHashLeaves
  <1>6. Pending' /\ HttpRowsAreValid'
    BY <1>2 DEF ApiInv, vars, Pending, WaitsFor, PendingFor, Valid, HttpRowsAreValid
  <1> QED BY <1>4, <1>5, <1>6 DEF ApiInv

LEMMA StatusTypes ==
  ASSUME NEW route, NEW code
  PROVE  HttpStatus(route, code) \in HttpStatuses /\ GrpcStatus(code) \in GrpcStatuses
  BY DEF HttpStatus, GrpcStatus, HttpStatuses, GrpcStatuses

\* Neither transport puts a hash into a body, if a create has none.
LEMMA BodyTypes ==
  ASSUME NEW u \in Users \union {None}, NEW route, route = "create" /\ u # None => u.password = None
  PROVE  /\ HttpBody(route, u) \in Users \union {None} /\ GrpcBody(u) \in Users \union {None}
         /\ HttpBody(route, u) # None => HttpBody(route, u).password = None
         /\ GrpcBody(u) # None => GrpcBody(u).password = None
  <1>1. u # None => Public(u) \in Users /\ Public(u).password = None
    BY DEF Public, Users
  <1> QED BY <1>1 DEF HttpBody, GrpcBody

LEMMA RespondInv ==
  ASSUME NEW c \in Clients, ApiInv, Respond(c)
  PROVE  ApiInv'
  <1>0. /\ Inv /\ TypeOK /\ Typed /\ Pending /\ HttpRowsAreValid /\ Prepared
        /\ call[c] # None /\ pc[c] = "idle" /\ PendingFor(c) /\ WaitsFor(c)
        /\ call' = [call EXCEPT ![c] = None] /\ result' = [result EXCEPT ![c] = None]
        /\ UNCHANGED <<table, cache, mailed, pc, req, user, loose>>
    BY DEF ApiInv, Inv, Pending, Respond
  <1>1. /\ call \in [Clients -> Served \union {None}]
        /\ result \in [Clients -> Answers \union {None}] /\ result[c] # None
    BY <1>0 DEF Typed, TypeOK, WaitsFor
  <1>2. result[c].user \in Users \union {None}
    BY <1>1 DEF Answers
  <1>3. call[c].route = "create" /\ result[c].user # None => result[c].user.password = None
    BY <1>0, <1>1 DEF PendingFor
  <1>4. /\ answer' \in Responses
        /\ answer'.user # None => answer'.user.password = None
    BY <1>2, <1>3, StatusTypes, BodyTypes DEF Respond, Write, Responses
  <1>5. Inv'
    <2>1. LocalsOK'
      BY <1>0 DEF LocalsOK, TypeOK
    <2>2. Prepared'
      BY <1>0 DEF Prepared, PreparedFor, table
    <2> QED BY <1>0, <2>1, <2>2, StoresKeep
  <1>6. Typed' /\ NoHashLeaves'
    BY <1>0, <1>4 DEF Typed, NoHashLeaves
  <1>7. Pending'
    <2>1. call'[c] = None /\ result'[c] = None
      BY <1>0, <1>1
    <2>2. WaitsFor(c)' /\ PendingFor(c)'
      BY <1>0, <2>1 DEF WaitsFor, PendingFor
    <2>3. OthersWait(c)
      BY <1>0, <1>1 DEF OthersWait, OthersSame
    <2> QED BY <1>0, <2>2, <2>3, OthersPending
  <1>8. HttpRowsAreValid'
    BY <1>0, TableKeepsRows DEF table
  <1> QED BY <1>5, <1>6, <1>7, <1>8 DEF ApiInv

LEMMA DieInv ==
  ASSUME NEW c \in Clients, ApiInv, Die(c)
  PROVE  ApiInv'
  <1>0. /\ Inv /\ TypeOK /\ Typed /\ Pending /\ HttpRowsAreValid /\ Fault(c)
        /\ Finish(c) /\ pc[c] # "idle" /\ PendingFor(c)
        /\ UNCHANGED <<table, cache, mailed, result, loose>>
        /\ call' = [call EXCEPT ![c] = None] /\ answer' = None
    BY DEF ApiInv, Inv, Pending, Die, Crash, Fault
  <1>1. call \in [Clients -> Served \union {None}]
    BY <1>0 DEF Typed
  <1>2. Inv' /\ OthersSame(c)
    BY <1>0, FaultInv, FaultOthersSame
  <1>3. pc'[c] = "idle" /\ call'[c] = None /\ result'[c] = None
    BY <1>0, <1>1 DEF Finish, Goto, TypeOK, PendingFor
  <1>4. WaitsFor(c)' /\ PendingFor(c)'
    BY <1>3 DEF WaitsFor, PendingFor
  <1>5. OthersWait(c)
    BY <1>0, <1>1, <1>2 DEF OthersWait
  <1>6. Pending'
    BY <1>0, <1>4, <1>5, OthersPending
  <1>7. Typed'
    BY <1>0 DEF Typed
  <1> QED BY <1>0, <1>2, <1>6, <1>7, NoUserNoHash, TableKeepsRows DEF ApiInv, table

----------------------------------------------------------------------------
(* The invariant is inductive.                                             *)

LEMMA ApiInitInv == ApiInit => ApiInv
  <1> SUFFICES ASSUME ApiInit PROVE ApiInv
    OBVIOUS
  <1>1. TypeOK
    BY MaxIdAssumption, FormerAssumption DEF ApiInit, TypeOK, Calls, Requests, NoRequest
  <1>2. EmailsUnique /\ Numbered /\ Prepared
    BY DEF ApiInit, EmailsUnique, Numbered, Prepared, PreparedFor
  <1>3. Typed /\ Pending
    BY DEF ApiInit, Typed, Pending, WaitsFor, PendingFor
  <1>4. NoHashLeaves /\ HttpRowsAreValid
    BY DEF ApiInit, NoHashLeaves, HttpRowsAreValid
  <1> QED BY <1>1, <1>2, <1>3, <1>4 DEF ApiInv, Inv

LEMMA ApiNextInv == ApiInv /\ [ApiNext]_apivars => ApiInv'
  <1> SUFFICES ASSUME ApiInv, [ApiNext]_apivars PROVE ApiInv'
    OBVIOUS
  <1>1. ASSUME NEW id \in Ids, Expire(id), answer' = None, UNCHANGED <<call, loose>>
        PROVE  ApiInv'
    <2>1. Inv'
      BY <1>1, ExpireInv DEF ApiInv
    <2>2. UNCHANGED <<table, pc, req, user, result>>
      BY <1>1 DEF Expire
    <2>3. Typed' /\ Pending'
      BY <1>1, <2>2 DEF ApiInv, Typed, Pending, WaitsFor, PendingFor, Valid
    <2> QED BY <1>1, <2>1, <2>2, <2>3, NoUserNoHash, TableKeepsRows DEF ApiInv, table
  <1>2. CASE UNCHANGED apivars
    <2>1. Inv'
      BY <1>2 DEF ApiInv, apivars, vars, Inv, TypeOK, EmailsUnique, Numbered, Prepared, PreparedFor
    <2>2. Typed' /\ Pending' /\ NoHashLeaves' /\ HttpRowsAreValid'
      BY <1>2 DEF ApiInv, apivars, vars, Typed, Pending, WaitsFor, PendingFor, Valid,
                  NoHashLeaves, HttpRowsAreValid
    <2> QED BY <2>1, <2>2 DEF ApiInv
  <1>3. CASE ApiNext
    BY <1>1, <1>3, AnswerAtOnceInv, ReceiveInv, WorkInv, RespondInv, DieInv DEF ApiNext
  <1> QED BY <1>2, <1>3

LEMMA ApiInvariance == ApiSpec => []ApiInv
  BY ApiInitInv, ApiNextInv, PTL DEF ApiSpec

\* Every variable of the transports has its type, and no request runs in the
\* service that no handler waits for.
THEOREM ApiTypes == ApiSpec => []ApiTypeOK
  <1>1. ApiInv => ApiTypeOK
    BY DEF ApiInv, ApiTypeOK, Typed, Pending, WaitsFor
  <1> QED BY <1>1, ApiInvariance, PTL

\* No answer of either transport carries a hash, CreateUser's included.
THEOREM HashesStayInside == ApiSpec => []NoHashLeaves
  <1>1. ApiInv => NoHashLeaves
    BY DEF ApiInv
  <1> QED BY <1>1, ApiInvariance, PTL

\* Only gRPC calls put rows into the table whose name, address or password the
\* validator would refuse.
THEOREM HttpRowsStayValid == ApiSpec => []HttpRowsAreValid
  <1>1. ApiInv => HttpRowsAreValid
    BY DEF ApiInv
  <1> QED BY <1>1, ApiInvariance, PTL

\* The transports call the service only as it allows: behind them, and although
\* the ids of former users are gone, the table, the cache and the calls are as
\* UserServiceProofs says of the service alone.
THEOREM ServiceBehindTransports == ApiSpec => [](EmailsUnique /\ Numbered /\ Prepared)
  <1>1. ApiInv => EmailsUnique /\ Numbered /\ Prepared
    BY DEF ApiInv, Inv
  <1> QED BY <1>1, ApiInvariance, PTL

----------------------------------------------------------------------------
(* A user that is forgotten.                                               *)

\* A step of the transports is one of the service, or the service rests and at
\* most a result is picked up.
LEMMA StepsOfTheService ==
  ASSUME ApiInv, ApiNext
  PROVE  \/ Next /\ answer' = None
         \/ /\ UNCHANGED <<table, cache, user>>
            /\ \A c \in Clients : result'[c] \in {result[c], None}
            /\ \/ answer'.user = None
               \/ \E c \in Clients : Respond(c)
  <1>0. TypeOK
    BY DEF ApiInv, Inv
  <1>1. ASSUME NEW c \in Clients, AnswerAtOnce(c)
        PROVE  UNCHANGED <<table, cache, user, result>> /\ answer'.user = None
    BY <1>1 DEF AnswerAtOnce, Write, vars, table
  <1>2. ASSUME NEW c \in Clients, Receive(c)
        PROVE  BeginRequest(c) /\ answer' = None
    <2>1. ASSUME NEW bearer \in Bearers \union {None}, HttpRefusal("me", bearer, FALSE, FALSE) = None,
                 GetProfile(c, bearer)
          PROVE  BeginGet(c) /\ answer' = None
      <3>1. bearer \in Bearers
        BY <2>1, ApiNoneAssumption DEF HttpRefusal, Protected, HttpStatuses
      <3>2. bearer \in Ids
        BY <1>0, <3>1, MaxIdAssumption DEF TypeOK, Bearers, Ids
      <3> QED BY <2>1, <3>2 DEF GetProfile, BeginGet, Serve
    <2>2. ASSUME HttpReceive(c) PROVE BeginRequest(c) /\ answer' = None
      <3>1. PICK route \in Open \union Protected, bearer \in Bearers \union {None} :
              HttpRefusal(route, bearer, FALSE, FALSE) = None /\ HttpServe(c, route, bearer)
        BY <2>2 DEF HttpReceive
      <3> QED BY <2>1, <3>1 DEF HttpServe, HttpCreateUser, HttpGetUserByID, HttpUpdateUser,
                                HttpDeleteUser, BeginRequest, Serve
    <2> QED BY <1>2, <2>2 DEF Receive, GrpcReceive, GrpcCreateUser, GrpcGetUserByID,
                              GrpcUpdateUser, GrpcDeleteUser, BeginRequest, Serve
  <1>3. ASSUME NEW c \in Clients, Work(c) \/ Die(c)
        PROVE  (Call(c) \/ Fault(c)) /\ answer' = None
    BY <1>3 DEF Work, Die, Fault
  <1>4. ASSUME NEW c \in Clients, Respond(c)
        PROVE  /\ UNCHANGED <<table, cache, user>>
               /\ \A d \in Clients : result'[d] \in {result[d], None}
    BY <1>0, <1>4 DEF Respond, TypeOK
  <1>5. CASE \E c \in Clients : AnswerAtOnce(c)
    BY <1>1, <1>5
  <1>6. CASE \E c \in Clients : Receive(c) \/ Work(c) \/ Die(c)
    BY <1>2, <1>3, <1>6 DEF Next
  <1>7. CASE \E c \in Clients : Respond(c)
    BY <1>4, <1>7
  <1>8. CASE \E id \in Ids : Expire(id) /\ answer' = None /\ UNCHANGED <<call, loose>>
    BY <1>8 DEF Next
  <1> QED BY <1>5, <1>6, <1>7, <1>8 DEF ApiNext

LEMMA ForgottenStep ==
  ASSUME ApiInv, ApiNext, NEW id \in Ids, Forgotten(id)
  PROVE  /\ Forgotten(id)'
         /\ answer' # None /\ answer'.user # None => answer'.user.id # id
  <1>0. Inv /\ TypeOK /\ Gone(id)
    BY DEF ApiInv, Inv, Forgotten
  <1>1. CASE Next /\ answer' = None
    <2>1. Gone(id)' /\ LocalsSpare(id)
      BY <1>0, <1>1, GoneStep
    <2> QED BY <1>1, <2>1 DEF Forgotten, LocalsSpare
  <1>2. CASE /\ UNCHANGED <<table, cache, user>>
             /\ \A c \in Clients : result'[c] \in {result[c], None}
             /\ answer'.user = None \/ \E c \in Clients : Respond(c)
    <2>1. Forgotten(id)'
      BY <1>2 DEF Forgotten, Gone, table
    <2>2. ASSUME NEW c \in Clients, Respond(c)
          PROVE  answer'.user # None => answer'.user.id # id
      <3>1. result[c] # None /\ result[c].user \in Users \union {None}
        <4>1. result[c] # None
          BY <2>2 DEF ApiInv, Pending, WaitsFor, Respond
        <4> QED BY <1>0, <4>1 DEF TypeOK, Answers
      <3>2. result[c].user # None => result[c].user.id # id
        BY <3>1 DEF Forgotten
      <3>3. \/ answer'.user = HttpBody(call[c].route, result[c].user)
            \/ answer'.user = GrpcBody(result[c].user)
        BY <2>2 DEF Respond, Write
      <3> QED BY <3>1, <3>2, <3>3, PublicType DEF HttpBody, GrpcBody
    <2> QED BY <1>2, <2>1, <2>2
  <1> QED BY <1>1, <1>2, StepsOfTheService

\* A deleted user of whom nothing is left is seen by nobody any more, whatever
\* tokens are still around and whatever fails.
THEOREM NobodySeesTheDeleted == ApiSpec => DeletedStayUnseen
  <1>1. ApiInv /\ [ApiNext]_apivars => [\A id \in Ids : Forgotten(id) =>
          /\ Forgotten(id)'
          /\ answer' # None /\ answer'.user # None => answer'.user.id # id]_apivars
    BY ForgottenStep
  <1> QED BY <1>1, ApiInvariance, PTL DEF ApiSpec, DeletedStayUnseen
============================================================================
