------------------------- MODULE UserServiceProofs -------------------------
(***************************************************************************)
(* Proofs about UserService, for every number of requests, users, names,   *)
(* addresses and passwords, and every set of faults.                       *)
(***************************************************************************)
EXTENDS UserService, TLAPS

\* The inductive invariant.
Inv == TypeOK /\ EmailsUnique /\ Numbered /\ Prepared

----------------------------------------------------------------------------
(* The operators on rows and users.                                        *)

\* RETURNING drops the password and nothing else.
LEMMA PublicType ==
  ASSUME NEW u \in Users
  PROVE  /\ Public(u) \in Users /\ Public(u) # None
         /\ Public(u).id = u.id /\ Public(u).name = u.name /\ Public(u).email = u.email
  BY NoneAssumption DEF Users, Public

\* An UPDATE makes a row of a row, with the same id.
LEMMA MergeType ==
  ASSUME NEW row \in Rows, NEW in \in Updates, in.password \notin Unhashable
  PROVE  Merge(row, in) \in Rows /\ Merge(row, in).id = row.id
  BY DEF Rows, Updates, Merge, Given, Hashes

LEMMA RowsAreUsers == Rows \subseteq Users /\ None \notin Rows
  BY NoneAssumption DEF Rows, Users

\* What is INSERTed is a row, if its password was hashed.
LEMMA NewRowType ==
  ASSUME NEW c \in Clients, TypeOK, PreparedFor(c), pc[c] = "Create", nextId \in Ids
  PROVE  /\ NewRow(c) \in Rows
         /\ NewRow(c).id = nextId /\ NewRow(c).email = req[c].input.email
  <1>1. req[c] \in Requests /\ req[c].op = "create"
    BY DEF TypeOK, PreparedFor
  <1>2. req[c].input \in Creates
    BY <1>1 DEF Requests
  <1>3. req[c].input.password \in Hashes
    BY <1>2 DEF PreparedFor, Creates, Hashes
  <1> QED BY <1>2, <1>3 DEF NewRow, Rows, Creates

----------------------------------------------------------------------------
(* How a request moves from call to call.                                  *)

LocalsOK ==
  /\ pc \in [Clients -> Calls]
  /\ req \in [Clients -> Requests]
  /\ user \in [Clients -> Users \union {None}]
  /\ result \in [Clients -> Answers \union {None}]

\* A step of one request leaves the others prepared.
LEMMA OthersPrepared ==
  ASSUME NEW c \in Clients, Prepared, PreparedFor(c)', TypeOK,
         \A d \in Clients \ {c} : pc'[d] = pc[d] /\ req'[d] = req[d] /\ user'[d] = user[d],
         nextId' \in Int, nextId' >= nextId
  PROVE  Prepared'
  <1> SUFFICES ASSUME NEW d \in Clients, d # c
               PROVE  PreparedFor(d)'
    BY DEF Prepared
  <1>1. nextId \in Int /\ req[d] \in Requests
    BY DEF TypeOK
  <1>2. req[d].id # None => req[d].id \in Int
    BY <1>1 DEF Requests, Ids
  <1> QED BY <1>1, <1>2 DEF Prepared, PreparedFor

LEMMA ReturnKeeps ==
  ASSUME NEW c \in Clients, NEW code \in Codes, NEW u \in Users \union {None},
         TypeOK, Prepared, Return(c, code, u), nextId' \in Int, nextId' >= nextId
  PROVE  LocalsOK' /\ Prepared'
  <1>1. LocalsOK'
    BY DEF TypeOK, LocalsOK, Return, Finish, Goto, NoRequest, Requests, Calls, Answers
  <1>2. pc'[c] = "idle"
    BY DEF TypeOK, Return, Finish, Goto
  <1>3. PreparedFor(c)'
    BY <1>2 DEF PreparedFor
  <1>4. \A d \in Clients \ {c} : pc'[d] = pc[d] /\ req'[d] = req[d] /\ user'[d] = user[d]
    BY DEF TypeOK, Return, Finish, Goto
  <1> QED BY <1>1, <1>3, <1>4, OthersPrepared

LEMMA ProceedKeeps ==
  ASSUME NEW c \in Clients, NEW call \in Calls,
         TypeOK, Prepared, Proceed(c, call), PreparedFor(c)',
         nextId' \in Int, nextId' >= nextId
  PROVE  LocalsOK' /\ Prepared'
  <1>1. LocalsOK'
    BY DEF TypeOK, LocalsOK, Proceed, Goto
  <1>2. \A d \in Clients \ {c} : pc'[d] = pc[d] /\ req'[d] = req[d] /\ user'[d] = user[d]
    BY DEF TypeOK, Proceed, Goto
  <1> QED BY <1>1, <1>2, OthersPrepared

\* A step that leaves the stores alone keeps what is said of them.
LEMMA StoresKeep ==
  ASSUME Inv, UNCHANGED <<table, cache, mailed>>, LocalsOK', Prepared'
  PROVE  Inv'
  BY DEF Inv, TypeOK, LocalsOK, EmailsUnique, Numbered, table

LEMMA BeginKeeps ==
  ASSUME NEW c \in Clients, NEW op, NEW id, NEW in, NEW call \in Calls,
         [op |-> op, id |-> id, input |-> in] \in Requests,
         Inv, Begin(c, op, id, in, call), PreparedFor(c)'
  PROVE  Inv'
  <1>1. LocalsOK'
    BY DEF Inv, TypeOK, LocalsOK, Begin, Goto
  <1>2. \A d \in Clients \ {c} : pc'[d] = pc[d] /\ req'[d] = req[d] /\ user'[d] = user[d]
    BY DEF Inv, TypeOK, Begin, Goto
  <1>3. nextId' = nextId /\ nextId \in Int
    BY DEF Inv, TypeOK, Begin, table
  <1>4. Prepared'
    BY <1>2, <1>3, OthersPrepared DEF Inv
  <1> QED BY <1>1, <1>4, StoresKeep DEF Begin

----------------------------------------------------------------------------
(* How the stores change.                                                  *)

LEMMA InsertKeeps ==
  ASSUME NEW c \in Clients, Inv, InsertRow(c), UNCHANGED <<cache, mailed>>,
         LocalsOK', Prepared'
  PROVE  Inv'
  <1> DEFINE row == NewRow(c)
  <1>1. row \in Rows /\ row.id = nextId /\ row.email = req[c].input.email
    BY NewRowType DEF Inv, InsertRow, Prepared
  <1>2. /\ db' = [db EXCEPT ![nextId] = row] /\ nextId' = nextId + 1
        /\ nextId \in Ids
        /\ \A i \in Ids : db[i] # None => db[i].email # row.email
    BY <1>1, NoneAssumption DEF InsertRow, EmailTaken
  <1> HIDE DEF row
  <1>3. TypeOK'
    BY <1>1, <1>2, MaxIdAssumption DEF Inv, TypeOK, LocalsOK, Ids
  <1>4. EmailsUnique'
    BY <1>1, <1>2 DEF Inv, TypeOK, EmailsUnique
  <1>5. Numbered'
    <2> SUFFICES ASSUME NEW i \in Ids
                 PROVE  /\ db'[i] # None => db'[i].id = i /\ i < nextId'
                        /\ cache'[i] # None => cache'[i].id = i /\ i < nextId'
      BY DEF Numbered
    <2>1. i \in Int /\ nextId \in Int
      BY DEF Inv, TypeOK, Ids
    <2>2. cache'[i] # None => cache'[i].id = i /\ i < nextId'
      BY <1>2, <2>1 DEF Inv, Numbered
    <2>3. db'[i] # None => db'[i].id = i /\ i < nextId'
      BY <1>1, <1>2, <2>1 DEF Inv, TypeOK, Numbered
    <2> QED BY <2>2, <2>3
  <1> QED BY <1>3, <1>4, <1>5 DEF Inv

LEMMA UpdateKeeps ==
  ASSUME NEW c \in Clients, Inv, UpdateRow(c), UNCHANGED <<cache, mailed>>,
         LocalsOK', Prepared'
  PROVE  Inv'
  <1> DEFINE id  == req[c].id
             new == Merge(db[id], req[c].input)
  <1>0. req[c] \in Requests /\ req[c].op = "update" /\ req[c].input.password \notin Unhashable
    BY DEF Inv, TypeOK, Prepared, PreparedFor, UpdateRow
  <1>1. id \in Ids /\ req[c].input \in Updates /\ req[c].input.password \notin Unhashable
    BY <1>0 DEF Requests
  <1>2. db[id] \in Rows /\ db[id].id = id /\ id < nextId
    BY <1>1 DEF Inv, TypeOK, Numbered, UpdateRow
  <1>3. new \in Rows /\ new.id = id
    BY <1>1, <1>2, MergeType
  <1>4. /\ db' = [db EXCEPT ![id] = new] /\ nextId' = nextId
        /\ \A i \in Ids \ {id} : db[i] # None => db[i].email # new.email
    BY DEF UpdateRow, EmailTaken
  <1> HIDE DEF id, new
  <1>5. TypeOK'
    BY <1>1, <1>3, <1>4 DEF Inv, TypeOK, LocalsOK
  <1>6. EmailsUnique'
    BY <1>1, <1>3, <1>4 DEF Inv, TypeOK, EmailsUnique
  <1>7. Numbered'
    BY <1>1, <1>2, <1>3, <1>4 DEF Inv, TypeOK, Numbered
  <1> QED BY <1>5, <1>6, <1>7 DEF Inv

LEMMA DeleteKeeps ==
  ASSUME NEW c \in Clients, Inv, DeleteRow(c), UNCHANGED <<cache, mailed>>,
         LocalsOK', Prepared'
  PROVE  Inv'
  <1>1. db' = [db EXCEPT ![req[c].id] = None] /\ nextId' = nextId
    BY DEF DeleteRow
  <1>2. TypeOK'
    BY <1>1 DEF Inv, TypeOK, LocalsOK
  <1>3. \A i \in Ids : db'[i] # None => db'[i] = db[i] /\ db[i] # None
    BY <1>1 DEF Inv, TypeOK
  <1>4. EmailsUnique'
    BY <1>3 DEF Inv, EmailsUnique
  <1>5. Numbered'
    BY <1>1, <1>3 DEF Inv, Numbered
  <1> QED BY <1>2, <1>4, <1>5 DEF Inv

\* A cache write puts under a key the user of that key, or nothing.
LEMMA CacheWriteKeeps ==
  ASSUME NEW id \in Ids, NEW u \in Users \union {None},
         u # None => u.id = id /\ id < nextId,
         Inv, cache' = [cache EXCEPT ![id] = u], UNCHANGED <<table, mailed>>,
         LocalsOK', Prepared'
  PROVE  Inv'
  BY DEF Inv, TypeOK, LocalsOK, EmailsUnique, Numbered, table

----------------------------------------------------------------------------
(* The invariant is inductive.                                             *)

LEMMA InitInv == Init => Inv
  <1> SUFFICES ASSUME Init PROVE Inv
    OBVIOUS
  <1>1. TypeOK
    BY MaxIdAssumption DEF Init, TypeOK, Calls, Requests, NoRequest
  <1>2. EmailsUnique /\ Numbered
    BY DEF Init, EmailsUnique, Numbered
  <1>3. Prepared
    BY DEF Init, Prepared, PreparedFor
  <1> QED BY <1>1, <1>2, <1>3 DEF Inv

LEMMA BeginRequestInv ==
  ASSUME NEW c \in Clients, Inv, BeginRequest(c)
  PROVE  Inv'
  <1>0. pc \in [Clients -> Calls] /\ req \in [Clients -> Requests]
    BY DEF Inv, TypeOK
  <1>1. CASE BeginCreate(c)
    <2>1. PICK in \in CreateInputs : Begin(c, "create", None, in, "GetByEmail")
      BY <1>1 DEF BeginCreate
    <2>2. [op |-> "create", id |-> None, input |-> in] \in Requests /\ "GetByEmail" \in Calls
      BY InputAssumption DEF Requests, Calls
    <2>3. PreparedFor(c)'
      BY <1>0, <2>1 DEF Begin, Goto, PreparedFor
    <2> QED BY <2>1, <2>2, <2>3, BeginKeeps
  <1>2. CASE BeginGet(c)
    <2>1. PICK id \in Ids : Begin(c, "get", id, None, "CacheGet")
      BY <1>2 DEF BeginGet
    <2>2. [op |-> "get", id |-> id, input |-> None] \in Requests /\ "CacheGet" \in Calls
      BY DEF Requests, Calls
    <2>3. PreparedFor(c)'
      BY <1>0, <2>1, NoneAssumption DEF Begin, Goto, PreparedFor
    <2> QED BY <2>1, <2>2, <2>3, BeginKeeps
  <1>3. CASE BeginDelete(c)
    <2>1. PICK id \in Ids : Begin(c, "delete", id, None, "Delete")
      BY <1>3 DEF BeginDelete
    <2>2. [op |-> "delete", id |-> id, input |-> None] \in Requests /\ "Delete" \in Calls
      BY DEF Requests, Calls
    <2>3. PreparedFor(c)'
      BY <1>0, <2>1, NoneAssumption DEF Begin, Goto, PreparedFor
    <2> QED BY <2>1, <2>2, <2>3, BeginKeeps
  <1>4. CASE BeginUpdate(c)
    <2>1. PICK id \in Ids, in \in UpdateInputs :
            in.password \notin Unhashable /\ Begin(c, "update", id, in, "Update")
      BY <1>4 DEF BeginUpdate
    <2>2. [op |-> "update", id |-> id, input |-> in] \in Requests /\ "Update" \in Calls
      BY InputAssumption DEF Requests, Calls
    <2>3. PreparedFor(c)'
      BY <1>0, <2>1 DEF Begin, Goto, PreparedFor
    <2> QED BY <2>1, <2>2, <2>3, BeginKeeps
  <1>5. CASE BeginUpdateUnhashable(c)
    <2>1. Return(c, "INTERNAL_ERROR", None) /\ UNCHANGED <<table, cache, mailed>>
      BY <1>5 DEF BeginUpdateUnhashable
    <2>2. nextId' = nextId /\ nextId \in Int /\ "INTERNAL_ERROR" \in Codes
      BY <2>1 DEF table, Codes, Inv, TypeOK
    <2>3. LocalsOK' /\ Prepared'
      BY <2>1, <2>2, ReturnKeeps DEF Inv
    <2> QED BY <2>1, <2>3, StoresKeep
  <1> QED BY <1>1, <1>2, <1>3, <1>4, <1>5 DEF BeginRequest

\* A step that only moves its request, to an answer or to the next call.
LEMMA MoveInv ==
  ASSUME NEW c \in Clients, Inv, UNCHANGED <<table, cache, mailed>>,
         \/ \E code \in Codes, u \in Users \union {None} : Return(c, code, u)
         \/ \E call \in Calls : Proceed(c, call) /\ PreparedFor(c)'
  PROVE  Inv'
  <1>1. nextId' = nextId /\ nextId \in Int
    BY DEF Inv, TypeOK, table
  <1>2. LocalsOK' /\ Prepared'
    BY <1>1, ReturnKeeps, ProceedKeeps DEF Inv
  <1> QED BY <1>2, StoresKeep

LEMMA HashInv ==
  ASSUME NEW c \in Clients, Inv, pc[c] = "GetByEmail", Hash(c), UNCHANGED <<table, cache, mailed>>
  PROVE  Inv'
  <1>1. "Create" \in Calls /\ "INTERNAL_ERROR" \in Codes
    BY DEF Calls, Codes
  <1>2. CASE Return(c, "INTERNAL_ERROR", None)
    BY <1>1, <1>2, MoveInv
  <1>3. CASE req[c].input.password \notin Unhashable /\ Proceed(c, "Create")
    <2>1. PreparedFor(c)'
      BY <1>3 DEF Inv, TypeOK, Prepared, PreparedFor, Proceed, Goto
    <2> QED BY <1>1, <1>3, <2>1, MoveInv
  <1> QED BY <1>2, <1>3 DEF Hash

\* What follows a cache write, whether the write succeeded or not.
LEMMA AfterCacheWrite ==
  ASSUME NEW c \in Clients, Inv, nextId' = nextId,
         \/ pc[c] = "CacheDelete" /\ AfterCacheDelete(c)
         \/ pc[c] = "CacheSet" /\ AfterCacheSet(c)
  PROVE  LocalsOK' /\ Prepared'
  <1>1. /\ nextId' \in Int /\ nextId' >= nextId
        /\ "CacheSet" \in Calls /\ "SendWelcomeEmail" \in Calls /\ "OK" \in Codes
        /\ user[c] \in Users \union {None}
    BY DEF Inv, TypeOK, Calls, Codes
  <1>2. CASE \E u \in Users \union {None} : Return(c, "OK", u)
    BY <1>1, <1>2, ReturnKeeps DEF Inv
  <1>3. CASE pc[c] = "CacheDelete" /\ req[c].op = "update" /\ Proceed(c, "CacheSet")
    <2>1. PreparedFor(c)'
      BY <1>3 DEF Inv, TypeOK, Prepared, PreparedFor, Proceed, Goto
    <2> QED BY <1>1, <1>3, <2>1, ProceedKeeps DEF Inv
  <1>4. CASE pc[c] = "CacheSet" /\ req[c].op = "create" /\ Proceed(c, "SendWelcomeEmail")
    <2>1. PreparedFor(c)'
      BY <1>4 DEF Inv, TypeOK, Prepared, PreparedFor, Proceed, Goto
    <2> QED BY <1>1, <1>4, <2>1, ProceedKeeps DEF Inv
  <1> QED BY <1>1, <1>2, <1>3, <1>4 DEF AfterCacheDelete, AfterCacheSet

\* A request takes a user and goes on to write the cache with it.
LEMMA TakeUser ==
  ASSUME NEW c \in Clients, NEW u \in Users, NEW call \in {"CacheDelete", "CacheSet"},
         TypeOK, Prepared, nextId' \in Int, nextId' >= nextId,
         user' = [user EXCEPT ![c] = u], Goto(c, call), result' = result,
         req' \in [Clients -> Requests],
         \A d \in Clients \ {c} : req'[d] = req[d],
         u.id = req'[c].id, u.id < nextId', u.id # None,
         req'[c].op \in (IF call = "CacheDelete" THEN {"update"} ELSE {"create", "get", "update"})
  PROVE  LocalsOK' /\ Prepared'
  <1>1. LocalsOK'
    BY DEF TypeOK, LocalsOK, Goto, Calls
  <1>2. pc'[c] = call /\ user'[c] = u /\ u # None
    BY NoneAssumption DEF TypeOK, Goto
  <1>3. PreparedFor(c)'
    BY <1>2 DEF PreparedFor
  <1>4. \A d \in Clients \ {c} : pc'[d] = pc[d] /\ req'[d] = req[d] /\ user'[d] = user[d]
    BY DEF TypeOK, Goto
  <1> QED BY <1>1, <1>3, <1>4, OthersPrepared

LEMMA SelectRowInv ==
  ASSUME NEW c \in Clients, Inv,
         \/ pc[c] = "GetByID" /\ SelectRow(c, "CacheSet")
         \/ pc[c] = "Update" /\ SelectRow(c, "CacheDelete")
  PROVE  Inv'
  <1> DEFINE next == IF pc[c] = "Update" THEN "CacheDelete" ELSE "CacheSet"
  <1>1. SelectRow(c, next)
    OBVIOUS
  <1>2. /\ req[c] \in Requests /\ req[c].id \in Ids
        /\ req[c].op = IF pc[c] = "Update" THEN "update" ELSE "get"
        /\ nextId \in Int
    <2>1. req[c] \in Requests /\ nextId \in Int
      BY DEF Inv, TypeOK
    <2>2. req[c].op = (IF pc[c] = "Update" THEN "update" ELSE "get")
      BY DEF Inv, Prepared, PreparedFor
    <2>3. req[c].op = "get" => req[c].id # None
      BY <2>2 DEF Inv, Prepared, PreparedFor
    <2> QED BY <2>1, <2>2, <2>3 DEF Requests
  <1>3. UNCHANGED <<table, cache, mailed>>
    BY <1>1 DEF SelectRow
  <1>4. CASE Return(c, "NOT_FOUND", None)
    <2>1. "NOT_FOUND" \in Codes
      BY DEF Codes
    <2> QED BY <1>3, <1>4, <2>1, MoveInv
  <1>5. CASE /\ db[req[c].id] # None
             /\ user' = [user EXCEPT ![c] = db[req[c].id]]
             /\ Goto(c, next)
             /\ UNCHANGED <<req, result>>
    <2> DEFINE row == db[req[c].id]
    <2>1. /\ row \in Users /\ row.id = req[c].id
          /\ req[c].id < nextId /\ nextId' = nextId /\ req[c].id # None
      BY <1>2, <1>3, <1>5, RowsAreUsers, NoneAssumption DEF Inv, TypeOK, Numbered, table
    <2>2. /\ req' = req /\ req \in [Clients -> Requests] /\ result' = result
          /\ next \in {"CacheDelete", "CacheSet"}
          /\ req[c].op \in IF next = "CacheDelete" THEN {"update"} ELSE {"create", "get", "update"}
          /\ user' = [user EXCEPT ![c] = row] /\ Goto(c, next)
      BY <1>2, <1>5 DEF Inv, TypeOK
    <2> HIDE DEF next, row
    <2>3. /\ nextId' \in Int /\ nextId' >= nextId
          /\ row.id = req'[c].id /\ row.id < nextId' /\ row.id # None
          /\ req'[c].op \in IF next = "CacheDelete" THEN {"update"} ELSE {"create", "get", "update"}
          /\ req' \in [Clients -> Requests] /\ \A d \in Clients \ {c} : req'[d] = req[d]
      BY <1>2, <2>1, <2>2
    <2>4. LocalsOK' /\ Prepared'
      BY <2>1, <2>2, <2>3, TakeUser DEF Inv
    <2> QED BY <1>3, <2>4, StoresKeep
  <1> QED BY <1>1, <1>4, <1>5 DEF SelectRow

LEMMA CallInv ==
  ASSUME NEW c \in Clients, Inv, Call(c)
  PROVE  Inv'
  <1>0. /\ TypeOK /\ PreparedFor(c) /\ req[c] \in Requests /\ nextId \in Int
        /\ user[c] \in Users \union {None}
    BY DEF Inv, TypeOK, Prepared
  <1>1. CASE GetByEmail(c)
    <2>1. "CONFLICT" \in Codes
      BY DEF Codes
    <2> QED BY <1>1, <2>1, MoveInv, HashInv DEF GetByEmail
  <1>2. CASE Create(c)
    <2> DEFINE row == NewRow(c)
    <2>1. row \in Rows /\ row.id = nextId /\ nextId \in Ids
      BY <1>0, <1>2, NewRowType DEF Create, InsertRow
    <2>2. Public(row) \in Users /\ Public(row).id = nextId
      BY <2>1, RowsAreUsers, PublicType
    <2>3. req[c].op = "create"
      BY <1>0, <1>2 DEF PreparedFor, Create, InsertRow
    <2>4. /\ req' = [req EXCEPT ![c].id = nextId] /\ nextId' = nextId + 1
          /\ user' = [user EXCEPT ![c] = Public(row)]
          /\ Goto(c, "CacheSet") /\ result' = result
          /\ InsertRow(c) /\ UNCHANGED <<cache, mailed>>
      BY <1>2 DEF Create, InsertRow
    <2>5. req' \in [Clients -> Requests] /\ req'[c].id = nextId /\ req'[c].op = "create"
      BY <2>1, <2>3, <2>4, <1>0 DEF TypeOK, Requests
    <2>6. \A d \in Clients \ {c} : req'[d] = req[d]
      BY <2>4, <1>0 DEF TypeOK
    <2> DEFINE u == Public(row)
    <2>7. /\ u \in Users /\ u.id = req'[c].id /\ u.id < nextId' /\ u.id # None
          /\ user' = [user EXCEPT ![c] = u] /\ Prepared
          /\ nextId' \in Int /\ nextId' >= nextId
          /\ Goto(c, "CacheSet") /\ result' = result
      BY <1>0, <2>1, <2>2, <2>4, <2>5, NoneAssumption DEF Inv
    <2> HIDE DEF row, u
    <2>8. LocalsOK' /\ Prepared'
      BY <1>0, <2>5, <2>6, <2>7, TakeUser
    <2> QED BY <2>4, <2>8, InsertKeeps
  <1>3. CASE CreateRefused(c)
    <2>1. /\ nextId' = nextId + 1 /\ nextId \in Ids /\ UNCHANGED <<db, cache, mailed>>
          /\ Return(c, "INTERNAL_ERROR", None) /\ "INTERNAL_ERROR" \in Codes
      BY <1>3 DEF CreateRefused, Codes
    <2>2. LocalsOK' /\ Prepared'
      BY <1>0, <2>1, ReturnKeeps DEF Inv
    <2>3. TypeOK'
      BY <1>0, <2>1, <2>2, MaxIdAssumption DEF TypeOK, LocalsOK, Ids
    <2>4. EmailsUnique' /\ Numbered'
      BY <1>0, <2>1 DEF Inv, EmailsUnique, Numbered, Ids
    <2> QED BY <2>2, <2>3, <2>4 DEF Inv
  <1>4. CASE SendWelcomeEmail(c)
    <2>1. /\ Return(c, "OK", user[c]) /\ UNCHANGED <<table, cache>> /\ "OK" \in Codes
          /\ mailed' = mailed \union {req[c].id} /\ pc[c] = "SendWelcomeEmail"
      BY <1>4 DEF SendWelcomeEmail, Codes
    <2>2. nextId' = nextId /\ db' = db /\ cache' = cache
      BY <2>1 DEF table
    <2>3. LocalsOK' /\ Prepared'
      BY <1>0, <2>1, <2>2, ReturnKeeps DEF Inv
    <2>4. req[c].id \in Ids /\ req[c].id < nextId
      BY <1>0, <2>1 DEF PreparedFor, Requests
    <2>5. TypeOK'
      <3>1. mailed' \subseteq 1 .. nextId' - 1
        <4>1. req[c].id \in 1 .. nextId - 1
          BY <1>0, <2>4 DEF Ids
        <4>2. mailed \subseteq 1 .. nextId - 1
          BY <1>0 DEF TypeOK
        <4> QED BY <2>1, <2>2, <4>1, <4>2
      <3> QED BY <1>0, <2>2, <2>3, <3>1 DEF TypeOK, LocalsOK
    <2>6. EmailsUnique' /\ Numbered'
      BY <2>1, <2>2 DEF Inv, EmailsUnique, Numbered
    <2> QED BY <2>3, <2>5, <2>6 DEF Inv
  <1>5. CASE CacheGet(c)
    <2>1. req[c].id \in Ids /\ req[c].op = "get"
      BY <1>0, <1>5 DEF CacheGet, PreparedFor, Requests
    <2>2. cache[req[c].id] \in Users \union {None} /\ "OK" \in Codes /\ "GetByID" \in Calls
      BY <1>0, <2>1 DEF TypeOK, Codes, Calls
    <2>3. CASE Return(c, "OK", cache[req[c].id])
      BY <1>5, <2>2, <2>3, MoveInv DEF CacheGet
    <2>4. CASE Proceed(c, "GetByID")
      <3>1. PreparedFor(c)'
        BY <1>0, <2>1, <2>4, NoneAssumption DEF TypeOK, PreparedFor, Proceed, Goto
      <3> QED BY <1>5, <2>2, <2>4, <3>1, MoveInv DEF CacheGet
    <2> QED BY <1>5, <2>3, <2>4 DEF CacheGet
  <1>6. CASE GetByID(c) \/ UpdateNothing(c)
    BY <1>6, SelectRowInv DEF GetByID, UpdateNothing
  <1>7. CASE Update(c)
    <2> DEFINE new == Merge(db[req[c].id], req[c].input)
    <2>1. req[c].op = "update" /\ req[c].input.password \notin Unhashable
      BY <1>0, <1>7 DEF Update, UpdateRow, PreparedFor
    <2>2. req[c].id \in Ids /\ req[c].input \in Updates
      BY <1>0, <2>1 DEF Requests
    <2>3. /\ UpdateRow(c) /\ UNCHANGED <<cache, mailed, req, result>>
          /\ db[req[c].id] # None /\ db' = [db EXCEPT ![req[c].id] = new]
          /\ user' = [user EXCEPT ![c] = Public(db'[req[c].id])]
          /\ Goto(c, "CacheDelete") /\ nextId' = nextId
      BY <1>7 DEF Update, UpdateRow
    <2>4. /\ db[req[c].id] \in Rows /\ db[req[c].id].id = req[c].id /\ req[c].id < nextId
          /\ db'[req[c].id] = new
      BY <2>2, <2>3 DEF Inv, TypeOK, Numbered
    <2>5. new \in Users /\ new.id = req[c].id
      BY <2>1, <2>2, <2>4, MergeType, RowsAreUsers
    <2>6. Public(db'[req[c].id]) \in Users /\ Public(db'[req[c].id]).id = req[c].id
      BY <2>4, <2>5, PublicType
    <2>7. /\ req' \in [Clients -> Requests] /\ req' = req
          /\ \A d \in Clients \ {c} : req'[d] = req[d]
      BY <1>0, <2>3 DEF TypeOK
    <2> DEFINE u == Public(db'[req[c].id])
    <2>8. /\ u \in Users /\ u.id = req'[c].id /\ u.id < nextId' /\ u.id # None
          /\ user' = [user EXCEPT ![c] = u] /\ Prepared /\ result' = result
          /\ nextId' \in Int /\ nextId' >= nextId /\ req'[c].op = "update"
      BY <1>0, <2>1, <2>2, <2>3, <2>4, <2>6, <2>7, NoneAssumption DEF Inv
    <2> HIDE DEF new, u
    <2>9. LocalsOK' /\ Prepared'
      BY <1>0, <2>3, <2>7, <2>8, TakeUser
    <2> QED BY <2>3, <2>9, UpdateKeeps
  <1>8. CASE UpdateRefused(c) \/ DeleteRefused(c)
    <2>1. "NOT_FOUND" \in Codes
      BY DEF Codes
    <2> QED BY <1>8, <2>1, MoveInv DEF UpdateRefused, DeleteRefused
  <1>9. CASE Delete(c)
    <2>1. /\ DeleteRow(c) /\ UNCHANGED <<cache, mailed>> /\ nextId' = nextId
          /\ pc[c] = "Delete" /\ Proceed(c, "CacheDelete") /\ db[req[c].id] # None
      BY <1>9 DEF Delete, DeleteRow, Proceed
    <2>2. req[c].op = "delete" /\ req[c].id \in Ids
      BY <1>0, <2>1 DEF PreparedFor, Requests
    <2>3. req[c].id < nextId
      BY <2>1, <2>2 DEF Inv, Numbered
    <2>4. PreparedFor(c)'
      BY <1>0, <2>1, <2>2, <2>3, NoneAssumption DEF TypeOK, PreparedFor, Proceed, Goto
    <2>5. LocalsOK' /\ Prepared'
      BY <1>0, <2>1, <2>4, ProceedKeeps DEF Inv, Calls
    <2> QED BY <2>1, <2>5, DeleteKeeps
  <1>10. CASE CacheDelete(c)
    <2>1. req[c].id \in Ids
      BY <1>0, <1>10 DEF CacheDelete, PreparedFor, Requests
    <2>2. nextId' = nextId
      BY <1>10 DEF CacheDelete, table
    <2>3. LocalsOK' /\ Prepared'
      BY <1>10, <2>2, AfterCacheWrite DEF CacheDelete
    <2> QED BY <1>10, <2>1, <2>3, CacheWriteKeeps DEF CacheDelete
  <1>11. CASE CacheSet(c)
    <2>1. /\ req[c].id \in Ids /\ req[c].id < nextId
          /\ user[c] \in Users /\ user[c].id = req[c].id
      BY <1>0, <1>11 DEF CacheSet, PreparedFor, Requests
    <2>2. nextId' = nextId
      BY <1>11 DEF CacheSet, table
    <2>3. LocalsOK' /\ Prepared'
      BY <1>11, <2>2, AfterCacheWrite DEF CacheSet
    <2> QED BY <1>11, <2>1, <2>3, CacheWriteKeeps DEF CacheSet
  <1> QED BY <1>1, <1>2, <1>3, <1>4, <1>5, <1>6, <1>7, <1>8, <1>9, <1>10, <1>11 DEF Call

LEMMA FaultInv ==
  ASSUME NEW c \in Clients, Inv, Fault(c)
  PROVE  Inv'
  <1>0. TypeOK /\ PreparedFor(c) /\ req[c] \in Requests /\ nextId \in Int
    BY DEF Inv, TypeOK, Prepared
  <1>1. "INTERNAL_ERROR" \in Codes /\ "NOT_FOUND" \in Codes /\ "GetByID" \in Calls
    BY DEF Codes, Calls
  <1>2. CASE DbFails(c)
    BY <1>1, <1>2, MoveInv, HashInv DEF DbFails
  <1>3. CASE DbAnswerLost(c)
    <2>1. /\ UNCHANGED <<cache, mailed>>
          /\ \E code \in Codes : Return(c, code, None)
          /\ InsertRow(c) \/ UpdateRow(c) \/ DeleteRow(c)
      BY <1>1, <1>3 DEF DbAnswerLost
    <2>2. nextId' \in Int /\ nextId' >= nextId
      BY <1>0, <2>1 DEF InsertRow, UpdateRow, DeleteRow
    <2>3. LocalsOK' /\ Prepared'
      BY <2>1, <2>2, ReturnKeeps DEF Inv
    <2> QED BY <2>1, <2>3, InsertKeeps, UpdateKeeps, DeleteKeeps
  <1>4. CASE CacheFails(c)
    <2>1. UNCHANGED <<table, cache, mailed>> /\ nextId' = nextId
      BY <1>4 DEF CacheFails, table
    <2>2. CASE pc[c] = "CacheGet" /\ Proceed(c, "GetByID")
      <3>1. PreparedFor(c)'
        BY <1>0, <2>2 DEF TypeOK, PreparedFor, Proceed, Goto
      <3> QED BY <1>1, <2>1, <2>2, <3>1, MoveInv
    <2>3. CASE ~(pc[c] = "CacheGet" /\ Proceed(c, "GetByID"))
      <3>1. LocalsOK' /\ Prepared'
        BY <1>4, <2>1, <2>3, AfterCacheWrite DEF CacheFails
      <3> QED BY <2>1, <3>1, StoresKeep
    <2> QED BY <2>2, <2>3
  <1>5. CASE Crash(c)
    <2>1. Finish(c) /\ UNCHANGED <<table, cache, mailed, result>> /\ nextId' = nextId
      BY <1>5 DEF Crash, table
    <2>2. LocalsOK'
      BY <1>0, <2>1 DEF TypeOK, LocalsOK, Finish, Goto, NoRequest, Requests, Calls
    <2>3. /\ pc'[c] = "idle"
          /\ \A d \in Clients \ {c} : pc'[d] = pc[d] /\ req'[d] = req[d] /\ user'[d] = user[d]
      BY <1>0, <2>1 DEF TypeOK, Finish, Goto
    <2>4. PreparedFor(c)'
      BY <2>3 DEF PreparedFor
    <2>5. Prepared'
      BY <1>0, <2>1, <2>3, <2>4, OthersPrepared DEF Inv
    <2> QED BY <2>1, <2>2, <2>5, StoresKeep
  <1> QED BY <1>2, <1>3, <1>4, <1>5 DEF Fault

LEMMA ExpireInv ==
  ASSUME NEW id \in Ids, Inv, Expire(id)
  PROVE  Inv'
  <1>1. LocalsOK' /\ Prepared' /\ UNCHANGED <<table, mailed>> /\ cache' = [cache EXCEPT ![id] = None]
    BY DEF Inv, Expire, TypeOK, LocalsOK, Prepared, PreparedFor, table
  <1> QED BY <1>1, CacheWriteKeeps

LEMMA NextInv == Inv /\ [Next]_vars => Inv'
  <1> SUFFICES ASSUME Inv, [Next]_vars PROVE Inv'
    OBVIOUS
  <1>1. CASE UNCHANGED vars
    BY <1>1 DEF vars, Inv, TypeOK, EmailsUnique, Numbered, Prepared, PreparedFor
  <1>2. CASE Next
    BY <1>2, BeginRequestInv, CallInv, FaultInv, ExpireInv DEF Next
  <1> QED BY <1>1, <1>2

THEOREM Invariance == Spec => []Inv
  BY InitInv, NextInv, PTL DEF Spec

\* No row ever holds a password bcrypt refused, no e-mail goes out for an id
\* that was not given, and every variable keeps its type.
THEOREM TypeCorrectness == Spec => []TypeOK
  <1>1. Inv => TypeOK
    BY DEF Inv
  <1> QED BY <1>1, Invariance, PTL

\* Two rows never share an address, however requests and failures interleave.
THEOREM AddressesAreUnique == Spec => []EmailsUnique
  <1>1. Inv => EmailsUnique
    BY DEF Inv
  <1> QED BY <1>1, Invariance, PTL

\* Rows and cache entries are those of their own id, given by the sequence.
THEOREM KeysMatch == Spec => []Numbered
  <1>1. Inv => Numbered
    BY DEF Inv
  <1> QED BY <1>1, Invariance, PTL

\* Every call of the service finds what it needs.
THEOREM CallsArePrepared == Spec => []Prepared
  <1>1. Inv => Prepared
    BY DEF Inv
  <1> QED BY <1>1, Invariance, PTL

----------------------------------------------------------------------------
(* Facts the other proofs use.                                             *)

\* A step of one request leaves the locals of the others.
OthersSame(c) ==
  \A d \in Clients \ {c} : pc'[d] = pc[d] /\ req'[d] = req[d] /\ user'[d] = user[d]

LEMMA BeginOthersSame ==
  ASSUME NEW c \in Clients, TypeOK, BeginRequest(c)
  PROVE  OthersSame(c)
  BY DEF TypeOK, OthersSame, BeginRequest, BeginCreate, BeginGet, BeginDelete, BeginUpdate,
         BeginUpdateUnhashable, Begin, Goto, Return, Finish

LEMMA CallOthersSame ==
  ASSUME NEW c \in Clients, TypeOK, Call(c)
  PROVE  OthersSame(c)
  <1>1. Return(c, "OK", None) => OthersSame(c)
    BY DEF TypeOK, OthersSame, Return, Finish, Goto
  <1> QED BY DEF TypeOK, OthersSame, Call, GetByEmail, Hash, Create, InsertRow, CreateRefused,
         SendWelcomeEmail, CacheGet, GetByID, SelectRow, UpdateNothing, Update, UpdateRow,
         UpdateRefused, Delete, DeleteRow, DeleteRefused, CacheDelete, CacheSet,
         AfterCacheDelete, AfterCacheSet, Proceed, Goto, Return, Finish

LEMMA FaultOthersSame ==
  ASSUME NEW c \in Clients, TypeOK, Fault(c)
  PROVE  OthersSame(c)
  BY DEF TypeOK, OthersSame, Fault, DbFails, Hash, DbAnswerLost, CacheFails, Crash,
         AfterCacheDelete, AfterCacheSet, Proceed, Goto, Return, Finish

LEMMA ReturnMoves ==
  ASSUME NEW c \in Clients, TypeOK, NEW code, NEW u, Return(c, code, u)
  PROVE  pc'[c] = "idle"
  BY DEF TypeOK, Return, Finish, Goto

LEMMA ProceedMoves ==
  ASSUME NEW c \in Clients, TypeOK, NEW call, Proceed(c, call)
  PROVE  pc'[c] = call /\ req' = req /\ user' = user
  BY DEF TypeOK, Proceed, Goto

LEMMA PublicTwice ==
  ASSUME NEW u \in Users
  PROVE  Public(Public(u)) = Public(u)
  BY DEF Public, Users

\* The three statements that write the table.
WritesRow(c) == InsertRow(c) \/ UpdateRow(c) \/ DeleteRow(c)

LEMMA CallOnTable ==
  ASSUME NEW c \in Clients, Call(c)
  PROVE  db' = db \/ WritesRow(c)
  BY DEF WritesRow, Call, GetByEmail, Create, CreateRefused, SendWelcomeEmail, CacheGet, GetByID,
         SelectRow, UpdateNothing, Update, UpdateRefused, Delete, DeleteRefused,
         CacheDelete, CacheSet, table

LEMMA FaultOnTable ==
  ASSUME NEW c \in Clients, Fault(c)
  PROVE  db' = db \/ WritesRow(c)
  BY DEF WritesRow, Fault, DbFails, DbAnswerLost, CacheFails, Crash, table

\* Only an INSERT makes a row where there was none, under a new number: a
\* deleted user does not come back.
LEMMA GoneStays ==
  ASSUME Inv, Next, NEW id \in Ids, id < nextId, db[id] = None
  PROVE  db'[id] = None
  <1>1. \/ db' = db
        \/ \E k, new : db' = [db EXCEPT ![k] = new] /\ (k = nextId \/ db[k] # None \/ new = None)
    <2>1. ASSUME NEW c \in Clients, BeginRequest(c)
          PROVE  db' = db
      BY <2>1 DEF BeginRequest, BeginCreate, BeginGet, BeginDelete, BeginUpdate,
                  BeginUpdateUnhashable, Begin, table
    <2>2. ASSUME NEW k \in Ids, Expire(k)
          PROVE  db' = db
      BY <2>2 DEF Expire, table
    <2>3. ASSUME NEW c \in Clients, WritesRow(c)
          PROVE  \E k, new : db' = [db EXCEPT ![k] = new] /\ (k = nextId \/ db[k] # None \/ new = None)
      BY <2>3 DEF WritesRow, InsertRow, UpdateRow, DeleteRow
    <2>4. ASSUME NEW c \in Clients, BeginRequest(c) \/ Call(c) \/ Fault(c)
          PROVE  db' = db \/ WritesRow(c)
      BY <2>1, <2>4, CallOnTable, FaultOnTable
    <2>5. db' = db \/ \E c \in Clients : WritesRow(c)
      BY <2>2, <2>4 DEF Next
    <2> QED BY <2>3, <2>5
  <1> QED BY <1>1 DEF Inv, TypeOK

----------------------------------------------------------------------------
(* Whoever is gone is gone for good.                                       *)

\* A step that gives the user of an id to no request and to no caller.
LocalsSpare(id) ==
  \A c \in Clients :
    /\ user'[c] # None => user'[c].id # id
    /\ result'[c] # result[c] /\ result'[c] # None /\ result'[c].user # None => result'[c].user.id # id

LEMMA ReturnSpares ==
  ASSUME NEW c \in Clients, NEW code, NEW u, NEW id \in Ids, TypeOK, Gone(id),
         Return(c, code, u), u # None => u.id # id
  PROVE  LocalsSpare(id)
  BY DEF LocalsSpare, TypeOK, Gone, Return, Finish

LEMMA ProceedSpares ==
  ASSUME NEW id \in Ids, Gone(id), UNCHANGED <<user, result>>
  PROVE  LocalsSpare(id)
  BY DEF LocalsSpare, Gone

LEMMA TakeSpares ==
  ASSUME NEW c \in Clients, NEW u, NEW id \in Ids, TypeOK, Gone(id),
         user' = [user EXCEPT ![c] = u], result' = result, u.id # id
  PROVE  LocalsSpare(id)
  BY DEF LocalsSpare, TypeOK, Gone

LEMMA BeginSpares ==
  ASSUME NEW c \in Clients, NEW id \in Ids, TypeOK, Gone(id), BeginRequest(c)
  PROVE  LocalsSpare(id)
  <1>1. CASE BeginUpdateUnhashable(c)
    BY <1>1, ReturnSpares DEF BeginUpdateUnhashable
  <1>2. CASE UNCHANGED user /\ result' = [result EXCEPT ![c] = None]
    BY <1>2 DEF LocalsSpare, TypeOK, Gone
  <1> QED BY <1>1, <1>2 DEF BeginRequest, BeginCreate, BeginGet, BeginDelete, BeginUpdate, Begin

LEMMA HashSpares ==
  ASSUME NEW c \in Clients, NEW id \in Ids, TypeOK, Gone(id), Hash(c)
  PROVE  LocalsSpare(id)
  BY ReturnSpares, ProceedSpares DEF Hash, Proceed

LEMMA AfterCacheSpares ==
  ASSUME NEW c \in Clients, NEW id \in Ids, TypeOK, Gone(id),
         AfterCacheDelete(c) \/ AfterCacheSet(c)
  PROVE  LocalsSpare(id)
  BY ReturnSpares, ProceedSpares DEF AfterCacheDelete, AfterCacheSet, Proceed, Gone

\* A SELECT finds only rows that are there.
LEMMA SelectSpares ==
  ASSUME NEW c \in Clients, NEW id \in Ids, Inv, Gone(id), NEW next, SelectRow(c, next),
         req[c].id \in Ids
  PROVE  LocalsSpare(id)
  <1>1. CASE Return(c, "NOT_FOUND", None)
    BY <1>1, ReturnSpares DEF Inv
  <1>2. CASE /\ db[req[c].id] # None /\ user' = [user EXCEPT ![c] = db[req[c].id]]
             /\ result' = result
    <2>1. db[req[c].id].id = req[c].id /\ req[c].id # id
      BY <1>2 DEF Inv, Numbered, Gone
    <2> QED BY <1>2, <2>1, TakeSpares DEF Inv
  <1> QED BY <1>1, <1>2 DEF SelectRow

LEMMA CallSpares ==
  ASSUME NEW c \in Clients, NEW id \in Ids, Inv, Gone(id), Call(c)
  PROVE  LocalsSpare(id)
  <1>0. TypeOK /\ PreparedFor(c) /\ req[c] \in Requests /\ nextId \in Int /\ id < nextId
    BY DEF Inv, TypeOK, Prepared, Gone
  <1>1. pc[c] \in {"CacheGet", "GetByID", "Update"} => req[c].id \in Ids
    BY <1>0 DEF PreparedFor, Requests
  <1>2. CASE GetByEmail(c)
    BY <1>0, <1>2, ReturnSpares, HashSpares DEF GetByEmail
  <1>3. CASE Create(c)
    <2>1. user' = [user EXCEPT ![c] = Public(NewRow(c))] /\ result' = result
      BY <1>3 DEF Create
    <2>2. Public(NewRow(c)).id = nextId
      BY DEF Public, NewRow
    <2>3. nextId # id
      BY <1>0 DEF Ids
    <2> QED BY <1>0, <2>1, <2>2, <2>3, TakeSpares
  <1>4. CASE CreateRefused(c) \/ UpdateRefused(c) \/ DeleteRefused(c)
    BY <1>0, <1>4, ReturnSpares DEF CreateRefused, UpdateRefused, DeleteRefused
  <1>5. CASE SendWelcomeEmail(c)
    BY <1>0, <1>5, ReturnSpares DEF SendWelcomeEmail, Gone
  <1>6. CASE CacheGet(c)
    <2>1. cache[req[c].id] # None => cache[req[c].id].id = req[c].id /\ req[c].id # id
      BY <1>1, <1>6 DEF CacheGet, Inv, Numbered, Gone
    <2> QED BY <1>0, <1>6, <2>1, ReturnSpares, ProceedSpares DEF CacheGet, Proceed
  <1>7. CASE GetByID(c) \/ UpdateNothing(c)
    BY <1>1, <1>7, SelectSpares DEF GetByID, UpdateNothing
  <1>8. CASE Update(c)
    <2> DEFINE i == req[c].id
    <2>1. /\ user' = [user EXCEPT ![c] = Public(db'[i])] /\ result' = result
          /\ db' = [db EXCEPT ![i] = Merge(db[i], req[c].input)] /\ db[i] # None
          /\ i \in Ids
      BY <1>1, <1>8 DEF Update, UpdateRow
    <2>2. i # id /\ db[i] \in Rows /\ db[i].id = i
      BY <2>1 DEF Gone, Inv, Numbered, TypeOK
    <2>3. db'[i] = Merge(db[i], req[c].input)
      BY <1>0, <2>1 DEF TypeOK
    <2>4. Public(db'[i]).id = i
      BY <2>2, <2>3 DEF Public, Merge, Rows
    <2> QED BY <1>0, <2>1, <2>2, <2>4, TakeSpares
  <1>9. CASE Delete(c)
    BY <1>9, ProceedSpares DEF Delete
  <1>10. CASE CacheDelete(c) \/ CacheSet(c)
    BY <1>0, <1>10, AfterCacheSpares DEF CacheDelete, CacheSet
  <1> QED BY <1>2, <1>3, <1>4, <1>5, <1>6, <1>7, <1>8, <1>9, <1>10 DEF Call

LEMMA FaultSpares ==
  ASSUME NEW c \in Clients, NEW id \in Ids, Inv, Gone(id), Fault(c)
  PROVE  LocalsSpare(id)
  <1>0. TypeOK
    BY DEF Inv
  <1>1. CASE DbFails(c)
    BY <1>0, <1>1, ReturnSpares, HashSpares DEF DbFails
  <1>2. CASE DbAnswerLost(c)
    BY <1>0, <1>2, ReturnSpares DEF DbAnswerLost
  <1>3. CASE CacheFails(c)
    BY <1>0, <1>3, ProceedSpares, AfterCacheSpares DEF CacheFails, Proceed
  <1>4. CASE Crash(c)
    BY <1>0, <1>4 DEF Crash, Finish, LocalsSpare, TypeOK, Gone
  <1> QED BY <1>1, <1>2, <1>3, <1>4 DEF Fault

\* Only CacheSet puts a user into the cache, the one its request carries.
LEMMA CacheSpares ==
  ASSUME NEW id \in Ids, Inv, Gone(id), Next
  PROVE  cache'[id] = None
  <1>1. \/ cache' = cache
        \/ \E i : cache' = [cache EXCEPT ![i] = None]
        \/ \E c \in Clients : CacheSet(c)
    <2>1. ASSUME NEW c \in Clients, BeginRequest(c)
          PROVE  cache' = cache
      BY <2>1 DEF BeginRequest, BeginCreate, BeginGet, BeginDelete, BeginUpdate,
                  BeginUpdateUnhashable, Begin
    <2>2. ASSUME NEW c \in Clients, Call(c)
          PROVE  cache' = cache \/ cache' = [cache EXCEPT ![req[c].id] = None] \/ CacheSet(c)
      BY <2>2 DEF Call, GetByEmail, Create, CreateRefused, SendWelcomeEmail, CacheGet, GetByID,
                  SelectRow, UpdateNothing, Update, UpdateRefused, Delete, DeleteRefused, CacheDelete
    <2>3. ASSUME NEW c \in Clients, Fault(c)
          PROVE  cache' = cache
      BY <2>3 DEF Fault, DbFails, DbAnswerLost, CacheFails, Crash
    <2>4. ASSUME NEW i \in Ids, Expire(i)
          PROVE  cache' = [cache EXCEPT ![i] = None]
      BY <2>4 DEF Expire
    <2> QED BY <2>1, <2>2, <2>3, <2>4 DEF Next
  <1>2. ASSUME NEW c \in Clients, CacheSet(c)
        PROVE  cache'[id] = None
    <2>1. user[c] # None /\ user[c].id # id
      BY <1>2 DEF Inv, Prepared, PreparedFor, CacheSet, Gone
    <2> QED BY <1>2, <2>1 DEF Inv, TypeOK, CacheSet, Gone
  <1> QED BY <1>1, <1>2 DEF Inv, TypeOK, Gone

LEMMA GoneStep ==
  ASSUME Inv, Next, NEW id \in Ids, Gone(id)
  PROVE  Gone(id)' /\ LocalsSpare(id)
  <1>1. LocalsSpare(id)
    <2>1. ASSUME NEW i \in Ids, Expire(i)
          PROVE  LocalsSpare(id)
      BY <2>1, ProceedSpares DEF Expire
    <2>2. TypeOK
      BY DEF Inv
    <2> QED BY <2>1, <2>2, BeginSpares, CallSpares, FaultSpares DEF Next
  <1>2. db'[id] = None /\ cache'[id] = None
    BY GoneStays, CacheSpares DEF Gone
  <1>3. id < nextId'
    <2>1. nextId' = nextId \/ nextId' = nextId + 1
      BY DEF Next, BeginRequest, BeginCreate, BeginGet, BeginDelete, BeginUpdate,
             BeginUpdateUnhashable, Begin, Call, GetByEmail, Create, InsertRow, CreateRefused,
             SendWelcomeEmail, CacheGet, GetByID, SelectRow, UpdateNothing, Update, UpdateRow,
             UpdateRefused, Delete, DeleteRow, DeleteRefused, CacheDelete, CacheSet, Fault,
             DbFails, DbAnswerLost, CacheFails, Crash, Expire, table
    <2> QED BY <2>1 DEF Inv, TypeOK, Gone, Ids
  <1> QED BY <1>1, <1>2, <1>3 DEF Gone, LocalsSpare

\* A user of whom nothing is left stays so under every interleaving and fault, and
\* no caller ever sees the user again (GetUserByID, UpdateUser, DeleteUser).
THEOREM GoneIsGone == Spec => GoneForGood
  <1>1. Inv /\ [Next]_vars => [\A id \in Ids : Gone(id) =>
          /\ Gone(id)'
          /\ \A c \in Clients : result'[c] # result[c] /\ result'[c] # None /\ result'[c].user # None =>
               result'[c].user.id # id]_vars
    BY GoneStep DEF LocalsSpare
  <1> QED BY <1>1, Invariance, PTL DEF Spec, GoneForGood
============================================================================
