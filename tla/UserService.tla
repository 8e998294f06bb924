---------------------------- MODULE UserService ----------------------------
(***************************************************************************)
(* The user service: requests that create, read, update and delete users   *)
(* against one PostgreSQL table, with a Redis cache in front of the reads.  *)
(*                                                                         *)
(* Every request runs in a goroutine of its own (HTTP or gRPC, of one or   *)
(* several server processes), and each call it makes to PostgreSQL or to   *)
(* Redis is one atomic step: between two calls any other request may run.  *)
(* pc[c] is the call that request c makes next.                            *)
(*                                                                         *)
(* A password stands for its bcrypt hash wherever a row or a user holds    *)
(* it.  Timestamps are left out.  None is Go's nil, an absent row, a cache *)
(* miss and the empty password.                                            *)
(***************************************************************************)
EXTENDS Integers, FiniteSets

CONSTANTS
  Clients,         \* requests that can be in flight at the same time
  MaxId,           \* bound: rows the table's sequence can number
  Names, Emails, Passwords,
  Unhashable,      \* the passwords bcrypt refuses (longer than 72 bytes)
  CreateInputs,    \* the bodies POST /users is called with
  UpdateInputs,    \* the bodies PUT /users/:id is called with
  EmailConfigured, \* whether SetEmailService was called
  Faults,          \* which of the dependencies may fail
  None

Ids == 1 .. MaxId
Hashes == Passwords \ Unhashable

\* domain.User, as a row of the table and as the code passes it around: the
\* statements that do not select the password leave it empty.
Rows  == [id : Ids, name : Names, email : Emails, password : Hashes]
Users == [id : Ids, name : Names, email : Emails, password : Hashes \union {None}]

Creates == [name : Names, email : Emails, password : Passwords]
Updates == [name : Names \union {None}, email : Emails \union {None},
            password : Passwords \union {None}]

Calls == {"idle", "GetByEmail", "Create", "CacheGet", "GetByID", "Update", "Delete",
          "CacheDelete", "CacheSet", "SendWelcomeEmail"}
Codes == {"OK", "NOT_FOUND", "CONFLICT", "INTERNAL_ERROR"}
Answers == [code : Codes, user : Users \union {None}]

Requests == [op : {"create"}, id : Ids \union {None}, input : Creates]
              \union [op : {"get", "delete"}, id : Ids \union {None}, input : {None}]
              \union [op : {"update"}, id : Ids, input : Updates]

ASSUME MaxIdAssumption == MaxId \in Nat
ASSUME InputAssumption == CreateInputs \subseteq Creates /\ UpdateInputs \subseteq Updates
ASSUME EmailAssumption == EmailConfigured \in BOOLEAN
ASSUME FaultAssumption == Faults \subseteq {"postgres", "redis", "process"}
ASSUME NoneAssumption ==
  /\ None \notin Names \union Emails \union Passwords
  /\ None \notin Ids \union Users \union Answers

VARIABLES
  db,      \* the users table: the row of each id, or None
  nextId,  \* the BIGSERIAL sequence
  cache,   \* the Redis keys user:<id>
  mailed,  \* ids whose welcome e-mail went to the provider
  pc,      \* the call each request makes next
  req,     \* the request: operation, id and decoded body
  user,    \* the local *domain.User of the request
  result   \* what the service returned, None while the request runs

vars == <<db, nextId, cache, mailed, pc, req, user, result>>
table == <<db, nextId>>

----------------------------------------------------------------------------
(* Helpers.                                                                *)

\* RETURNING id, name, email, ...: everything but the password.
Public(u) == [u EXCEPT !.password = None]

\* UNIQUE(email): some row other than that of id holds the address.
NoUniqueIndex(email, id) == FALSE
EmailTaken(email, id) == \E i \in Ids \ {id} : db[i] # None /\ db[i].email = email

Given(new, old) == IF new = None THEN old ELSE new

\* UPDATE users SET <the fields the body has>.
Merge(row, in) ==
  [row EXCEPT !.name     = Given(in.name, @),
              !.email    = Given(in.email, @),
              !.password = Given(in.password, @)]

\* The cache entry says what the table says.
Coherent(id) == cache[id] # None => db[id] # None /\ Public(cache[id]) = Public(db[id])

NoFields(in) == in.name = None /\ in.email = None /\ in.password = None

\* The row an INSERT writes, under the id the sequence gives it.
NewRow(c) == [id |-> nextId, name |-> req[c].input.name, email |-> req[c].input.email,
              password |-> req[c].input.password]

Goto(c, call) == pc' = [pc EXCEPT ![c] = call]

\* The goroutine's local variables are gone.
NoRequest == [op |-> "get", id |-> None, input |-> None]

Finish(c) ==
  /\ Goto(c, "idle")
  /\ req' = [req EXCEPT ![c] = NoRequest]
  /\ user' = [user EXCEPT ![c] = None]

\* The service returns to the handler.
Return(c, code, u) ==
  /\ Finish(c)
  /\ result' = [result EXCEPT ![c] = [code |-> code, user |-> u]]

\* The service goes on to its next call.
Proceed(c, call) == Goto(c, call) /\ UNCHANGED <<req, user, result>>

----------------------------------------------------------------------------
(* The initial state: an empty table and an empty cache.                   *)

Init ==
  /\ db = [i \in Ids |-> None]
  /\ nextId = 1
  /\ cache = [i \in Ids |-> None]
  /\ mailed = {}
  /\ pc = [c \in Clients |-> "idle"]
  /\ req = [c \in Clients |-> NoRequest]
  /\ user = [c \in Clients |-> None]
  /\ result = [c \in Clients |-> None]

----------------------------------------------------------------------------
(* A request arrives.                                                      *)

Begin(c, op, id, in, call) ==
  /\ pc[c] = "idle"
  /\ req' = [req EXCEPT ![c] = [op |-> op, id |-> id, input |-> in]]
  /\ result' = [result EXCEPT ![c] = None]
  /\ Goto(c, call)
  /\ UNCHANGED <<table, cache, mailed, user>>

\* The bound MaxId: every create that starts finds an id left for it.
Inserting == {d \in Clients : pc[d] \in {"GetByEmail", "Create"}}

BeginCreate(c) ==
  /\ nextId + Cardinality(Inserting) <= MaxId
  /\ \E in \in CreateInputs : Begin(c, "create", None, in, "GetByEmail")

BeginGet(c) == \E id \in Ids : Begin(c, "get", id, None, "CacheGet")
BeginDelete(c) == \E id \in Ids : Begin(c, "delete", id, None, "Delete")

\* Mutant: the error of GenerateFromPassword is not looked at.
BeginUpdateUnchecked(c) ==
  \E id \in Ids, in \in UpdateInputs : Begin(c, "update", id, in, "Update")

\* UpdateUser hashes a new password before it calls anything.
BeginUpdate(c) ==
  \E id \in Ids, in \in UpdateInputs :
    /\ in.password \notin Unhashable
    /\ Begin(c, "update", id, in, "Update")

BeginUpdateUnhashable(c) ==
  \E in \in UpdateInputs :
    /\ pc[c] = "idle"
    /\ in.password \in Unhashable
    /\ Return(c, "INTERNAL_ERROR", None)
    /\ UNCHANGED <<table, cache, mailed>>

BeginRequest(c) ==
  BeginCreate(c) \/ BeginGet(c) \/ BeginDelete(c) \/ BeginUpdate(c) \/ BeginUpdateUnhashable(c)

----------------------------------------------------------------------------
(* CreateUser: look for the e-mail, hash the password, insert, fill the    *)
(* cache, greet the new user.                                              *)

\* What follows the lookup when it found nothing, or failed.
HashUnchecked(c) == Proceed(c, "Create")
Hash(c) ==
  \/ req[c].input.password \in Unhashable /\ Return(c, "INTERNAL_ERROR", None)
  \/ req[c].input.password \notin Unhashable /\ Proceed(c, "Create")

GetByEmail(c) ==
  /\ pc[c] = "GetByEmail"
  /\ \/ EmailTaken(req[c].input.email, None) /\ Return(c, "CONFLICT", None)
     \/ ~EmailTaken(req[c].input.email, None) /\ Hash(c)
  /\ UNCHANGED <<table, cache, mailed>>

\* The INSERT that the unique index admits.
InsertRow(c) ==
  /\ pc[c] = "Create"
  /\ nextId \in Ids
  /\ ~EmailTaken(req[c].input.email, None)
  /\ db' = [db EXCEPT ![nextId] = NewRow(c)]
  /\ nextId' = nextId + 1

Create(c) ==
  /\ InsertRow(c)
  /\ user' = [user EXCEPT ![c] = Public(NewRow(c))]
  /\ req' = [req EXCEPT ![c].id = nextId]
  /\ Goto(c, "CacheSet")
  /\ UNCHANGED <<cache, mailed, result>>

\* The unique index refuses the row; the sequence has moved on all the same.
CreateRefused(c) ==
  /\ pc[c] = "Create"
  /\ nextId \in Ids
  /\ EmailTaken(req[c].input.email, None)
  /\ nextId' = nextId + 1
  /\ Return(c, "INTERNAL_ERROR", None)
  /\ UNCHANGED <<db, cache, mailed>>

SendWelcomeEmail(c) ==
  /\ pc[c] = "SendWelcomeEmail"
  /\ mailed' = mailed \union {req[c].id}
  /\ Return(c, "OK", user[c])
  /\ UNCHANGED <<table, cache>>

----------------------------------------------------------------------------
(* GetUserByID: the cache, then the table.                                 *)

CacheGet(c) ==
  /\ pc[c] = "CacheGet"
  /\ \/ cache[req[c].id] # None /\ Return(c, "OK", cache[req[c].id])
     \/ cache[req[c].id] = None /\ Proceed(c, "GetByID")
  /\ UNCHANGED <<table, cache, mailed>>

\* The SELECT by id, the password included, and what follows it.
SelectRow(c, next) ==
  /\ \/ db[req[c].id] = None /\ Return(c, "NOT_FOUND", None)
     \/ /\ db[req[c].id] # None
        /\ user' = [user EXCEPT ![c] = db[req[c].id]]
        /\ Goto(c, next)
        /\ UNCHANGED <<req, result>>
  /\ UNCHANGED <<table, cache, mailed>>

GetByID(c) == pc[c] = "GetByID" /\ SelectRow(c, "CacheSet")

----------------------------------------------------------------------------
(* UpdateUser and DeleteUser: the table, then the cache.                   *)

\* A body without fields makes the repository answer with a plain SELECT.
UpdateNothing(c) ==
  /\ pc[c] = "Update"
  /\ NoFields(req[c].input)
  /\ SelectRow(c, "CacheDelete")

\* UPDATE ... WHERE id = $n RETURNING, when the row and the index allow it.
UpdateRow(c) ==
  LET id == req[c].id
      new == Merge(db[id], req[c].input)
  IN /\ pc[c] = "Update"
     /\ ~NoFields(req[c].input)
     /\ db[id] # None
     /\ ~EmailTaken(new.email, id)
     /\ db' = [db EXCEPT ![id] = new]
     /\ UNCHANGED nextId

\* Mutant: the user returned is the row as it was.
UpdateReturnsOld(c) ==
  /\ UpdateRow(c)
  /\ user' = [user EXCEPT ![c] = Public(db[req[c].id])]
  /\ Goto(c, "CacheDelete")
  /\ UNCHANGED <<cache, mailed, req, result>>

Update(c) ==
  /\ UpdateRow(c)
  /\ user' = [user EXCEPT ![c] = Public(db'[req[c].id])]
  /\ Goto(c, "CacheDelete")
  /\ UNCHANGED <<cache, mailed, req, result>>

\* Mutant: the error is dropped, the fields asked for are taken as stored.
UpdateRefusedUnnoticed(c) ==
  LET id == req[c].id
  IN /\ pc[c] = "Update"
     /\ ~NoFields(req[c].input)
     /\ db[id] # None
     /\ EmailTaken(Merge(db[id], req[c].input).email, id)
     /\ user' = [user EXCEPT ![c] = Merge(db[id], req[c].input)]
     /\ Goto(c, "CacheDelete")
     /\ UNCHANGED <<table, cache, mailed, req, result>>

\* Mutant: without a row the fields of the body are taken for the updated user.
UpdateAbsentUnnoticed(c) ==
  LET in == req[c].input
  IN /\ pc[c] = "Update"
     /\ ~NoFields(in)
     /\ db[req[c].id] = None
     /\ user' = [user EXCEPT ![c] = [id |-> req[c].id, name |-> in.name, email |-> in.email,
                                     password |-> None]]
     /\ Goto(c, "CacheDelete")
     /\ UNCHANGED <<table, cache, mailed, req, result>>

\* No row, or an e-mail another row has: both are reported as "not found".
UpdateRefused(c) ==
  LET id == req[c].id
  IN /\ pc[c] = "Update"
     /\ ~NoFields(req[c].input)
     /\ db[id] # None => EmailTaken(Merge(db[id], req[c].input).email, id)
     /\ Return(c, "NOT_FOUND", None)
     /\ UNCHANGED <<table, cache, mailed>>

DeleteRow(c) ==
  /\ pc[c] = "Delete"
  /\ db[req[c].id] # None
  /\ db' = [db EXCEPT ![req[c].id] = None]
  /\ UNCHANGED nextId

Delete(c) ==
  /\ DeleteRow(c)
  /\ Goto(c, "CacheDelete")
  /\ UNCHANGED <<cache, mailed, req, user, result>>

DeleteRefused(c) ==
  /\ pc[c] = "Delete"
  /\ db[req[c].id] = None
  /\ Return(c, "NOT_FOUND", None)
  /\ UNCHANGED <<table, cache, mailed>>

----------------------------------------------------------------------------
(* The cache writes.  Their errors are dropped, so a failed call goes on   *)
(* as a successful one does.                                               *)

AfterCacheDelete(c) ==
  \/ req[c].op = "update" /\ Proceed(c, "CacheSet")
  \/ req[c].op = "delete" /\ Return(c, "OK", None)

AfterCacheSet(c) ==
  \/ req[c].op = "create" /\ EmailConfigured /\ Proceed(c, "SendWelcomeEmail")
  \/ ~(req[c].op = "create" /\ EmailConfigured) /\ Return(c, "OK", user[c])

\* Mutant: the key stays.
CacheKeeps(c) ==
  /\ pc[c] = "CacheDelete"
  /\ AfterCacheDelete(c)
  /\ UNCHANGED <<table, cache, mailed>>

CacheDelete(c) ==
  /\ pc[c] = "CacheDelete"
  /\ cache' = [cache EXCEPT ![req[c].id] = None]
  /\ AfterCacheDelete(c)
  /\ UNCHANGED <<table, mailed>>

CacheSet(c) ==
  /\ pc[c] = "CacheSet"
  /\ cache' = [cache EXCEPT ![user[c].id] = user[c]]
  /\ AfterCacheSet(c)
  /\ UNCHANGED <<table, mailed>>

\* Mutant: SET without a TTL.
NeverExpires(id) == FALSE /\ UNCHANGED vars

\* A key reaches its TTL of five minutes, or Redis evicts it or restarts:
\* it may go at any time.
Expire(id) ==
  /\ cache[id] # None
  /\ cache' = [cache EXCEPT ![id] = None]
  /\ UNCHANGED <<table, mailed, pc, req, user, result>>

----------------------------------------------------------------------------
(* Failures.  A statement or a command that fails, or whose caller gave up *)
(* (the request's context ends when its client disconnects), may or may    *)
(* not have taken effect.                                                  *)

\* Mutant: DeleteUser does not look at the error of the statement.
DbFailsUnnoticed(c) ==
  /\ "postgres" \in Faults
  /\ \/ pc[c] = "GetByEmail" /\ Hash(c)
     \/ pc[c] = "Create" /\ Return(c, "INTERNAL_ERROR", None)
     \/ pc[c] \in {"GetByID", "Update"} /\ Return(c, "NOT_FOUND", None)
     \/ pc[c] = "Delete" /\ Proceed(c, "CacheDelete")
  /\ UNCHANGED <<table, cache, mailed>>

\* PostgreSQL does nothing and the call fails.  CreateUser ignores the error
\* of its lookup; every other error becomes one code per operation.
DbFails(c) ==
  /\ "postgres" \in Faults
  /\ \/ pc[c] = "GetByEmail" /\ Hash(c)
     \/ pc[c] = "Create" /\ Return(c, "INTERNAL_ERROR", None)
     \/ pc[c] \in {"GetByID", "Update", "Delete"} /\ Return(c, "NOT_FOUND", None)
  /\ UNCHANGED <<table, cache, mailed>>

\* The statement commits and its answer is lost.
DbAnswerLost(c) ==
  /\ "postgres" \in Faults
  /\ \/ InsertRow(c) /\ Return(c, "INTERNAL_ERROR", None)
     \/ UpdateRow(c) /\ Return(c, "NOT_FOUND", None)
     \/ DeleteRow(c) /\ Return(c, "NOT_FOUND", None)
  /\ UNCHANGED <<cache, mailed>>

\* Redis does nothing and the call fails: a read goes on to the table, the
\* error of a write is dropped.  (A write that takes effect and whose answer
\* is lost is CacheDelete or CacheSet.)
CacheFails(c) ==
  /\ "redis" \in Faults
  /\ \/ pc[c] = "CacheGet" /\ Proceed(c, "GetByID")
     \/ pc[c] = "CacheDelete" /\ AfterCacheDelete(c)
     \/ pc[c] = "CacheSet" /\ AfterCacheSet(c)
  /\ UNCHANGED <<table, cache, mailed>>

\* The process running the request dies: nobody gets an answer.
Crash(c) ==
  /\ "process" \in Faults
  /\ pc[c] # "idle"
  /\ Finish(c)
  /\ UNCHANGED <<table, cache, mailed, result>>

----------------------------------------------------------------------------

\* The calls of a running request, when its dependencies answer.
Call(c) ==
  \/ GetByEmail(c) \/ Create(c) \/ CreateRefused(c) \/ SendWelcomeEmail(c)
  \/ CacheGet(c) \/ GetByID(c)
  \/ UpdateNothing(c) \/ Update(c) \/ UpdateRefused(c)
  \/ Delete(c) \/ DeleteRefused(c)
  \/ CacheDelete(c) \/ CacheSet(c)

Fault(c) == DbFails(c) \/ DbAnswerLost(c) \/ CacheFails(c) \/ Crash(c)

Next ==
  \/ \E c \in Clients : BeginRequest(c) \/ Call(c) \/ Fault(c)
  \/ \E id \in Ids : Expire(id)

Spec == Init /\ [][Next]_vars

\* A goroutine that can run does run, and Redis drops what reached its TTL.
\* That an entry which stays present expires although a later SET renews its
\* TTL is sound where Redis does not fail: a SET follows a miss or a DEL, so
\* only the requests already past them can renew an entry that stays.
Fairness ==
  /\ \A c \in Clients : WF_vars(Call(c))
  /\ \A id \in Ids : WF_vars(Expire(id))

FairSpec == Spec /\ Fairness

----------------------------------------------------------------------------
(* Properties.                                                             *)

\* Every variable has its type: in particular a row never holds a password
\* that bcrypt refused (CreateUser, UpdateUser), and no e-mail goes out for an
\* id the sequence has not given.
TypeOK ==
  /\ db \in [Ids -> Rows \union {None}]
  /\ nextId \in 1 .. MaxId + 1
  /\ cache \in [Ids -> Users \union {None}]
  /\ mailed \subseteq 1 .. nextId - 1
  /\ pc \in [Clients -> Calls]
  /\ req \in [Clients -> Requests]
  /\ user \in [Clients -> Users \union {None}]
  /\ result \in [Clients -> Answers \union {None}]

\* No two rows hold the same address, although CreateUser's lookup and its
\* INSERT are two steps and UpdateUser looks nothing up.
EmailsUnique ==
  \A i, j \in Ids : i # j /\ db[i] # None /\ db[j] # None => db[i].email # db[j].email

\* A row, and a cache entry, is that of its own id, and of an id the sequence
\* has given: cache.Set takes the key from the user it stores.
Numbered ==
  \A i \in Ids :
    /\ db[i] # None => db[i].id = i /\ i < nextId
    /\ cache[i] # None => cache[i].id = i /\ i < nextId

\* A request that is about to make a call has what the call needs: an INSERT
\* and an UPDATE a password that has been hashed, a cache write an id and the
\* user of that id.
PreparedFor(c) ==
  /\ pc[c] \in {"GetByEmail", "Create"} => req[c].op = "create" /\ req[c].id = None
  /\ pc[c] = "Create" => req[c].input.password \notin Unhashable
  /\ pc[c] \in {"CacheGet", "GetByID"} => req[c].op = "get" /\ req[c].id # None
  /\ pc[c] = "Update" => req[c].op = "update" /\ req[c].input.password \notin Unhashable
  /\ pc[c] = "Delete" => req[c].op = "delete" /\ req[c].id # None
  /\ pc[c] = "CacheDelete" => req[c].op \in {"update", "delete"}
  /\ pc[c] = "CacheSet" => req[c].op \in {"create", "get", "update"}
  /\ pc[c] = "SendWelcomeEmail" => req[c].op = "create"
  /\ pc[c] \in {"CacheDelete", "CacheSet", "SendWelcomeEmail"} =>
       /\ req[c].id # None /\ req[c].id < nextId
       /\ req[c].op # "delete" => user[c] # None /\ user[c].id = req[c].id

Prepared == \A c \in Clients : PreparedFor(c)

\* After a confirmed deletion, a GET of the user fails.
\* (internal/service/user_service_integration_test.go:156-159)
DeletedIsGone ==
  [][\A c \in Clients :
       pc[c] = "CacheGet" /\ result'[c] # None /\ db[req[c].id] = None =>
         \E d \in Clients : pc[d] = "CacheDelete" /\ req[d] = [op |-> "delete", id |-> req[c].id, input |-> None]]_vars

\* UpdateUser answers "user not found" when there is no such user: the only
\* failure its error names (internal/service/user_service.go:102).
NotFoundMeansAbsent ==
  [][\A c \in Clients :
       pc[c] = "Update" /\ result'[c] # None /\ result'[c].code = "NOT_FOUND" =>
         db[req[c].id] = None]_vars

\* Nothing is left of a user: no row, no cache entry, and no request that took
\* the user from the one and may still put it into the other.
Gone(id) ==
  /\ id < nextId /\ db[id] = None /\ cache[id] = None
  /\ \A c \in Clients : user[c] # None => user[c].id # id

\* Whoever is gone is gone for good: no read, update, insert, lost answer or
\* crash brings the user back into either store, nor is the user answered again.
GoneForGood ==
  [][\A id \in Ids : Gone(id) =>
       /\ Gone(id)'
       /\ \A c \in Clients : result'[c] # result[c] /\ result'[c] # None /\ result'[c].user # None =>
            result'[c].user.id # id]_vars

\* A reader that overtakes a deletion may leave the deleted user in the cache,
\* but not for ever: it goes, and does not come back.
GhostsExpire == \A id \in Ids : id < nextId /\ db[id] = None ~> [](cache[id] = None)

\* Once nobody changes users any more, cache and table come to agree for good,
\* whatever the writers, the readers that overlapped them, the lost answers and
\* the crashes have left behind (UpdateUser, DeleteUser, the TTL of cache.Set).
WritersGone == \A c \in Clients : req[c].op \notin {"update", "delete"}
EventuallyCoherent == <>[]WritersGone => \A id \in Ids : <>[]Coherent(id)
============================================================================
