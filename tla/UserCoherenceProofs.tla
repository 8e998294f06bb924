------------------------ MODULE UserCoherenceProofs ------------------------
(***************************************************************************)
(* Why an undisturbed id is cached as it is stored: every request that     *)
(* will write its cache entry holds the row as it is now.                  *)
(***************************************************************************)
EXTENDS UserCoherence, UserServiceProofs

\* What c holds of id is what the table says of it.
Current(c, id) ==
  IF req[c].op = "delete" THEN db[id] = None
                          ELSE db[id] # None /\ Public(user[c]) = Public(db[id])

Agrees(id) ==
  /\ \A c \in Holders(id) : Current(c, id)
  /\ (\A c \in Holders(id) : ~Writing(c)) => Coherent(id)

\* The inductive invariant.
CInv ==
  /\ Inv
  /\ disturbed \in [Ids -> BOOLEAN]
  /\ \A id \in Ids : ~disturbed[id] => Agrees(id)

----------------------------------------------------------------------------
(* Steps, seen from one id.                                                *)

\* A step after which the request does not hold the id, and which leaves the
\* id's row: the entry is dropped, or kept, or what the request held.
LEMMA LeaveAgrees ==
  ASSUME NEW c \in Clients, NEW id \in Ids, OthersSame(c), Agrees(id),
         c \notin Holders(id)', db'[id] = db[id],
         \/ cache'[id] = None
         \/ cache'[id] = cache[id] /\ ~(c \in Holders(id) /\ Writing(c))
         \/ c \in Holders(id) /\ req[c].op # "delete" /\ cache'[id] = user[c]
  PROVE  Agrees(id)'
  <1>1. Holders(id)' = Holders(id) \ {c}
    BY DEF OthersSame, Holders
  <1>2. \A d \in Holders(id)' : d # c /\ req'[d] = req[d] /\ user'[d] = user[d]
    BY <1>1 DEF OthersSame, Holders
  <1>3. \A d \in Holders(id)' : (Current(d, id) <=> Current(d, id)') /\ (Writing(d) <=> Writing(d)')
    BY <1>2 DEF Current, Writing
  <1>4. (\A d \in Holders(id)' : ~Writing(d)') => Coherent(id)'
    <2>1. CASE cache'[id] = None
      BY <2>1 DEF Coherent
    <2>2. CASE cache'[id] = cache[id] /\ ~(c \in Holders(id) /\ Writing(c))
      BY <1>1, <1>3, <2>2 DEF Agrees, Coherent
    <2>3. CASE c \in Holders(id) /\ req[c].op # "delete" /\ cache'[id] = user[c]
      BY <2>3 DEF Agrees, Current, Coherent
    <2> QED BY <2>1, <2>2, <2>3
  <1> QED BY <1>1, <1>3, <1>4 DEF Agrees

\* A request goes on holding the id; the entry is kept or dropped.
LEMMA StayAgrees ==
  ASSUME NEW c \in Clients, NEW id \in Ids, OthersSame(c), Agrees(id),
         c \in Holders(id), c \in Holders(id)', req'[c] = req[c], user'[c] = user[c],
         db'[id] = db[id], cache'[id] = cache[id] \/ cache'[id] = None
  PROVE  Agrees(id)'
  <1>1. Holders(id)' = Holders(id)
    BY DEF OthersSame, Holders
  <1>2. \A d \in Holders(id) : req'[d] = req[d] /\ user'[d] = user[d]
    BY DEF OthersSame, Holders
  <1>3. \A d \in Holders(id) : (Current(d, id) <=> Current(d, id)') /\ (Writing(d) <=> Writing(d)')
    BY <1>2 DEF Current, Writing
  <1>4. Coherent(id) => Coherent(id)'
    BY DEF Coherent
  <1> QED BY <1>1, <1>3, <1>4 DEF Agrees

\* A request starts to hold the id, with what the table then says, alone if it
\* changed the row.
LEMMA JoinAgrees ==
  ASSUME NEW c \in Clients, NEW id \in Ids, OthersSame(c), Agrees(id),
         c \notin Holders(id), c \in Holders(id)', Current(c, id)', cache'[id] = cache[id],
         db'[id] = db[id] \/ (Holders(id) = {} /\ (Writing(c)' \/ cache[id] = None))
  PROVE  Agrees(id)'
  <1>1. Holders(id)' = Holders(id) \union {c}
    BY DEF OthersSame, Holders
  <1>2. \A d \in Holders(id) : d # c /\ req'[d] = req[d] /\ user'[d] = user[d]
    BY DEF OthersSame, Holders
  <1>3. CASE db'[id] = db[id]
    <2>1. \A d \in Holders(id) : (Current(d, id) <=> Current(d, id)') /\ (Writing(d) <=> Writing(d)')
      BY <1>2, <1>3 DEF Current, Writing
    <2>2. Coherent(id) => Coherent(id)'
      BY <1>3 DEF Coherent
    <2> QED BY <1>1, <2>1, <2>2 DEF Agrees
  <1>4. CASE Holders(id) = {} /\ (Writing(c)' \/ cache[id] = None)
    <2>1. cache[id] = None => Coherent(id)'
      BY DEF Coherent
    <2> QED BY <1>1, <1>4, <2>1 DEF Agrees
  <1> QED BY <1>3, <1>4

\* The id's entry is gone and nobody will write it.
LEMMA SettledAgrees ==
  ASSUME NEW id \in Ids, Settled(id)
  PROVE  Agrees(id)'
  BY DEF Settled, Agrees, Coherent

\* A request that does not write the cache next holds nothing.
LEMMA NotHolding ==
  ASSUME NEW c \in Clients, NEW id \in Ids
  PROVE  /\ pc[c] \notin {"CacheDelete", "CacheSet"} => c \notin Holders(id)
         /\ req[c].id # id => c \notin Holders(id)
         /\ pc'[c] \notin {"CacheDelete", "CacheSet"} => c \notin Holders(id)'
         /\ req'[c].id # id => c \notin Holders(id)'
  BY DEF Holders

----------------------------------------------------------------------------
(* The steps.                                                              *)

\* A step that only moves a request which is not at a cache write, to its end
\* or to a call that is not one.
LEMMA MoveAgrees ==
  ASSUME NEW c \in Clients, NEW id \in Ids, TypeOK, OthersSame(c), Agrees(id),
         pc[c] \notin {"CacheDelete", "CacheSet"}, pc'[c] \notin {"CacheDelete", "CacheSet"},
         db'[id] = db[id], cache'[id] = cache[id]
  PROVE  Agrees(id)'
  BY NotHolding, LeaveAgrees

LEMMA BeginAgrees ==
  ASSUME NEW c \in Clients, NEW id \in Ids, CInv, BeginRequest(c), ~disturbed[id]
  PROVE  Agrees(id)'
  <1>1. TypeOK /\ OthersSame(c) /\ Agrees(id)
    BY BeginOthersSame DEF CInv, Inv
  <1>2. /\ pc[c] = "idle" /\ pc'[c] \notin {"CacheDelete", "CacheSet"}
        /\ UNCHANGED <<db, cache>>
    BY <1>1 DEF TypeOK, BeginRequest, BeginCreate, BeginGet, BeginDelete, BeginUpdate,
                BeginUpdateUnhashable, Begin, Goto, Return, Finish, table
  <1> QED BY <1>1, <1>2, MoveAgrees

LEMMA SelectAgrees ==
  ASSUME NEW c \in Clients, NEW id \in Ids, CInv, GetByID(c) \/ UpdateNothing(c), ~disturbed[id]
  PROVE  Agrees(id)'
  <1>1. TypeOK /\ OthersSame(c) /\ Agrees(id) /\ PreparedFor(c)
    BY CallOthersSame DEF CInv, Inv, Prepared, Call
  <1>2. /\ pc[c] \in {"GetByID", "Update"} /\ UNCHANGED <<db, cache>>
        /\ req[c].op \in {"get", "update"}
        /\ \/ Return(c, "NOT_FOUND", None)
           \/ /\ user' = [user EXCEPT ![c] = db[req[c].id]] /\ UNCHANGED req
              /\ db[req[c].id] # None
              /\ Goto(c, "CacheSet") \/ Goto(c, "CacheDelete")
    BY <1>1 DEF GetByID, UpdateNothing, SelectRow, table, PreparedFor
  <1>3. CASE Return(c, "NOT_FOUND", None)
    BY <1>1, <1>2, <1>3, ReturnMoves, MoveAgrees
  <1>4. CASE /\ user' = [user EXCEPT ![c] = db[req[c].id]] /\ UNCHANGED req
             /\ db[req[c].id] # None
             /\ Goto(c, "CacheSet") \/ Goto(c, "CacheDelete")
    <2>1. pc'[c] \in {"CacheSet", "CacheDelete"} /\ user'[c] = db[req[c].id] /\ req' = req
      BY <1>1, <1>4 DEF TypeOK, Goto
    <2>2. c \notin Holders(id)
      BY <1>2 DEF Holders
    <2>3. CASE req[c].id = id
      <3>1. c \in Holders(id)' /\ Current(c, id)'
        BY <1>2, <1>4, <2>1, <2>3 DEF Holders, Current
      <3> QED BY <1>1, <1>2, <2>2, <3>1, JoinAgrees
    <2>4. CASE req[c].id # id
      <3>1. c \notin Holders(id)'
        BY <2>1, <2>4 DEF Holders
      <3> QED BY <1>1, <1>2, <2>2, <3>1, LeaveAgrees
    <2> QED BY <2>3, <2>4
  <1> QED BY <1>2, <1>3, <1>4

\* An INSERT gives a number nobody has cached and no request holds.
LEMMA CreateAgrees ==
  ASSUME NEW c \in Clients, NEW id \in Ids, CInv, Create(c), ~disturbed[id]
  PROVE  Agrees(id)'
  <1> DEFINE row == NewRow(c)
  <1>1. TypeOK /\ OthersSame(c) /\ Agrees(id) /\ PreparedFor(c)
    BY CallOthersSame DEF CInv, Inv, Prepared, Call
  <1>2. /\ pc[c] = "Create" /\ nextId \in Ids /\ db' = [db EXCEPT ![nextId] = row]
        /\ user' = [user EXCEPT ![c] = Public(row)] /\ req' = [req EXCEPT ![c].id = nextId]
        /\ Goto(c, "CacheSet") /\ cache' = cache
    BY DEF Create, InsertRow
  <1>3. row \in Users /\ Public(row) \in Users /\ row # None
    BY <1>1, <1>2, NewRowType, RowsAreUsers, PublicType
  <1>4. req[c].op = "create" /\ c \notin Holders(id)
    BY <1>1, <1>2 DEF PreparedFor, Holders
  <1>5. pc'[c] = "CacheSet" /\ user'[c] = Public(row) /\ req'[c].id = nextId /\ req'[c].op = "create"
    BY <1>1, <1>2, <1>4 DEF TypeOK, Goto, Requests
  <1> HIDE DEF row
  <1>6. CASE id = nextId
    <2>1. Holders(id) = {}
      BY <1>6 DEF CInv, Inv, TypeOK, Prepared, PreparedFor, Holders
    <2>2. cache[id] = None
      BY <1>6 DEF CInv, Inv, TypeOK, Numbered
    <2>3. db'[id] = row
      BY <1>1, <1>2, <1>6 DEF TypeOK
    <2>4. c \in Holders(id)' /\ Current(c, id)'
      BY <1>3, <1>5, <1>6, <2>3, PublicTwice DEF Holders, Current
    <2> QED BY <1>1, <1>2, <1>4, <2>1, <2>2, <2>4, JoinAgrees
  <1>7. CASE id # nextId
    <2>1. c \notin Holders(id)' /\ db'[id] = db[id] /\ cache'[id] = cache[id]
      BY <1>1, <1>2, <1>5, <1>7 DEF TypeOK, Holders
    <2> QED BY <1>1, <1>4, <2>1, LeaveAgrees
  <1> QED BY <1>6, <1>7

\* An UPDATE or a DELETE is alone with the row, or does not change it.
LEMMA WriteAgrees ==
  ASSUME NEW c \in Clients, NEW id \in Ids, CInv, Update(c) \/ Delete(c),
         ~disturbed[id], ~OverlappedCommit(id)
  PROVE  Agrees(id)'
  <1>1. TypeOK /\ OthersSame(c) /\ Agrees(id) /\ PreparedFor(c)
    BY CallOthersSame DEF CInv, Inv, Prepared, Call
  <1>2. /\ pc[c] \in {"Update", "Delete"} /\ Goto(c, "CacheDelete")
        /\ UNCHANGED <<cache, req>> /\ db[req[c].id] # None
        /\ \E new : db' = [db EXCEPT ![req[c].id] = new]
    BY DEF Update, UpdateRow, Delete, DeleteRow
  <1>3. c \notin Holders(id) /\ pc'[c] = "CacheDelete"
    BY <1>1, <1>2 DEF TypeOK, Goto, Holders
  <1>4. CASE req[c].id # id
    <2>1. c \notin Holders(id)' /\ db'[id] = db[id]
      BY <1>1, <1>2, <1>4 DEF TypeOK, Holders
    <2> QED BY <1>1, <1>2, <1>3, <2>1, LeaveAgrees
  <1>5. CASE req[c].id = id
    <2>1. c \in Holders(id)' /\ db[id] # None
      BY <1>2, <1>3, <1>5 DEF Holders
    <2>2. db'[id] = db[id] \/ Holders(id) = {}
      BY <2>1 DEF OverlappedCommit
    <2>3. Writing(c)' /\ Current(c, id)'
      <3>1. CASE Update(c)
        <4>1. /\ req[c].op = "update" /\ ~NoFields(req[c].input) /\ req' = req
              /\ req[c].input \in Updates /\ req[c].input.password \notin Unhashable
          BY <1>1, <3>1 DEF Update, UpdateRow, PreparedFor, TypeOK, Requests
        <4>2. db[id] \in Rows
          BY <1>1, <2>1 DEF TypeOK
        <4>3. db'[id] = Merge(db[id], req[c].input) /\ user'[c] = Public(db'[id])
          BY <1>1, <1>5, <3>1 DEF Update, UpdateRow, TypeOK
        <4>4. db'[id] \in Users /\ db'[id] # None
          BY <4>1, <4>2, <4>3, MergeType, RowsAreUsers
        <4> QED BY <4>1, <4>3, <4>4, PublicTwice DEF Writing, Current, NoFields
      <3>2. CASE Delete(c)
        <4>1. req[c].op = "delete" /\ req' = req /\ db'[id] = None
          BY <1>1, <1>5, <3>2 DEF Delete, DeleteRow, PreparedFor, TypeOK
        <4> QED BY <4>1 DEF Writing, Current
      <3> QED BY <3>1, <3>2
    <2> QED BY <1>1, <1>2, <1>3, <2>1, <2>2, <2>3, JoinAgrees
  <1> QED BY <1>4, <1>5

\* A cache write, done or failed, after which the entry is dropped, kept, or
\* what the request held.
LEMMA CacheWriteAgrees ==
  ASSUME NEW c \in Clients, NEW id \in Ids, CInv, ~disturbed[id], OthersSame(c),
         \/ pc[c] = "CacheDelete" /\ AfterCacheDelete(c)
         \/ pc[c] = "CacheSet" /\ AfterCacheSet(c),
         db' = db,
         req[c].id # id => cache'[id] = cache[id],
         req[c].id = id /\ pc[c] = "CacheDelete" /\ req[c].op = "update" =>
           cache'[id] \in {None, cache[id]},
         req[c].id = id /\ pc[c] = "CacheDelete" /\ req[c].op = "delete" => cache'[id] = None,
         req[c].id = id /\ pc[c] = "CacheSet" =>
           cache'[id] = user[c] \/ (cache'[id] = cache[id] /\ ~Writing(c))
  PROVE  Agrees(id)'
  <1>1. TypeOK /\ Agrees(id) /\ PreparedFor(c)
    BY DEF CInv, Inv, Prepared
  <1>2. CASE req[c].id # id
    <2>1. c \notin Holders(id)
      BY <1>2 DEF Holders
    <2>2. c \notin Holders(id)'
      BY <1>1, <1>2, ReturnMoves, ProceedMoves, NotHolding DEF AfterCacheDelete, AfterCacheSet
    <2> QED BY <1>1, <1>2, <2>1, <2>2, LeaveAgrees
  <1>3. CASE req[c].id = id
    <2>1. c \in Holders(id)
      BY <1>3 DEF Holders
    <2>2. CASE pc[c] = "CacheDelete" /\ req[c].op = "update" /\ Proceed(c, "CacheSet")
      <3>1. c \in Holders(id)' /\ req'[c] = req[c] /\ user'[c] = user[c]
        BY <1>1, <1>3, <2>2, ProceedMoves DEF Holders
      <3> QED BY <1>1, <1>3, <2>1, <2>2, <3>1, StayAgrees
    <2>3. CASE pc[c] = "CacheDelete" /\ req[c].op = "delete" /\ Return(c, "OK", None)
      <3>1. c \notin Holders(id)'
        BY <1>1, <2>3, ReturnMoves, NotHolding
      <3> QED BY <1>1, <1>3, <2>3, <3>1, LeaveAgrees
    <2>4. CASE pc[c] = "CacheSet" /\ AfterCacheSet(c)
      <3>1. c \notin Holders(id)'
        BY <1>1, <2>4, ReturnMoves, ProceedMoves, NotHolding DEF AfterCacheSet
      <3>2. req[c].op # "delete"
        BY <1>1, <2>4 DEF PreparedFor
      <3> QED BY <1>1, <1>3, <2>1, <2>4, <3>1, <3>2, LeaveAgrees
    <2> QED BY <2>2, <2>3, <2>4 DEF AfterCacheDelete
  <1> QED BY <1>2, <1>3

LEMMA CallAgrees ==
  ASSUME NEW c \in Clients, NEW id \in Ids, CInv, Call(c), ~disturbed[id], ~OverlappedCommit(id)
  PROVE  Agrees(id)'
  <1>1. TypeOK /\ OthersSame(c) /\ Agrees(id) /\ PreparedFor(c)
    BY CallOthersSame DEF CInv, Inv, Prepared
  <1>2. CASE \/ GetByEmail(c) \/ CreateRefused(c) \/ SendWelcomeEmail(c) \/ CacheGet(c)
             \/ UpdateRefused(c) \/ DeleteRefused(c)
    <2>1. /\ pc[c] \notin {"CacheDelete", "CacheSet"} /\ UNCHANGED <<db, cache>>
          /\ \/ \E code, u : Return(c, code, u)
             \/ Proceed(c, "Create") \/ Proceed(c, "GetByID")
      BY <1>2 DEF GetByEmail, Hash, CreateRefused, SendWelcomeEmail, CacheGet, UpdateRefused,
                  DeleteRefused, table
    <2>2. pc'[c] \notin {"CacheDelete", "CacheSet"}
      BY <1>1, <2>1, ReturnMoves, ProceedMoves
    <2> QED BY <1>1, <2>1, <2>2, MoveAgrees
  <1>3. CASE GetByID(c) \/ UpdateNothing(c)
    BY <1>3, SelectAgrees
  <1>4. CASE Create(c)
    BY <1>4, CreateAgrees
  <1>5. CASE Update(c) \/ Delete(c)
    BY <1>5, WriteAgrees
  <1>6. CASE CacheDelete(c)
    <2>1. /\ pc[c] = "CacheDelete" /\ AfterCacheDelete(c) /\ db' = db
          /\ cache' = [cache EXCEPT ![req[c].id] = None]
      BY <1>6 DEF CacheDelete, table
    <2>2. (req[c].id # id => cache'[id] = cache[id]) /\ (req[c].id = id => cache'[id] = None)
      BY <1>1, <2>1 DEF TypeOK
    <2> QED BY <1>1, <2>1, <2>2, CacheWriteAgrees
  <1>7. CASE CacheSet(c)
    <2>1. /\ pc[c] = "CacheSet" /\ AfterCacheSet(c) /\ db' = db
          /\ cache' = [cache EXCEPT ![req[c].id] = user[c]]
      BY <1>1, <1>7 DEF CacheSet, table, PreparedFor
    <2>2. (req[c].id # id => cache'[id] = cache[id]) /\ (req[c].id = id => cache'[id] = user[c])
      BY <1>1, <2>1 DEF TypeOK
    <2> QED BY <1>1, <2>1, <2>2, CacheWriteAgrees
  <1> QED BY <1>2, <1>3, <1>4, <1>5, <1>6, <1>7 DEF Call

LEMMA FaultAgrees ==
  ASSUME NEW c \in Clients, NEW id \in Ids, CInv, Fault(c), ~disturbed[id], ~FaultDisturbs(id)
  PROVE  Agrees(id)' \/ Settled(id)
  <1>1. TypeOK /\ OthersSame(c) /\ Agrees(id) /\ PreparedFor(c)
    BY FaultOthersSame DEF CInv, Inv, Prepared
  <1>2. CASE DbFails(c)
    <2>1. /\ pc[c] \notin {"CacheDelete", "CacheSet"} /\ UNCHANGED <<db, cache>>
          /\ (\E code, u : Return(c, code, u)) \/ Proceed(c, "Create")
      BY <1>2 DEF DbFails, Hash, table
    <2>2. pc'[c] \notin {"CacheDelete", "CacheSet"}
      BY <1>1, <2>1, ReturnMoves, ProceedMoves
    <2> QED BY <1>1, <2>1, <2>2, MoveAgrees
  <1>3. CASE DbAnswerLost(c)
    <2>1. /\ pc[c] \in {"Create", "Update", "Delete"} /\ cache' = cache
          /\ \E code, u : Return(c, code, u)
          /\ InsertRow(c) \/ UpdateRow(c) \/ DeleteRow(c)
      BY <1>3 DEF DbAnswerLost, InsertRow, UpdateRow, DeleteRow
    <2>2. pc'[c] = "idle" /\ c \notin Holders(id) /\ c \notin Holders(id)'
      BY <1>1, <2>1, ReturnMoves, NotHolding
    <2>3. Holders(id)' = Holders(id)
      BY <1>1, <2>2 DEF OthersSame, Holders
    <2>4. CASE db'[id] = db[id]
      BY <1>1, <2>1, <2>2, <2>4, LeaveAgrees
    <2>5. CASE db'[id] # db[id] /\ db[id] # None
      BY <2>3, <2>5 DEF FaultDisturbs, OverlappedCommit, LostCommit
    <2>6. CASE db'[id] # db[id] /\ db[id] = None
      <3>1. id = nextId
        <4>1. \E k, new : /\ db' = [db EXCEPT ![k] = new]
                          /\ k = nextId \/ db[k] # None
          BY <2>1 DEF InsertRow, UpdateRow, DeleteRow
        <4> QED BY <1>1, <2>6, <4>1 DEF TypeOK
      <3>2. Holders(id) = {}
        BY <3>1 DEF CInv, Inv, TypeOK, Prepared, PreparedFor, Holders
      <3>3. cache'[id] = None
        BY <2>1, <3>1 DEF CInv, Inv, TypeOK, Numbered
      <3> QED BY <2>3, <3>2, <3>3 DEF Settled
    <2> QED BY <2>4, <2>5, <2>6
  <1>4. CASE CacheFails(c)
    <2>1. UNCHANGED <<db, cache>>
      BY <1>4 DEF CacheFails, table
    <2>2. CASE pc[c] = "CacheGet" /\ Proceed(c, "GetByID")
      BY <1>1, <2>1, <2>2, ProceedMoves, MoveAgrees
    <2>3. CASE \/ pc[c] = "CacheDelete" /\ AfterCacheDelete(c)
               \/ pc[c] = "CacheSet" /\ AfterCacheSet(c)
      <3>1. c \in Holders(id) /\ Writing(c) /\ c \notin Holders(id)' => cache'[id] = Wanted(c)
        BY DEF FaultDisturbs, UnfinishedWrite
      <3>2. pc[c] = "CacheSet" => pc'[c] \in {"idle", "SendWelcomeEmail"}
        BY <1>1, <2>3, ReturnMoves, ProceedMoves DEF AfterCacheSet
      <3>3. pc[c] = "CacheDelete" /\ req[c].op = "delete" => pc'[c] = "idle"
        BY <1>1, <2>3, ReturnMoves DEF AfterCacheDelete
      <3>4. req[c].id = id => c \in Holders(id)
        BY <2>3 DEF Holders
      <3>5. req[c].id = id /\ pc[c] = "CacheDelete" /\ req[c].op = "delete" => cache'[id] = None
        BY <3>1, <3>3, <3>4, NotHolding DEF Writing, Wanted
      <3>6. req[c].id = id /\ pc[c] = "CacheSet" =>
              cache'[id] = user[c] \/ (cache'[id] = cache[id] /\ ~Writing(c))
        BY <1>1, <2>1, <3>1, <3>2, <3>4, NotHolding DEF Wanted, PreparedFor
      <3> QED BY <1>1, <2>1, <2>3, <3>5, <3>6, CacheWriteAgrees
    <2> QED BY <1>4, <2>2, <2>3 DEF CacheFails
  <1>5. CASE Crash(c)
    <2>1. pc'[c] = "idle" /\ UNCHANGED <<db, cache>>
      BY <1>1, <1>5 DEF TypeOK, Crash, Finish, Goto, table
    <2>2. c \notin Holders(id)'
      BY <2>1, NotHolding
    <2>3. c \in Holders(id) /\ Writing(c) => cache'[id] = Wanted(c)
      BY <2>2 DEF FaultDisturbs, UnfinishedWrite
    <2>4. \/ cache'[id] = None
          \/ cache'[id] = cache[id] /\ ~(c \in Holders(id) /\ Writing(c))
          \/ c \in Holders(id) /\ req[c].op # "delete" /\ cache'[id] = user[c]
      BY <2>1, <2>3 DEF Wanted
    <2> QED BY <1>1, <2>1, <2>2, <2>4, LeaveAgrees
  <1> QED BY <1>2, <1>3, <1>4, <1>5 DEF Fault

LEMMA ExpireAgrees ==
  ASSUME NEW id \in Ids, NEW k \in Ids, Expire(k), CInv, ~disturbed[id]
  PROVE  Agrees(id)'
  <1>1. Agrees(id) /\ TypeOK
    BY DEF CInv, Inv
  <1>2. cache'[id] = cache[id] \/ cache'[id] = None
    BY <1>1 DEF Expire, TypeOK
  <1>3. UNCHANGED <<db, pc, req, user>>
    BY DEF Expire, table
  <1> QED BY <1>1, <1>2, <1>3 DEF Agrees, Holders, Current, Writing, Coherent, NoFields

----------------------------------------------------------------------------
(* The theorems.                                                           *)

LEMMA CInitInv == CInit => CInv
  <1> SUFFICES ASSUME CInit PROVE CInv
    OBVIOUS
  <1>1. Inv
    BY InitInv DEF CInit
  <1>2. \A id \in Ids : Agrees(id)
    BY DEF CInit, Init, Agrees, Holders, Coherent
  <1> QED BY <1>1, <1>2 DEF CInv, CInit

LEMMA CNextIsNext == CNext => Next
  BY DEF CNext, Next

LEMMA CNextInv == CInv /\ [CNext]_cvars => CInv'
  <1> SUFFICES ASSUME CInv, [CNext]_cvars PROVE CInv'
    OBVIOUS
  <1>1. CASE UNCHANGED cvars
    <2>1. Inv'
      BY <1>1, NextInv DEF cvars, CInv
    <2>2. UNCHANGED <<db, cache, pc, req, user, disturbed>>
      BY <1>1 DEF cvars, vars
    <2> QED BY <2>1, <2>2 DEF CInv, Agrees, Holders, Current, Writing, Coherent, NoFields
  <1>2. CASE CNext
    <2>1. Inv'
      BY <1>2, CNextIsNext, NextInv DEF CInv
    <2>2. disturbed' \in [Ids -> BOOLEAN]
      BY <1>2 DEF CNext, Watch, CInv
    <2>3. ASSUME NEW id \in Ids, ~disturbed'[id]
          PROVE  Agrees(id)'
      <3>1. CASE Settled(id)
        BY <3>1, SettledAgrees
      <3>2. CASE ~Settled(id) /\ \E c \in Clients : (BeginRequest(c) \/ Call(c)) /\ Watch(OverlappedCommit)
        <4>1. ~disturbed[id] /\ ~OverlappedCommit(id)
          BY <2>3, <3>2 DEF Watch, CInv
        <4> QED BY <3>2, <4>1, BeginAgrees, CallAgrees
      <3>3. CASE ~Settled(id) /\ \E c \in Clients : Fault(c) /\ Watch(FaultDisturbs)
        <4>1. ~disturbed[id] /\ ~FaultDisturbs(id)
          BY <2>3, <3>3 DEF Watch, CInv
        <4> QED BY <3>3, <4>1, FaultAgrees
      <3>4. CASE ~Settled(id) /\ \E k \in Ids : Expire(k) /\ Watch(OverlappedCommit)
        <4>1. ~disturbed[id]
          BY <2>3, <3>4 DEF Watch, CInv
        <4> QED BY <3>4, <4>1, ExpireAgrees
      <3> QED BY <1>2, <3>1, <3>2, <3>3, <3>4 DEF CNext
    <2> QED BY <2>1, <2>2, <2>3 DEF CInv
  <1> QED BY <1>1, <1>2

THEOREM CoherenceInvariance == CSpec => []CInv
  BY CInitInv, CNextInv, PTL DEF CSpec

\* The cache says what the table says of every id that no overlapping commit,
\* lost commit or unfinished write has disturbed.
THEOREM UndisturbedIsCoherent == CSpec => []CoherentUnlessDisturbed
  <1>1. CInv => CoherentUnlessDisturbed
    BY DEF CInv, CoherentUnlessDisturbed, Agrees
  <1> QED BY <1>1, CoherenceInvariance, PTL

\* Only the request itself ends it, with what the cache or its user says.
LEMMA ReadAnswer ==
  ASSUME NEW c \in Clients, TypeOK, PreparedFor(c), CNext,
         pc[c] = "CacheGet" \/ (pc[c] = "CacheSet" /\ req[c].op = "get"),
         pc'[c] = "idle", result'[c] # result[c]
  PROVE  \/ pc[c] = "CacheGet" /\ cache[req[c].id] # None /\ result'[c].user = cache[req[c].id]
         \/ pc[c] = "CacheSet" /\ result'[c].user = user[c]
  <1>1. BeginRequest(c) \/ Call(c) \/ Fault(c)
    <2>1. \A d \in Clients : BeginRequest(d) \/ Call(d) \/ Fault(d) => d = c
      BY BeginOthersSame, CallOthersSame, FaultOthersSame DEF OthersSame
    <2>2. \A id \in Ids : ~Expire(id)
      BY DEF Expire
    <2> QED BY <2>1, <2>2 DEF CNext
  <1>2. ~BeginRequest(c)
    BY DEF BeginRequest, BeginCreate, BeginGet, BeginDelete, BeginUpdate, BeginUpdateUnhashable, Begin
  <1>3. \A code, u : Return(c, code, u) => result'[c].user = u
    BY DEF TypeOK, Return
  <1>4. CASE pc[c] = "CacheGet"
    <2>1. ~Proceed(c, "GetByID") /\ ~(UNCHANGED result)
      BY <1>4, ProceedMoves
    <2>2. CacheGet(c) \/ CacheFails(c) \/ Crash(c)
      BY <1>1, <1>2, <1>4 DEF Call, Fault, GetByEmail, Create, InsertRow, CreateRefused,
         SendWelcomeEmail, GetByID, UpdateNothing, Update, UpdateRow, UpdateRefused, Delete,
         DeleteRow, DeleteRefused, CacheDelete, CacheSet, DbFails, DbAnswerLost
    <2>3. CacheGet(c)
      BY <1>4, <2>1, <2>2 DEF CacheFails, Crash
    <2> QED BY <1>3, <1>4, <2>1, <2>3 DEF CacheGet
  <1>5. CASE pc[c] = "CacheSet" /\ req[c].op = "get"
    <2>1. CacheSet(c) \/ CacheFails(c) \/ Crash(c)
      BY <1>1, <1>2, <1>5 DEF Call, Fault, GetByEmail, Create, InsertRow, CreateRefused,
         SendWelcomeEmail, CacheGet, GetByID, UpdateNothing, Update, UpdateRow, UpdateRefused,
         Delete, DeleteRow, DeleteRefused, CacheDelete, DbFails, DbAnswerLost
    <2>2. AfterCacheSet(c)
      BY <1>5, <2>1 DEF CacheSet, CacheFails, Crash
    <2> QED BY <1>3, <1>5, <2>2 DEF AfterCacheSet
  <1> QED BY <1>4, <1>5

\* A GET of an undisturbed id answers the row as it is.
THEOREM UndisturbedReadsFresh == CSpec => UndisturbedReadsAreFresh
  <1>1. CInv /\ [CNext]_cvars => [\A c \in Clients : FreshRead(c)]_cvars
    <2> SUFFICES ASSUME CInv, CNext, NEW c \in Clients PROVE FreshRead(c)
      OBVIOUS
    <2> DEFINE id == req[c].id
    <2> SUFFICES ASSUME pc[c] = "CacheGet" \/ (pc[c] = "CacheSet" /\ req[c].op = "get"),
                        pc'[c] = "idle", result'[c] # result[c], ~disturbed[id],
                        \A d \in Holders(id) : ~Writing(d)
                 PROVE  db[id] # None /\ Public(result'[c].user) = Public(db[id])
      BY DEF FreshRead
    <2>1. TypeOK /\ PreparedFor(c) /\ id \in Ids
      <3>1. TypeOK /\ PreparedFor(c) /\ req[c] \in Requests
        BY DEF CInv, Inv, Prepared, TypeOK
      <3> QED BY <3>1 DEF PreparedFor, Requests
    <2>2. Agrees(id) /\ Coherent(id)
      BY <2>1 DEF CInv, Agrees
    <2>3. CASE pc[c] = "CacheGet" /\ cache[id] # None /\ result'[c].user = cache[id]
      BY <2>2, <2>3 DEF Coherent
    <2>4. CASE pc[c] = "CacheSet" /\ req[c].op = "get" /\ result'[c].user = user[c]
      BY <2>2, <2>4 DEF Agrees, Holders, Current
    <2> QED BY <2>1, <2>3, <2>4, ReadAnswer
  <1> QED BY <1>1, CoherenceInvariance, PTL DEF CSpec, UndisturbedReadsAreFresh
============================================================================
