----------------------------- MODULE UserPages -----------------------------
(***************************************************************************)
(* Listing users.  A client walks through the pages, newest user first,    *)
(* until one is not full; each page is a COUNT and a SELECT ... LIMIT ...  *)
(* OFFSET, and between any two statements users are created and deleted.   *)
(*                                                                         *)
(* Rows are their ids.  Integers have the width of Go's int, scaled down.  *)
(***************************************************************************)
EXTENDS Integers, FiniteSets

CONSTANTS
  MaxId,        \* bound: rows the sequence can number
  MaxInt,       \* the largest int
  MaxInt32,     \* the largest page number a gRPC message holds
  DefaultLimit, \* 10
  MaxLimit      \* 100, which only the gRPC handler enforces

ASSUME WidthAssumption ==
  /\ MaxInt \in Nat \ {0} /\ MaxInt32 \in 1 .. MaxInt
  /\ MaxLimit \in Nat /\ DefaultLimit \in 1 .. MaxLimit
  /\ MaxInt32 * MaxLimit <= MaxInt
ASSUME IdAssumption == MaxId \in 0 .. MaxInt \* a BIGSERIAL is no wider than an int

VARIABLES
  rows,    \* the ids in the table
  nextId,  \* the sequence
  pc,      \* "idle", "COUNT", "SELECT", or "done" when the walk is over
  via,     \* the transport
  filter,  \* domain.ListFilter of the page being read
  total,   \* the COUNT of that page
  first,   \* history: the page the walk began with
  start,   \* history: the rows there were when it began
  seen,    \* history: the rows it has been shown
  twice,   \* history: those it has been shown twice
  mishaps  \* history: what happened meanwhile

walk == <<via, filter, first, start>>
vars == <<rows, nextId, pc, walk, total, seen, twice, mishaps>>

Ints == -MaxInt - 1 .. MaxInt
Int32s == -MaxInt32 - 1 .. MaxInt32

\* Two's complement.
Wrap(n) == ((n + MaxInt + 1) % (2 * (MaxInt + 1))) - (MaxInt + 1)

Init ==
  /\ rows = {}
  /\ nextId = 1
  /\ pc = "idle"
  /\ via = "http"
  /\ filter = [page |-> 1, limit |-> DefaultLimit]
  /\ total = 0
  /\ first = 1
  /\ start = {} /\ seen = {} /\ twice = {} /\ mishaps = {}

----------------------------------------------------------------------------
(* The handlers, and UserService.ListUsers.                                *)

\* Mutant: only the page is normalised.
NormalPage(page, limit) == [page |-> IF page <= 0 THEN 1 ELSE page, limit |-> limit]

Normal(page, limit) ==
  [page |-> IF page <= 0 THEN 1 ELSE page, limit |-> IF limit <= 0 THEN DefaultLimit ELSE limit]

\* Atoi of whatever the query says; an error leaves the nearest int, or 0.
HttpFilter(page, limit) == Normal(page, limit)

GrpcFilter(page, limit) == Normal(page, IF limit > MaxLimit THEN DefaultLimit ELSE limit)

Begin ==
  /\ pc \in {"idle", "done"}
  /\ \/ via' = "http" /\ filter' \in {HttpFilter(page, limit) : page, limit \in Ints}
     \/ via' = "grpc" /\ filter' \in {GrpcFilter(page, limit) : page, limit \in Int32s}
  /\ first' = filter'.page
  /\ start' = rows /\ seen' = {} /\ twice' = {} /\ mishaps' = {}
  /\ pc' = "COUNT"
  /\ UNCHANGED <<rows, nextId, total>>

----------------------------------------------------------------------------
(* UserRepo.List.                                                          *)

\* Mutants: pages counted from zero; pages of the default size.
OffsetFromZero == Wrap(filter.page * filter.limit)
OffsetOfDefault == Wrap(Wrap(filter.page - 1) * DefaultLimit)

Offset == Wrap(Wrap(filter.page - 1) * filter.limit)

\* LIMIT $1 OFFSET $2 of ORDER BY id DESC.  PostgreSQL refuses a negative OFFSET
\* when the rows are read, not when Query returns: List sees no row, and answers
\* an empty page without an error, for it does not ask rows.Err.
Rank(r) == Cardinality({s \in rows : s > r})
Page == {r \in rows : Offset >= 0 /\ Offset <= Rank(r) /\ Rank(r) < Offset + filter.limit}

\* Mutant: the rows of the page are counted.
CountPage ==
  /\ pc = "COUNT"
  /\ total' = Cardinality(Page)
  /\ pc' = "SELECT"
  /\ UNCHANGED <<rows, nextId, walk, seen, twice, mishaps>>

\* SELECT COUNT(*)
Count ==
  /\ pc = "COUNT"
  /\ total' = Cardinality(rows)
  /\ pc' = "SELECT"
  /\ UNCHANGED <<rows, nextId, walk, seen, twice, mishaps>>

\* The client goes on while pages are full, as far as it can number them.
LastPage == IF via = "http" THEN MaxInt ELSE MaxInt32

Show(data) ==
  /\ seen' = seen \union data
  /\ twice' = twice \union (seen \intersect data)
  /\ \/ /\ Cardinality(data) < filter.limit
        /\ pc' = "done"
        /\ UNCHANGED filter
     \/ /\ Cardinality(data) = filter.limit /\ filter.page = LastPage
        /\ pc' = "idle"
        /\ UNCHANGED filter
     \/ /\ Cardinality(data) = filter.limit /\ filter.page < LastPage
        /\ pc' = "COUNT"
        /\ filter' = [filter EXCEPT !.page = @ + 1]
  /\ UNCHANGED <<rows, nextId, via, total, first, start>>

Select ==
  /\ pc = "SELECT"
  /\ Show(Page)
  /\ UNCHANGED mishaps

\* The connection breaks among the rows: Next ends the loop, and rows.Err,
\* which says so, is not asked.
SelectBreaks ==
  /\ pc = "SELECT"
  /\ \E n \in 0 .. Cardinality(Page) - 1 : Show({r \in Page : Rank(r) < Offset + n})
  /\ mishaps' = mishaps \union {"broken"}

\* Either statement fails before it returns a row, or a row does not scan.
ListFails ==
  /\ pc \in {"COUNT", "SELECT"}
  /\ pc' = "idle"
  /\ UNCHANGED <<rows, nextId, walk, total, seen, twice, mishaps>>

----------------------------------------------------------------------------
(* CreateUser and DeleteUser of other requests.                            *)

CreateUser ==
  /\ nextId <= MaxId
  /\ rows' = rows \union {nextId}
  /\ nextId' = nextId + 1
  /\ mishaps' = mishaps \union {"created"}
  /\ UNCHANGED <<pc, walk, total, seen, twice>>

DeleteUser ==
  /\ \E r \in rows : rows' = rows \ {r}
  /\ mishaps' = mishaps \union {"deleted"}
  /\ UNCHANGED <<nextId, pc, walk, total, seen, twice>>

Next ==
  \/ Begin \/ Count \/ Select \/ SelectBreaks \/ ListFails
  \/ CreateUser \/ DeleteUser

Spec == Init /\ [][Next]_vars

----------------------------------------------------------------------------
(* Properties.                                                             *)

TypeOK ==
  /\ rows \subseteq 1 .. nextId - 1
  /\ nextId \in 1 .. MaxId + 1
  /\ pc \in {"idle", "COUNT", "SELECT", "done"}
  /\ via \in {"http", "grpc"}
  /\ filter \in [page : 1 .. MaxInt, limit : 1 .. MaxInt]
  /\ total \in 0 .. MaxId
  /\ first \in 1 .. MaxInt
  /\ UNION {start, seen, twice} \subseteq 1 .. nextId - 1
  /\ mishaps \subseteq {"created", "deleted", "broken"}

\* A walk from the first page shows every user that was there when it began,
\* unless users are deleted or a connection breaks meanwhile: new users only
\* push the others towards the later pages (ORDER BY id DESC).
WalkIsComplete ==
  pc = "done" /\ first = 1 /\ mishaps \subseteq {"created"} => start \subseteq seen

\* ... and shows none twice, unless users are created: deletions only pull the
\* others towards the earlier pages.
WalkHasNoRepeats == "created" \notin mishaps => twice = {}

\* The last COUNT of a walk that nothing disturbed is the number of users shown.
TotalIsTrue == pc = "done" /\ first = 1 /\ mishaps = {} => total = Cardinality(seen)

\* A walk that begins with a later page shows none of the users before it,
\* unless deletions pull them back: over gRPC for every page and limit a message
\* can hold, over HTTP only where the offset does not overflow.
EarlierUsersSkipped ==
  via = "grpc" \/ (first - 1) * filter.limit <= MaxInt =>
    "deleted" \in mishaps \/ \A r \in seen : Rank(r) >= (first - 1) * filter.limit
============================================================================
