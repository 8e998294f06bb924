-------------------------- MODULE UserPagesProofs --------------------------
(***************************************************************************)
(* Proofs about listing users, for tables of any size, pages of any size   *)
(* and integers of any width: what a walk through the pages is shown.      *)
(***************************************************************************)
EXTENDS UserPages, FiniteSetTheorems, TLAPS

----------------------------------------------------------------------------
(* Integers that wrap.                                                     *)

LEMMA ModAdds ==
  ASSUME NEW n \in Int, NEW m \in Nat \ {0}, NEW d \in Nat, (n % m) + d < m
  PROVE  (n + d) % m = (n % m) + d
  OBVIOUS

LEMMA WrapType == ASSUME NEW n \in Int PROVE Wrap(n) \in Ints
  <1>1. MaxInt \in Nat /\ 2 * (MaxInt + 1) \in Nat \ {0} /\ n + MaxInt + 1 \in Int
    BY WidthAssumption
  <1>2. (n + MaxInt + 1) % (2 * (MaxInt + 1)) \in 0 .. 2 * (MaxInt + 1) - 1
    BY <1>1
  <1> QED BY <1>1, <1>2 DEF Wrap, Ints

\* What fits stays as it is ...
LEMMA WrapFits == ASSUME NEW n \in Ints PROVE Wrap(n) = n
  <1>1. MaxInt \in Nat /\ n + MaxInt + 1 \in 0 .. 2 * (MaxInt + 1) - 1
    BY WidthAssumption DEF Ints
  <1>2. (n + MaxInt + 1) % (2 * (MaxInt + 1)) = n + MaxInt + 1
    BY <1>1
  <1> QED BY <1>1, <1>2 DEF Wrap, Ints

\* ... and an addition that fits does not wrap, whatever came before it.
LEMMA WrapAdds == ASSUME NEW n \in Int, NEW d \in Nat, Wrap(n) + d <= MaxInt
                  PROVE  Wrap(n + d) = Wrap(n) + d
  <1> DEFINE m == 2 * (MaxInt + 1)
             k == n + MaxInt + 1
  <1>1. MaxInt \in Nat /\ m \in Nat \ {0} /\ k \in Int
    BY WidthAssumption
  <1>2. Wrap(n) = (k % m) - (MaxInt + 1) /\ Wrap(n + d) = ((k + d) % m) - (MaxInt + 1)
    <2>1. n + d + MaxInt + 1 = k + d
      BY <1>1
    <2> QED BY <2>1 DEF Wrap
  <1>3. k % m \in Int
    BY <1>1
  <1>4. (k % m) + d < m
    BY <1>1, <1>2, <1>3
  <1> HIDE DEF m, k
  <1>5. (k + d) % m = (k % m) + d
    BY <1>1, <1>4, ModAdds
  <1> QED BY <1>1, <1>2, <1>3, <1>5

----------------------------------------------------------------------------
(* Ranks: ORDER BY id DESC numbers the rows from 0, without a gap.         *)

Finite == IsFiniteSet(rows) /\ rows \subseteq Int

Above(r) == {s \in rows : s > r}

LEMMA AboveFinite ==
  ASSUME Finite, NEW r \in Int
  PROVE  /\ IsFiniteSet(Above(r)) /\ Rank(r) = Cardinality(Above(r))
         /\ Rank(r) \in Nat /\ Rank(r) <= Cardinality(rows) /\ Cardinality(rows) \in Nat
  <1>1. Above(r) \in SUBSET rows
    BY DEF Above
  <1>2. Rank(r) = Cardinality(Above(r))
    BY DEF Above, Rank
  <1> QED BY <1>1, <1>2, FS_Subset, FS_CardinalityType DEF Finite

LEMMA RankBound ==
  ASSUME Finite, NEW r \in rows
  PROVE  Rank(r) < Cardinality(rows)
  <1>1. r \in Int /\ Above(r) \in SUBSET rows /\ r \notin Above(r)
    BY DEF Finite, Above
  <1>2. Cardinality(rows) # Cardinality(Above(r))
    BY <1>1, FS_Subset DEF Finite
  <1> QED BY <1>1, <1>2, AboveFinite

\* Newer rows come first.
LEMMA RankOrder ==
  ASSUME Finite, NEW r \in rows, NEW s \in rows, r < s
  PROVE  Rank(s) < Rank(r)
  <1>1. r \in Int /\ s \in Int
    BY DEF Finite
  <1>2. Above(s) \in SUBSET Above(r) /\ s \in Above(r) /\ s \notin Above(s)
    <2>1. \A t \in rows : t > s => t > r
      BY <1>1 DEF Finite
    <2>2. s > r /\ ~(s > s)
      BY <1>1
    <2> QED BY <2>1, <2>2 DEF Above
  <1>3. IsFiniteSet(Above(r)) /\ Above(r) # Above(s)
    BY <1>1, <1>2, AboveFinite
  <1>4. Cardinality(Above(s)) <= Cardinality(Above(r)) /\ Cardinality(Above(r)) # Cardinality(Above(s))
    BY <1>2, <1>3, FS_Subset
  <1> QED BY <1>1, <1>4, AboveFinite

LEMMA RankInjective ==
  ASSUME Finite, NEW r \in rows, NEW s \in rows, Rank(r) = Rank(s)
  PROVE  r = s
  <1>1. r \in Int /\ s \in Int /\ Rank(r) \in Nat /\ Rank(s) \in Nat
    BY AboveFinite DEF Finite
  <1>2. r < s \/ s < r \/ r = s
    BY <1>1
  <1> QED BY <1>1, <1>2, RankOrder

LEMMA RankOnto ==
  ASSUME Finite, NEW k \in 0 .. Cardinality(rows) - 1
  PROVE  \E r \in rows : Rank(r) = k
  <1> DEFINE n == Cardinality(rows)
             f == [r \in rows |-> Rank(r)]
  <1>1. n \in Nat
    BY FS_CardinalityType DEF Finite
  <1>2. \A r \in rows : Rank(r) \in 0 .. n - 1
    BY <1>1, RankBound, AboveFinite DEF Finite
  <1>3. f \in Injection(rows, 0 .. n - 1)
    BY <1>2, RankInjective DEF Injection, IsInjective
  <1>4. IsFiniteSet(0 .. n - 1) /\ Cardinality(0 .. n - 1) = n
    BY <1>1, FS_Interval
  <1> HIDE DEF n
  <1>5. f \in Surjection(rows, 0 .. n - 1)
    <2>1. Cardinality(rows) = Cardinality(0 .. n - 1)
      BY <1>4 DEF n
    <2> HIDE DEF f
    <2> QED BY <1>3, <1>4, <2>1, FS_Injection
  <1> QED BY <1>5 DEF Surjection, n

----------------------------------------------------------------------------
(* Pages.                                                                  *)

Slice(lo, hi) == {r \in rows : lo <= Rank(r) /\ Rank(r) < hi}

\* A page is as long as its limit, unless the rows end before it does.
LEMMA SliceSize ==
  ASSUME Finite, NEW lo \in Nat, NEW hi \in Nat, lo < hi
  PROVE  /\ Cardinality(Slice(lo, hi)) \in 0 .. hi - lo
         /\ Cardinality(Slice(lo, hi)) = hi - lo <=> hi <= Cardinality(rows)
  <1> DEFINE page == Slice(lo, hi)
             f == [r \in page |-> Rank(r)]
  <1>1. IsFiniteSet(page) /\ Cardinality(page) \in Nat /\ page \subseteq rows
    <2>1. page \in SUBSET rows
      BY DEF Slice
    <2> QED BY <2>1, FS_Subset, FS_CardinalityType DEF Finite
  <1>2. \A r \in page : Rank(r) \in lo .. hi - 1
    BY AboveFinite DEF Slice, Finite
  <1>3. f \in Injection(page, lo .. hi - 1)
    BY <1>1, <1>2, RankInjective DEF Injection, IsInjective
  <1>4. IsFiniteSet(lo .. hi - 1) /\ Cardinality(lo .. hi - 1) = hi - lo
    BY FS_Interval
  <1>5. f \in Surjection(page, lo .. hi - 1) <=> hi <= Cardinality(rows)
    <2>1. ASSUME hi <= Cardinality(rows), NEW k \in lo .. hi - 1
          PROVE  \E r \in page : Rank(r) = k
      <3>1. k \in 0 .. Cardinality(rows) - 1
        BY <2>1, FS_CardinalityType DEF Finite
      <3>2. PICK r \in rows : Rank(r) = k
        BY <3>1, RankOnto
      <3> QED BY <3>2 DEF Slice
    <2>2. ASSUME \A k \in lo .. hi - 1 : \E r \in page : Rank(r) = k
          PROVE  hi <= Cardinality(rows)
      <3>1. PICK r \in page : Rank(r) = hi - 1
        BY <2>2
      <3>2. hi - 1 < Cardinality(rows)
        BY <1>1, <3>1, RankBound
      <3> QED BY <3>2, FS_CardinalityType DEF Finite
    <2>3. f \in Surjection(page, lo .. hi - 1) <=> \A k \in lo .. hi - 1 : \E r \in page : Rank(r) = k
      <3>1. f \in [page -> lo .. hi - 1] /\ \A r \in page : f[r] = Rank(r)
        BY <1>2
      <3> HIDE DEF f, page
      <3> QED BY <3>1 DEF Surjection
    <2> QED BY <2>1, <2>2, <2>3
  <1> HIDE DEF f, page
  <1>6. /\ Cardinality(page) <= Cardinality(lo .. hi - 1)
        /\ Cardinality(page) = Cardinality(lo .. hi - 1) <=> f \in Surjection(page, lo .. hi - 1)
    BY <1>3, <1>4, FS_Injection
  <1> QED BY <1>1, <1>4, <1>5, <1>6 DEF page

----------------------------------------------------------------------------
(* Types, and the filters of the two transports.                           *)

LEMMA Products ==
  ASSUME NEW a \in Nat, NEW b \in Nat, NEW c \in Nat, NEW d \in Nat, a <= b, c <= d
  PROVE  a * c \in Nat /\ a * c <= b * d
  <1>1. a * c <= b * c
    OBVIOUS
  <1>2. b * c <= b * d
    OBVIOUS
  <1> QED BY <1>1, <1>2

LEMMA Widths ==
  /\ MaxInt \in Nat /\ MaxInt32 \in 1 .. MaxInt /\ MaxLimit \in 1 .. MaxInt
  /\ DefaultLimit \in 1 .. MaxLimit /\ MaxId \in Nat
  <1>1. MaxLimit \in Nat /\ MaxInt32 \in Nat /\ 1 <= MaxInt32
    BY WidthAssumption
  <1>2. 1 * MaxLimit <= MaxInt32 * MaxLimit
    BY <1>1, Products
  <1> QED BY <1>1, <1>2, WidthAssumption, IdAssumption

LEMMA Filters ==
  ASSUME Begin
  PROVE  /\ filter' \in [page : 1 .. MaxInt, limit : 1 .. MaxInt]
         /\ via' \in {"http", "grpc"}
         /\ via' = "grpc" => filter'.page <= MaxInt32 /\ filter'.limit <= MaxLimit
  <1>1. CASE via' = "http" /\ filter' \in {HttpFilter(page, limit) : page, limit \in Ints}
    <2>1. PICK page \in Ints, limit \in Ints : filter' = HttpFilter(page, limit)
      BY <1>1
    <2>2. page \in Int /\ limit \in Int /\ page <= MaxInt /\ limit <= MaxInt
      BY <2>1, Widths DEF Ints
    <2> QED BY <1>1, <2>1, <2>2, Widths DEF HttpFilter, Normal
  <1>2. CASE via' = "grpc" /\ filter' \in {GrpcFilter(page, limit) : page, limit \in Int32s}
    <2>1. PICK page \in Int32s, limit \in Int32s : filter' = GrpcFilter(page, limit)
      BY <1>2
    <2>2. /\ page \in Int /\ limit \in Int /\ page <= MaxInt32
      BY <2>1, Widths DEF Int32s
    <2>3. filter'.page \in 1 .. MaxInt32 /\ filter'.limit \in 1 .. MaxLimit
      BY <2>1, <2>2, Widths DEF GrpcFilter, Normal
    <2>4. filter' \in [page : 1 .. MaxInt, limit : 1 .. MaxInt]
      BY <2>1, <2>3, Widths DEF GrpcFilter, Normal
    <2> QED BY <1>2, <2>3, <2>4
  <1> QED BY <1>1, <1>2 DEF Begin

LEMMA RowsFinite ==
  ASSUME TypeOK
  PROVE  Finite /\ Cardinality(rows) \in 0 .. MaxId
  <1>1. nextId - 1 \in 0 .. MaxId /\ rows \in SUBSET (1 .. nextId - 1)
    BY Widths DEF TypeOK
  <1>2. IsFiniteSet(1 .. nextId - 1) /\ Cardinality(1 .. nextId - 1) = nextId - 1
    BY <1>1, Widths, FS_Interval
  <1>3. IsFiniteSet(rows) /\ Cardinality(rows) <= nextId - 1
    BY <1>1, <1>2, FS_Subset
  <1>4. Cardinality(rows) \in Nat
    BY <1>3, FS_CardinalityType
  <1> QED BY <1>1, <1>3, <1>4, Widths DEF Finite

LEMMA InitTypes == Init => TypeOK
  BY Widths DEF Init, TypeOK

LEMMA NextTypes == TypeOK /\ [Next]_vars => TypeOK'
  <1> SUFFICES ASSUME TypeOK, [Next]_vars PROVE TypeOK'
    OBVIOUS
  <1>0. nextId \in Nat /\ nextId <= MaxId + 1 /\ MaxId \in Nat
    BY Widths DEF TypeOK
  <1>1. CASE Begin
    <2>1. first' \in 1 .. MaxInt
      BY <1>1, Filters DEF Begin
    <2> QED BY <1>1, <2>1, Filters DEF Begin, TypeOK
  <1>2. CASE Count
    BY <1>2, RowsFinite DEF Count, TypeOK, walk
  <1>3. ASSUME pc = "SELECT", NEW data \in SUBSET rows, Show(data),
               mishaps' \subseteq mishaps \union {"broken"}
        PROVE  TypeOK'
    <2>1. filter' \in [page : 1 .. MaxInt, limit : 1 .. MaxInt]
      <3>1. filter.page < LastPage => filter.page + 1 \in 1 .. MaxInt
        BY Widths DEF LastPage, TypeOK
      <3> QED BY <1>3, <3>1 DEF Show, TypeOK
    <2> QED BY <1>3, <2>1 DEF Show, TypeOK
  <1>4. CASE Select
    BY <1>3, <1>4 DEF Select, Page
  <1>5. CASE SelectBreaks
    BY <1>3, <1>5 DEF SelectBreaks, Page
  <1>6. CASE ListFails
    BY <1>6 DEF ListFails, TypeOK, walk
  <1>7. CASE CreateUser
    <2>1. nextId' = nextId + 1 /\ nextId' \in 1 .. MaxId + 1
      BY <1>0, <1>7 DEF CreateUser
    <2>2. \A S : S \subseteq 1 .. nextId - 1 => S \subseteq 1 .. nextId' - 1
      BY <1>0, <2>1
    <2>3. rows' \subseteq 1 .. nextId' - 1
      BY <1>0, <1>7, <2>1 DEF CreateUser, TypeOK
    <2>4. UNION {start', seen', twice'} \subseteq 1 .. nextId' - 1
      BY <1>7, <2>2 DEF CreateUser, TypeOK, walk
    <2> QED BY <1>7, <2>1, <2>3, <2>4 DEF CreateUser, TypeOK, walk
  <1>8. CASE DeleteUser
    BY <1>8 DEF DeleteUser, TypeOK, walk
  <1>9. CASE UNCHANGED vars
    BY <1>9 DEF vars, walk, TypeOK
  <1> QED BY <1>1, <1>2, <1>4, <1>5, <1>6, <1>7, <1>8, <1>9 DEF Next

\* Every variable has its type: no page number, limit or count leaves its range.
THEOREM PagesTypes == Spec => []TypeOK
  BY InitTypes, NextTypes, PTL DEF Spec

----------------------------------------------------------------------------
(* The inductive invariant: what the pages read so far and those to come   *)
(* have to do with each other.                                             *)

Reading == pc \in {"COUNT", "SELECT"}

\* The rows in front of the page that is being read.
Passed == {r \in rows : Rank(r) < Offset}

Fits == via = "grpc" => filter.page <= MaxInt32 /\ filter.limit <= MaxLimit

\* The walk began at an offset that did not overflow.
Exact == via = "grpc" \/ (first - 1) * filter.limit <= MaxInt

BeyondStart == Reading /\ Exact => Offset >= (first - 1) * filter.limit

NoneAhead == Reading /\ "created" \notin mishaps => seen \intersect rows \subseteq Passed

NoneMissed == Reading /\ first = 1 /\ mishaps \subseteq {"created"} =>
                start \subseteq rows /\ start \intersect Passed \subseteq seen

Undisturbed == first = 1 /\ mishaps = {} =>
  /\ Reading => seen = Passed
  /\ pc = "SELECT" => total = Cardinality(rows)
  /\ pc = "done" => seen = rows /\ total = Cardinality(rows)

Inv ==
  /\ TypeOK /\ Fits /\ BeyondStart /\ NoneAhead /\ NoneMissed /\ Undisturbed
  /\ WalkIsComplete /\ WalkHasNoRepeats /\ EarlierUsersSkipped

LEMMA Ranks == ASSUME TypeOK, NEW r \in Int
               PROVE  Rank(r) \in Nat /\ (r \in rows => Rank(r) < Cardinality(rows))
  BY RowsFinite, AboveFinite, RankBound

LEMMA InitInv == Init => Inv
  <1> SUFFICES ASSUME Init PROVE Inv
    OBVIOUS
  <1>1. TypeOK
    BY InitTypes
  <1>2. Fits /\ BeyondStart /\ NoneAhead /\ NoneMissed /\ Undisturbed
    BY DEF Init, Fits, BeyondStart, NoneAhead, NoneMissed, Undisturbed, Reading
  <1>3. WalkIsComplete /\ WalkHasNoRepeats /\ EarlierUsersSkipped
    BY DEF Init, WalkIsComplete, WalkHasNoRepeats, EarlierUsersSkipped
  <1> QED BY <1>1, <1>2, <1>3 DEF Inv

----------------------------------------------------------------------------
(* Offsets.                                                                *)

\* An offset that does not overflow is where the page begins.
LEMMA ExactOffset ==
  ASSUME TypeOK, Fits, Exact, filter.page = first
  PROVE  Offset = (first - 1) * filter.limit /\ Offset \in Nat
  <1>1. /\ filter.page \in 1 .. MaxInt /\ filter.limit \in 1 .. MaxInt /\ first \in 1 .. MaxInt
        /\ MaxInt \in Nat /\ MaxInt32 \in Nat /\ MaxLimit \in Nat
    BY Widths DEF TypeOK
  <1> DEFINE p == first - 1
             l == filter.limit
  <1>2. p \in Nat /\ l \in Nat /\ p \in Ints
    BY <1>1 DEF Ints
  <1>3. p * l \in Nat /\ p * l <= MaxInt
    <2>1. p * l \in Nat
      BY <1>2, Products
    <2>2. CASE via = "grpc"
      <3>1. p <= MaxInt32 /\ l <= MaxLimit
        BY <1>1, <2>2 DEF Fits
      <3>2. p * l <= MaxInt32 * MaxLimit
        BY <1>1, <1>2, <3>1, Products
      <3>3. MaxInt32 * MaxLimit \in Nat /\ MaxInt32 * MaxLimit <= MaxInt
        BY <1>1, Products, WidthAssumption
      <3> HIDE DEF p, l
      <3> QED BY <1>1, <2>1, <3>2, <3>3
    <2>3. CASE via # "grpc"
      BY <2>1, <2>3 DEF Exact
    <2> QED BY <2>1, <2>2, <2>3
  <1> HIDE DEF l
  <1>4. Wrap(p) = p
    BY <1>2, WrapFits
  <1>5. p * l \in Ints
    <2> HIDE DEF p
    <2> QED BY <1>1, <1>3 DEF Ints
  <1>6. Wrap(p * l) = p * l
    <2> HIDE DEF p
    <2> QED BY <1>5, WrapFits
  <1>7. Offset = Wrap(Wrap(p) * l)
    BY DEF Offset, l
  <1> HIDE DEF p
  <1>8. Offset = p * l /\ Offset \in Nat
    BY <1>3, <1>4, <1>6, <1>7
  <1> QED BY <1>8 DEF p, l

\* The next page begins where a full one ends, even after an overflow.
LEMMA NextOffset ==
  ASSUME TypeOK, Offset >= 0, filter.page < MaxInt,
         Offset + filter.limit <= Cardinality(rows),
         filter' = [filter EXCEPT !.page = @ + 1]
  PROVE  Offset' = Offset + filter.limit /\ Offset \in Nat
  <1> DEFINE p == filter.page - 1
             l == filter.limit
  <1>1. /\ filter.page \in 1 .. MaxInt /\ l \in Nat /\ MaxInt \in Nat
        /\ filter'.page = filter.page + 1 /\ filter'.limit = l
    BY Widths DEF TypeOK
  <1>2. p \in Int /\ p \in Ints /\ p + 1 \in Ints /\ filter'.page - 1 = p + 1
    BY <1>1 DEF Ints
  <1>3. Offset = Wrap(Wrap(p) * l) /\ Offset' = Wrap(Wrap(p + 1) * l)
    BY <1>1, <1>2 DEF Offset
  <1>4. Wrap(p) = p /\ Wrap(p + 1) = p + 1
    BY <1>2, WrapFits
  <1> HIDE DEF p, l
  <1>5. p * l \in Int /\ (p + 1) * l = p * l + l
    BY <1>1, <1>2
  <1>6. Offset \in Ints
    BY <1>3, <1>4, <1>5, WrapType
  <1>7. Wrap(p * l) + l <= MaxInt
    <2>1. Offset + l <= Cardinality(rows) /\ Cardinality(rows) \in Int /\ Cardinality(rows) <= MaxInt
      BY <1>1, RowsFinite, IdAssumption, Widths DEF l
    <2> QED BY <1>1, <1>3, <1>4, <1>6, <2>1 DEF Ints
  <1>8. Wrap(p * l + l) = Wrap(p * l) + l
    BY <1>1, <1>5, <1>7, WrapAdds
  <1> QED BY <1>1, <1>3, <1>4, <1>5, <1>6, <1>8 DEF Ints, l

----------------------------------------------------------------------------
(* The steps.                                                              *)

\* Two of the facts above, as predicates, so that they hold after a step too.
Ranked == IsFiniteSet(rows) /\ rows \subseteq Int /\ \A r \in Int : Rank(r) \in Nat

Placed == Fits /\ Exact /\ filter.page = first =>
            Offset = (first - 1) * filter.limit /\ Offset \in Nat

LEMMA Facts == (TypeOK => Ranked /\ Placed) /\ (TypeOK' => Ranked' /\ Placed')
  <1>1. TypeOK => Ranked /\ Placed
    BY Ranks, RowsFinite, ExactOffset DEF Finite, Ranked, Placed
  <1> QED BY <1>1, PTL

LEMMA BeginInv == ASSUME Inv, Begin PROVE Inv'
  <1>1. /\ TypeOK' /\ Fits'
        /\ filter'.page = first' /\ pc' = "COUNT" /\ start' = rows /\ rows' = rows
        /\ seen' = {} /\ twice' = {} /\ mishaps' = {}
    BY NextTypes, Filters DEF Inv, Begin, Fits, Next
  <1>2. Exact' => Offset' = (first' - 1) * filter'.limit /\ Offset' \in Nat
    BY <1>1, Facts DEF Placed
  <1>3. first' = 1 => Exact' /\ Offset' = 0
    <2>1. filter'.limit \in Nat /\ 0 * filter'.limit = 0 /\ MaxInt >= 0
      BY <1>1, Widths DEF TypeOK
    <2> QED BY <1>2, <2>1 DEF Exact
  <1>4. first' = 1 => Passed' = {}
    <2> SUFFICES ASSUME first' = 1, NEW r \in rows' PROVE ~(Rank(r)' < Offset')
      BY DEF Passed
    <2>1. r \in Int /\ Rank(r)' \in Nat
      BY <1>1, Facts DEF Ranked
    <2> QED BY <1>3, <2>1
  <1>5. BeyondStart'
    BY <1>1, <1>2 DEF BeyondStart, TypeOK
  <1>6. NoneAhead' /\ NoneMissed' /\ Undisturbed'
    BY <1>1, <1>4 DEF NoneAhead, NoneMissed, Undisturbed
  <1>7. WalkIsComplete' /\ WalkHasNoRepeats' /\ EarlierUsersSkipped'
    BY <1>1 DEF WalkIsComplete, WalkHasNoRepeats, EarlierUsersSkipped
  <1> QED BY <1>1, <1>5, <1>6, <1>7 DEF Inv

\* Counting the rows, and giving up, leave the pages alone.
LEMMA StayInv ==
  ASSUME Inv, TypeOK', UNCHANGED <<rows, walk, seen, twice, mishaps>>,
         \/ UNCHANGED <<pc, total>>
         \/ pc' = "idle"
         \/ pc = "COUNT" /\ pc' = "SELECT" /\ total' = Cardinality(rows)
  PROVE  Inv'
  <1>1. Offset' = Offset /\ Passed' = Passed /\ Exact' = Exact
    BY DEF Offset, Passed, Rank, Exact, walk
  <1>2. Reading' => Reading
    BY DEF Reading
  <1>3. pc' = "done" => pc = "done" /\ total' = total
    OBVIOUS
  <1>4. Fits' /\ BeyondStart' /\ NoneAhead' /\ NoneMissed'
    BY <1>1, <1>2 DEF Inv, Fits, BeyondStart, NoneAhead, NoneMissed, walk
  <1>5. Undisturbed'
    BY <1>1, <1>2, <1>3 DEF Inv, Undisturbed, walk
  <1>6. WalkIsComplete' /\ WalkHasNoRepeats' /\ EarlierUsersSkipped'
    BY <1>3 DEF Inv, WalkIsComplete, WalkHasNoRepeats, EarlierUsersSkipped, Rank, walk
  <1> QED BY <1>4, <1>5, <1>6 DEF Inv

\* More rows, higher ranks.
LEMMA RankMonotone ==
  ASSUME NEW R, NEW S, IsFiniteSet(S), R \subseteq S, NEW r
  PROVE  Cardinality({s \in R : s > r}) <= Cardinality({s \in S : s > r})
  <1>1. {s \in S : s > r} \in SUBSET S /\ {s \in R : s > r} \in SUBSET {s \in S : s > r}
    OBVIOUS
  <1>2. IsFiniteSet({s \in S : s > r})
    BY <1>1, FS_Subset
  <1> QED BY <1>1, <1>2, FS_Subset

LEMMA CreateInv == ASSUME Inv, CreateUser PROVE Inv'
  <1>1. /\ TypeOK' /\ rows \subseteq rows' /\ "created" \in mishaps' /\ mishaps \subseteq mishaps'
        /\ mishaps' = mishaps \union {"created"} /\ UNCHANGED <<pc, walk, total, seen, twice>>
    BY NextTypes DEF Inv, CreateUser, Next
  <1>2. ASSUME NEW r \in Int
        PROVE  Rank(r) \in Nat /\ Rank(r)' \in Nat /\ Rank(r) <= Rank(r)'
    <2>1. Rank(r)' \in Nat /\ Rank(r) \in Nat
      BY <1>1, Facts DEF Inv, Ranked
    <2>2. IsFiniteSet(rows')
      BY <1>1, Facts DEF Ranked
    <2> QED BY <1>1, <2>1, <2>2, RankMonotone DEF Rank
  <1>3. Offset' = Offset /\ Exact' = Exact /\ Reading' = Reading /\ Fits' = Fits
    BY <1>1 DEF Offset, Exact, Reading, Fits, walk
  <1>4. Fits' /\ BeyondStart' /\ NoneAhead' /\ Undisturbed' /\ WalkHasNoRepeats'
    BY <1>1, <1>3 DEF Inv, BeyondStart, NoneAhead, Undisturbed, WalkHasNoRepeats, walk
  <1>5. NoneMissed'
    <2> SUFFICES ASSUME Reading, first = 1, mishaps \subseteq {"created"}, NEW r \in start, r \in Passed'
                 PROVE  r \in seen
      BY <1>1, <1>3 DEF Inv, NoneMissed, walk
    <2>1. r \in rows /\ r \in Int /\ Offset \in Int
      BY RowsFinite, WrapType, Widths DEF Inv, NoneMissed, Finite, Offset, TypeOK, Ints
    <2>2. Rank(r) < Offset
      BY <1>2, <1>3, <2>1 DEF Passed
    <2> QED BY <2>1, <2>2 DEF Inv, NoneMissed, Passed
  <1>6. WalkIsComplete'
    BY <1>1 DEF Inv, WalkIsComplete, walk
  <1>7. EarlierUsersSkipped'
    <2> SUFFICES ASSUME Exact, "deleted" \notin mishaps, NEW r \in seen
                 PROVE  Rank(r)' >= (first - 1) * filter.limit
      BY <1>1, <1>3 DEF EarlierUsersSkipped, Exact, walk
    <2>1. r \in Int /\ (first - 1) * filter.limit \in Int
      BY Widths DEF Inv, TypeOK
    <2>2. Rank(r) >= (first - 1) * filter.limit
      BY DEF Inv, EarlierUsersSkipped, Exact
    <2> QED BY <1>2, <2>1, <2>2
  <1> QED BY <1>1, <1>4, <1>5, <1>6, <1>7 DEF Inv

LEMMA DeleteInv == ASSUME Inv, DeleteUser PROVE Inv'
  <1>1. /\ TypeOK' /\ rows' \subseteq rows /\ "deleted" \in mishaps' /\ mishaps \subseteq mishaps'
        /\ UNCHANGED <<pc, walk, total, seen, twice>>
    BY NextTypes DEF Inv, DeleteUser, Next
  <1>2. ASSUME NEW r \in Int
        PROVE  Rank(r) \in Nat /\ Rank(r)' \in Nat /\ Rank(r)' <= Rank(r)
    <2>1. Rank(r)' \in Nat /\ Rank(r) \in Nat
      BY <1>1, Facts DEF Inv, Ranked
    <2>2. IsFiniteSet(rows)
      BY RowsFinite DEF Inv, Finite
    <2> QED BY <1>1, <2>1, <2>2, RankMonotone DEF Rank
  <1>3. Offset' = Offset /\ Exact' = Exact /\ Reading' = Reading /\ Fits' = Fits
    BY <1>1 DEF Offset, Exact, Reading, Fits, walk
  <1>4. NoneAhead'
    <2> SUFFICES ASSUME Reading, "created" \notin mishaps, NEW r \in seen, r \in rows'
                 PROVE  r \in Passed'
      BY <1>1, <1>3 DEF NoneAhead
    <2>1. r \in Int /\ r \in Passed /\ Offset \in Int
      BY <1>1, RowsFinite, WrapType, Widths DEF Inv, NoneAhead, Finite, Offset, TypeOK, Ints
    <2> QED BY <1>2, <1>3, <2>1 DEF Passed
  <1>5. Fits' /\ BeyondStart' /\ NoneMissed' /\ Undisturbed'
    BY <1>1, <1>3 DEF Inv, BeyondStart, NoneMissed, Undisturbed, walk
  <1>6. WalkIsComplete' /\ WalkHasNoRepeats' /\ EarlierUsersSkipped'
    BY <1>1 DEF Inv, WalkIsComplete, WalkHasNoRepeats, EarlierUsersSkipped
  <1> QED BY <1>1, <1>4, <1>5, <1>6 DEF Inv

\* The client is shown a page, or the rows of it that came before a connection
\* broke, and stops, runs out of page numbers or turns to the next page.
LEMMA ShowInv ==
  ASSUME Inv, TypeOK', pc = "SELECT", Offset >= 0, NEW data \in SUBSET Page, Show(data),
         \/ data = Page /\ mishaps' = mishaps
         \/ Cardinality(data) < filter.limit /\ mishaps' = mishaps \union {"broken"}
  PROVE  Inv'
  <1> DEFINE lim == filter.limit
  <1>1. /\ Offset \in Nat /\ lim \in Nat /\ Offset + lim \in Nat /\ Offset < Offset + lim
        /\ first \in Nat /\ filter.page \in Nat /\ MaxInt \in Nat /\ Cardinality(rows) \in Nat
    <2>1. filter \in [page : 1 .. MaxInt, limit : 1 .. MaxInt] /\ first \in 1 .. MaxInt /\ MaxInt \in Nat
      BY Widths DEF Inv, TypeOK
    <2>2. Offset \in Int
      <3>1. filter.page - 1 \in Int /\ filter.limit \in Int
        BY <2>1
      <3>2. Wrap(filter.page - 1) \in Int
        BY <2>1, <3>1, WrapType DEF Ints
      <3>3. Wrap(filter.page - 1) * filter.limit \in Int
        BY <3>1, <3>2
      <3> QED BY <2>1, <3>3, WrapType DEF Offset, Ints
    <2>3. Cardinality(rows) \in Nat
      BY RowsFinite, Widths DEF Inv
    <2> QED BY <2>1, <2>2, <2>3
  <1>2. /\ Page = Slice(Offset, Offset + lim)
        /\ Cardinality(Page) \in 0 .. lim
        /\ Cardinality(Page) = lim <=> Offset + lim <= Cardinality(rows)
    <2>1. Page = Slice(Offset, Offset + lim)
      BY DEF Page, Slice
    <2> HIDE DEF lim
    <2>2. Offset + lim - Offset = lim
      BY <1>1
    <2> QED BY <1>1, <2>1, <2>2, SliceSize, RowsFinite DEF Inv
  <1>3. /\ Reading /\ rows' = rows /\ via' = via /\ total' = total /\ first' = first /\ start' = start
        /\ seen' = seen \union data /\ twice' = twice \union (seen \intersect data)
        /\ filter'.limit = lim /\ filter'.page \in Nat /\ Exact' = Exact
        /\ "created" \in mishaps' <=> "created" \in mishaps
        /\ "deleted" \in mishaps' <=> "deleted" \in mishaps
    BY <1>1 DEF Reading, Show, Inv, TypeOK, Exact
  <1>4. ASSUME NEW r \in Page
        PROVE  r \in rows /\ Rank(r) \in Nat /\ Offset <= Rank(r) /\ Rank(r) < Offset + lim
    BY Facts DEF Page, Inv, Ranked
  <1> HIDE DEF lim
  \* A page that is not full is the last one.
  <1>5. Cardinality(Page) < lim => rows = Passed \union Page
    <2> SUFFICES ASSUME Cardinality(Page) < lim, NEW r \in rows
                 PROVE  r \in Passed \union Page
      BY DEF Passed, Page
    <2>1. Offset + lim > Cardinality(rows)
      BY <1>1, <1>2
    <2>2. Rank(r) \in Nat /\ Rank(r) < Cardinality(rows)
      BY Ranks, RowsFinite DEF Inv, Finite
    <2> QED BY <1>1, <2>1, <2>2 DEF Passed, Page, lim
  <1>6. Fits'
    <2>1. filter'.page # filter.page => filter'.page = filter.page + 1 /\ filter.page < LastPage
      BY DEF Show, Inv, TypeOK
    <2> QED BY <1>1, <1>3, <2>1, Widths DEF Inv, Fits, LastPage, lim
  <1>7. WalkHasNoRepeats'
    <2> SUFFICES ASSUME "created" \notin mishaps PROVE twice' = {}
      BY <1>3 DEF WalkHasNoRepeats
    <2>1. twice = {} /\ seen \intersect rows \subseteq Passed
      BY <1>3 DEF Inv, WalkHasNoRepeats, NoneAhead
    <2>2. \A r \in Page : r \in rows /\ r \notin Passed
      BY <1>1, <1>4 DEF Passed
    <2> QED BY <1>3, <2>1, <2>2
  <1>8. EarlierUsersSkipped'
    <2> SUFFICES ASSUME Exact, "deleted" \notin mishaps, NEW r \in seen \union data
                 PROVE  Rank(r) >= (first - 1) * lim
      BY <1>3 DEF EarlierUsersSkipped, Exact, Rank
    <2>1. CASE r \in seen
      BY <2>1 DEF Inv, EarlierUsersSkipped, Exact, lim
    <2>2. CASE r \in data
      <3>1. Offset >= (first - 1) * lim /\ (first - 1) * lim \in Int
        BY <1>1, <1>3 DEF Inv, BeyondStart, lim
      <3> QED BY <1>1, <1>4, <2>2, <3>1
    <2> QED BY <2>1, <2>2
  <1>9. CASE pc' = "done" /\ Cardinality(data) < lim
    <2>1. ASSUME data = Page, mishaps' = mishaps
          PROVE  rows = Passed \union data
      BY <1>5, <1>9, <2>1
    <2>2. WalkIsComplete'
      <3> SUFFICES ASSUME first = 1, mishaps' \subseteq {"created"} PROVE start \subseteq seen \union data
        BY <1>3 DEF WalkIsComplete
      <3>1. data = Page /\ mishaps' = mishaps
        OBVIOUS
      <3> QED BY <1>3, <2>1, <3>1 DEF Inv, NoneMissed
    <2>3. Undisturbed'
      <3> SUFFICES ASSUME first = 1, mishaps' = {}
                   PROVE  seen \union data = rows /\ total = Cardinality(rows)
        BY <1>3, <1>9 DEF Undisturbed, Reading
      <3>1. data = Page /\ mishaps' = mishaps
        OBVIOUS
      <3> QED BY <1>3, <2>1, <3>1 DEF Inv, Undisturbed
    <2>4. BeyondStart' /\ NoneAhead' /\ NoneMissed'
      BY <1>9 DEF BeyondStart, NoneAhead, NoneMissed, Reading
    <2> QED BY <1>6, <1>7, <1>8, <2>2, <2>3, <2>4 DEF Inv
  <1>10. CASE pc' = "idle"
    <2>1. BeyondStart' /\ NoneAhead' /\ NoneMissed' /\ Undisturbed' /\ WalkIsComplete'
      BY <1>10 DEF BeyondStart, NoneAhead, NoneMissed, Undisturbed, WalkIsComplete, Reading
    <2> QED BY <1>6, <1>7, <1>8, <2>1 DEF Inv
  <1>11. CASE /\ pc' = "COUNT" /\ Cardinality(data) = lim /\ filter.page < LastPage
              /\ filter' = [filter EXCEPT !.page = @ + 1]
    <2>1. data = Page /\ mishaps' = mishaps
      BY <1>1, <1>11 DEF lim
    <2>2. Offset + lim <= Cardinality(rows)
      BY <1>2, <1>11, <2>1
    <2>3. Offset' = Offset + lim
      <3>1. filter.page < MaxInt
        BY <1>1, <1>11, Widths DEF LastPage
      <3> QED BY <1>11, <2>2, <3>1, NextOffset DEF Inv, lim
    <2>4. Passed' = Passed \union Page
      <3> SUFFICES ASSUME NEW r \in rows
                   PROVE  Rank(r) < Offset + lim <=> Rank(r) < Offset \/ r \in Page
        BY <1>3, <2>3 DEF Passed, Rank, Page
      <3>1. Rank(r) \in Nat
        BY Ranks, RowsFinite DEF Inv, Finite
      <3> QED BY <1>1, <3>1 DEF Page, lim
    <2>5. BeyondStart'
      <3> SUFFICES ASSUME Exact PROVE Offset + lim >= (first - 1) * lim
        BY <1>3, <2>3 DEF BeyondStart
      <3>1. Offset >= (first - 1) * lim /\ (first - 1) * lim \in Int
        BY <1>1, <1>3 DEF Inv, BeyondStart, lim
      <3> QED BY <1>1, <3>1
    <2>6. NoneAhead' /\ NoneMissed'
      BY <1>3, <2>1, <2>4 DEF Inv, NoneAhead, NoneMissed
    <2>7. Undisturbed' /\ WalkIsComplete'
      BY <1>3, <1>11, <2>1, <2>4 DEF Inv, Undisturbed, WalkIsComplete
    <2> QED BY <1>6, <1>7, <1>8, <2>5, <2>6, <2>7 DEF Inv
  <1> QED BY <1>9, <1>10, <1>11 DEF Show, lim

\* The rows that come before a connection breaks are fewer than the page has.
LEMMA BrokenPage ==
  ASSUME TypeOK, Offset >= 0, NEW n \in 0 .. Cardinality(Page) - 1
  PROVE  LET data == {r \in Page : Rank(r) < Offset + n}
         IN  data \in SUBSET Page /\ Cardinality(data) < filter.limit
  <1> DEFINE data == {r \in Page : Rank(r) < Offset + n}
             lim == filter.limit
  <1>1. Offset \in Nat /\ lim \in Nat \ {0} /\ Finite
    <2>1. filter \in [page : 1 .. MaxInt, limit : 1 .. MaxInt] /\ MaxInt \in Nat
      BY Widths DEF TypeOK
    <2>2. filter.page - 1 \in Int /\ filter.limit \in Int
      BY <2>1
    <2>3. Wrap(filter.page - 1) * filter.limit \in Int
      BY <2>1, <2>2, WrapType DEF Ints
    <2> QED BY <2>1, <2>3, WrapType, RowsFinite DEF Offset, Ints
  <1>2. Cardinality(Page) \in 0 .. lim
    <2>1. Page = Slice(Offset, Offset + lim)
      BY DEF Page, Slice
    <2> HIDE DEF lim
    <2>2. Offset + lim - Offset = lim /\ Offset < Offset + lim /\ Offset + lim \in Nat
      BY <1>1
    <2> QED BY <1>1, <2>1, <2>2, SliceSize
  <1> HIDE DEF lim
  <1>3. n \in Nat /\ n < lim
    BY <1>1, <1>2
  <1>4. CASE n = 0
    <2>1. data = {}
      <3>1. \A r \in Page : Rank(r) \in Int /\ Offset <= Rank(r)
        BY <1>1, AboveFinite DEF Page, Finite
      <3> QED BY <1>1, <1>4, <3>1
    <2> QED BY <1>1, <2>1, FS_EmptySet DEF lim
  <1>5. CASE n # 0
    <2>1. data = Slice(Offset, Offset + n)
      <3>1. \A r \in rows : Rank(r) \in Int
        BY <1>1, AboveFinite DEF Finite
      <3> QED BY <1>1, <1>3, <3>1 DEF Page, Slice, lim
    <2>2. Offset + n - Offset = n /\ Offset < Offset + n /\ Offset + n \in Nat
      BY <1>1, <1>3, <1>5
    <2>3. Cardinality(data) \in 0 .. n
      <3> HIDE DEF data
      <3> QED BY <1>1, <2>1, <2>2, SliceSize
    <2> HIDE DEF data
    <2>4. Cardinality(data) < lim
      BY <1>1, <1>3, <2>3
    <2> QED BY <2>4 DEF data, lim
  <1> QED BY <1>4, <1>5

\* A negative offset shows nobody and ends the walk, which then began with an
\* offset that overflowed.
LEMMA NobodyInv ==
  ASSUME Inv, TypeOK', pc = "SELECT", ~(Offset >= 0), Show({}), mishaps' = mishaps
  PROVE  Inv'
  <1>1. /\ filter \in [page : 1 .. MaxInt, limit : 1 .. MaxInt] /\ first \in 1 .. MaxInt
        /\ MaxInt \in Nat /\ filter.limit \in Nat \ {0} /\ first - 1 \in Nat
    BY Widths DEF Inv, TypeOK
  <1>2. ~Exact /\ first # 1
    <2>1. Offset \in Int
      <3>1. Wrap(filter.page - 1) \in Int
        BY <1>1, WrapType DEF Ints
      <3>2. Wrap(filter.page - 1) * filter.limit \in Int
        BY <1>1, <3>1
      <3> QED BY <1>1, <3>2, WrapType DEF Offset, Ints
    <2>2. (first - 1) * filter.limit \in Nat
      BY <1>1, Products
    <2>3. ~Exact
      BY <2>1, <2>2 DEF Inv, BeyondStart, Reading
    <2>4. 0 * filter.limit = 0
      BY <1>1
    <2>5. first # 1
      BY <1>1, <2>3, <2>4 DEF Exact
    <2> QED BY <2>3, <2>5
  <1>3. /\ pc' = "done" /\ filter' = filter
        /\ UNCHANGED <<rows, nextId, via, total, first, start, seen, twice>>
    BY <1>1, FS_EmptySet DEF Show
  <1>4. Fits' /\ BeyondStart' /\ NoneAhead' /\ NoneMissed' /\ Undisturbed'
    BY <1>2, <1>3 DEF Inv, Fits, BeyondStart, NoneAhead, NoneMissed, Undisturbed, Reading
  <1>5. WalkIsComplete' /\ WalkHasNoRepeats' /\ EarlierUsersSkipped'
    BY <1>2, <1>3 DEF Inv, WalkIsComplete, WalkHasNoRepeats, EarlierUsersSkipped, Exact
  <1> QED BY <1>4, <1>5 DEF Inv

LEMMA NextInv == Inv /\ [Next]_vars => Inv'
  <1> SUFFICES ASSUME Inv, [Next]_vars PROVE Inv'
    OBVIOUS
  <1>0. TypeOK /\ TypeOK'
    BY NextTypes DEF Inv
  <1>1. CASE Begin
    BY <1>1, BeginInv
  <1>2. CASE Count
    BY <1>0, <1>2, StayInv DEF Count
  <1>3. CASE Select
    <2>1. Page \in SUBSET Page /\ Show(Page) /\ mishaps' = mishaps /\ pc = "SELECT"
      BY <1>3 DEF Select
    <2>2. CASE Offset >= 0
      BY <1>0, <2>1, <2>2, ShowInv
    <2>3. CASE ~(Offset >= 0)
      <3>1. Page = {}
        BY <2>3 DEF Page
      <3> QED BY <1>0, <2>1, <2>3, <3>1, NobodyInv
    <2> QED BY <2>2, <2>3
  <1>4. CASE SelectBreaks
    <2>1. PICK n \in 0 .. Cardinality(Page) - 1 : Show({r \in Page : Rank(r) < Offset + n})
      BY <1>4 DEF SelectBreaks
    <2> DEFINE data == {r \in Page : Rank(r) < Offset + n}
    <2>2. Offset >= 0 /\ pc = "SELECT" /\ mishaps' = mishaps \union {"broken"}
      <3>1. Cardinality({}) = 0
        BY FS_EmptySet
      <3>2. Page # {}
        BY <2>1, <3>1
      <3>3. Offset >= 0
        BY <3>2 DEF Page
      <3> QED BY <1>4, <3>3 DEF SelectBreaks
    <2>3. data \in SUBSET Page /\ Cardinality(data) < filter.limit
      BY <1>0, <2>2, BrokenPage
    <2>4. Show(data)
      BY <2>1
    <2> HIDE DEF data
    <2> QED BY <1>0, <2>2, <2>3, <2>4, ShowInv
  <1>5. CASE ListFails
    BY <1>0, <1>5, StayInv DEF ListFails
  <1>6. CASE CreateUser
    BY <1>6, CreateInv
  <1>7. CASE DeleteUser
    BY <1>7, DeleteInv
  <1>8. CASE UNCHANGED vars
    BY <1>0, <1>8, StayInv DEF vars
  <1> QED BY <1>1, <1>2, <1>3, <1>4, <1>5, <1>6, <1>7, <1>8 DEF Next

LEMMA Invariance == Spec => []Inv
  BY InitInv, NextInv, PTL DEF Spec

\* However many users there are and however long the pages: a walk from the
\* first page misses nobody who was there when it began, unless somebody is
\* deleted or a connection breaks (ListUsers, UserRepo.List).
THEOREM NobodyIsMissed == Spec => []WalkIsComplete
  <1>1. Inv => WalkIsComplete
    BY DEF Inv
  <1> QED BY <1>1, Invariance, PTL

\* No walk shows a user twice, unless somebody is created meanwhile: not even one
\* that began with an offset that overflowed.
THEOREM NobodyIsRepeated == Spec => []WalkHasNoRepeats
  <1>1. Inv => WalkHasNoRepeats
    BY DEF Inv
  <1> QED BY <1>1, Invariance, PTL

\* The count agrees with what an undisturbed walk has shown.
THEOREM TotalsAreTrue == Spec => []TotalIsTrue
  <1>1. Inv => TotalIsTrue
    BY DEF Inv, Undisturbed, TotalIsTrue
  <1> QED BY <1>1, Invariance, PTL

\* Over gRPC for every page and limit, over HTTP where the offset does not
\* overflow, a walk shows nobody from before the page it began with.
THEOREM PagesBeforeAreSkipped == Spec => []EarlierUsersSkipped
  <1>1. Inv => EarlierUsersSkipped
    BY DEF Inv
  <1> QED BY <1>1, Invariance, PTL
============================================================================
