---------------------------- MODULE ListingProofs ----------------------------
(***************************************************************************)
(* Proofs about Listing, for any number of jobs and any page sizes.  The   *)
(* invariant places every job by how many rows are above it: a job the     *)
(* client has seen is above the end of its last page unless one came in    *)
(* above it, and one it has not seen is below unless one left.  That a     *)
(* page is full when there is a row below it is a matter of counting.      *)
(***************************************************************************)
EXTENDS Listing, FiniteSetTheorems, WellFoundedInduction, TLAPS

\* The rows above job j, listed or not.
Above(j) == {row \in Result : row[1] > j}

\* The rows in the first n places.
First(n) == {row \in Result : Rank(row) < n}

USE ListAssumption

-----------------------------------------------------------------------------
(* Counting *)

\* A non-empty set of natural numbers has a least one.
LEMMA Least ==
    ASSUME NEW S \in SUBSET Nat, S # {}
    PROVE  \E m \in S : \A x \in S : m <= x
PROOF
  <1> DEFINE R == OpToRel(<, Nat)
  <1>1. IsWellFoundedOn(R, Nat)
    BY NatLessThanWellFounded
  <1>2. \A x, y \in Nat : x < y => <<x, y>> \in R
    BY DEF OpToRel
  <1> HIDE DEF R
  <1>3. PICK m \in S : \A y \in S : ~(<<y, m>> \in R)
    BY <1>1, WFMin
  <1>4. \A x, y \in Nat : ~(y < x) => x <= y
    OBVIOUS
  <1> QED
    BY <1>2, <1>3, <1>4

\* A non-empty set of natural numbers with a bound has a greatest one.
LEMMA Most ==
    ASSUME NEW S \in SUBSET Nat, S # {}, NEW n \in Nat, \A x \in S : x <= n
    PROVE  \E m \in S : \A x \in S : x <= m
PROOF
  <1> DEFINE T == {n - x : x \in S}
  <1>1. T \in SUBSET Nat /\ T # {}
    <2>1. \A x \in S : n - x \in Nat
      OBVIOUS
    <2> QED
      BY <2>1
  <1>2. PICK t \in T : \A y \in T : t <= y
    BY <1>1, Least
  <1>3. PICK m \in S : t = n - m
    OBVIOUS
  <1>4. \A x \in S : n - m <= n - x
    BY <1>2, <1>3
  <1> QED
    BY <1>4

\* Greatest finds it.
LEMMA GreatestIs ==
    ASSUME NEW S \in SUBSET (0 .. MaxJob)
    PROVE  Greatest(S) \in 0 .. MaxJob /\ \A x \in S : x <= Greatest(S)
PROOF
  <1> DEFINE T == S \cup {0}
  <1>1. T \in SUBSET Nat /\ T \in SUBSET (0 .. MaxJob) /\ T # {} /\ \A x \in T : x <= MaxJob
    OBVIOUS
  <1>2. \E m \in T : \A x \in T : x <= m
    BY <1>1, Most
  <1>3. Greatest(S) \in T /\ \A x \in T : Greatest(S) >= x
    BY <1>1, <1>2 DEF Greatest
  <1> QED
    BY <1>1, <1>3

\* A row is a job, once: DISTINCT leaves nothing of the join.
LEMMA Rows ==
    ASSUME TypeOK
    PROVE  /\ Result \subseteq Jobs \X {0} /\ IsFiniteSet(Result)
           /\ \A row \in Result : row = <<row[1], 0>> /\ row[1] \in Jobs /\ row[1] \in Nat
           /\ \A row \in Result : Rank(row) = Cardinality(Above(row[1]))
           /\ \A j : j \in Listed <=> <<j, 0>> \in Result
PROOF
  <1>1. Filtered \subseteq Jobs
    BY DEF Filtered
  <1>2. Result \subseteq Jobs \X {0}
    BY <1>1 DEF Result, Distinct
  <1>3. IsFiniteSet(Jobs) /\ IsFiniteSet({0})
    <2>1. 1 \in Int /\ MaxJob \in Int
      OBVIOUS
    <2> QED
      BY <2>1, FS_Interval, FS_Singleton DEF Jobs
  <1>4. IsFiniteSet(Result)
    BY <1>2, <1>3, FS_Product, FS_Subset
  <1>5. \A row \in Result : row = <<row[1], 0>> /\ row[1] \in Jobs /\ row[1] \in Nat
    BY <1>2 DEF Jobs
  <1>6. ASSUME NEW row \in Result PROVE Rank(row) = Cardinality(Above(row[1]))
    <2>1. \A other \in Result : Precedes(other, row) <=> other[1] > row[1]
      BY <1>5 DEF Precedes
    <2> QED
      BY <2>1 DEF Rank, Above
  <1>7. \A j : j \in Listed <=> <<j, 0>> \in Result
    BY <1>5 DEF Listed
  <1> QED
    BY <1>2, <1>4, <1>5, <1>6, <1>7

\* Ranks and sizes are numbers.
LEMMA Sizes ==
    ASSUME TypeOK
    PROVE  /\ \A S \in SUBSET Result : IsFiniteSet(S) /\ Cardinality(S) \in Nat
           /\ \A j : Above(j) \in SUBSET Result /\ Cardinality(Above(j)) \in Nat
           /\ \A n : First(n) \in SUBSET Result /\ Cardinality(First(n)) \in Nat
           /\ \A row \in Result : Rank(row) \in Nat
PROOF
  <1>1. \A S \in SUBSET Result : IsFiniteSet(S) /\ Cardinality(S) \in Nat
    BY Rows, FS_Subset, FS_CardinalityType
  <1>2. \A j : Above(j) \in SUBSET Result
    BY DEF Above
  <1>3. \A n : First(n) \in SUBSET Result
    BY DEF First
  <1> QED
    BY <1>1, <1>2, <1>3, Rows

\* No more than n rows are in the first n places.
LEMMA AtMost ==
    ASSUME TypeOK, NEW n \in Nat
    PROVE  Cardinality(First(n)) <= n
PROOF
  <1>1. CASE First(n) = {}
    BY <1>1, FS_EmptySet
  <1>2. CASE First(n) # {}
    <2> DEFINE ids == {row[1] : row \in First(n)}
    <2>1. ids \in SUBSET Nat /\ ids # {}
      BY <1>2, Rows DEF First
    <2>2. PICK m \in ids : \A x \in ids : m <= x
      BY <2>1, Least
    <2>3. PICK last \in First(n) : last[1] = m
      OBVIOUS
    <2>4. last \in Result /\ Rank(last) < n /\ Rank(last) = Cardinality(Above(m))
      BY <2>3, Rows DEF First
    <2>5. First(n) \ {last} \subseteq Above(m)
      <3> SUFFICES ASSUME NEW row \in First(n), row # last PROVE row \in Above(m)
        OBVIOUS
      <3>1. row \in Result /\ row[1] >= m
        BY <2>2, Sizes, Rows
      <3>2. row = <<row[1], 0>> /\ last = <<m, 0>> /\ row[1] \in Nat /\ m \in Nat
        BY <2>3, <2>4, <3>1, Rows
      <3> QED
        BY <3>1, <3>2 DEF Above
    <2>6. Cardinality(First(n) \ {last}) = Cardinality(First(n)) - 1
      BY <2>3, Sizes, FS_RemoveElement
    <2>7. Cardinality(First(n) \ {last}) <= Cardinality(Above(m))
      BY <2>5, Sizes, FS_Subset
    <2> QED
      BY <2>4, <2>6, <2>7, Sizes
  <1> QED
    BY <1>1, <1>2

\* They are n if there is a row further down.
LEMMA AtLeast ==
    ASSUME TypeOK, NEW n \in Nat, NEW row0 \in Result, Rank(row0) >= n
    PROVE  Cardinality(First(n)) >= n
PROOF
  <1> DEFINE ids == {row[1] : row \in {row \in Result : Rank(row) >= n}}
  <1>1. ids \in SUBSET Nat /\ ids # {} /\ \A x \in ids : x <= MaxJob
    BY Rows DEF Jobs
  <1>2. PICK m \in ids : \A x \in ids : x <= m
    BY <1>1, Most
  <1>3. PICK top \in Result : top[1] = m /\ Rank(top) >= n
    OBVIOUS
  <1>4. Above(m) \subseteq First(n)
    <2> SUFFICES ASSUME NEW row \in Result, row[1] > m PROVE Rank(row) < n
      BY DEF Above, First
    <2>1. row[1] \notin ids
      BY <1>1, <1>2, Rows
    <2> QED
      BY <2>1, Sizes
  <1>5. Cardinality(Above(m)) <= Cardinality(First(n))
    BY <1>4, Sizes, FS_Subset
  <1>6. Cardinality(Above(m)) >= n
    BY <1>3, Rows
  <1> QED
    BY <1>5, <1>6, Sizes

\* So the places from a to a + b are full if there is a row below them.
LEMMA FullPage ==
    ASSUME TypeOK, NEW a \in Nat, NEW b \in Nat, NEW row0 \in Result, Rank(row0) >= a + b
    PROVE  Cardinality({row \in Result : Rank(row) >= a /\ Rank(row) < a + b}) >= b
PROOF
  <1> DEFINE P == {row \in Result : Rank(row) >= a /\ Rank(row) < a + b}
  <1>1. P = First(a + b) \ First(a) /\ First(a + b) \cap First(a) = First(a)
    BY Sizes DEF First
  <1>2. Cardinality(P) = Cardinality(First(a + b)) - Cardinality(First(a))
    BY <1>1, Sizes, FS_Difference
  <1>3. Cardinality(First(a + b)) >= a + b /\ Cardinality(First(a)) <= a
    BY AtLeast, AtMost
  <1> QED
    BY <1>2, <1>3, Sizes

-----------------------------------------------------------------------------
(* The invariant *)

\* A job the client has seen is above the end of its last page, unless one came.
SeenInv ==
    \A j \in shown : j >= topCame => Cardinality(Above(j)) < page * size

\* A job it should have seen and has not is below that, unless one left.
UnseenInv ==
    /\ steady \subseteq Listed
    /\ \A j \in steady \ shown : j >= topLeft => Cardinality(Above(j)) >= page * size

BeforeTheFirst == page = 0 => ~done /\ shown = {} /\ twice = {} /\ steady = {}

\* As long as no job has come or left, all are steady and no other was seen.
StillInv ==
    page # 0 /\ topLeft = 0 /\ topCame = 0 => steady = Listed /\ shown \subseteq Listed

IInv ==
    /\ TypeOK
    /\ SeenInv
    /\ UnseenInv
    /\ BeforeTheFirst
    /\ StillInv
    /\ SkippedOnlyIfOneLeft
    /\ RepeatedOnlyIfOneCame

\* The client has read nothing.
LEMMA InitIInv == Init => IInv
PROOF
  <1> SUFFICES ASSUME Init PROVE IInv
    OBVIOUS
  <1>1. TypeOK
    <2>1. jobs \in [Jobs -> {"none", "deleted"} \cup Life!Live] /\ 0 \in 0 .. MaxJob
      BY DEF Init, Life!Init
    <2> QED
      BY <2>1 DEF Init, TypeOK
  <1>2. SeenInv /\ UnseenInv /\ BeforeTheFirst /\ StillInv
    BY DEF Init, SeenInv, UnseenInv, BeforeTheFirst, StillInv
  <1>3. SkippedOnlyIfOneLeft /\ RepeatedOnlyIfOneCame
    BY DEF Init, SkippedOnlyIfOneLeft, RepeatedOnlyIfOneCame
  <1> QED
    BY <1>1, <1>2, <1>3 DEF IInv

\* Reading changes no row, and moves the end of the last page by a page.
LEMMA ReadStep == IInv /\ Read => IInv'
PROOF
  <1> SUFFICES ASSUME IInv, Read PROVE IInv'
    OBVIOUS
  <1> DEFINE rows == Page(page + 1)
             end == page * size
  <1>1. TypeOK
    BY DEF IInv
  <1>2. /\ ~done /\ page' = page + 1 /\ shown' = shown \cup JobsOn(rows)
        /\ twice' = twice \cup (shown \cap JobsOn(rows))
                          \cup {j \in JobsOn(rows) : Cardinality({row \in rows : row[1] = j}) > 1}
        /\ done' = (Cardinality(rows) < size)
        /\ steady' = IF page = 0 THEN Listed ELSE steady
        /\ UNCHANGED <<jobs, match, members, view, size, topLeft, topCame>>
    BY DEF Read
  <1>3. size \in Nat /\ page \in Nat /\ end \in Nat
    <2>1. size \in Nat /\ page \in Nat
      BY <1>1 DEF TypeOK
    <2> QED
      BY <2>1
  <1>4. page' * size' = end + size /\ Offset(page + 1) = end
    <2>1. \A a, b \in Nat : (a + 1) * b = a * b + b
      OBVIOUS
    <2>2. page + 1 - 1 = page
      BY <1>3
    <2> QED
      BY <1>2, <1>3, <2>1, <2>2 DEF Offset
  <1> HIDE DEF end
  <1>5. rows = {row \in Result : Rank(row) >= end /\ Rank(row) < end + size}
    BY <1>4 DEF Page
  <1> HIDE DEF rows
  <1>6. Result' = Result /\ Listed' = Listed /\ \A j : Above(j)' = Above(j)
    BY <1>2 DEF Result, Listed, Above, Filtered, Life!Live, OuterJoin, Distinct
  <1>7. JobsOn(rows) \subseteq Jobs
    BY <1>1, <1>5, Rows DEF JobsOn
  <1>8. TypeOK'
    <2>1. steady' \in SUBSET Jobs
      <3>1. Listed \subseteq Jobs
        BY <1>1, Rows DEF Listed
      <3> QED
        BY <1>1, <1>2, <3>1 DEF TypeOK
    <2> QED
      BY <1>1, <1>2, <1>3, <1>7, <2>1 DEF TypeOK
  <1>9. \A j \in JobsOn(rows) :
           /\ j \in Jobs /\ Cardinality(Above(j)) >= end /\ Cardinality(Above(j)) < end + size
           /\ {row \in rows : row[1] = j} = {<<j, 0>>}
    BY <1>1, <1>5, Rows DEF JobsOn
  <1>10. SeenInv'
    <2>1. \A j \in shown : j >= topCame => Cardinality(Above(j)) < end + size
      BY <1>1, <1>3, Sizes DEF IInv, SeenInv, end
    <2> QED
      BY <1>2, <1>4, <1>6, <1>9, <2>1 DEF SeenInv
  <1>11. ASSUME NEW j \in steady' \ shown', j >= topLeft
         PROVE  Cardinality(Above(j)) >= end + size
    <2>1. j \in Listed /\ Cardinality(Above(j)) >= end
      <3>1. CASE page = 0
        <4>1. end = 0
          BY <1>3, <3>1 DEF end
        <4> QED
          BY <1>1, <1>2, <1>11, <3>1, <4>1, Sizes
      <3>2. CASE page # 0
        BY <1>2, <1>11, <3>2 DEF IInv, UnseenInv, end
      <3> QED
        BY <3>1, <3>2
    <2>2. <<j, 0>> \in Result /\ Rank(<<j, 0>>) = Cardinality(Above(j))
      BY <1>1, <2>1, Rows
    <2>3. <<j, 0>> \notin rows
      BY <1>2, <1>11 DEF JobsOn
    <2> QED
      BY <1>1, <1>3, <1>5, <2>1, <2>2, <2>3, Sizes
  <1>12. UnseenInv'
    <2>1. steady' \subseteq Listed'
      BY <1>2, <1>6 DEF IInv, UnseenInv
    <2> QED
      BY <1>2, <1>4, <1>6, <1>11, <2>1 DEF UnseenInv
  <1>13. SkippedOnlyIfOneLeft'
    <2> SUFFICES ASSUME done', NEW j \in steady' \ shown', j >= topLeft
                 PROVE  FALSE
      <3>1. steady' \subseteq Nat /\ topLeft \in Nat /\ topLeft' = topLeft
        BY <1>2, <1>8 DEF TypeOK, Jobs
      <3> QED
        BY <3>1 DEF SkippedOnlyIfOneLeft
    <2>1. Cardinality(Above(j)) >= end + size /\ j \in Listed
      BY <1>6, <1>11, <1>12 DEF UnseenInv
    <2>2. <<j, 0>> \in Result /\ Rank(<<j, 0>>) >= end + size
      BY <1>1, <2>1, Rows
    <2>3. Cardinality(rows) >= size
      BY <1>1, <1>3, <1>5, <2>2, FullPage
    <2>4. Cardinality(rows) \in Nat /\ Cardinality(rows) < size
      BY <1>1, <1>2, <1>5, Sizes
    <2> QED
      BY <1>3, <2>3, <2>4
  <1>14. RepeatedOnlyIfOneCame'
    <2>1. \A j \in JobsOn(rows) : ~(Cardinality({row \in rows : row[1] = j}) > 1)
      <3> SUFFICES ASSUME NEW j \in JobsOn(rows)
                   PROVE  ~(Cardinality({row \in rows : row[1] = j}) > 1)
        OBVIOUS
      <3>1. {row \in rows : row[1] = j} = {<<j, 0>>}
        BY <1>9
      <3>2. Cardinality({<<j, 0>>}) = 1
        BY FS_Singleton
      <3>3. Cardinality({row \in rows : row[1] = j}) = 1
        BY <3>1, <3>2, Zenon
      <3> QED
        BY <3>3
    <2>2. \A j \in shown \cap JobsOn(rows) : j < topCame
      <3> SUFFICES ASSUME NEW j \in shown \cap JobsOn(rows), j >= topCame PROVE FALSE
        BY <1>1 DEF TypeOK, Jobs
      <3>1. Cardinality(Above(j)) < end /\ Cardinality(Above(j)) >= end
        BY <1>9 DEF IInv, SeenInv, end
      <3> QED
        BY <1>1, <1>3, <3>1, Sizes
    <2> QED
      BY <1>2, <2>1, <2>2 DEF IInv, RepeatedOnlyIfOneCame
  <1>15. BeforeTheFirst'
    BY <1>2, <1>3 DEF BeforeTheFirst
  <1>16. StillInv'
    <2>1. JobsOn(rows) \subseteq Listed
      BY <1>5 DEF JobsOn, Listed
    <2>2. page = 0 => shown = {}
      BY DEF IInv, BeforeTheFirst
    <2> QED
      BY <1>2, <1>6, <2>1, <2>2 DEF IInv, StillInv
  <1> QED
    BY <1>8, <1>10, <1>12, <1>13, <1>14, <1>15, <1>16 DEF IInv

\* The rows of others change, and the history with them.
LEMMA ElsewhereStep == IInv /\ Elsewhere => IInv'
PROOF
  <1> SUFFICES ASSUME IInv, Elsewhere PROVE IInv'
    OBVIOUS
  <1>1. TypeOK /\ UNCHANGED reader /\ Watch
    BY DEF IInv, Elsewhere
  <1>2. /\ jobs' \in [Jobs -> {"none", "deleted"} \cup Life!Live] /\ match' \in SUBSET Jobs
        /\ members' \in SUBSET Memberships
    <2>1. CASE \E j \in Jobs : ChangeJob(j)
      BY <1>1, <2>1 DEF TypeOK, ChangeJob, Create, Moderate, Edit, Delete, Life!Create,
         Life!Moderate, Life!Edit, Life!Delete, Life!Become, Life!Live
    <2>2. CASE \E m \in Memberships : AddRecruiter(m)
      BY <1>1, <2>2 DEF TypeOK, AddRecruiter
    <2> QED
      BY <2>1, <2>2 DEF Elsewhere
  <1>3. /\ view' = view /\ size' = size /\ page' = page /\ done' = done /\ shown' = shown
        /\ twice' = twice
    BY <1>1 DEF reader
  <1>4. /\ Listed \subseteq Jobs /\ Listed' \subseteq Jobs
        /\ Result \subseteq Jobs \X {0} /\ Result' \subseteq Jobs \X {0}
    BY <1>1, <1>2, <1>3 DEF Listed, Result, Distinct, Filtered, TypeOK
  <1>5. /\ topLeft' \in 0 .. MaxJob /\ topLeft' >= topLeft
        /\ topCame' \in 0 .. MaxJob /\ topCame' >= topCame
        /\ page # 0 => /\ \A x \in Listed \ Listed' : x <= topLeft'
                       /\ \A x \in Listed' \ Listed : x <= topCame'
                       /\ steady' = steady \cap Listed'
        /\ page = 0 => steady' = steady
    <2>1. CASE page = 0
      BY <1>1, <2>1 DEF Watch, TypeOK
    <2>2. CASE page # 0
      <3>1. /\ {topLeft} \cup (Listed \ Listed') \in SUBSET (0 .. MaxJob)
            /\ {topCame} \cup (Listed' \ Listed) \in SUBSET (0 .. MaxJob)
        BY <1>1, <1>4 DEF TypeOK, Jobs
      <3>2. /\ topLeft' = Greatest({topLeft} \cup (Listed \ Listed'))
            /\ topCame' = Greatest({topCame} \cup (Listed' \ Listed))
            /\ steady' = steady \cap Listed'
        BY <1>1, <2>2 DEF Watch
      <3>3. topLeft' \in 0 .. MaxJob
            /\ \A x \in {topLeft} \cup (Listed \ Listed') : x <= topLeft'
        BY <3>1, <3>2, GreatestIs
      <3>4. topCame' \in 0 .. MaxJob
            /\ \A x \in {topCame} \cup (Listed' \ Listed) : x <= topCame'
        BY <3>1, <3>2, GreatestIs
      <3>5. topLeft \in 0 .. MaxJob /\ topCame \in 0 .. MaxJob
        BY <1>1 DEF TypeOK
      <3> QED
        BY <2>2, <3>2, <3>3, <3>4, <3>5
    <2> QED
      BY <2>1, <2>2
  <1>6. TypeOK'
    BY <1>1, <1>2, <1>3, <1>5 DEF TypeOK
  <1>7. \A row \in Jobs \X {0} : row = <<row[1], 0>> /\ row[1] \in Jobs
    OBVIOUS
  <1>8. CASE page = 0
    <2>1. shown' = {} /\ twice' = {} /\ steady' = {} /\ page' = 0 /\ ~done'
      BY <1>3, <1>5, <1>8 DEF IInv, BeforeTheFirst
    <2> QED
      BY <1>6, <2>1 DEF IInv, SeenInv, UnseenInv, BeforeTheFirst, StillInv,
                        SkippedOnlyIfOneLeft, RepeatedOnlyIfOneCame
  <1>9. CASE page # 0
    <2>1. /\ shown \subseteq Jobs /\ steady \subseteq Jobs /\ twice \subseteq Jobs
          /\ Jobs \subseteq Nat /\ size \in Nat /\ page \in Nat
          /\ topLeft \in Nat /\ topCame \in Nat /\ topLeft' \in Nat /\ topCame' \in Nat
      BY <1>1, <1>5 DEF TypeOK, Jobs
    <2>2. page * size \in Nat
      BY <2>1
    <2>3. \A j : /\ Cardinality(Above(j)) \in Nat /\ IsFiniteSet(Above(j))
                 /\ Cardinality(Above(j)') \in Nat /\ IsFiniteSet(Above(j)')
      <3>1. \A j : Cardinality(Above(j)) \in Nat /\ IsFiniteSet(Above(j))
        BY <1>1, Sizes
      <3>2. IsFiniteSet(Result')
        <4>1. IsFiniteSet(Jobs) /\ IsFiniteSet({0})
          <5>1. 1 \in Int /\ MaxJob \in Int
            OBVIOUS
          <5> QED
            BY <5>1, FS_Interval, FS_Singleton DEF Jobs
        <4> QED
          BY <1>4, <4>1, FS_Product, FS_Subset
      <3>3. \A j : Above(j)' \in SUBSET (Result')
        BY DEF Above
      <3> QED
        BY <3>1, <3>2, <3>3, FS_Subset, FS_CardinalityType
    <2>4. SeenInv'
      <3> SUFFICES ASSUME NEW j \in shown, j >= topCame'
                   PROVE  Cardinality(Above(j)') < page * size
        BY <1>3 DEF SeenInv
      <3>1. Above(j)' \subseteq Above(j)
        <4> SUFFICES ASSUME NEW row \in Result', row[1] > j
                     PROVE  row \in Result
          BY DEF Above
        <4>1. row \in Jobs \X {0}
          BY <1>4
        <4>2. row = <<row[1], 0>> /\ row[1] \in Listed' /\ row[1] \in Nat
          <5>1. row = <<row[1], 0>> /\ row[1] \in Nat
            BY <1>7, <2>1, <4>1
          <5>2. Listed' = {x[1] : x \in Result'}
            BY DEF Listed
          <5> QED
            BY <5>1, <5>2
        <4>3. row[1] \in Listed
          BY <1>5, <1>9, <2>1, <4>2
        <4> QED
          BY <1>1, <4>2, <4>3, Rows
      <3>2. Cardinality(Above(j)') <= Cardinality(Above(j))
        BY <2>3, <3>1, FS_Subset
      <3>3. j >= topCame
        BY <1>5, <2>1
      <3>4. Cardinality(Above(j)) < page * size
        BY <3>3 DEF IInv, SeenInv
      <3> QED
        BY <2>2, <2>3, <3>2, <3>4
    <2>5. UnseenInv'
      <3>1. steady' \subseteq Listed'
        BY <1>5, <1>9
      <3> SUFFICES ASSUME NEW j \in steady' \ shown, j >= topLeft'
                   PROVE  Cardinality(Above(j)') >= page * size
        BY <1>3, <3>1 DEF UnseenInv
      <3>2. Above(j) \subseteq Above(j)'
        <4> SUFFICES ASSUME NEW row \in Result, row[1] > j
                     PROVE  row \in Result'
          BY DEF Above
        <4>1. row \in Jobs \X {0}
          BY <1>4
        <4>2. row = <<row[1], 0>> /\ row[1] \in Listed /\ row[1] \in Nat
          <5>1. row = <<row[1], 0>> /\ row[1] \in Nat
            BY <1>7, <2>1, <4>1
          <5>2. Listed = {x[1] : x \in Result}
            BY DEF Listed
          <5> QED
            BY <5>1, <5>2
        <4>3. row[1] \in Listed' /\ j \in Nat
          BY <1>5, <1>9, <2>1, <4>2
        <4>4. \A x \in Listed' : <<x, 0>> \in Result'
          BY <1>4 DEF Listed
        <4> QED
          BY <4>2, <4>3, <4>4
      <3>3. Cardinality(Above(j)) <= Cardinality(Above(j)')
        BY <2>3, <3>2, FS_Subset
      <3>4. j >= topLeft /\ j \in steady \ shown
        <4>1. j \in steady \ shown /\ j \in Nat
          BY <1>5, <1>9, <2>1
        <4> QED
          BY <1>5, <2>1, <4>1
      <3>5. Cardinality(Above(j)) >= page * size
        BY <3>4 DEF IInv, UnseenInv
      <3> QED
        BY <2>2, <2>3, <3>3, <3>5
    <2>6. SkippedOnlyIfOneLeft' /\ RepeatedOnlyIfOneCame'
      <3>1. \A j \in Nat : (j < topLeft => j < topLeft') /\ (j < topCame => j < topCame')
        BY <1>5, <2>1
      <3>2. steady' \subseteq steady
        BY <1>5, <1>9
      <3>3. /\ done => \A j \in steady \ shown : j < topLeft
            /\ \A j \in twice : j < topCame
        BY DEF IInv, SkippedOnlyIfOneLeft, RepeatedOnlyIfOneCame
      <3>4. /\ done' => \A j \in steady' \ shown' : j < topLeft'
            /\ \A j \in twice' : j < topCame'
        BY <1>3, <2>1, <3>1, <3>2, <3>3
      <3> QED
        BY <3>4 DEF SkippedOnlyIfOneLeft, RepeatedOnlyIfOneCame
    <2>7. BeforeTheFirst'
      BY <1>3, <1>9 DEF BeforeTheFirst
    <2>8. StillInv'
      <3> SUFFICES ASSUME topLeft' = 0, topCame' = 0
                   PROVE  steady' = Listed' /\ shown \subseteq Listed'
        BY <1>3 DEF StillInv
      <3>1. topLeft = 0 /\ topCame = 0
        BY <1>5, <2>1
      <3>2. \A x \in Jobs : ~(x <= 0)
        BY DEF Jobs
      <3>3. Listed \ Listed' = {} /\ Listed' \ Listed = {}
        BY <1>4, <1>5, <1>9, <3>2
      <3>4. steady = Listed /\ shown \subseteq Listed
        BY <1>9, <3>1 DEF IInv, StillInv
      <3> QED
        BY <1>5, <1>9, <3>3, <3>4
    <2> QED
      BY <1>6, <2>4, <2>5, <2>6, <2>7, <2>8 DEF IInv
  <1> QED
    BY <1>8, <1>9

\* Every step keeps the invariant.
LEMMA StepIInv == IInv /\ [Next]_vars => IInv'
PROOF
  <1> SUFFICES ASSUME IInv, [Next]_vars PROVE IInv'
    OBVIOUS
  <1>1. CASE UNCHANGED vars
    BY <1>1 DEF vars, IInv, TypeOK, SeenInv, UnseenInv, BeforeTheFirst, StillInv,
       SkippedOnlyIfOneLeft, RepeatedOnlyIfOneCame, Above, Listed, Result, Distinct, Filtered, OuterJoin
  <1>2. CASE Next
    BY <1>2, ReadStep, ElsewhereStep DEF Next
  <1> QED
    BY <1>1, <1>2

-----------------------------------------------------------------------------
\* The invariant holds in every state.
THEOREM Invariant == Spec => []IInv
PROOF
  <1> QED
    BY InitIInv, StepIInv, PTL DEF Spec

\* Every variable keeps its type.
THEOREM TypeCorrect == Spec => []TypeOK
PROOF
  <1>1. IInv => TypeOK
    BY DEF IInv
  <1> QED
    BY <1>1, Invariant, PTL

\* A client that reads to the last page misses a job that is listed all the time
\* only if a newer one left the listing meanwhile.
THEOREM NothingIsSkipped == Spec => []SkippedOnlyIfOneLeft
PROOF
  <1>1. IInv => SkippedOnlyIfOneLeft
    BY DEF IInv
  <1> QED
    BY <1>1, Invariant, PTL

\* It sees a job twice only if a newer one came into the listing meanwhile.
THEOREM NothingIsRepeated == Spec => []RepeatedOnlyIfOneCame
PROOF
  <1>1. IInv => RepeatedOnlyIfOneCame
    BY DEF IInv
  <1> QED
    BY <1>1, Invariant, PTL

\* While no job comes or leaves, the pages up to the last are the whole listing,
\* each job once, whatever the page size.
THEOREM PagesAreTheListing == Spec => []WholeIfNothingMoved
PROOF
  <1>1. IInv => WholeIfNothingMoved
    <2> SUFFICES ASSUME IInv, done, topLeft = 0, topCame = 0
                 PROVE  shown = Listed /\ twice = {}
      BY DEF WholeIfNothingMoved
    <2>1. page # 0
      BY DEF IInv, BeforeTheFirst
    <2>2. steady = Listed /\ shown \subseteq Listed
      BY <2>1 DEF IInv, StillInv
    <2>3. /\ steady \subseteq Jobs /\ twice \subseteq Jobs
          /\ \A x \in Jobs : ~(x < 0)
      BY DEF IInv, TypeOK, Jobs
    <2>4. steady \ shown = {}
      BY <2>3 DEF IInv, SkippedOnlyIfOneLeft
    <2>5. twice = {}
      BY <2>3 DEF IInv, RepeatedOnlyIfOneCame
    <2> QED
      BY <2>2, <2>4, <2>5
  <1> QED
    BY <1>1, Invariant, PTL
=============================================================================
