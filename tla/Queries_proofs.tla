--------------------------- MODULE Queries_proofs ---------------------------
(***************************************************************************)
(* Proofs about the list of races and the analytics: any rows, ranges,     *)
(* filters, pages, groupings, periods, sizes of a query's answer, and any  *)
(* width of an int.                                                        *)
(***************************************************************************)
EXTENDS Queries, FiniteSetTheorems, WellFoundedInduction, TLAPS

----------------------------------------------------------------------------
(* The invariant: the answer is about the rows that are there.             *)

\* What GET /driver/{id}/races answers.
RacesAnswer(range, series, cars, page, perPage) ==
  [op |-> "races", range |-> range, series |-> series, cars |-> cars,
   page |-> page, perPage |-> perPage,
   result |-> RacesOf(range, series, cars, page, perPage)]

\* What GET /driver/{id}/analytics may find.
AnalyticsResults(range, series, cars, groupBy, granularity) ==
  IF Refused(range, groupBy, granularity) THEN {[status |-> 400]}
  ELSE IF ~ValidBetween(range[1], range[2]) THEN {[status |-> 500]}
  ELSE AnalyticsOf(Filtered(Query(range[1], range[2]), series, cars), groupBy, granularity)

AnalyticsAnswer(range, series, cars, groupBy, granularity, result) ==
  [op |-> "analytics", range |-> range, series |-> series, cars |-> cars,
   groupBy |-> groupBy, granularity |-> granularity, result |-> result]

\* What GET /driver/{id}/analytics/dimensions answers.
DimensionsResult(range) ==
  IF range[2] < range[1] THEN [status |-> 400]
  ELSE IF ~ValidBetween(range[1], range[2]) THEN [status |-> 500]
  ELSE DimensionsOf(Query(range[1], range[2]))

DimensionsAnswer(range) ==
  [op |-> "dimensions", range |-> range, series |-> {}, cars |-> {},
   result |-> DimensionsResult(range)]

RacesAnswered ==
  \E range \in Ranges, series \in SeriesIDs, cars \in CarIDs, page, perPage \in 1 .. MaxInt :
    answer = RacesAnswer(range, series, cars, page, perPage)

AnalyticsAnswered ==
  \E range \in Ranges, series \in SeriesIDs, cars \in CarIDs,
     groupBy \in GroupBys, granularity \in Granularities :
    \E result \in AnalyticsResults(range, series, cars, groupBy, granularity) :
      answer = AnalyticsAnswer(range, series, cars, groupBy, granularity, result)

DimensionsAnswered == \E range \in Ranges : answer = DimensionsAnswer(range)

RaceRecords == [series : Int, car : Int, old : Int, new : Int, grid : Int,
                finish : Nat, incidents : Int]

RowsTyped ==
  /\ DOMAIN rows \subseteq Starts
  /\ \A s \in DOMAIN rows : rows[s] \in RaceRecords

QueriesInv ==
  /\ RowsTyped
  /\ answer = NoAnswer \/ RacesAnswered \/ AnalyticsAnswered \/ DimensionsAnswered

\* The table is empty and nothing has been asked.
LEMMA InitQueries == Init => QueriesInv
BY DEF Init, QueriesInv, RowsTyped

\* Questions are answered from the rows alone: the same rows, the same answers.
LEMMA SameRows ==
  ASSUME rows' = rows
  PROVE  /\ \A range, series, cars, page, perPage :
              RacesAnswer(range, series, cars, page, perPage)'
                = RacesAnswer(range, series, cars, page, perPage)
         /\ \A range, series, cars, groupBy, granularity :
              AnalyticsResults(range, series, cars, groupBy, granularity)'
                = AnalyticsResults(range, series, cars, groupBy, granularity)
         /\ \A range : DimensionsAnswer(range)' = DimensionsAnswer(range)
<1>1. ASSUME NEW range, NEW series, NEW cars, NEW page, NEW perPage
      PROVE  RacesAnswer(range, series, cars, page, perPage)'
               = RacesAnswer(range, series, cars, page, perPage)
  BY DEF RacesAnswer, RacesOf, PageOf, Nth, Newer, Filtered, Query, Session
<1>2. ASSUME NEW range, NEW series, NEW cars, NEW groupBy, NEW granularity
      PROVE  AnalyticsResults(range, series, cars, groupBy, granularity)'
               = AnalyticsResults(range, series, cars, groupBy, granularity)
  <2>1. ASSUME NEW ss PROVE computeSummary(Chronological(ss))' = computeSummary(Chronological(ss))
    BY DEF Chronological, InOrder, Session
  <2>2. ASSUME NEW ss PROVE computeGroupedStats(ss, groupBy)' = computeGroupedStats(ss, groupBy)
    <3>1. ASSUME NEW s PROVE GroupKey(s, groupBy)' = GroupKey(s, groupBy)
      BY DEF GroupKey, Session
    <3> DEFINE Group(key) == {s \in ss : GroupKey(s, groupBy) = key}
               Entry(key) == [key |-> key, summary |-> computeSummary(Chronological(Group(key)))]
               groups == {Entry(key) : key \in {GroupKey(s, groupBy) : s \in ss}}
               Ordered(all) ==
                 {order \in SetToSeqs(all) : \A i, j \in DOMAIN order :
                    i < j => order[i].summary.raceCount >= order[j].summary.raceCount}
    <3>2. ASSUME NEW key PROVE Entry(key)' = Entry(key)
      <4>1. Group(key)' = Group(key)
        BY <3>1
      <4>2. QED
        BY <2>1, <4>1
    <3>3. {GroupKey(s, groupBy) : s \in ss}' = {GroupKey(s, groupBy) : s \in ss}
      BY <3>1
    <3>4. groups' = groups
      <4> HIDE DEF Entry
      <4>1. QED
        BY <3>2, <3>3
    <3>5. /\ computeGroupedStats(ss, groupBy) = Ordered(groups)
          /\ computeGroupedStats(ss, groupBy)' = Ordered(groups')
      BY Zenon DEF computeGroupedStats
    <3>6. QED
      BY <3>4, <3>5
  <2>3. ASSUME NEW ss PROVE computeTimeSeries(ss, granularity)' = computeTimeSeries(ss, granularity)
    BY <2>1 DEF computeTimeSeries
  <2>4. ASSUME NEW ss
        PROVE  AnalyticsOf(ss, groupBy, granularity)' = AnalyticsOf(ss, groupBy, granularity)
    BY <2>1, <2>2, <2>3 DEF AnalyticsOf
  <2>5. Filtered(Query(range[1], range[2]), series, cars)'
          = Filtered(Query(range[1], range[2]), series, cars)
    BY DEF Filtered, Query, Newer, Session
  <2>6. QED
    BY <2>4, <2>5 DEF AnalyticsResults
<1>3. ASSUME NEW range PROVE DimensionsAnswer(range)' = DimensionsAnswer(range)
  BY DEF DimensionsAnswer, DimensionsResult, DimensionsOf, Query, Newer, Session
<1>4. QED
  BY <1>1, <1>2, <1>3

\* Rows come only before the next question, and a question changes no row.
LEMMA StepQueries == QueriesInv /\ [Next]_vars => QueriesInv'
<1> SUFFICES ASSUME QueriesInv, [Next]_vars PROVE QueriesInv'
  OBVIOUS
<1>1. CASE UNCHANGED vars
  <2>1. rows' = rows /\ answer' = answer
    BY <1>1 DEF vars
  <2>2. RowsTyped'
    BY <2>1 DEF QueriesInv, RowsTyped
  <2>3. RacesAnswered => RacesAnswered'
    BY <2>1, SameRows DEF RacesAnswered
  <2>4. AnalyticsAnswered => AnalyticsAnswered'
    BY <2>1, SameRows DEF AnalyticsAnswered, AnalyticsAnswer
  <2>5. DimensionsAnswered => DimensionsAnswered'
    BY <2>1, SameRows DEF DimensionsAnswered
  <2>6. QED
    BY <2>1, <2>2, <2>3, <2>4, <2>5 DEF QueriesInv
<1>2. ASSUME NEW start \in Starts, NEW race \in Races, SaveDriverSession(start, race)
      PROVE  QueriesInv'
  <2>1. race \in RaceRecords
    BY RacesAssumption DEF RaceRecords
  <2>2. RowsTyped'
    BY <1>2, <2>1 DEF SaveDriverSession, QueriesInv, RowsTyped
  <2>3. QED
    BY <1>2, <2>2 DEF SaveDriverSession, QueriesInv
<1>3. ASSUME rows' = rows,
             RacesAnswered' \/ AnalyticsAnswered' \/ DimensionsAnswered'
      PROVE  QueriesInv'
  BY <1>3 DEF QueriesInv, RowsTyped
<1>4. ASSUME NEW range \in Ranges, GetDimensions(range)
      PROVE  QueriesInv'
  <2>1. rows' = rows /\ answer' = DimensionsAnswer(range)
    BY <1>4 DEF GetDimensions, DimensionsAnswer, DimensionsResult
  <2>2. DimensionsAnswered'
    BY <2>1, SameRows DEF DimensionsAnswered
  <2>3. QED
    BY <1>3, <2>1, <2>2
<1>5. ASSUME NEW range \in Ranges, NEW series \in SeriesIDs, NEW cars \in CarIDs,
             NEW page \in 1 .. MaxInt, NEW perPage \in 1 .. MaxInt,
             GetRaces(range, series, cars, page, perPage)
      PROVE  QueriesInv'
  <2>1. rows' = rows /\ answer' = RacesAnswer(range, series, cars, page, perPage)
    BY <1>5 DEF GetRaces, RacesAnswer
  <2>2. RacesAnswered'
    BY <2>1, SameRows DEF RacesAnswered
  <2>3. QED
    BY <1>3, <2>1, <2>2
<1>6. ASSUME NEW range \in Ranges, NEW series \in SeriesIDs, NEW cars \in CarIDs,
             NEW groupBy \in GroupBys, NEW granularity \in Granularities,
             GetAnalytics(range, series, cars, groupBy, granularity)
      PROVE  QueriesInv'
  <2>1. rows' = rows
    BY <1>6 DEF GetAnalytics
  <2>2. PICK result \in AnalyticsResults(range, series, cars, groupBy, granularity) :
          answer' = AnalyticsAnswer(range, series, cars, groupBy, granularity, result)
    BY <1>6 DEF GetAnalytics, AnalyticsAnswer, AnalyticsResults
  <2>3. result \in AnalyticsResults(range, series, cars, groupBy, granularity)'
    BY <2>1, <2>2, SameRows
  <2>4. AnalyticsAnswered'
    BY <2>2, <2>3 DEF AnalyticsAnswered, AnalyticsAnswer
  <2>5. QED
    BY <1>3, <2>1, <2>4
<1>7. QED
  BY <1>1, <1>2, <1>4, <1>5, <1>6 DEF Next

LEMMA QueriesInvariant == Spec => []QueriesInv
BY InitQueries, StepQueries, PTL DEF Spec

\* What an answer of the analytics is, if they were computed.
LEMMA AnalyticsAre ==
  ASSUME NEW ss, NEW groupBy, NEW granularity,
         NEW result \in AnalyticsOf(ss, groupBy, granularity)
  PROVE  /\ result.status = 200
         /\ result.summary = computeSummary(Chronological(ss))
         /\ groupBy # <<>> => result.groupedBy \in computeGroupedStats(ss, groupBy)
         /\ result.timeSeries = IF granularity = 0 THEN <<>>
                                ELSE computeTimeSeries(ss, granularity)
<1>1. PICK groups \in IF groupBy = <<>> THEN {<<>>} ELSE computeGroupedStats(ss, groupBy) :
        result = [status |-> 200, summary |-> computeSummary(Chronological(ss)),
                  groupedBy |-> groups,
                  timeSeries |-> IF granularity = 0 THEN <<>>
                                 ELSE computeTimeSeries(ss, granularity)]
  BY DEF AnalyticsOf
<1>2. QED
  BY <1>1

\* An answer of the analytics or the dimensions: the parts of its record.
LEMMA AnalyticsParts ==
  ASSUME NEW range, NEW series, NEW cars, NEW groupBy, NEW granularity, NEW result,
         answer = AnalyticsAnswer(range, series, cars, groupBy, granularity, result)
  PROVE  /\ answer.op = "analytics" /\ answer.range = range /\ answer.series = series
         /\ answer.cars = cars /\ answer.groupBy = groupBy /\ answer.result = result
BY DEF AnalyticsAnswer

LEMMA DimensionsParts ==
  ASSUME NEW range, answer = DimensionsAnswer(range)
  PROVE  /\ answer.op = "dimensions" /\ answer.range = range /\ answer.series = {}
         /\ answer.cars = {} /\ answer.result = DimensionsResult(range)
BY DEF DimensionsAnswer

\* Analytics and dimensions fail only if the query does.
LEMMA OthersFail ==
  ASSUME AnalyticsAnswered \/ DimensionsAnswered
  PROVE  /\ answer.op \in {"analytics", "dimensions"} /\ answer.range \in Ranges
         /\ answer.result.status = 500 =>
              /\ answer.range[1] <= answer.range[2]
              /\ ~ValidBetween(answer.range[1], answer.range[2])
<1>1. CASE AnalyticsAnswered
  <2>1. PICK range \in Ranges, series \in SeriesIDs, cars \in CarIDs,
             groupBy \in GroupBys, granularity \in Granularities :
          \E result \in AnalyticsResults(range, series, cars, groupBy, granularity) :
            answer = AnalyticsAnswer(range, series, cars, groupBy, granularity, result)
    BY <1>1 DEF AnalyticsAnswered
  <2>2. PICK result \in AnalyticsResults(range, series, cars, groupBy, granularity) :
          answer = AnalyticsAnswer(range, series, cars, groupBy, granularity, result)
    BY <2>1
  <2>3. range[1] \in 0 .. 99 /\ range[2] \in 0 .. 99
    BY <2>1, QueriesAssumption
  <2>4. result.status = 500 => range[1] <= range[2] /\ ~ValidBetween(range[1], range[2])
    <3>1. CASE Refused(range, groupBy, granularity)
      BY <2>2, <3>1 DEF AnalyticsResults
    <3>2. CASE ~Refused(range, groupBy, granularity) /\ ~ValidBetween(range[1], range[2])
      <4>1. ~(range[2] < range[1])
        BY <3>2 DEF Refused
      <4>2. QED
        BY <2>3, <3>2, <4>1
    <3>3. CASE ~Refused(range, groupBy, granularity) /\ ValidBetween(range[1], range[2])
      <4>1. result \in AnalyticsOf(Filtered(Query(range[1], range[2]), series, cars),
                                   groupBy, granularity)
        BY <2>2, <3>3 DEF AnalyticsResults
      <4>2. result.status = 200
        BY <4>1, AnalyticsAre
      <4>3. QED
        BY <4>2
    <3>4. QED
      BY <3>1, <3>2, <3>3
  <2>5. QED
    BY <2>1, <2>2, <2>4, AnalyticsParts
<1>2. CASE DimensionsAnswered
  <2>1. PICK range \in Ranges : answer = DimensionsAnswer(range)
    BY <1>2 DEF DimensionsAnswered
  <2>2. range[1] \in 0 .. 99 /\ range[2] \in 0 .. 99
    BY <2>1, QueriesAssumption
  <2>3. DimensionsOf(Query(range[1], range[2])).status = 200
    BY DEF DimensionsOf
  <2>4. DimensionsResult(range).status = 500 =>
          range[1] <= range[2] /\ ~ValidBetween(range[1], range[2])
    BY <2>2, <2>3 DEF DimensionsResult
  <2>5. QED
    BY <2>1, <2>4, DimensionsParts
<1>3. QED
  BY <1>1, <1>2

----------------------------------------------------------------------------
(* Keys with equally many digits are ordered like their numbers.           *)

LEMMA DigitsAre ==
  ASSUME NEW n \in 0 .. 99
  PROVE  /\ n < 10 => Len(Digits(n)) = 1 /\ Digits(n)[1] = n
         /\ n >= 10 => /\ Len(Digits(n)) = 2
                       /\ Digits(n)[1] = n \div 10 /\ Digits(n)[2] = n % 10
BY DEF Digits

LEMMA SameDigits ==
  ASSUME NEW m \in 0 .. 99, NEW n \in 0 .. 99, Len(Digits(m)) = Len(Digits(n))
  PROVE  (KeyBefore(m, n) <=> m < n) /\ (KeyUpTo(m, n) <=> m <= n)
<1>1. CASE m < 10
  <2>0. Len(Digits(m)) = 1
    BY <1>1, DigitsAre
  <2>1. n < 10
    <3>1. n >= 10 => Len(Digits(n)) = 2
      BY DigitsAre
    <3>2. QED
      BY <2>0, <3>1
  <2>2. /\ Len(Digits(m)) = 1 /\ Digits(m)[1] = m
        /\ Len(Digits(n)) = 1 /\ Digits(n)[1] = n
    BY <1>1, <2>1, DigitsAre
  <2>3. QED
    BY <2>2 DEF KeyBefore, KeyUpTo
<1>2. CASE m >= 10
  <2>0. Len(Digits(m)) = 2
    BY <1>2, DigitsAre
  <2>1. n >= 10
    <3>1. n < 10 => Len(Digits(n)) = 1
      BY DigitsAre
    <3>2. QED
      BY <2>0, <3>1
  <2>2. /\ Len(Digits(m)) = 2 /\ Digits(m)[1] = m \div 10 /\ Digits(m)[2] = m % 10
        /\ Len(Digits(n)) = 2 /\ Digits(n)[1] = n \div 10 /\ Digits(n)[2] = n % 10
    BY <1>2, <2>1, DigitsAre
  <2>3. m < n <=> \/ m \div 10 < n \div 10
                  \/ m \div 10 = n \div 10 /\ m % 10 < n % 10
    OBVIOUS
  <2>4. QED
    BY <2>2, <2>3 DEF KeyBefore, KeyUpTo
<1>3. QED
  BY <1>1, <1>2

----------------------------------------------------------------------------
(* Ranks: the newest of n races has rank 0, the oldest n - 1.              *)

Greater(ss, s) == {t \in ss : t > s}

LEMMA StartsFinite ==
  ASSUME NEW ss \in SUBSET Starts
  PROVE  IsFiniteSet(ss) /\ Cardinality(ss) \in Nat
<1>1. IsFiniteSet(0 .. 99)
  <2>1. \A m, n \in Int : IsFiniteSet(m .. n)
    BY FS_Interval
  <2>2. 0 \in Int /\ 99 \in Int
    OBVIOUS
  <2>3. QED
    BY <2>1, <2>2, Zenon
<1>2. ss \subseteq 0 .. 99
  BY QueriesAssumption
<1>3. QED
  BY <1>1, <1>2, FS_Subset, FS_CardinalityType

LEMMA RankIs ==
  ASSUME NEW ss \in SUBSET Starts, NEW s \in ss
  PROVE  Cardinality(Greater(ss, s)) \in 0 .. Cardinality(ss) - 1
<1>1. Greater(ss, s) \subseteq ss /\ s \notin Greater(ss, s)
  BY QueriesAssumption DEF Greater
<1>2. IsFiniteSet(ss) /\ Cardinality(ss) \in Nat
  BY StartsFinite
<1>3. Cardinality(Greater(ss, s)) \in Nat
  BY <1>1, StartsFinite
<1>4. Cardinality(Greater(ss, s)) < Cardinality(ss)
  <2>1. Greater(ss, s) # ss
    BY <1>1
  <2>2. QED
    BY <1>1, <1>2, <1>3, <2>1, FS_Subset
<1>5. QED
  BY <1>2, <1>3, <1>4

\* Of two races the newer has the smaller rank.
LEMMA RankFalls ==
  ASSUME NEW ss \in SUBSET Starts, NEW s \in ss, NEW t \in ss, s < t
  PROVE  Cardinality(Greater(ss, t)) < Cardinality(Greater(ss, s))
<1>1. /\ Greater(ss, t) \subseteq Greater(ss, s) /\ Greater(ss, s) \subseteq Starts
      /\ t \in Greater(ss, s) /\ t \notin Greater(ss, t)
  <2>1. \A u \in ss : u \in Nat
    BY QueriesAssumption
  <2>2. QED
    BY <2>1 DEF Greater
<1>2. Greater(ss, t) # Greater(ss, s)
  BY <1>1
<1>3. /\ IsFiniteSet(Greater(ss, s)) /\ Cardinality(Greater(ss, s)) \in Nat
      /\ Cardinality(Greater(ss, t)) \in Nat
  BY <1>1, StartsFinite
<1>4. QED
  BY <1>1, <1>2, <1>3, FS_Subset

LEMMA RanksDiffer ==
  ASSUME NEW ss \in SUBSET Starts, NEW s \in ss, NEW t \in ss,
         Cardinality(Greater(ss, s)) = Cardinality(Greater(ss, t))
  PROVE  s = t
<1>1. s \in Nat /\ t \in Nat
  BY QueriesAssumption
<1>2. Cardinality(Greater(ss, s)) \in Nat /\ Cardinality(Greater(ss, t)) \in Nat
  BY RankIs
<1>3. ~(s < t) /\ ~(t < s)
  BY <1>2, RankFalls
<1>4. QED
  BY <1>1, <1>3

\* Every rank is that of one of the races.
LEMMA RankTaken ==
  ASSUME NEW ss \in SUBSET Starts, NEW k \in 0 .. Cardinality(ss) - 1
  PROVE  \E s \in ss : Cardinality(Greater(ss, s)) = k
<1> DEFINE n == Cardinality(ss)
           ranks == 0 .. n - 1
           f == [s \in ss |-> Cardinality(Greater(ss, s))]
<1>1. n \in Nat
  BY StartsFinite
<1>2. IsFiniteSet(ranks) /\ Cardinality(ranks) = n
  BY <1>1, FS_Interval
<1>3. \A s \in ss : f[s] \in ranks
  BY RankIs
<1>4. f \in [ss -> ranks]
  BY <1>3
<1>5. \A s, t \in ss : f[s] = f[t] => s = t
  BY RanksDiffer
<1>6. f \in Injection(ss, ranks)
  <2> HIDE DEF f, ranks
  <2>1. QED
    BY <1>4, <1>5 DEF Injection, IsInjective
<1>7. f \in Surjection(ss, ranks)
  <2> HIDE DEF f, ranks
  <2>1. QED
    BY <1>2, <1>6, FS_Injection
<1>8. \E s \in ss : f[s] = k
  <2>1. k \in ranks
    OBVIOUS
  <2> HIDE DEF f, ranks
  <2>2. QED
    BY <1>7, <2>1 DEF Surjection
<1>9. QED
  BY <1>8

----------------------------------------------------------------------------
(* An int that holds the product holds the bounds of the page.             *)

LEMMA WrappedIs ==
  ASSUME NEW n \in 0 .. MaxInt
  PROVE  Wrapped(n) = n
<1>1. MaxInt \in Nat /\ n \in Nat
  BY QueriesAssumption
<1> DEFINE b == 2 * (MaxInt + 1)
           a == n + MaxInt + 1
<1>2. a \in Nat /\ b \in Nat \ {0} /\ a < b
  BY <1>1
<1>3. a % b = a
  <2> HIDE DEF a, b
  <2>1. QED
    BY <1>2
<1>4. Wrapped(n) = a - MaxInt - 1
  BY <1>3 DEF Wrapped
<1>5. QED
  BY <1>1, <1>4

LEMMA TimesGrows ==
  ASSUME NEW a \in Nat, NEW b \in Nat, NEW c \in Nat, a <= b
  PROVE  a * c <= b * c /\ a * c \in Nat
<1>1. PICK d \in Nat : b = a + d
  <2>1. b - a \in Nat /\ b = a + (b - a)
    OBVIOUS
  <2>2. QED
    BY <2>1
<1>2. b * c = a * c + d * c
  BY <1>1
<1>3. d * c \in Nat /\ a * c \in Nat
  OBVIOUS
<1>4. QED
  BY <1>2, <1>3

\* Where a page begins and ends.
LEMMA PageBounds ==
  ASSUME NEW page \in 1 .. MaxInt, NEW perPage \in 1 .. MaxInt, page * perPage <= MaxInt
  PROVE  LET before == (page - 1) * perPage
         IN  /\ before \in Nat /\ before + perPage = page * perPage
             /\ PageStart(page, perPage) = before
             /\ Wrapped(PageStart(page, perPage) + perPage) = before + perPage
<1> DEFINE before == (page - 1) * perPage
<1>1. MaxInt \in Nat /\ page \in Nat /\ page - 1 \in Nat /\ perPage \in Nat
  BY QueriesAssumption
<1>2. before \in Nat
  BY <1>1
<1>3. before + perPage = page * perPage
  BY <1>1
<1>4. before \in 0 .. MaxInt /\ before + perPage \in 0 .. MaxInt
  BY <1>1, <1>2, <1>3
<1>5. PageStart(page, perPage) = before
  BY <1>4, WrappedIs DEF PageStart
<1>6. QED
  BY <1>2, <1>3, <1>4, <1>5, WrappedIs

----------------------------------------------------------------------------
(* The list.                                                               *)

\* A place of the list holds the race of that rank.
LEMMA NthIs ==
  ASSUME NEW ss \in SUBSET Starts, \A s, t \in ss : KeyBefore(s, t) <=> s < t,
         NEW k \in 0 .. Cardinality(ss) - 1
  PROVE  Nth(ss, k + 1) \in ss /\ Cardinality(Greater(ss, Nth(ss, k + 1))) = k
<1>1. \A s \in ss : Newer(ss, s) = Cardinality(Greater(ss, s))
  <2> SUFFICES ASSUME NEW s \in ss PROVE Newer(ss, s) = Cardinality(Greater(ss, s))
    OBVIOUS
  <2>1. \A u \in ss : u \in Nat
    BY QueriesAssumption
  <2>2. {t \in ss : KeyBefore(s, t)} = Greater(ss, s)
    BY <2>1 DEF Greater
  <2>3. QED
    BY <2>2 DEF Newer
<1>2. PICK s \in ss : Cardinality(Greater(ss, s)) = k
  BY RankTaken
<1>3. (k + 1) - 1 = k
  OBVIOUS
<1>4. Nth(ss, k + 1) = CHOOSE t \in ss : Newer(ss, t) = k
  BY <1>3 DEF Nth
<1>5. \E t \in ss : Newer(ss, t) = k
  BY <1>1, <1>2
<1>6. Nth(ss, k + 1) \in ss /\ Newer(ss, Nth(ss, k + 1)) = k
  BY <1>4, <1>5, Zenon
<1>7. QED
  BY <1>1, <1>6

\* A page of the list is cut where the code means to.
LEMMA PageIs ==
  ASSUME NEW ss \in SUBSET Starts, NEW page \in 1 .. MaxInt, NEW perPage \in 1 .. MaxInt,
         page * perPage <= MaxInt
  PROVE  LET total == Cardinality(ss)
             start == AtMost((page - 1) * perPage, total)
             end == AtMost((page - 1) * perPage + perPage, total)
         IN  /\ start \in Nat /\ end \in Nat /\ start <= end
             /\ PageOf(ss, page, perPage) =
                  [status |-> 200,
                   items |-> [i \in 1 .. end - start |-> Nth(ss, start + i)],
                   pages |-> (total \div perPage) + IF total % perPage # 0 THEN 1 ELSE 0]
<1> DEFINE total == Cardinality(ss)
           before == (page - 1) * perPage
           start == AtMost(before, total)
           end == AtMost(before + perPage, total)
<1>1. total \in Nat /\ perPage \in Nat
  BY StartsFinite
<1>2. before \in Nat
  BY PageBounds
<1>3. PageStart(page, perPage) = before
      /\ Wrapped(PageStart(page, perPage) + perPage) = before + perPage
  BY PageBounds
<1>4. start \in Nat /\ end \in Nat /\ start <= end
  <2> HIDE DEF before, total
  <2>1. QED
    BY <1>1, <1>2 DEF AtMost
<1>5. 0 <= start /\ start <= end
  BY <1>4
<1> DEFINE Cut(first, last) ==
             IF 0 <= first /\ first <= last
             THEN [status |-> 200,
                   items |-> [i \in 1 .. last - first |-> Nth(ss, first + i)],
                   pages |-> (total \div perPage) + IF total % perPage # 0 THEN 1 ELSE 0]
             ELSE [status |-> 500]
<1>6. PageOf(ss, page, perPage) =
        Cut(AtMost(PageStart(page, perPage), total),
            AtMost(Wrapped(PageStart(page, perPage) + perPage), total))
  BY Zenon DEF PageOf
<1>7. PageOf(ss, page, perPage) = Cut(start, end)
  <2> HIDE DEF Cut
  <2>1. QED
    BY <1>3, <1>6
<1>8. QED
  BY <1>4, <1>5, <1>7, Zenon

\* The number of pages says which pages have races.
LEMMA PagesAre ==
  ASSUME NEW total \in Nat, NEW page \in Nat \ {0}, NEW perPage \in Nat \ {0}
  PROVE  LET pages == (total \div perPage) + IF total % perPage # 0 THEN 1 ELSE 0
         IN  page > pages <=> total <= (page - 1) * perPage
<1> DEFINE q == total \div perPage
           m == total % perPage
           pages == q + IF m # 0 THEN 1 ELSE 0
<1>1. q \in Nat /\ m \in Nat /\ m < perPage /\ total = q * perPage + m
  OBVIOUS
<1> HIDE DEF q, m
<1>2. CASE page - 1 >= pages
  <2>1. CASE m = 0
    <3>1. q * perPage <= (page - 1) * perPage
      BY <1>1, <1>2, <2>1, TimesGrows
    <3>2. QED
      BY <1>1, <1>2, <2>1, <3>1
  <2>2. CASE m # 0
    <3>1. (q + 1) * perPage <= (page - 1) * perPage
      BY <1>1, <1>2, <2>2, TimesGrows
    <3>2. (q + 1) * perPage = q * perPage + perPage
      BY <1>1
    <3>3. QED
      BY <1>1, <1>2, <2>2, <3>1, <3>2
  <2>3. QED
    BY <2>1, <2>2
<1>3. CASE page - 1 < pages
  <2>1. CASE m = 0
    <3>1. page * perPage <= q * perPage
      BY <1>1, <1>3, <2>1, TimesGrows
    <3>2. page * perPage = (page - 1) * perPage + perPage
      OBVIOUS
    <3>3. QED
      BY <1>1, <1>3, <2>1, <3>1, <3>2
  <2>2. CASE m # 0
    <3>1. (page - 1) * perPage <= q * perPage
      BY <1>1, <1>3, <2>2, TimesGrows
    <3>2. QED
      BY <1>1, <1>3, <2>2, <3>1
  <2>3. QED
    BY <2>1, <2>2
<1>4. pages \in Nat
  BY <1>1
<1>5. QED
  BY <1>2, <1>3, <1>4 DEF q, m

\* The keys of an ordinary request are ordered like the seconds they stand for.
LEMMA OrdinaryKeys ==
  ASSUME DOMAIN rows \subseteq Starts, answer.range \in Ranges, Ordinary
  PROVE  LET from == answer.range[1]
             to == answer.range[2]
         IN  /\ \A s \in DOMAIN rows : /\ KeyUpTo(from, s) <=> from <= s
                                       /\ KeyUpTo(s, to) <=> s <= to
             /\ \A s, t \in DOMAIN rows : KeyBefore(s, t) <=> s < t
             /\ DOMAIN rows # {} => (ValidBetween(from, to) <=> from <= to)
<1> DEFINE from == answer.range[1]
           to == answer.range[2]
<1>1. from \in 0 .. 99 /\ to \in 0 .. 99
  BY QueriesAssumption
<1>2. \A s \in DOMAIN rows : s \in 0 .. 99
  BY QueriesAssumption
<1>3. \A s \in DOMAIN rows : /\ Len(Digits(from)) = Len(Digits(s))
                             /\ Len(Digits(to)) = Len(Digits(s))
  BY DEF Ordinary
<1> HIDE DEF from, to
<1>4. \A s \in DOMAIN rows : (KeyUpTo(from, s) <=> from <= s) /\ (KeyUpTo(s, to) <=> s <= to)
  BY <1>1, <1>2, <1>3, SameDigits
<1>5. \A s, t \in DOMAIN rows : KeyBefore(s, t) <=> s < t
  BY <1>2, <1>3, SameDigits
<1>6. DOMAIN rows # {} => (ValidBetween(from, to) <=> from <= to)
  BY <1>1, <1>3, SameDigits DEF ValidBetween
<1>7. QED
  BY <1>4, <1>5, <1>6 DEF from, to

\* What the query finds and the filters leave is what was asked for.
LEMMA AskedIs ==
  ASSUME DOMAIN rows \subseteq Starts, answer.range \in Ranges, Ordinary
  PROVE  Filtered(Query(answer.range[1], answer.range[2]), answer.series, answer.cars) = Asked
<1> DEFINE from == answer.range[1]
           to == answer.range[2]
           found == {s \in DOMAIN rows : KeyUpTo(from, s) /\ KeyUpTo(s, to)}
<1>1. \A s \in DOMAIN rows : s \in found <=> from <= s /\ s <= to
  BY OrdinaryKeys
<1>2. found \subseteq DOMAIN rows /\ Query(from, to) = {s \in found : Newer(found, s) < QueryRows}
  BY DEF Query
<1> HIDE DEF from, to, found
<1>3. ASSUME NEW s \in found PROVE Newer(found, s) < QueryRows
  <2>1. {t \in found : KeyBefore(s, t)} \subseteq found /\ s \notin {t \in found : KeyBefore(s, t)}
    <3>1. s \in DOMAIN rows /\ ~(s < s)
      <4>1. s \in DOMAIN rows
        BY <1>2
      <4>2. s \in 0 .. 99
        BY <4>1, QueriesAssumption
      <4>3. QED
        BY <4>1, <4>2
    <3>2. ~KeyBefore(s, s)
      BY <3>1, OrdinaryKeys
    <3>3. QED
      BY <3>2
  <2> DEFINE newer == {t \in found : KeyBefore(s, t)}
  <2>2. IsFiniteSet(found) /\ Cardinality(found) \in Nat
    BY <1>2, StartsFinite
  <2>3. Cardinality(found) <= Cardinality(DOMAIN rows) /\ Cardinality(DOMAIN rows) \in Nat
    BY <1>2, StartsFinite, FS_Subset
  <2>4. newer \subseteq found /\ newer # found
    BY <2>1
  <2>5. Newer(found, s) = Cardinality(newer)
    BY DEF Newer
  <2> HIDE DEF newer
  <2>6. Cardinality(newer) \in Nat /\ Cardinality(newer) < Cardinality(found)
    BY <2>2, <2>4, FS_Subset, FS_CardinalityType
  <2>7. Cardinality(DOMAIN rows) <= QueryRows /\ QueryRows \in Nat
    BY QueriesAssumption DEF Ordinary
  <2>8. QED
    BY <2>2, <2>3, <2>5, <2>6, <2>7
<1>4. Query(from, to) = found
  BY <1>2, <1>3
<1>5. Filtered(found, answer.series, answer.cars)
        = {s \in found : /\ answer.series # {} => rows[s].series \in answer.series
                         /\ answer.cars # {} => rows[s].car \in answer.cars}
  BY DEF Filtered, Session
<1>6. Filtered(found, answer.series, answer.cars) = Asked
  BY <1>1, <1>2, <1>5 DEF Asked, from, to
<1>7. QED
  BY <1>4, <1>6 DEF from, to

----------------------------------------------------------------------------
(* Induction, said as the least number without a property.                 *)

LEMMA LeastNumber ==
  ASSUME NEW T \in SUBSET Nat, T # {}
  PROVE  \E n \in T : \A m \in T : n <= m
<1> DEFINE R == OpToRel(<, Nat)
<1>1. IsWellFoundedOn(R, Nat)
  BY NatLessThanWellFounded
<1>2. \A m, n \in Nat : m < n => <<m, n>> \in R
  BY DEF OpToRel
<1> HIDE DEF R
<1>3. PICK n \in T : \A m \in T : <<m, n>> \notin R
  BY <1>1, WFMin
<1>4. ASSUME NEW m \in T PROVE n <= m
  <2>1. m \in Nat /\ n \in Nat /\ <<m, n>> \notin R
    BY <1>3
  <2>2. QED
    BY <1>2, <2>1
<1>5. QED
  BY <1>4

----------------------------------------------------------------------------
(* Sums over finite sets.                                                  *)

Chosen(s) == CHOOSE x \in s : TRUE

\* One step of the sum of the values of f: it is rec of a smaller set and a value.
Summed(f, rec, s) == IF s = {} THEN 0 ELSE f[Chosen(s)] + rec[s \ {Chosen(s)}]

LEMMA ChosenIs ==
  ASSUME NEW s, s # {}
  PROVE  Chosen(s) \in s
BY DEF Chosen

LEMMA SmallerIs ==
  ASSUME NEW S, IsFiniteSet(S), NEW s \in SUBSET S, NEW x \in s
  PROVE  /\ s \ {x} \in SUBSET S /\ IsFiniteSet(s) /\ IsFiniteSet(s \ {x})
         /\ Cardinality(s) \in Nat /\ Cardinality(s \ {x}) = Cardinality(s) - 1
         /\ Cardinality(s \ {x}) \in Nat
<1>1. IsFiniteSet(s) /\ IsFiniteSet(s \ {x})
  BY FS_Subset
<1>2. QED
  BY <1>1, FS_CardinalityType, FS_RemoveElement

LEMMA SumsExist ==
  ASSUME NEW f, NEW S, IsFiniteSet(S)
  PROVE  \E rec : rec = [s \in SUBSET S |-> Summed(f, rec, s)]
<1> DEFINE Upto(rec, n) ==
             \A s \in SUBSET S : Cardinality(s) <= n => rec[s] = Summed(f, rec, s)
           T == {n \in Nat : ~\E rec : Upto(rec, n)}
<1>1. T = {}
  <2> SUFFICES ASSUME T # {} PROVE FALSE
    OBVIOUS
  <2>1. PICK n \in T : \A m \in T : n <= m
    BY LeastNumber
  <2>2. n \in Nat
    OBVIOUS
  <2>3. \E rec : \A s \in SUBSET S : Cardinality(s) < n => rec[s] = Summed(f, rec, s)
    <3>1. CASE n = 0
      <4>1. \A s \in SUBSET S : ~(Cardinality(s) < n)
        BY <3>1, FS_Subset, FS_CardinalityType
      <4>2. QED
        BY <4>1
    <3>2. CASE n # 0
      <4>1. n - 1 \in Nat /\ n - 1 \notin T
        BY <2>1, <2>2, <3>2
      <4>2. PICK rec : Upto(rec, n - 1)
        BY <4>1
      <4>3. \A s \in SUBSET S : Cardinality(s) \in Nat
        BY FS_Subset, FS_CardinalityType
      <4>4. \A s \in SUBSET S : Cardinality(s) < n => Cardinality(s) <= n - 1
        BY <2>2, <4>3
      <4>5. QED
        BY <4>2, <4>4
    <3>3. QED
      BY <3>1, <3>2
  <2>4. PICK rec : \A s \in SUBSET S : Cardinality(s) < n => rec[s] = Summed(f, rec, s)
    BY <2>3
  <2> DEFINE next == [s \in SUBSET S |-> Summed(f, rec, s)]
  <2>5. ASSUME NEW s \in SUBSET S, Cardinality(s) <= n
        PROVE  next[s] = Summed(f, next, s)
    <3>1. CASE s = {}
      BY <3>1 DEF Summed
    <3>2. CASE s # {}
      <4> DEFINE x == Chosen(s)
                 less == s \ {x}
      <4>1. less \in SUBSET S /\ Cardinality(less) < n
        <5>1. x \in s
          BY <3>2, ChosenIs
        <5> HIDE DEF x
        <5>2. /\ less \in SUBSET S /\ Cardinality(s) \in Nat
              /\ Cardinality(less) = Cardinality(s) - 1
          BY <5>1, SmallerIs
        <5>3. QED
          BY <2>2, <2>5, <5>2
      <4> HIDE DEF less
      <4>2. rec[less] = Summed(f, rec, less)
        BY <2>4, <4>1
      <4>3. next[less] = rec[less]
        BY <4>1, <4>2
      <4>4. next[s] = f[x] + rec[less]
        BY <3>2 DEF Summed, less
      <4> HIDE DEF next
      <4>5. QED
        BY <3>2, <4>3, <4>4 DEF Summed, less
    <3>3. QED
      BY <3>1, <3>2
  <2> HIDE DEF next
  <2>6. Upto(next, n)
    BY <2>5
  <2>7. QED
    BY <2>1, <2>6
<1>2. Cardinality(S) \in Nat
  BY FS_CardinalityType
<1>3. PICK rec : Upto(rec, Cardinality(S))
  BY <1>1, <1>2
<1>4. \A s \in SUBSET S : rec[s] = Summed(f, rec, s)
  <2>1. \A s \in SUBSET S : Cardinality(s) <= Cardinality(S)
    BY FS_Subset
  <2>2. QED
    BY <1>3, <2>1
<1> DEFINE all == [s \in SUBSET S |-> rec[s]]
<1>5. ASSUME NEW s \in SUBSET S PROVE rec[s] = Summed(f, all, s)
  <2>1. CASE s = {}
    BY <1>4, <2>1 DEF Summed
  <2>2. CASE s # {}
    <3>1. s \ {Chosen(s)} \in SUBSET S
      OBVIOUS
    <3>2. all[s \ {Chosen(s)}] = rec[s \ {Chosen(s)}]
      BY <3>1
    <3> HIDE DEF all
    <3>3. QED
      BY <1>4, <2>2, <3>2 DEF Summed
  <2>3. QED
    BY <2>1, <2>2
<1>6. all = [s \in SUBSET S |-> Summed(f, all, s)]
  <2> HIDE DEF all
  <2>1. [s \in SUBSET S |-> rec[s]] = [s \in SUBSET S |-> Summed(f, all, s)]
    BY <1>5
  <2>2. QED
    BY <2>1 DEF all
<1>7. QED
  BY <1>6

\* The equation of the sums, all over subsets of one set.
Sums(f, S) == CHOOSE rec : rec = [s \in SUBSET S |-> Summed(f, rec, s)]

LEMMA SumsAre ==
  ASSUME NEW f, NEW S, IsFiniteSet(S)
  PROVE  /\ \A s \in SUBSET S : Sums(f, S)[s] = Summed(f, Sums(f, S), s)
         /\ SumFunctionOnSet(f, S) = Sums(f, S)[S]
<1>1. Sums(f, S) = [s \in SUBSET S |-> Summed(f, Sums(f, S), s)]
  BY SumsExist DEF Sums
<1>2. SumFunctionOnSet(f, S) = Sums(f, S)[S]
  BY DEF SumFunctionOnSet, FoldFunctionOnSet, MapThenFoldSet, Sums, Summed, Chosen
<1>3. ASSUME NEW rec, rec = [s \in SUBSET S |-> Summed(f, rec, s)], NEW s \in SUBSET S
      PROVE  rec[s] = Summed(f, rec, s)
  <2>1. [t \in SUBSET S |-> Summed(f, rec, t)][s] = Summed(f, rec, s)
    OBVIOUS
  <2>2. QED
    BY <1>3, <2>1, Zenon
<1>4. \A s \in SUBSET S : Sums(f, S)[s] = Summed(f, Sums(f, S), s)
  BY <1>1, <1>3
<1>5. QED
  BY <1>2, <1>4

\* Induction over the subsets of a finite set: the good ones are those whose smaller
\* ones by an element are good.
LEMMA SubsetInduction ==
  ASSUME NEW S, IsFiniteSet(S), NEW G,
         \A s \in SUBSET S : (\A x \in s : s \ {x} \in G) => s \in G
  PROVE  \A s \in SUBSET S : s \in G
<1> DEFINE T == {n \in Nat : \E s \in SUBSET S : Cardinality(s) = n /\ s \notin G}
<1>1. \A s \in SUBSET S : Cardinality(s) \in Nat
  BY FS_Subset, FS_CardinalityType
<1>2. T = {}
  <2> SUFFICES ASSUME T # {} PROVE FALSE
    OBVIOUS
  <2>1. PICK n \in T : \A m \in T : n <= m
    BY LeastNumber
  <2>2. PICK s \in SUBSET S : Cardinality(s) = n /\ s \notin G
    BY <2>1
  <2>3. PICK x \in s : s \ {x} \notin G
    BY <2>2
  <2>4. /\ s \ {x} \in SUBSET S /\ Cardinality(s) \in Nat /\ Cardinality(s \ {x}) \in Nat
        /\ Cardinality(s \ {x}) = Cardinality(s) - 1
    BY <2>2, <2>3, SmallerIs
  <2>5. Cardinality(s \ {x}) \in T
    BY <2>3, <2>4
  <2> HIDE DEF T
  <2>6. n <= Cardinality(s \ {x})
    BY <2>1, <2>5
  <2>7. QED
    BY <2>2, <2>4, <2>6
<1>3. QED
  BY <1>1, <1>2

\* The sum of a smaller set does not depend on the set it is taken from.
LEMMA SumsAgree ==
  ASSUME NEW f, NEW S, IsFiniteSet(S)
  PROVE  \A s \in SUBSET S : Sums(f, S)[s] = SumFunctionOnSet(f, s)
<1> DEFINE G == {s \in SUBSET S : \A U \in SUBSET S : s \subseteq U => Sums(f, U)[s] = Sums(f, S)[s]}
<1>1. ASSUME NEW s \in SUBSET S, \A x \in s : s \ {x} \in G PROVE s \in G
  <2> SUFFICES ASSUME NEW U \in SUBSET S, s \subseteq U PROVE Sums(f, U)[s] = Sums(f, S)[s]
    OBVIOUS
  <2>1. IsFiniteSet(U)
    BY FS_Subset
  <2>2. \A t \in SUBSET U : Sums(f, U)[t] = Summed(f, Sums(f, U), t)
    BY <2>1, SumsAre
  <2>3. \A t \in SUBSET S : Sums(f, S)[t] = Summed(f, Sums(f, S), t)
    BY SumsAre
  <2>4. s # {} => s \ {Chosen(s)} \in G
    BY <1>1, ChosenIs
  <2>5. s # {} => Sums(f, U)[s \ {Chosen(s)}] = Sums(f, S)[s \ {Chosen(s)}]
    <3>1. s \ {Chosen(s)} \subseteq U
      OBVIOUS
    <3>2. QED
      BY <2>4, <3>1
  <2> HIDE DEF G
  <2>6. QED
    BY <2>2, <2>3, <2>5 DEF Summed
<1>2. \A s \in SUBSET S : s \in G
  <2> HIDE DEF G
  <2>1. QED
    BY <1>1, SubsetInduction
<1>3. ASSUME NEW s \in SUBSET S PROVE Sums(f, S)[s] = SumFunctionOnSet(f, s)
  <2>1. IsFiniteSet(s)
    BY FS_Subset
  <2>2. SumFunctionOnSet(f, s) = Sums(f, s)[s]
    BY <2>1, SumsAre
  <2>3. Sums(f, s)[s] = Sums(f, S)[s]
    BY <1>2
  <2>4. QED
    BY <2>2, <2>3
<1>4. QED
  BY <1>3

LEMMA SumIs ==
  ASSUME NEW f, NEW S, IsFiniteSet(S)
  PROVE  SumFunctionOnSet(f, S) =
           IF S = {} THEN 0 ELSE f[Chosen(S)] + SumFunctionOnSet(f, S \ {Chosen(S)})
<1>1. Sums(f, S)[S] = Summed(f, Sums(f, S), S)
  BY SumsAre
<1>2. Sums(f, S)[S \ {Chosen(S)}] = SumFunctionOnSet(f, S \ {Chosen(S)})
  BY SumsAgree
<1>3. QED
  BY <1>1, <1>2, SumsAre DEF Summed

LEMMA SumType ==
  ASSUME NEW f, NEW S, IsFiniteSet(S)
  PROVE  /\ (\A x \in S : f[x] \in Int) => SumFunctionOnSet(f, S) \in Int
         /\ (\A x \in S : f[x] \in Nat) => SumFunctionOnSet(f, S) \in Nat
<1> DEFINE G(N) == {s \in SUBSET S : SumFunctionOnSet(f, s) \in N}
<1>1. ASSUME NEW N \in {Int, Nat}, \A x \in S : f[x] \in N,
             NEW s \in SUBSET S, \A x \in s : s \ {x} \in G(N)
      PROVE  s \in G(N)
  <2>1. IsFiniteSet(s)
    BY FS_Subset
  <2>2. CASE s = {}
    <3>1. SumFunctionOnSet(f, s) = 0
      BY <2>1, <2>2, SumIs
    <3>2. QED
      BY <3>1
  <2>3. CASE s # {}
    <3>1. Chosen(s) \in s
      BY <2>3, ChosenIs
    <3>2. SumFunctionOnSet(f, s \ {Chosen(s)}) \in N /\ f[Chosen(s)] \in N
      BY <1>1, <3>1
    <3>3. SumFunctionOnSet(f, s) = f[Chosen(s)] + SumFunctionOnSet(f, s \ {Chosen(s)})
      BY <2>1, <2>3, SumIs
    <3>4. QED
      BY <3>2, <3>3
  <2>4. QED
    BY <2>2, <2>3
<1>2. ASSUME NEW N \in {Int, Nat}, \A x \in S : f[x] \in N
      PROVE  S \in G(N)
  <2> DEFINE H == G(N)
  <2>1. \A s \in SUBSET S : (\A x \in s : s \ {x} \in H) => s \in H
    BY <1>1, <1>2
  <2> HIDE DEF H
  <2>2. \A s \in SUBSET S : s \in H
    BY <2>1, SubsetInduction
  <2>3. QED
    BY <2>2 DEF H
<1>3. QED
  BY <1>2

\* Any element may be taken out first.
LEMMA SumTakesOut ==
  ASSUME NEW f, NEW S, IsFiniteSet(S), \A x \in S : f[x] \in Int, NEW x \in S
  PROVE  /\ SumFunctionOnSet(f, S) = f[x] + SumFunctionOnSet(f, S \ {x})
         /\ SumFunctionOnSet(f, S) \in Int /\ SumFunctionOnSet(f, S \ {x}) \in Int
<1> DEFINE Sum(s) == SumFunctionOnSet(f, s)
           G == {s \in SUBSET S : \A y \in s : Sum(s) = f[y] + Sum(s \ {y})}
<1>1. ASSUME NEW s \in SUBSET S PROVE Sum(s) \in Int
  BY FS_Subset, SumType
<1>2. ASSUME NEW s \in SUBSET S, \A y \in s : s \ {y} \in G, NEW y \in s
      PROVE  Sum(s) = f[y] + Sum(s \ {y})
  <2> DEFINE c == Chosen(s)
  <2>1. c \in s
    BY ChosenIs
  <2>2. Sum(s) = f[c] + Sum(s \ {c})
    <3>1. IsFiniteSet(s)
      BY FS_Subset
    <3>2. QED
      BY <3>1, SumIs
  <2> HIDE DEF c
  <2>3. CASE c # y
    <3> DEFINE both == s \ {c, y}
    <3>1. both = (s \ {c}) \ {y} /\ both = (s \ {y}) \ {c}
      OBVIOUS
    <3>2. Sum(s \ {c}) = f[y] + Sum(both)
      <4>1. y \in s \ {c} /\ s \ {c} \in G
        BY <1>2, <2>1, <2>3
      <4>2. Sum(s \ {c}) = f[y] + Sum((s \ {c}) \ {y})
        BY <4>1
      <4>3. QED
        BY <3>1, <4>2
    <3>3. Sum(s \ {y}) = f[c] + Sum(both)
      <4>1. c \in s \ {y} /\ s \ {y} \in G
        BY <1>2, <2>1, <2>3
      <4>2. Sum(s \ {y}) = f[c] + Sum((s \ {y}) \ {c})
        BY <4>1
      <4>3. QED
        BY <3>1, <4>2
    <3>4. Sum(both) \in Int /\ f[c] \in Int /\ f[y] \in Int
      BY <1>1, <2>1
    <3> HIDE DEF both, Sum
    <3>5. QED
      BY <2>2, <3>2, <3>3, <3>4
  <2>4. QED
    BY <2>2, <2>3
<1>3. S \in G
  <2>1. \A s \in SUBSET S : (\A y \in s : s \ {y} \in G) => s \in G
    BY <1>2
  <2> HIDE DEF G
  <2>2. \A s \in SUBSET S : s \in G
    BY <2>1, SubsetInduction
  <2>3. QED
    BY <2>2
<1>4. S \in SUBSET S /\ S \ {x} \in SUBSET S
  OBVIOUS
<1>5. QED
  BY <1>1, <1>3, <1>4

LEMMA SumAdds ==
  ASSUME NEW f, NEW S, IsFiniteSet(S), \A y \in S : f[y] \in Int, NEW x, x \notin S, f[x] \in Int
  PROVE  /\ SumFunctionOnSet(f, S \cup {x}) = f[x] + SumFunctionOnSet(f, S)
         /\ SumFunctionOnSet(f, S) \in Int
<1> DEFINE more == S \cup {x}
<1>1. IsFiniteSet(more)
  BY FS_AddElement
<1>2. (\A y \in more : f[y] \in Int) /\ x \in more /\ more \ {x} = S
  OBVIOUS
<1>3. SumFunctionOnSet(f, more) = f[x] + SumFunctionOnSet(f, more \ {x})
  <2> HIDE DEF more
  <2>1. QED
    BY <1>1, <1>2, SumTakesOut
<1>4. SumFunctionOnSet(f, S) \in Int
  BY SumType
<1>5. QED
  BY <1>2, <1>3, <1>4

LEMMA SumEmpty ==
  ASSUME NEW f PROVE SumFunctionOnSet(f, {}) = 0
BY SumIs, FS_EmptySet

\* Sums of values that are sums.
LEMMA SumOfSums ==
  ASSUME NEW S, IsFiniteSet(S), NEW f, NEW g, NEW h,
         \A x \in S : f[x] \in Int /\ g[x] \in Int /\ h[x] = f[x] + g[x]
  PROVE  SumFunctionOnSet(h, S) = SumFunctionOnSet(f, S) + SumFunctionOnSet(g, S)
<1> DEFINE G == {s \in SUBSET S : SumFunctionOnSet(h, s)
                                    = SumFunctionOnSet(f, s) + SumFunctionOnSet(g, s)}
<1>1. ASSUME NEW s \in SUBSET S, \A x \in s : s \ {x} \in G PROVE s \in G
  <2>1. CASE s = {}
    BY <2>1, SumEmpty
  <2>2. CASE s # {}
    <3>1. PICK x \in s : TRUE
      BY <2>2
    <3>2. /\ IsFiniteSet(s) /\ \A y \in s : f[y] \in Int
          /\ \A y \in s : g[y] \in Int
          /\ \A y \in s : h[y] \in Int
      BY FS_Subset
    <3> DEFINE t == s \ {x}
    <3>3. /\ SumFunctionOnSet(f, s) = f[x] + SumFunctionOnSet(f, t)
          /\ SumFunctionOnSet(f, t) \in Int
      <4>1. IsFiniteSet(s) /\ (\A y \in s : f[y] \in Int) /\ x \in s
        BY <3>1, <3>2
      <4>2. SumFunctionOnSet(f, s) = f[x] + SumFunctionOnSet(f, s \ {x})
        BY <4>1, SumTakesOut
      <4>3. SumFunctionOnSet(f, s \ {x}) \in Int
        BY <4>1, SumTakesOut
      <4>4. QED
        BY <4>2, <4>3
    <3>4. /\ SumFunctionOnSet(g, s) = g[x] + SumFunctionOnSet(g, t)
          /\ SumFunctionOnSet(g, t) \in Int
      <4>1. IsFiniteSet(s) /\ (\A y \in s : g[y] \in Int) /\ x \in s
        BY <3>1, <3>2
      <4>2. SumFunctionOnSet(g, s) = g[x] + SumFunctionOnSet(g, s \ {x})
        BY <4>1, SumTakesOut
      <4>3. SumFunctionOnSet(g, s \ {x}) \in Int
        BY <4>1, SumTakesOut
      <4>4. QED
        BY <4>2, <4>3
    <3>5. SumFunctionOnSet(h, s) = h[x] + SumFunctionOnSet(h, t)
      BY <3>1, <3>2, SumTakesOut
    <3>6. SumFunctionOnSet(h, t) = SumFunctionOnSet(f, t) + SumFunctionOnSet(g, t)
      BY <1>1, <3>1
    <3>7. f[x] \in Int /\ g[x] \in Int /\ h[x] = f[x] + g[x]
      BY <3>1
    <3> HIDE DEF t
    <3>8. SumFunctionOnSet(h, s) = SumFunctionOnSet(f, s) + SumFunctionOnSet(g, s)
      BY <3>3, <3>4, <3>5, <3>6, <3>7
    <3>9. QED
      BY <3>8
  <2>3. QED
    BY <2>1, <2>2
<1>2. \A s \in SUBSET S : s \in G
  <2> HIDE DEF G
  <2>1. QED
    BY <1>1, SubsetInduction
<1>3. QED
  BY <1>2

\* The values outside the set do not matter.
LEMMA SumSame ==
  ASSUME NEW S, IsFiniteSet(S), NEW f, NEW g,
         \A x \in S : f[x] \in Int /\ g[x] = f[x]
  PROVE  SumFunctionOnSet(g, S) = SumFunctionOnSet(f, S)
<1> DEFINE none == [x \in S |-> 0]
<1>1. \A x \in S : f[x] \in Int /\ none[x] \in Int /\ none[x] = none[x] + none[x]
                   /\ g[x] = f[x] + none[x]
  OBVIOUS
<1> HIDE DEF none
<1>2. SumFunctionOnSet(none, S) = SumFunctionOnSet(none, S) + SumFunctionOnSet(none, S)
  BY <1>1, SumOfSums
<1>3. SumFunctionOnSet(g, S) = SumFunctionOnSet(f, S) + SumFunctionOnSet(none, S)
  BY <1>1, SumOfSums
<1>4. SumFunctionOnSet(f, S) \in Int /\ SumFunctionOnSet(none, S) \in Int
  BY <1>1, SumType
<1> DEFINE a == SumFunctionOnSet(none, S)
           b == SumFunctionOnSet(f, S)
           c == SumFunctionOnSet(g, S)
<1>5. a = a + a /\ c = b + a /\ b \in Int /\ a \in Int
  BY <1>2, <1>3, <1>4
<1> HIDE DEF a, b, c
<1>6. c = b
  BY <1>5
<1>7. QED
  BY <1>6 DEF b, c

\* To count is to add ones.
LEMMA CountIsSum ==
  ASSUME NEW S, IsFiniteSet(S), NEW Q, NEW f, \A x \in S : f[x] = IF x \in Q THEN 1 ELSE 0
  PROVE  SumFunctionOnSet(f, S) = Cardinality(S \cap Q)
<1> DEFINE G == {s \in SUBSET S : SumFunctionOnSet(f, s) = Cardinality(s \cap Q)}
<1>1. ASSUME NEW s \in SUBSET S, \A x \in s : s \ {x} \in G PROVE s \in G
  <2>1. CASE s = {}
    <3>1. s \cap Q = {}
      BY <2>1
    <3>2. Cardinality(s \cap Q) = 0
      BY <3>1, FS_EmptySet
    <3>3. QED
      BY <2>1, <3>2, SumEmpty
  <2>2. CASE s # {}
    <3>1. PICK x \in s : TRUE
      BY <2>2
    <3> DEFINE t == s \ {x}
    <3>2. IsFiniteSet(s) /\ \A y \in s : f[y] \in Int
      BY FS_Subset
    <3>3. SumFunctionOnSet(f, s) = f[x] + SumFunctionOnSet(f, t)
      BY <3>1, <3>2, SumTakesOut
    <3>4. SumFunctionOnSet(f, t) = Cardinality(t \cap Q)
      BY <1>1, <3>1
    <3>5. IsFiniteSet(t \cap Q) /\ Cardinality(t \cap Q) \in Nat
      <4>1. t \cap Q \subseteq s
        OBVIOUS
      <4>2. QED
        BY <3>2, <4>1, FS_Subset, FS_CardinalityType
    <3>6. CASE x \in Q
      <4>1. s \cap Q = (t \cap Q) \cup {x} /\ x \notin t \cap Q
        BY <3>1, <3>6
      <4> HIDE DEF t
      <4>2. Cardinality(s \cap Q) = Cardinality(t \cap Q) + 1
        BY <3>5, <4>1, FS_AddElement
      <4>3. f[x] = 1
        BY <3>1, <3>6
      <4>4. SumFunctionOnSet(f, s) = Cardinality(s \cap Q)
        BY <3>3, <3>4, <3>5, <4>2, <4>3
      <4>5. QED
        BY <4>4
    <3>7. CASE x \notin Q
      <4>1. s \cap Q = t \cap Q
        BY <3>1, <3>7
      <4>2. f[x] = 0
        BY <3>1, <3>7
      <4> HIDE DEF t
      <4>3. SumFunctionOnSet(f, s) = Cardinality(s \cap Q)
        BY <3>3, <3>4, <3>5, <4>1, <4>2
      <4>4. QED
        BY <4>3
    <3>8. QED
      BY <3>6, <3>7
  <2>3. QED
    BY <2>1, <2>2
<1>2. \A s \in SUBSET S : s \in G
  <2> HIDE DEF G
  <2>1. QED
    BY <1>1, SubsetInduction
<1>3. QED
  BY <1>2

\* Two sets without a common element.
LEMMA SumOfUnion ==
  ASSUME NEW f, NEW S, IsFiniteSet(S), NEW T, IsFiniteSet(T), S \cap T = {},
         \A x \in S \cup T : f[x] \in Int
  PROVE  SumFunctionOnSet(f, S \cup T) = SumFunctionOnSet(f, S) + SumFunctionOnSet(f, T)
<1> DEFINE G == {t \in SUBSET T : SumFunctionOnSet(f, S \cup t)
                                    = SumFunctionOnSet(f, S) + SumFunctionOnSet(f, t)}
<1>0. SumFunctionOnSet(f, S) \in Int
  BY SumType
<1>1. ASSUME NEW t \in SUBSET T, \A x \in t : t \ {x} \in G PROVE t \in G
  <2>1. CASE t = {}
    <3>1. S \cup t = S
      BY <2>1
    <3>2. QED
      BY <1>0, <2>1, <3>1, SumEmpty
  <2>2. CASE t # {}
    <3>1. PICK x \in t : TRUE
      BY <2>2
    <3> DEFINE u == t \ {x}
               all == S \cup t
               less == S \cup u
    <3>2. IsFiniteSet(t) /\ IsFiniteSet(all)
      BY FS_Subset, FS_Union
    <3>3. /\ x \in all /\ \A y \in all : f[y] \in Int
          /\ all \ {x} = less
      BY <3>1
    <3>4. /\ SumFunctionOnSet(f, t) = f[x] + SumFunctionOnSet(f, u)
          /\ SumFunctionOnSet(f, u) \in Int
      BY <3>1, <3>2, SumTakesOut
    <3>5. SumFunctionOnSet(f, less) = SumFunctionOnSet(f, S) + SumFunctionOnSet(f, u)
      BY <1>1, <3>1
    <3> HIDE DEF u, all, less
    <3>6. SumFunctionOnSet(f, all) = f[x] + SumFunctionOnSet(f, less)
      BY <3>2, <3>3, SumTakesOut
    <3>7. f[x] \in Int
      BY <3>3
    <3>8. SumFunctionOnSet(f, all) = SumFunctionOnSet(f, S) + SumFunctionOnSet(f, t)
      BY <1>0, <3>4, <3>5, <3>6, <3>7
    <3>9. QED
      BY <3>8 DEF all
  <2>3. QED
    BY <2>1, <2>2
<1>2. \A t \in SUBSET T : t \in G
  <2> HIDE DEF G
  <2>1. QED
    BY <1>1, SubsetInduction
<1>3. QED
  BY <1>2

\* The sum over parts without common elements is the sum over their union.
LEMMA SumOfParts ==
  ASSUME NEW I, IsFiniteSet(I), NEW S, IsFiniteSet(S), NEW f, \A x \in S : f[x] \in Int,
         NEW part \in [I -> SUBSET S], \A i, j \in I : i # j => part[i] \cap part[j] = {},
         NEW h, \A i \in I : h[i] = SumFunctionOnSet(f, part[i])
  PROVE  SumFunctionOnSet(h, I) = SumFunctionOnSet(f, UNION {part[i] : i \in I})
<1> DEFINE All(J) == UNION {part[i] : i \in J}
           G == {J \in SUBSET I : SumFunctionOnSet(h, J) = SumFunctionOnSet(f, All(J))}
<1>0. \A s \in SUBSET S : IsFiniteSet(s) /\ SumFunctionOnSet(f, s) \in Int
  BY FS_Subset, SumType
<1>1. ASSUME NEW J \in SUBSET I, \A i \in J : J \ {i} \in G PROVE J \in G
  <2>1. CASE J = {}
    <3>1. All(J) = {}
      BY <2>1
    <3> HIDE DEF All
    <3>2. QED
      BY <2>1, <3>1, SumEmpty
  <2>2. CASE J # {}
    <3>1. PICK i \in J : TRUE
      BY <2>2
    <3> DEFINE K == J \ {i}
    <3>2. IsFiniteSet(J)
      BY FS_Subset
    <3>3. \A j \in J : h[j] \in Int
      BY <1>0
    <3>4. SumFunctionOnSet(h, J) = h[i] + SumFunctionOnSet(h, K)
      BY <3>1, <3>2, <3>3, SumTakesOut
    <3>5. SumFunctionOnSet(h, K) = SumFunctionOnSet(f, All(K))
      BY <1>1, <3>1
    <3>6. /\ All(J) = All(K) \cup part[i] /\ All(K) \cap part[i] = {}
          /\ All(K) \in SUBSET S /\ part[i] \in SUBSET S
      BY <3>1
    <3> HIDE DEF All, K
    <3>7. SumFunctionOnSet(f, All(J)) = SumFunctionOnSet(f, All(K)) + SumFunctionOnSet(f, part[i])
      <4>1. /\ IsFiniteSet(All(K)) /\ IsFiniteSet(part[i])
            /\ \A x \in All(K) \cup part[i] : f[x] \in Int
        BY <1>0, <3>6
      <4>2. QED
        BY <3>6, <4>1, SumOfUnion
    <3>8. /\ SumFunctionOnSet(f, All(K)) \in Int /\ SumFunctionOnSet(f, part[i]) \in Int
          /\ h[i] = SumFunctionOnSet(f, part[i])
      BY <1>0, <3>1, <3>6
    <3>9. QED
      BY <3>4, <3>5, <3>7, <3>8
  <2>3. QED
    BY <2>1, <2>2
<1>2. \A J \in SUBSET I : J \in G
  <2> HIDE DEF G
  <2>1. QED
    BY <1>1, SubsetInduction
<1>3. QED
  BY <1>2

----------------------------------------------------------------------------
(* Sorting.                                                                *)

Below(ids, id) == {other \in ids : other < id}

LEMMA BelowIs ==
  ASSUME NEW ids \in SUBSET Int, IsFiniteSet(ids), NEW s \in ids
  PROVE  Cardinality(Below(ids, s)) \in 0 .. Cardinality(ids) - 1
<1>1. Below(ids, s) \subseteq ids /\ Below(ids, s) # ids
  BY DEF Below
<1>2. Cardinality(ids) \in Nat /\ Cardinality(Below(ids, s)) \in Nat
  BY <1>1, FS_Subset, FS_CardinalityType
<1>3. Cardinality(Below(ids, s)) < Cardinality(ids)
  BY <1>1, <1>2, FS_Subset
<1>4. QED
  BY <1>2, <1>3

LEMMA BelowGrows ==
  ASSUME NEW ids \in SUBSET Int, IsFiniteSet(ids), NEW s \in ids, NEW t \in ids, s < t
  PROVE  Cardinality(Below(ids, s)) < Cardinality(Below(ids, t))
<1>1. /\ Below(ids, s) \subseteq Below(ids, t) /\ Below(ids, t) \subseteq ids
      /\ s \in Below(ids, t) /\ s \notin Below(ids, s)
  <2>1. ASSUME NEW u \in ids, u < s PROVE u < t
    <3>1. u \in Int /\ s \in Int /\ t \in Int
      OBVIOUS
    <3>2. QED
      BY <2>1, <3>1
  <2>2. ~(s < s)
    <3>1. s \in Int
      OBVIOUS
    <3>2. QED
      BY <3>1
  <2>3. QED
    BY <2>1, <2>2 DEF Below
<1>2. Below(ids, s) # Below(ids, t)
  BY <1>1
<1>3. IsFiniteSet(Below(ids, t))
  BY <1>1, FS_Subset
<1>4. Cardinality(Below(ids, s)) \in Nat /\ Cardinality(Below(ids, t)) \in Nat
  BY BelowIs
<1>5. QED
  BY <1>1, <1>2, <1>3, <1>4, FS_Subset

LEMMA BelowDiffers ==
  ASSUME NEW ids \in SUBSET Int, IsFiniteSet(ids), NEW s \in ids, NEW t \in ids,
         Cardinality(Below(ids, s)) = Cardinality(Below(ids, t))
  PROVE  s = t
<1>1. Cardinality(Below(ids, s)) \in Nat /\ Cardinality(Below(ids, t)) \in Nat
  BY BelowIs
<1>2. ~(s < t) /\ ~(t < s)
  BY <1>1, BelowGrows
<1>3. s \in Int /\ t \in Int
  OBVIOUS
<1>4. QED
  BY <1>2, <1>3

LEMMA BelowTaken ==
  ASSUME NEW ids \in SUBSET Int, IsFiniteSet(ids), NEW k \in 0 .. Cardinality(ids) - 1
  PROVE  \E s \in ids : Cardinality(Below(ids, s)) = k
<1> DEFINE n == Cardinality(ids)
           ranks == 0 .. n - 1
           f == [s \in ids |-> Cardinality(Below(ids, s))]
<1>1. n \in Nat
  BY FS_CardinalityType
<1>2. IsFiniteSet(ranks) /\ Cardinality(ranks) = n
  BY <1>1, FS_Interval
<1>3. \A s \in ids : f[s] \in ranks
  BY BelowIs
<1>4. f \in [ids -> ranks]
  BY <1>3
<1>5. \A s, t \in ids : f[s] = f[t] => s = t
  BY BelowDiffers
<1>6. f \in Injection(ids, ranks)
  <2> HIDE DEF f, ranks
  <2>1. QED
    BY <1>4, <1>5 DEF Injection, IsInjective
<1>7. f \in Surjection(ids, ranks)
  <2> HIDE DEF f, ranks
  <2>1. QED
    BY <1>2, <1>6, FS_Injection
<1>8. \E s \in ids : f[s] = k
  <2>1. k \in ranks
    OBVIOUS
  <2> HIDE DEF f, ranks
  <2>2. QED
    BY <1>7, <2>1 DEF Surjection
<1>9. QED
  BY <1>8

\* Sorted holds each element once, in rising order.
LEMMA SortedIs ==
  ASSUME NEW ids \in SUBSET Int, IsFiniteSet(ids)
  PROVE  /\ Cardinality(ids) \in Nat /\ Sorted(ids) \in [1 .. Cardinality(ids) -> ids]
         /\ \A i, j \in 1 .. Cardinality(ids) : i < j => Sorted(ids)[i] < Sorted(ids)[j]
         /\ {Sorted(ids)[i] : i \in 1 .. Cardinality(ids)} = ids
<1> DEFINE n == Cardinality(ids)
           order == Sorted(ids)
<1>1. n \in Nat
  BY FS_CardinalityType
<1>2. ASSUME NEW i \in 1 .. n
      PROVE  order[i] \in ids /\ Cardinality(Below(ids, order[i])) = i - 1
  <2>1. order[i] = CHOOSE id \in ids : Cardinality(Below(ids, id)) = i - 1
    BY DEF Sorted, Below
  <2>2. i - 1 \in 0 .. n - 1
    BY <1>1
  <2>3. \E id \in ids : Cardinality(Below(ids, id)) = i - 1
    BY <2>2, BelowTaken
  <2>4. QED
    BY <2>1, <2>3
<1>3. order = [i \in 1 .. n |-> order[i]]
  <2> DEFINE place(i) == CHOOSE id \in ids : Cardinality({other \in ids : other < id}) = i - 1
  <2>1. order = [i \in 1 .. n |-> place(i)]
    BY DEF Sorted
  <2> HIDE DEF place, order, n
  <2>2. QED
    BY <2>1
<1> HIDE DEF n, order
<1>4. order \in [1 .. n -> ids]
  BY <1>2, <1>3
<1>5. ASSUME NEW i \in 1 .. n, NEW j \in 1 .. n, i < j PROVE order[i] < order[j]
  <2>1. order[i] \in Int /\ order[j] \in Int
    BY <1>2
  <2>2. Cardinality(Below(ids, order[i])) < Cardinality(Below(ids, order[j]))
    BY <1>2, <1>5
  <2>3. order[i] # order[j]
    BY <1>2, <1>5
  <2>4. ~(order[j] < order[i])
    <3>1. order[j] < order[i] => Cardinality(Below(ids, order[j])) < Cardinality(Below(ids, order[i]))
      BY <1>2, BelowGrows
    <3>2. i - 1 < j - 1
      BY <1>5
    <3>3. QED
      BY <1>2, <1>5, <3>1
  <2>5. QED
    BY <2>1, <2>3, <2>4
<1>6. ASSUME NEW id \in ids PROVE \E i \in 1 .. n : order[i] = id
  <2> DEFINE k == Cardinality(Below(ids, id))
  <2>1. k \in 0 .. n - 1
    BY BelowIs DEF n
  <2> HIDE DEF k
  <2>2. k + 1 \in 1 .. n /\ (k + 1) - 1 = k
    BY <1>1, <2>1
  <2>3. order[k + 1] \in ids /\ Cardinality(Below(ids, order[k + 1])) = k
    BY <1>2, <2>2
  <2>4. order[k + 1] = id
    <3>1. Cardinality(Below(ids, order[k + 1])) = Cardinality(Below(ids, id))
      BY <2>3 DEF k
    <3> DEFINE other == order[k + 1]
    <3>2. other \in ids /\ Cardinality(Below(ids, other)) = Cardinality(Below(ids, id))
      BY <2>3, <3>1
    <3> HIDE DEF other
    <3>3. other = id
      BY <3>2, BelowDiffers
    <3>4. QED
      BY <3>3 DEF other
  <2>5. QED
    BY <2>2, <2>4
<1>7. {order[i] : i \in 1 .. n} = ids
  BY <1>2, <1>6
<1>8. QED
  BY <1>1, <1>4, <1>5, <1>7 DEF n, order

----------------------------------------------------------------------------
(* The loop over the races.                                                *)

LEMMA LastPlace ==
  ASSUME NEW k \in Nat \ {0}
  PROVE  Max(1 .. k) = k /\ (1 .. k) \ {k} = 1 .. k - 1
<1>1. k \in 1 .. k /\ \A y \in 1 .. k : k >= y
  OBVIOUS
<1>2. \A x \in 1 .. k : (\A y \in 1 .. k : x >= y) => x = k
  OBVIOUS
<1>3. Max(1 .. k) = k
  BY <1>1, <1>2 DEF Max
<1>4. QED
  BY <1>3

Loop(base, races) == FoldLeft(Counted, base, races)

\* One step of the loop, as the fold says it.
Tallied(base, races, rec, s) ==
  IF s = {} THEN base ELSE Counted(rec[s \ {Max(s)}], races[Max(s)])

LEMMA TalliesExist ==
  ASSUME NEW base, NEW races, NEW n \in Nat
  PROVE  \E rec : rec = [s \in SUBSET (1 .. n) |-> Tallied(base, races, rec, s)]
<1> DEFINE S == 1 .. n
           Upto(rec, m) ==
             \A s \in SUBSET S : Cardinality(s) <= m => rec[s] = Tallied(base, races, rec, s)
           T == {m \in Nat : ~\E rec : Upto(rec, m)}
<1>0. IsFiniteSet(S)
  BY FS_Interval
<1>00. \A s \in SUBSET S : s # {} => Max(s) \in s
  <2> SUFFICES ASSUME NEW s \in SUBSET S, s # {} PROVE Max(s) \in s
    OBVIOUS
  <2> DEFINE from == {n - i : i \in s}
  <2>1. from \in SUBSET Nat /\ from # {}
    <3>1. \A i \in s : i \in 1 .. n
      OBVIOUS
    <3>2. \A i \in s : n - i \in Nat
      BY <3>1
    <3>3. QED
      BY <3>2
  <2>2. PICK m \in from : \A k \in from : m <= k
    <3> HIDE DEF from
    <3>1. QED
      BY <2>1, LeastNumber
  <2>3. PICK i \in s : m = n - i
    OBVIOUS
  <2>4. \A j \in s : i >= j
    <3> SUFFICES ASSUME NEW j \in s PROVE i >= j
      OBVIOUS
    <3>1. n - j \in from
      OBVIOUS
    <3>2. n - i <= n - j
      BY <2>2, <2>3, <3>1
    <3>3. i \in Int /\ j \in Int
      OBVIOUS
    <3>4. QED
      BY <3>2, <3>3
  <2>5. QED
    BY <2>3, <2>4 DEF Max
<1> HIDE DEF S
<1>1. T = {}
  <2> SUFFICES ASSUME T # {} PROVE FALSE
    OBVIOUS
  <2>1. PICK m \in T : \A k \in T : m <= k
    BY LeastNumber
  <2>2. m \in Nat
    OBVIOUS
  <2>3. \E rec : \A s \in SUBSET S : Cardinality(s) < m => rec[s] = Tallied(base, races, rec, s)
    <3>1. CASE m = 0
      <4>1. \A s \in SUBSET S : ~(Cardinality(s) < m)
        BY <1>0, <3>1, FS_Subset, FS_CardinalityType
      <4>2. QED
        BY <4>1
    <3>2. CASE m # 0
      <4>1. m - 1 \in Nat /\ m - 1 \notin T
        BY <2>1, <2>2, <3>2
      <4>2. PICK rec : Upto(rec, m - 1)
        BY <4>1
      <4>3. \A s \in SUBSET S : Cardinality(s) \in Nat
        BY <1>0, FS_Subset, FS_CardinalityType
      <4>4. \A s \in SUBSET S : Cardinality(s) < m => Cardinality(s) <= m - 1
        BY <2>2, <4>3
      <4>5. QED
        BY <4>2, <4>4
    <3>3. QED
      BY <3>1, <3>2
  <2>4. PICK rec : \A s \in SUBSET S : Cardinality(s) < m => rec[s] = Tallied(base, races, rec, s)
    BY <2>3
  <2> DEFINE next == [s \in SUBSET S |-> Tallied(base, races, rec, s)]
  <2>5. ASSUME NEW s \in SUBSET S, Cardinality(s) <= m
        PROVE  next[s] = Tallied(base, races, next, s)
    <3>1. CASE s = {}
      BY <3>1 DEF Tallied
    <3>2. CASE s # {}
      <4> DEFINE x == Max(s)
                 less == s \ {x}
      <4>1. less \in SUBSET S /\ Cardinality(less) < m
        <5>1. x \in s
          BY <1>00, <3>2
        <5> HIDE DEF x
        <5>2. /\ less \in SUBSET S /\ Cardinality(s) \in Nat
              /\ Cardinality(less) = Cardinality(s) - 1
          BY <1>0, <5>1, SmallerIs
        <5>3. QED
          BY <2>2, <2>5, <5>2
      <4> HIDE DEF less
      <4>2. rec[less] = Tallied(base, races, rec, less)
        BY <2>4, <4>1
      <4>3. next[less] = rec[less]
        BY <4>1, <4>2
      <4>4. next[s] = Counted(rec[less], races[x])
        BY <3>2 DEF Tallied, less
      <4> HIDE DEF next
      <4>5. QED
        BY <3>2, <4>3, <4>4 DEF Tallied, less
    <3>3. QED
      BY <3>1, <3>2
  <2> HIDE DEF next
  <2>6. Upto(next, m)
    BY <2>5
  <2>7. QED
    BY <2>1, <2>6
<1>2. Cardinality(S) \in Nat
  BY <1>0, FS_CardinalityType
<1>3. PICK rec : Upto(rec, Cardinality(S))
  BY <1>1, <1>2
<1>4. \A s \in SUBSET S : rec[s] = Tallied(base, races, rec, s)
  <2>1. \A s \in SUBSET S : Cardinality(s) <= Cardinality(S)
    BY <1>0, FS_Subset
  <2>2. QED
    BY <1>3, <2>1
<1> DEFINE all == [s \in SUBSET S |-> rec[s]]
<1>5. ASSUME NEW s \in SUBSET S PROVE rec[s] = Tallied(base, races, all, s)
  <2>1. CASE s = {}
    BY <1>4, <2>1 DEF Tallied
  <2>2. CASE s # {}
    <3>1. s \ {Max(s)} \in SUBSET S
      OBVIOUS
    <3>2. all[s \ {Max(s)}] = rec[s \ {Max(s)}]
      BY <3>1
    <3> HIDE DEF all
    <3>3. QED
      BY <1>4, <2>2, <3>2 DEF Tallied
  <2>3. QED
    BY <2>1, <2>2
<1>6. all = [s \in SUBSET S |-> Tallied(base, races, all, s)]
  <2> HIDE DEF all
  <2>1. [s \in SUBSET S |-> rec[s]] = [s \in SUBSET S |-> Tallied(base, races, all, s)]
    BY <1>5
  <2>2. QED
    BY <2>1 DEF all
<1>7. QED
  BY <1>6 DEF S

Tallies(base, races, n) ==
  CHOOSE rec : rec = [s \in SUBSET (1 .. n) |-> Tallied(base, races, rec, s)]

\* The sums after k races, for every k.
Tally(base, races, n, k) == Tallies(base, races, n)[1 .. k]

LEMMA TalliesAre ==
  ASSUME NEW base, NEW races, NEW n \in Nat, NEW s \in SUBSET (1 .. n)
  PROVE  Tallies(base, races, n)[s] = Tallied(base, races, Tallies(base, races, n), s)
<1> DEFINE rec == Tallies(base, races, n)
<1>1. rec = [t \in SUBSET (1 .. n) |-> Tallied(base, races, rec, t)]
  BY TalliesExist DEF Tallies
<1> HIDE DEF rec
<1>2. [t \in SUBSET (1 .. n) |-> Tallied(base, races, rec, t)][s] = Tallied(base, races, rec, s)
  OBVIOUS
<1>3. rec[s] = Tallied(base, races, rec, s)
  BY <1>1, <1>2, Zenon
<1>4. QED
  BY <1>3 DEF rec

\* The loop starts from the base and ends with all races counted.
LEMMA TallyIs ==
  ASSUME NEW base, NEW races, NEW n \in Nat, DOMAIN races = 1 .. n
  PROVE  Loop(base, races) = Tally(base, races, n, n) /\ Tally(base, races, n, 0) = base
<1>1. Loop(base, races) = Tally(base, races, n, n)
  BY DEF Loop, FoldLeft, MapThenFoldSet, Tally, Tallies, Tallied
<1>2. Tallies(base, races, n)[{}] = base
  BY TalliesAre DEF Tallied
<1>3. 1 .. 0 = {}
  OBVIOUS
<1>4. QED
  BY <1>1, <1>2, <1>3 DEF Tally

\* Each round counts one race more.
LEMMA TallyStep ==
  ASSUME NEW base, NEW races, NEW n \in Nat, NEW k \in 1 .. n
  PROVE  Tally(base, races, n, k) = Counted(Tally(base, races, n, k - 1), races[k])
<1> DEFINE rec == Tallies(base, races, n)
           s == 1 .. k
<1>1. s \in SUBSET (1 .. n) /\ s # {}
  <2>1. 1 \in 1 .. k
    OBVIOUS
  <2>2. \A i \in 1 .. k : i \in 1 .. n
    OBVIOUS
  <2>3. QED
    BY <2>1, <2>2
<1>2. Max(1 .. k) = k /\ (1 .. k) \ {k} = 1 .. k - 1
  BY LastPlace
<1> HIDE DEF s
<1>3. rec[s] = Tallied(base, races, rec, s)
  BY <1>1, TalliesAre
<1> HIDE DEF rec
<1>4. Tallied(base, races, rec, s) = Counted(rec[s \ {Max(s)}], races[Max(s)])
  BY <1>1 DEF Tallied
<1>5. QED
  BY <1>2, <1>3, <1>4 DEF s, rec, Tally

----------------------------------------------------------------------------
(* The summary.                                                            *)

Added == {"iRatingGain", "iRatingLoss", "podiums", "top5", "wins", "finishes", "gained",
          "incidents"}
Summaries == [raceCount : Int, iRatingStart : Int, iRatingEnd : Int, iRatingDelta : Int,
              iRatingGain : Int, iRatingLoss : Int, podiums : Int, top5 : Int, wins : Int,
              finishes : Int, gained : Int, incidents : Int]

\* What one race adds to the sum x.
Share(x, race) ==
  CASE x = "iRatingGain" -> IF race.new - race.old > 0 THEN race.new - race.old ELSE 0
    [] x = "iRatingLoss" -> IF race.new - race.old > 0 THEN 0 ELSE -(race.new - race.old)
    [] x = "podiums" -> Bit(race.finish <= 2)
    [] x = "top5" -> Bit(race.finish <= 4)
    [] x = "wins" -> Bit(race.finish = 0)
    [] x = "finishes" -> race.finish
    [] x = "gained" -> race.grid - race.finish
    [] OTHER -> race.incidents

LEMMA ShareType ==
  ASSUME NEW x \in Added, NEW race \in RaceRecords
  PROVE  Share(x, race) \in Int
<1>1. /\ race.new \in Int /\ race.old \in Int /\ race.finish \in Nat /\ race.grid \in Int
      /\ race.incidents \in Int
  BY DEF RaceRecords
<1>2. QED
  BY <1>1 DEF Share, Bit, Added

LEMMA CountedIs ==
  ASSUME NEW sums \in Summaries, NEW race \in RaceRecords
  PROVE  /\ Counted(sums, race) \in Summaries
         /\ \A x \in Added : Counted(sums, race)[x] = sums[x] + Share(x, race)
         /\ Counted(sums, race).raceCount = sums.raceCount
         /\ Counted(sums, race).iRatingStart = sums.iRatingStart
         /\ Counted(sums, race).iRatingEnd = sums.iRatingEnd
<1> DEFINE delta == race.new - race.old
           gain == IF delta > 0 THEN delta ELSE 0
           loss == IF delta > 0 THEN 0 ELSE -delta
           podium == Bit(race.finish <= 2)
           top == Bit(race.finish <= 4)
           win == Bit(race.finish = 0)
           finish == race.finish
           grid == race.grid
           incidents == race.incidents
<1>1. /\ delta \in Int /\ race.finish \in Nat /\ grid \in Int
      /\ incidents \in Int /\ finish \in Int
  BY DEF RaceRecords
<1>2. gain \in Int /\ loss \in Int /\ podium \in Int /\ top \in Int /\ win \in Int
  BY <1>1 DEF Bit
<1>3. Counted(sums, race) =
        [sums EXCEPT !.iRatingGain = @ + gain, !.iRatingLoss = @ + loss,
                     !.podiums = @ + podium, !.top5 = @ + top, !.wins = @ + win,
                     !.finishes = @ + finish, !.gained = @ + grid - finish,
                     !.incidents = @ + incidents]
  BY DEF Counted
<1>4. /\ Share("iRatingGain", race) = gain /\ Share("iRatingLoss", race) = loss
      /\ Share("podiums", race) = podium /\ Share("top5", race) = top
      /\ Share("wins", race) = win /\ Share("finishes", race) = finish
      /\ Share("gained", race) = grid - finish /\ Share("incidents", race) = incidents
  BY DEF Share
<1> HIDE DEF gain, loss, podium, top, win, finish, grid, incidents
<1>5. /\ sums.raceCount \in Int /\ sums.iRatingStart \in Int /\ sums.iRatingEnd \in Int
      /\ sums.iRatingDelta \in Int /\ sums.iRatingGain \in Int /\ sums.iRatingLoss \in Int
      /\ sums.podiums \in Int /\ sums.top5 \in Int /\ sums.wins \in Int
      /\ sums.finishes \in Int /\ sums.gained \in Int /\ sums.incidents \in Int
  BY DEF Summaries
<1>6. Counted(sums, race) =
        [raceCount |-> sums.raceCount, iRatingStart |-> sums.iRatingStart,
         iRatingEnd |-> sums.iRatingEnd, iRatingDelta |-> sums.iRatingDelta,
         iRatingGain |-> sums.iRatingGain + gain, iRatingLoss |-> sums.iRatingLoss + loss,
         podiums |-> sums.podiums + podium, top5 |-> sums.top5 + top, wins |-> sums.wins + win,
         finishes |-> sums.finishes + finish, gained |-> sums.gained + grid - finish,
         incidents |-> sums.incidents + incidents]
  BY <1>3 DEF Summaries
<1> HIDE DEF delta
<1> DEFINE counted == Counted(sums, race)
<1>7. counted \in Summaries
  BY <1>1, <1>2, <1>5, <1>6 DEF Summaries
<1>8. /\ counted.raceCount = sums.raceCount /\ counted.iRatingStart = sums.iRatingStart
      /\ counted.iRatingEnd = sums.iRatingEnd
      /\ counted.iRatingGain = sums.iRatingGain + gain
      /\ counted.iRatingLoss = sums.iRatingLoss + loss
      /\ counted.podiums = sums.podiums + podium
      /\ counted.top5 = sums.top5 + top
      /\ counted.wins = sums.wins + win
      /\ counted.finishes = sums.finishes + finish
      /\ counted.gained = sums.gained + grid - finish
      /\ counted.incidents = sums.incidents + incidents
  BY <1>6
<1>9. sums.gained + grid - finish = sums.gained + (grid - finish)
  BY <1>1, <1>5
<1>10. ASSUME NEW x \in Added PROVE Counted(sums, race)[x] = sums[x] + Share(x, race)
  <2> HIDE DEF counted
  <2>1. counted[x] = sums[x] + Share(x, race)
    BY <1>4, <1>8, <1>9 DEF Added
  <2>2. QED
    BY <2>1 DEF counted
<1>11. QED
  BY <1>7, <1>8, <1>10

\* What every race of the table adds to the sum x.
Shares(x) == [s \in DOMAIN rows |-> Share(x, rows[s])]

LEMMA RowsAre ==
  ASSUME RowsTyped, NEW ss \in SUBSET (DOMAIN rows)
  PROVE  /\ ss \in SUBSET Int /\ ss \in SUBSET Nat /\ IsFiniteSet(ss) /\ Cardinality(ss) \in Nat
         /\ \A x \in Added : \A s \in ss : Shares(x)[s] \in Int
<1>1. ss \in SUBSET Starts
  BY DEF RowsTyped
<1>2. \A x \in Added : \A s \in ss : Shares(x)[s] \in Int
  BY ShareType DEF RowsTyped, Shares
<1>3. \A s \in ss : s \in Int /\ s \in Nat
  <2>1. \A s \in ss : s \in 0 .. 99
    BY <1>1, QueriesAssumption
  <2>2. QED
    BY <2>1
<1>4. QED
  BY <1>1, <1>2, <1>3, StartsFinite

\* The first and the last of sorted seconds.
LEMMA SortedEnds ==
  ASSUME NEW ids \in SUBSET Int, IsFiniteSet(ids), ids # {}
  PROVE  /\ Cardinality(ids) \in Nat \ {0}
         /\ Sorted(ids)[1] = Min(ids) /\ Sorted(ids)[Cardinality(ids)] = Max(ids)
<1> DEFINE n == Cardinality(ids)
           order == Sorted(ids)
<1>1. /\ n \in Nat /\ order \in [1 .. n -> ids]
      /\ \A i, j \in 1 .. n : i < j => order[i] < order[j]
      /\ {order[i] : i \in 1 .. n} = ids
  BY SortedIs
<1>2. n # 0
  BY FS_EmptySet
<1> HIDE DEF n, order
<1>3. 1 \in 1 .. n /\ n \in 1 .. n /\ order[1] \in ids /\ order[n] \in ids
  BY <1>1, <1>2
<1>4. ASSUME NEW id \in ids PROVE order[1] <= id /\ id <= order[n]
  <2>1. PICK i \in 1 .. n : id = order[i]
    BY <1>1
  <2>2. order[1] \in Int /\ order[n] \in Int /\ order[i] \in Int
    BY <1>1, <1>3
  <2>3. /\ i # 1 => order[1] < order[i]
        /\ i # n => order[i] < order[n]
    BY <1>1, <1>3
  <2>4. QED
    BY <2>1, <2>2, <2>3
<1>5. ASSUME NEW least \in ids, \A y \in ids : least =< y PROVE least = order[1]
  <2>1. least \in Int /\ order[1] \in Int /\ least <= order[1] /\ order[1] <= least
    BY <1>3, <1>4, <1>5
  <2>2. QED
    BY <2>1
<1>6. ASSUME NEW most \in ids, \A y \in ids : most >= y PROVE most = order[n]
  <2>1. most \in Int /\ order[n] \in Int /\ most <= order[n] /\ order[n] <= most
    BY <1>3, <1>4, <1>6
  <2>2. QED
    BY <2>1
<1>7. Min(ids) = order[1]
  <2>1. \E x \in ids : \A y \in ids : x =< y
    BY <1>3, <1>4
  <2>2. Min(ids) \in ids /\ \A y \in ids : Min(ids) =< y
    BY <2>1 DEF Min
  <2>3. QED
    BY <1>5, <2>2
<1>8. Max(ids) = order[n]
  <2>1. \E x \in ids : \A y \in ids : x >= y
    <3>1. \A y \in ids : order[n] >= y
      BY <1>3, <1>4
    <3>2. QED
      BY <1>3, <3>1
  <2>2. Max(ids) \in ids /\ \A y \in ids : Max(ids) >= y
    BY <2>1 DEF Max
  <2>3. QED
    BY <1>6, <2>2
<1>9. QED
  BY <1>1, <1>2, <1>7, <1>8 DEF n, order

\* The races of one answer, in order of time.
LEMMA ChronologicalIs ==
  ASSUME RowsTyped, NEW ss \in SUBSET (DOMAIN rows)
  PROVE  /\ DOMAIN Chronological(ss) = 1 .. Cardinality(ss)
         /\ \A i \in 1 .. Cardinality(ss) : Chronological(ss)[i] = rows[Sorted(ss)[i]]
         /\ Chronological(ss) \in Seq(RaceRecords) /\ Len(Chronological(ss)) = Cardinality(ss)
<1> DEFINE n == Cardinality(ss)
           order == Sorted(ss)
<1>1. n \in Nat /\ order \in [1 .. n -> ss]
  BY RowsAre, SortedIs
<1>2. Chronological(ss) = [i \in DOMAIN order |-> rows[order[i]]]
  BY DEF Chronological, InOrder, Session
<1> HIDE DEF n, order
<1>3. DOMAIN order = 1 .. n /\ \A i \in 1 .. n : rows[order[i]] \in RaceRecords
  BY <1>1 DEF RowsTyped
<1>4. Chronological(ss) = [i \in 1 .. n |-> rows[order[i]]]
  BY <1>2, <1>3
<1>5. [i \in 1 .. n |-> rows[order[i]]] \in Seq(RaceRecords)
  BY <1>1, <1>3
<1>6. QED
  BY <1>1, <1>4, <1>5 DEF n, order

\* The record the loop starts from.
BaseOf(n, start, end) ==
  [NoSummary EXCEPT !.raceCount = n, !.iRatingStart = start, !.iRatingEnd = end,
                    !.iRatingDelta = end - start]

LEMMA BaseIs ==
  ASSUME NEW n \in Int, NEW start \in Int, NEW end \in Int
  PROVE  LET base == BaseOf(n, start, end)
         IN  /\ base \in Summaries
             /\ base.raceCount = n /\ base.iRatingStart = start /\ base.iRatingEnd = end
             /\ \A x \in Added : base[x] = 0
<1> DEFINE base == BaseOf(n, start, end)
           delta == end - start
           zero == NoSummary
<1>1. /\ zero \in Summaries
      /\ zero.iRatingGain = 0 /\ zero.iRatingLoss = 0 /\ zero.podiums = 0
      /\ zero.top5 = 0 /\ zero.wins = 0 /\ zero.finishes = 0
      /\ zero.gained = 0 /\ zero.incidents = 0
  BY DEF NoSummary, Summaries
<1>2. base = [zero EXCEPT !.raceCount = n, !.iRatingStart = start, !.iRatingEnd = end,
                          !.iRatingDelta = delta]
  BY DEF BaseOf
<1>3. delta \in Int
  OBVIOUS
<1> HIDE DEF base, delta, zero
<1>4. base = [raceCount |-> n, iRatingStart |-> start, iRatingEnd |-> end,
              iRatingDelta |-> delta, iRatingGain |-> zero.iRatingGain,
              iRatingLoss |-> zero.iRatingLoss, podiums |-> zero.podiums,
              top5 |-> zero.top5, wins |-> zero.wins, finishes |-> zero.finishes,
              gained |-> zero.gained, incidents |-> zero.incidents]
  BY <1>1, <1>2 DEF Summaries
<1>5. base \in Summaries
  BY <1>1, <1>3, <1>4 DEF Summaries
<1>6. /\ base.raceCount = n /\ base.iRatingStart = start /\ base.iRatingEnd = end
      /\ base.iRatingGain = 0 /\ base.iRatingLoss = 0 /\ base.podiums = 0
      /\ base.top5 = 0 /\ base.wins = 0 /\ base.finishes = 0 /\ base.gained = 0
      /\ base.incidents = 0
  BY <1>1, <1>4
<1>7. \A x \in Added : base[x] = 0
  BY <1>6 DEF Added
<1>8. QED
  BY <1>5, <1>6, <1>7 DEF base

\* What computeSummary makes of a set of races: how many they are, the rating before the
\* first and after the last, and sums that do not depend on the order.
LEMMA SummaryIs ==
  ASSUME RowsTyped, NEW ss \in SUBSET (DOMAIN rows)
  PROVE  LET summary == computeSummary(Chronological(ss)) IN
         /\ summary \in Summaries
         /\ summary.raceCount = Cardinality(ss)
         /\ ss # {} => /\ summary.iRatingStart = rows[Min(ss)].old
                       /\ summary.iRatingEnd = rows[Max(ss)].new
         /\ \A x \in Added : summary[x] = SumFunctionOnSet(Shares(x), ss)
<1> DEFINE n == Cardinality(ss)
           order == Sorted(ss)
           races == Chronological(ss)
<1>1. /\ n \in Nat /\ order \in [1 .. n -> ss]
      /\ \A i, j \in 1 .. n : i < j => order[i] < order[j]
      /\ {order[i] : i \in 1 .. n} = ss
  BY RowsAre, SortedIs
<1>2. /\ DOMAIN races = 1 .. n /\ races \in Seq(RaceRecords) /\ Len(races) = n
      /\ \A i \in 1 .. n : races[i] = rows[order[i]]
  BY ChronologicalIs
<1>3. NoSummary \in Summaries /\ \A x \in Added : NoSummary[x] = 0
  BY DEF NoSummary, Summaries, Added
<1>4. /\ ss \in SUBSET Int /\ IsFiniteSet(ss)
      /\ \A x \in Added : \A s \in ss : Shares(x)[s] \in Int
  BY RowsAre
<1>5. n = 0 <=> ss = {}
  BY <1>4, FS_EmptySet
<1>6. ss # {} => Min(ss) = order[1] /\ Max(ss) = order[n]
  BY <1>4, SortedEnds
<1> HIDE DEF n, order, races
<1>7. CASE ss = {}
  <2>1. races = <<>>
    BY <1>2, <1>5, <1>7
  <2>2. computeSummary(races) = NoSummary
    BY <2>1 DEF computeSummary
  <2>3. NoSummary.raceCount = n
    BY <1>5, <1>7 DEF NoSummary
  <2>4. \A x \in Added : NoSummary[x] = SumFunctionOnSet(Shares(x), ss)
    BY <1>3, <1>7, SumEmpty
  <2>5. QED
    BY <1>3, <1>7, <2>2, <2>3, <2>4 DEF n, races
<1>8. CASE ss # {}
  <2> DEFINE start == races[1].old
             end == races[n].new
             base == BaseOf(n, start, end)
             T(k) == Tally(base, races, n, k)
             done(k) == {order[i] : i \in 1 .. k}
             Right(k) == /\ T(k) \in Summaries
                         /\ T(k).raceCount = n /\ T(k).iRatingStart = start
                         /\ T(k).iRatingEnd = end
                         /\ \A x \in Added : T(k)[x] = SumFunctionOnSet(Shares(x), done(k))
  <2>1. 1 \in 1 .. n /\ n \in 1 .. n
    BY <1>1, <1>5, <1>8
  <2>2. /\ races[1] = rows[order[1]] /\ races[n] = rows[order[n]]
        /\ races[1] \in RaceRecords /\ races[n] \in RaceRecords
    BY <1>1, <1>2, <2>1 DEF RowsTyped
  <2>3. races # <<>> /\ Head(races) = races[1] /\ Last(races) = races[n]
    BY <1>2, <2>1 DEF Last
  <2>4. computeSummary(races) = Loop(base, races)
    BY <1>2, <2>3, Zenon DEF computeSummary, Loop, BaseOf
  <2>5. start \in Int /\ end \in Int
    BY <2>2 DEF RaceRecords
  <2> HIDE DEF start, end
  <2>6. /\ base \in Summaries /\ base.raceCount = n /\ base.iRatingStart = start
        /\ base.iRatingEnd = end /\ \A x \in Added : base[x] = 0
    <3>1. n \in Int
      BY <1>1
    <3>2. QED
      BY <2>5, <3>1, BaseIs
  <2> HIDE DEF base
  <2>7. /\ Loop(base, races) = T(n) /\ T(0) = base
        /\ \A k \in 1 .. n : T(k) = Counted(T(k - 1), races[k])
    <3>1. n \in Nat /\ DOMAIN races = 1 .. n
      BY <1>1, <1>2
    <3>2. Loop(base, races) = Tally(base, races, n, n)
      BY <3>1, TallyIs
    <3>3. Tally(base, races, n, 0) = base
      BY <3>1, TallyIs
    <3>4. ASSUME NEW k \in 1 .. n
          PROVE  Tally(base, races, n, k) = Counted(Tally(base, races, n, k - 1), races[k])
      BY <3>1, TallyStep
    <3>5. QED
      BY <3>2, <3>3, <3>4
  <2> HIDE DEF T
  <2>8. Right(0)
    <3>1. done(0) = {}
      OBVIOUS
    <3>2. \A x \in Added : T(0)[x] = SumFunctionOnSet(Shares(x), done(0))
      <4> HIDE DEF done
      <4>1. QED
        BY <2>6, <2>7, <3>1, SumEmpty
    <3>3. QED
      BY <2>6, <2>7, <3>2
  <2>9. ASSUME NEW k \in 1 .. n, Right(k - 1) PROVE Right(k)
    <3>1. races[k] = rows[order[k]] /\ races[k] \in RaceRecords /\ order[k] \in ss
      BY <1>1, <1>2 DEF RowsTyped
    <3>2. T(k) = Counted(T(k - 1), races[k])
      BY <2>7
    <3>3. /\ T(k) \in Summaries
          /\ \A x \in Added : T(k)[x] = T(k - 1)[x] + Share(x, races[k])
          /\ T(k).raceCount = T(k - 1).raceCount
          /\ T(k).iRatingStart = T(k - 1).iRatingStart
          /\ T(k).iRatingEnd = T(k - 1).iRatingEnd
      BY <2>9, <3>1, <3>2, CountedIs
    <3>4. done(k) = done(k - 1) \cup {order[k]} /\ done(k - 1) \subseteq ss
      <4>1. \A i : i \in 1 .. k <=> i \in 1 .. k - 1 \/ i = k
        OBVIOUS
      <4>2. \A i \in 1 .. k : i \in 1 .. n
        BY <1>1
      <4>3. QED
        BY <1>1, <4>1, <4>2
    <3>5. order[k] \notin done(k - 1)
      <4> SUFFICES ASSUME NEW i \in 1 .. k - 1, order[i] = order[k] PROVE FALSE
        OBVIOUS
      <4>1. i \in 1 .. n /\ i < k
        BY <1>1
      <4>2. order[i] < order[k] /\ order[i] \in Int
        BY <1>1, <1>4, <4>1
      <4>3. QED
        BY <4>2
    <3> HIDE DEF done
    <3>6. ASSUME NEW x \in Added
          PROVE  T(k)[x] = SumFunctionOnSet(Shares(x), done(k))
      <4>1. IsFiniteSet(done(k - 1)) /\ \A s \in done(k - 1) : Shares(x)[s] \in Int
        BY <1>4, <3>4, FS_Subset
      <4>2. Shares(x)[order[k]] = Share(x, races[k]) /\ Shares(x)[order[k]] \in Int
        BY <1>4, <3>1 DEF Shares
      <4>3. /\ SumFunctionOnSet(Shares(x), done(k - 1) \cup {order[k]})
                 = Shares(x)[order[k]] + SumFunctionOnSet(Shares(x), done(k - 1))
            /\ SumFunctionOnSet(Shares(x), done(k - 1)) \in Int
        BY <3>5, <4>1, <4>2, SumAdds
      <4>4. T(k - 1)[x] = SumFunctionOnSet(Shares(x), done(k - 1))
        BY <2>9
      <4> DEFINE a == SumFunctionOnSet(Shares(x), done(k - 1))
                 b == Shares(x)[order[k]]
      <4>5. T(k)[x] = a + b
        BY <3>3, <4>2, <4>4
      <4>6. a + b = b + a
        BY <4>2, <4>3
      <4>7. QED
        BY <3>4, <4>3, <4>5, <4>6
    <3>7. QED
      BY <2>9, <3>3, <3>6
  <2>10. Right(n)
    <3> DEFINE Bad == {k \in Nat : k <= n /\ ~Right(k)}
    <3> HIDE DEF Right
    <3>1. Bad = {}
      <4> SUFFICES ASSUME Bad # {} PROVE FALSE
        OBVIOUS
      <4>1. PICK k \in Bad : \A m \in Bad : k <= m
        BY LeastNumber
      <4>2. k \in Nat /\ k <= n /\ ~Right(k)
        OBVIOUS
      <4>3. k # 0
        BY <2>8, <4>2
      <4>4. k \in 1 .. n /\ k - 1 \in Nat /\ k - 1 <= n
        BY <1>1, <4>2, <4>3
      <4>5. Right(k - 1)
        <5>1. k - 1 \notin Bad
          <6> HIDE DEF Bad
          <6>1. QED
            BY <4>1, <4>2, <4>4
        <5>2. QED
          BY <4>4, <5>1
      <4>6. QED
        BY <2>9, <4>2, <4>4, <4>5
    <3>2. QED
      BY <1>1, <3>1
  <2>11. done(n) = ss
    BY <1>1
  <2>12. computeSummary(races) = T(n)
    BY <2>4, <2>7
  <2>13. start = rows[Min(ss)].old /\ end = rows[Max(ss)].new
    BY <1>6, <1>8, <2>2 DEF start, end
  <2> HIDE DEF T, done
  <2>14. QED
    BY <2>10, <2>11, <2>12, <2>13 DEF races, n
<1>9. QED
  BY <1>7, <1>8

\* The sums are those of the races, whatever the code adds up in between.
LEMMA ComputedSummarises ==
  ASSUME RowsTyped, NEW ss \in SUBSET (DOMAIN rows)
  PROVE  Summarises(computeSummary(Chronological(ss)), ss)
<1> DEFINE summary == computeSummary(Chronological(ss))
           Sum(x) == SumFunctionOnSet(Shares(x), ss)
           deltas == [s \in ss |-> rows[s].new - rows[s].old]
           grids == [s \in ss |-> rows[s].grid]
           incidents == [s \in ss |-> rows[s].incidents]
<1>1. /\ summary.raceCount = Cardinality(ss)
      /\ ss # {} => /\ summary.iRatingStart = rows[Min(ss)].old
                    /\ summary.iRatingEnd = rows[Max(ss)].new
  BY SummaryIs
<1>2. \A x \in Added : summary[x] = Sum(x)
  BY SummaryIs
<1>3. /\ summary.iRatingGain = Sum("iRatingGain") /\ summary.iRatingLoss = Sum("iRatingLoss")
      /\ summary.podiums = Sum("podiums") /\ summary.top5 = Sum("top5")
      /\ summary.wins = Sum("wins") /\ summary.finishes = Sum("finishes")
      /\ summary.gained = Sum("gained") /\ summary.incidents = Sum("incidents")
  <2> HIDE DEF summary, Sum
  <2>1. QED
    BY <1>2 DEF Added
<1>4. IsFiniteSet(ss) /\ \A x \in Added : \A s \in ss : Shares(x)[s] \in Int
  BY RowsAre
<1>5. ASSUME NEW s \in ss
      PROVE  /\ rows[s].new \in Int /\ rows[s].old \in Int /\ rows[s].grid \in Int
             /\ rows[s].finish \in Nat /\ rows[s].incidents \in Int
             /\ \A x \in Added : Shares(x)[s] = Share(x, rows[s])
  <2>1. rows[s] \in RaceRecords
    BY DEF RowsTyped
  <2>2. QED
    BY <2>1 DEF RaceRecords, Shares
<1>6. ASSUME NEW s \in ss
      PROVE  /\ Shares("iRatingGain")[s] \in Nat /\ Shares("iRatingLoss")[s] \in Nat
             /\ Shares("iRatingGain")[s] = deltas[s] + Shares("iRatingLoss")[s]
             /\ deltas[s] \in Int
             /\ grids[s] = Shares("finishes")[s] + Shares("gained")[s]
             /\ Shares("incidents")[s] = incidents[s] /\ incidents[s] \in Int
             /\ Shares("wins")[s] = IF rows[s].finish = 0 THEN 1 ELSE 0
             /\ Shares("podiums")[s] = IF rows[s].finish <= 2 THEN 1 ELSE 0
             /\ Shares("top5")[s] = IF rows[s].finish <= 4 THEN 1 ELSE 0
  <2>1. /\ Shares("iRatingGain")[s] = Share("iRatingGain", rows[s])
        /\ Shares("iRatingLoss")[s] = Share("iRatingLoss", rows[s])
        /\ Shares("finishes")[s] = Share("finishes", rows[s])
        /\ Shares("gained")[s] = Share("gained", rows[s])
        /\ Shares("incidents")[s] = Share("incidents", rows[s])
        /\ Shares("wins")[s] = Share("wins", rows[s])
        /\ Shares("podiums")[s] = Share("podiums", rows[s])
        /\ Shares("top5")[s] = Share("top5", rows[s])
    BY <1>5 DEF Added
  <2>2. QED
    BY <1>5, <2>1 DEF Share, Bit
<1> HIDE DEF summary, deltas, grids, incidents
<1>7. summary.iRatingGain - summary.iRatingLoss = SumFunctionOnSet(deltas, ss)
  <2>1. Sum("iRatingGain") = SumFunctionOnSet(deltas, ss) + Sum("iRatingLoss")
    BY <1>4, <1>6, SumOfSums
  <2>2. SumFunctionOnSet(deltas, ss) \in Int /\ Sum("iRatingLoss") \in Int
    BY <1>4, <1>6, SumType
  <2> HIDE DEF Sum
  <2>3. QED
    BY <1>3, <2>1, <2>2
<1>8. summary.iRatingGain >= 0 /\ summary.iRatingLoss >= 0
  <2>1. Sum("iRatingGain") \in Nat /\ Sum("iRatingLoss") \in Nat
    BY <1>4, <1>6, SumType
  <2>2. QED
    BY <1>3, <2>1
<1>9. summary.finishes + summary.gained = SumFunctionOnSet(grids, ss)
  <2>1. "finishes" \in Added /\ "gained" \in Added
    BY DEF Added
  <2>2. SumFunctionOnSet(grids, ss) = Sum("finishes") + Sum("gained")
    BY <1>4, <1>6, <2>1, SumOfSums
  <2>3. QED
    BY <1>3, <2>2
<1>10. summary.incidents = SumFunctionOnSet(incidents, ss)
  <2>1. Sum("incidents") = SumFunctionOnSet(incidents, ss)
    BY <1>4, <1>6, SumSame
  <2>2. QED
    BY <1>3, <2>1
<1>11. summary.wins = Quantify(ss, LAMBDA s : rows[s].finish = 0)
  <2> DEFINE Q == {s \in ss : rows[s].finish = 0}
  <2>1. \A s \in ss : Shares("wins")[s] = IF s \in Q THEN 1 ELSE 0
    BY <1>6
  <2>2. ss \cap Q = Q
    OBVIOUS
  <2>3. Quantify(ss, LAMBDA s : rows[s].finish = 0) = Cardinality(Q)
    BY DEF Quantify
  <2> HIDE DEF Q
  <2>4. Sum("wins") = Cardinality(ss \cap Q)
    BY <1>4, <2>1, CountIsSum
  <2>5. QED
    BY <1>3, <2>2, <2>3, <2>4
<1>12. summary.podiums = Quantify(ss, LAMBDA s : rows[s].finish \in 0 .. 2)
  <2> DEFINE Q == {s \in ss : rows[s].finish \in 0 .. 2}
  <2>1. \A s \in ss : Shares("podiums")[s] = IF s \in Q THEN 1 ELSE 0
    <3>1. \A s \in ss : rows[s].finish <= 2 <=> s \in Q
      BY <1>5
    <3>2. QED
      BY <1>6, <3>1
  <2>2. ss \cap Q = Q
    OBVIOUS
  <2>3. Quantify(ss, LAMBDA s : rows[s].finish \in 0 .. 2) = Cardinality(Q)
    BY DEF Quantify
  <2> HIDE DEF Q
  <2>4. Sum("podiums") = Cardinality(ss \cap Q)
    BY <1>4, <2>1, CountIsSum
  <2>5. QED
    BY <1>3, <2>2, <2>3, <2>4
<1>13. summary.top5 = Quantify(ss, LAMBDA s : rows[s].finish \in 0 .. 4)
  <2> DEFINE Q == {s \in ss : rows[s].finish \in 0 .. 4}
  <2>1. \A s \in ss : Shares("top5")[s] = IF s \in Q THEN 1 ELSE 0
    <3>1. \A s \in ss : rows[s].finish <= 4 <=> s \in Q
      BY <1>5
    <3>2. QED
      BY <1>6, <3>1
  <2>2. ss \cap Q = Q
    OBVIOUS
  <2>3. Quantify(ss, LAMBDA s : rows[s].finish \in 0 .. 4) = Cardinality(Q)
    BY DEF Quantify
  <2> HIDE DEF Q
  <2>4. Sum("top5") = Cardinality(ss \cap Q)
    BY <1>4, <2>1, CountIsSum
  <2>5. QED
    BY <1>3, <2>2, <2>3, <2>4
<1>14. /\ SumFunction([s \in ss |-> rows[s].new - rows[s].old]) = SumFunctionOnSet(deltas, ss)
       /\ SumFunction([s \in ss |-> rows[s].grid]) = SumFunctionOnSet(grids, ss)
       /\ SumFunction([s \in ss |-> rows[s].incidents]) = SumFunctionOnSet(incidents, ss)
  BY DEF SumFunction, deltas, grids, incidents
<1>15. QED
  BY <1>1, <1>7, <1>8, <1>9, <1>10, <1>11, <1>12, <1>13, <1>14, Zenon DEF Summarises, summary

----------------------------------------------------------------------------
(* The periods.                                                            *)

LEMMA ImageIsFinite ==
  ASSUME NEW S, IsFiniteSet(S), NEW f
  PROVE  IsFiniteSet({f[x] : x \in S})
<1> DEFINE T == {f[x] : x \in S}
           g == [x \in S |-> f[x]]
<1>1. g \in Surjection(S, T)
  BY DEF Surjection
<1> HIDE DEF T, g
<1>2. IsFiniteSet(T)
  BY <1>1, FS_Surjection
<1>3. QED
  BY <1>2 DEF T

LEMMA MinIs ==
  ASSUME NEW S \in SUBSET Int, NEW x \in S, \A y \in S : x <= y
  PROVE  Min(S) = x
<1>1. ASSUME NEW z \in S, \A y \in S : z =< y PROVE z = x
  <2>1. z \in Int /\ x \in Int /\ z <= x /\ x <= z
    BY <1>1
  <2>2. QED
    BY <2>1
<1>2. Min(S) \in S /\ \A y \in S : Min(S) =< y
  BY DEF Min
<1>3. QED
  BY <1>1, <1>2

LEMMA MaxIs ==
  ASSUME NEW S \in SUBSET Int, NEW x \in S, \A y \in S : x >= y
  PROVE  Max(S) = x
<1>1. ASSUME NEW z \in S, \A y \in S : z >= y PROVE z = x
  <2>1. z \in Int /\ x \in Int /\ z >= x /\ x >= z
    BY <1>1
  <2>2. QED
    BY <2>1
<1>2. Max(S) \in S /\ \A y \in S : Max(S) >= y
  BY DEF Max
<1>3. QED
  BY <1>1, <1>2

\* A non-empty finite set of numbers has a least and a greatest.
LEMMA Extremes ==
  ASSUME NEW S \in SUBSET Int, IsFiniteSet(S), S # {}
  PROVE  /\ Min(S) \in S /\ \A y \in S : Min(S) <= y
         /\ Max(S) \in S /\ \A y \in S : Max(S) >= y
<1> DEFINE n == Cardinality(S)
           order == Sorted(S)
<1>1. /\ n \in Nat \ {0} /\ order[1] = Min(S) /\ order[n] = Max(S)
  BY SortedEnds
<1>2. /\ order \in [1 .. n -> S]
      /\ \A i, j \in 1 .. n : i < j => order[i] < order[j]
      /\ {order[i] : i \in 1 .. n} = S
  BY SortedIs
<1> HIDE DEF n, order
<1>3. 1 \in 1 .. n /\ n \in 1 .. n /\ order[1] \in S /\ order[n] \in S
  BY <1>1, <1>2
<1>4. ASSUME NEW y \in S PROVE order[1] <= y /\ order[n] >= y
  <2>1. PICK i \in 1 .. n : y = order[i]
    BY <1>2
  <2>2. order[1] \in Int /\ order[n] \in Int /\ order[i] \in Int
    BY <1>2, <1>3
  <2>3. /\ i # 1 => order[1] < order[i]
        /\ i # n => order[i] < order[n]
    BY <1>1, <1>2, <1>3
  <2>4. QED
    BY <2>1, <2>2, <2>3
<1>5. QED
  BY <1>1, <1>3, <1>4

\* A later second is in no earlier period.
LEMMA PeriodsFollow ==
  ASSUME NEW g \in Nat \ {0}, NEW s \in Nat, NEW t \in Nat, s <= t
  PROVE  /\ formatPeriod(s, g) \in Nat /\ formatPeriod(t, g) \in Nat
         /\ formatPeriod(s, g) <= formatPeriod(t, g)
<1>1. ASSUME NEW n \in Nat
      PROVE  /\ n \div g \in Nat /\ n % g \in Nat /\ n % g < g
             /\ n = (n \div g) * g + (n % g)
  <2> DEFINE q == n \div g
             m == n % g
  <2>1. q \in Nat /\ m \in Nat /\ m < g /\ n = q * g + m
    OBVIOUS
  <2>2. QED
    BY <2>1
<1> DEFINE p == s \div g
           q == t \div g
           pg == p * g
           qg == q * g
<1>2. /\ p \in Nat /\ s >= pg
      /\ q \in Nat /\ t < qg + g
  <2> DEFINE a == s % g
             b == t % g
  <2>1. p \in Nat /\ a \in Nat /\ s = pg + a
    BY <1>1
  <2>2. q \in Nat /\ b \in Nat /\ b < g /\ t = qg + b
    BY <1>1
  <2> HIDE DEF a, b, p, q
  <2>3. pg \in Nat /\ qg \in Nat
    BY <2>1, <2>2
  <2> HIDE DEF pg, qg
  <2>4. QED
    BY <2>1, <2>2, <2>3
<1> HIDE DEF p, q
<1>3. pg \in Nat /\ qg \in Nat /\ (q + 1 <= p => qg + g <= pg)
  <2>1. pg \in Nat /\ qg \in Nat /\ (q + 1) * g = qg + g
    BY <1>2
  <2>2. q + 1 <= p => (q + 1) * g <= p * g
    BY <1>2, TimesGrows
  <2>3. QED
    BY <2>1, <2>2
<1> HIDE DEF pg, qg
<1>4. p <= q
  BY <1>2, <1>3
<1>5. QED
  BY <1>2, <1>4 DEF formatPeriod, p, q

\* Seconds of a period that begins or ends a range have its first or last second.
LEMMA PeriodEnds ==
  ASSUME NEW g \in Nat \ {0}, NEW ss \in SUBSET Nat, IsFiniteSet(ss), ss # {}
  PROVE  LET periods == {formatPeriod(s, g) : s \in ss}
             first == InPeriod(ss, Min(periods), g)
             last == InPeriod(ss, Max(periods), g)
         IN  /\ periods \in SUBSET Int /\ IsFiniteSet(periods)
             /\ first # {} /\ Min(first) = Min(ss)
             /\ last # {} /\ Max(last) = Max(ss)
<1> DEFINE periods == {formatPeriod(s, g) : s \in ss}
           a == Min(ss)
           b == Max(ss)
<1>1. ss \in SUBSET Int /\ \A s \in ss : s \in Nat
  OBVIOUS
<1>2. /\ a \in ss /\ \A y \in ss : a <= y
      /\ b \in ss /\ \A y \in ss : b >= y
  BY <1>1, Extremes
<1>3. IsFiniteSet(periods)
  <2> DEFINE f == [s \in ss |-> formatPeriod(s, g)]
  <2>1. periods = {f[s] : s \in ss}
    OBVIOUS
  <2> HIDE DEF f, periods
  <2>2. QED
    BY <2>1, ImageIsFinite
<1>4. \A s \in ss : formatPeriod(s, g) \in Nat
  BY <1>1, PeriodsFollow
<1>5. periods \in SUBSET Int
  BY <1>4
<1> HIDE DEF a, b
<1>6. Min(periods) = formatPeriod(a, g)
  <2>1. ASSUME NEW p \in periods PROVE formatPeriod(a, g) <= p
    <3>1. PICK s \in ss : p = formatPeriod(s, g)
      OBVIOUS
    <3>2. a \in Nat /\ s \in Nat /\ a <= s
      BY <1>2, <3>1
    <3>3. QED
      BY <3>1, <3>2, PeriodsFollow
  <2>2. formatPeriod(a, g) \in periods
    BY <1>2
  <2> HIDE DEF periods
  <2>3. QED
    BY <1>5, <2>1, <2>2, MinIs
<1>7. Max(periods) = formatPeriod(b, g)
  <2>1. ASSUME NEW p \in periods PROVE formatPeriod(b, g) >= p
    <3>1. PICK s \in ss : p = formatPeriod(s, g)
      OBVIOUS
    <3>2. b \in Nat /\ s \in Nat /\ s <= b
      BY <1>2, <3>1
    <3>3. formatPeriod(s, g) <= formatPeriod(b, g) /\ formatPeriod(s, g) \in Nat
          /\ formatPeriod(b, g) \in Nat
      BY <3>2, PeriodsFollow
    <3>4. QED
      BY <3>1, <3>3
  <2>2. formatPeriod(b, g) \in periods
    BY <1>2
  <2> HIDE DEF periods
  <2>3. QED
    BY <1>5, <2>1, <2>2, MaxIs
<1> HIDE DEF periods
<1> DEFINE first == InPeriod(ss, Min(periods), g)
           last == InPeriod(ss, Max(periods), g)
<1>8. a \in first /\ b \in last /\ first \subseteq ss /\ last \subseteq ss
  BY <1>2, <1>6, <1>7 DEF InPeriod
<1> HIDE DEF first, last
<1>9. Min(first) = a /\ Max(last) = b
  BY <1>1, <1>2, <1>8, MinIs, MaxIs
<1>10. QED
  BY <1>3, <1>5, <1>8, <1>9 DEF periods, a, b, first, last

\* What the periods of the asked races say.
LEMMA SeriesIs ==
  ASSUME RowsTyped, NEW ss \in SUBSET (DOMAIN rows), NEW g \in Nat \ {0},
         computeTimeSeries(ss, g) # <<>>
  PROVE  LET series == computeTimeSeries(ss, g)
             whole == computeSummary(Chronological(ss))
         IN
         /\ \A i, j \in DOMAIN series : i < j => series[i].period < series[j].period
         /\ whole.raceCount = SumFunction([i \in DOMAIN series |-> series[i].summary.raceCount])
         /\ whole.iRatingGain = SumFunction([i \in DOMAIN series |-> series[i].summary.iRatingGain])
         /\ whole.incidents = SumFunction([i \in DOMAIN series |-> series[i].summary.incidents])
         /\ Head(series).summary.iRatingStart = whole.iRatingStart
         /\ Last(series).summary.iRatingEnd = whole.iRatingEnd
<1> DEFINE series == computeTimeSeries(ss, g)
           whole == computeSummary(Chronological(ss))
           periods == {formatPeriod(s, g) : s \in ss}
           n == Cardinality(periods)
           order == Sorted(periods)
           I == 1 .. n
           part == [i \in I |-> InPeriod(ss, order[i], g)]
           some(i) == computeSummary(Chronological(part[i]))
<1>1. /\ ss \in SUBSET Int /\ ss \in SUBSET Nat /\ IsFiniteSet(ss)
      /\ \A x \in Added : \A s \in ss : Shares(x)[s] \in Int
  BY RowsAre
<1>2. IsFiniteSet(periods) /\ periods \in SUBSET Int
  <2>1. IsFiniteSet(periods)
    <3> DEFINE f == [s \in ss |-> formatPeriod(s, g)]
    <3>1. periods = {f[s] : s \in ss}
      OBVIOUS
    <3> HIDE DEF f, periods
    <3>2. QED
      BY <1>1, <3>1, ImageIsFinite
  <2>2. \A s \in ss : formatPeriod(s, g) \in Int
    BY <1>1, PeriodsFollow
  <2>3. QED
    BY <2>1, <2>2
<1>3. /\ n \in Nat /\ order \in [I -> periods]
      /\ \A i, j \in I : i < j => order[i] < order[j]
      /\ {order[i] : i \in I} = periods
  <2> HIDE DEF periods
  <2>1. QED
    BY <1>2, SortedIs
<1>4. series = [i \in DOMAIN order |->
                  [period |-> order[i],
                   summary |-> computeSummary(Chronological(InPeriod(ss, order[i], g)))]]
  BY DEF computeTimeSeries
<1>5. \A s \in ss : \E i \in I : order[i] = formatPeriod(s, g)
  BY <1>3
<1>6. \A s \in ss : formatPeriod(s, g) \in periods
  OBVIOUS
<1> HIDE DEF periods, n, order, series
<1>7. /\ DOMAIN series = I
      /\ \A i \in I : series[i].period = order[i] /\ series[i].summary = some(i)
  BY <1>3, <1>4
<1>8. series \in Seq({series[i] : i \in I}) /\ Len(series) = n
  BY <1>3, <1>7, <1>4
<1>9. n # 0
  BY <1>3, <1>7, <1>8 DEF series
<1>10. part \in [I -> SUBSET ss] /\ \A i \in I : part[i] \in SUBSET (DOMAIN rows)
  BY DEF InPeriod
<1>11. \A i, j \in I : i # j => part[i] \cap part[j] = {}
  <2> SUFFICES ASSUME NEW i \in I, NEW j \in I, i # j, NEW s \in ss,
                      s \in part[i], s \in part[j]
               PROVE  FALSE
    BY <1>10
  <2>1. order[i] = order[j]
    BY DEF InPeriod
  <2>2. (i < j => order[i] < order[j]) /\ (j < i => order[j] < order[i])
    BY <1>3
  <2>3. order[i] \in Int /\ order[j] \in Int /\ i \in Int /\ j \in Int
    <3>1. order[i] \in periods /\ order[j] \in periods
      BY <1>3
    <3>2. \A p \in periods : p \in Int
      BY <1>2
    <3>3. i \in Int /\ j \in Int
      BY <1>3 DEF I
    <3>4. QED
      BY <3>1, <3>2, <3>3
  <2>4. QED
    BY <2>1, <2>2, <2>3
<1>12. UNION {part[i] : i \in I} = ss
  <2>1. ASSUME NEW s \in ss PROVE \E i \in I : s \in part[i]
    BY <1>5 DEF InPeriod
  <2> HIDE DEF I, part
  <2>2. QED
    BY <1>10, <2>1
<1>13. IsFiniteSet(I)
  BY <1>3, FS_Interval
<1>14. \A i \in I : /\ some(i).raceCount = Cardinality(part[i])
                    /\ \A x \in Added : some(i)[x] = SumFunctionOnSet(Shares(x), part[i])
  <2> HIDE DEF part
  <2>1. QED
    BY <1>10, SummaryIs
<1>15. /\ whole.raceCount = Cardinality(ss)
       /\ \A x \in Added : whole[x] = SumFunctionOnSet(Shares(x), ss)
  BY SummaryIs
<1> HIDE DEF I, part, whole, some
<1>16. \A i, j \in DOMAIN series : i < j => series[i].period < series[j].period
  BY <1>3, <1>7
<1>17. whole.raceCount = SumFunction([i \in DOMAIN series |-> series[i].summary.raceCount])
  <2> DEFINE h == [i \in I |-> series[i].summary.raceCount]
             ones == [s \in ss |-> 1]
  <2>1. /\ \A s \in ss : ones[s] = IF s \in ss THEN 1 ELSE 0
        /\ \A s \in ss : ones[s] \in Int
    OBVIOUS
  <2>2. \A i \in I : h[i] = Cardinality(part[i])
    BY <1>7, <1>14
  <2>3. SumFunction([i \in DOMAIN series |-> series[i].summary.raceCount]) = SumFunctionOnSet(h, I)
    BY <1>7 DEF SumFunction
  <2> HIDE DEF h, ones
  <2>4. ASSUME NEW t \in SUBSET ss PROVE SumFunctionOnSet(ones, t) = Cardinality(t)
    <3>1. IsFiniteSet(t) /\ t \cap ss = t /\ \A s \in t : ones[s] = IF s \in ss THEN 1 ELSE 0
      BY <1>1, <2>1, FS_Subset
    <3>2. QED
      BY <3>1, CountIsSum
  <2>5. \A i \in I : h[i] = SumFunctionOnSet(ones, part[i])
    BY <1>10, <2>2, <2>4
  <2>6. SumFunctionOnSet(h, I) = SumFunctionOnSet(ones, UNION {part[i] : i \in I})
    BY <1>1, <1>10, <1>11, <1>13, <2>1, <2>5, SumOfParts
  <2>7. SumFunctionOnSet(h, I) = Cardinality(ss)
    BY <1>12, <2>4, <2>6
  <2>8. QED
    BY <1>15, <2>3, <2>7
<1>18. ASSUME NEW x \in Added, NEW h, \A i \in I : h[i] = some(i)[x]
       PROVE  SumFunctionOnSet(h, I) = whole[x]
  <2>1. \A i \in I : h[i] = SumFunctionOnSet(Shares(x), part[i])
    BY <1>14, <1>18
  <2>2. \A s \in ss : Shares(x)[s] \in Int
    BY <1>1
  <2>3. SumFunctionOnSet(h, I) = SumFunctionOnSet(Shares(x), UNION {part[i] : i \in I})
    BY <1>1, <1>10, <1>11, <1>13, <2>1, <2>2, SumOfParts
  <2>4. QED
    BY <1>12, <1>15, <2>3
<1>19. whole.iRatingGain = SumFunction([i \in DOMAIN series |-> series[i].summary.iRatingGain])
  <2> DEFINE h == [i \in I |-> series[i].summary.iRatingGain]
  <2>1. \A i \in I : h[i] = some(i)["iRatingGain"]
    BY <1>7
  <2>2. SumFunction([i \in DOMAIN series |-> series[i].summary.iRatingGain]) = SumFunctionOnSet(h, I)
    BY <1>7 DEF SumFunction
  <2>3. "iRatingGain" \in Added
    BY DEF Added
  <2> HIDE DEF h
  <2>4. SumFunctionOnSet(h, I) = whole["iRatingGain"]
    BY <1>18, <2>1, <2>3
  <2>5. QED
    BY <2>2, <2>4
<1>20. whole.incidents = SumFunction([i \in DOMAIN series |-> series[i].summary.incidents])
  <2> DEFINE h == [i \in I |-> series[i].summary.incidents]
  <2>1. \A i \in I : h[i] = some(i)["incidents"]
    BY <1>7
  <2>2. SumFunction([i \in DOMAIN series |-> series[i].summary.incidents]) = SumFunctionOnSet(h, I)
    BY <1>7 DEF SumFunction
  <2>3. "incidents" \in Added
    BY DEF Added
  <2> HIDE DEF h
  <2>4. SumFunctionOnSet(h, I) = whole["incidents"]
    BY <1>18, <2>1, <2>3
  <2>5. QED
    BY <2>2, <2>4
<1>21. ss # {}
  <2>1. 1 \in I
    BY <1>3, <1>9 DEF I
  <2>2. order[1] \in periods
    BY <1>3, <2>1
  <2>3. QED
    BY <2>2 DEF periods
<1>22. /\ 1 \in I /\ n \in I /\ order[1] = Min(periods) /\ order[n] = Max(periods)
       /\ Head(series) = series[1] /\ Last(series) = series[n]
  <2>1. periods # {}
    BY <1>6, <1>21
  <2>2. order[1] = Min(periods) /\ order[n] = Max(periods)
    BY <1>2, <2>1, SortedEnds DEF order, n
  <2>3. 1 \in I /\ n \in I
    BY <1>3, <1>9 DEF I
  <2>4. Head(series) = series[1] /\ Last(series) = series[n]
    BY <1>8 DEF Last
  <2>5. QED
    BY <2>2, <2>3, <2>4
<1>23. /\ part[1] # {} /\ Min(part[1]) = Min(ss)
       /\ part[n] # {} /\ Max(part[n]) = Max(ss)
  <2>1. part[1] = InPeriod(ss, Min(periods), g) /\ part[n] = InPeriod(ss, Max(periods), g)
    BY <1>22 DEF part
  <2>2. QED
    BY <1>1, <1>21, <2>1, PeriodEnds DEF periods
<1>24. /\ some(1).iRatingStart = rows[Min(ss)].old
       /\ some(n).iRatingEnd = rows[Max(ss)].new
  BY <1>10, <1>22, <1>23, SummaryIs DEF some
<1>25. /\ whole.iRatingStart = rows[Min(ss)].old
       /\ whole.iRatingEnd = rows[Max(ss)].new
  BY <1>21, SummaryIs DEF whole
<1>26. /\ Head(series).summary.iRatingStart = whole.iRatingStart
       /\ Last(series).summary.iRatingEnd = whole.iRatingEnd
  BY <1>7, <1>22, <1>24, <1>25
<1>27. QED
  BY <1>16, <1>17, <1>19, <1>20, <1>26 DEF series, whole

----------------------------------------------------------------------------
(* Groups and dimensions.                                                  *)

\* The races of a group, as GroupsDivide says it.
OfKey(ss, groupBy, key) == {s \in ss : \A i \in DOMAIN key : rows[s][groupBy[i]] = key[i]}

\* The groups divide the races.
LEMMA GroupsAre ==
  ASSUME RowsTyped, NEW ss \in SUBSET (DOMAIN rows), NEW groupBy \in Seq({"series", "car"}),
         NEW groups \in computeGroupedStats(ss, groupBy)
  PROVE  /\ \A i \in DOMAIN groups :
              /\ Len(groups[i].key) = Len(groupBy)
              /\ Summarises(groups[i].summary, OfKey(ss, groupBy, groups[i].key))
         /\ UNION {OfKey(ss, groupBy, groups[i].key) : i \in DOMAIN groups} = ss
         /\ \A i, j \in DOMAIN groups :
              i < j => OfKey(ss, groupBy, groups[i].key) \cap OfKey(ss, groupBy, groups[j].key) = {}
<1> DEFINE Key(s) == GroupKey(s, groupBy)
           keys == {Key(s) : s \in ss}
           Group(key) == {s \in ss : Key(s) = key}
           Row(key) == [key |-> key, summary |-> computeSummary(Chronological(Group(key)))]
           all == {Row(key) : key \in keys}
           n == Cardinality(all)
<1>1. groups \in SetToSeqs(all)
  BY DEF computeGroupedStats
<1>2. IsFiniteSet(all)
  <2> DEFINE f == [s \in ss |-> Row(Key(s))]
  <2>1. all = {f[s] : s \in ss}
    OBVIOUS
  <2>2. IsFiniteSet(ss)
    BY RowsAre
  <2> HIDE DEF f, all
  <2>3. QED
    BY <2>1, <2>2, ImageIsFinite
<1>3. ASSUME NEW s \in ss
      PROVE  /\ DOMAIN Key(s) = DOMAIN groupBy /\ Len(Key(s)) = Len(groupBy)
             /\ Key(s) = [i \in DOMAIN groupBy |-> Key(s)[i]]
             /\ \A i \in DOMAIN groupBy : Key(s)[i] = rows[s][groupBy[i]]
  <2>1. Key(s) = [i \in DOMAIN groupBy |-> rows[s][groupBy[i]]]
    BY DEF GroupKey, Session
  <2>2. DOMAIN groupBy = 1 .. Len(groupBy) /\ Len(groupBy) \in Nat
    OBVIOUS
  <2> HIDE DEF Key
  <2>3. QED
    BY <2>1, <2>2
<1>4. ASSUME NEW s \in ss PROVE OfKey(ss, groupBy, Key(s)) = Group(Key(s))
  <2> SUFFICES ASSUME NEW t \in ss
               PROVE  (\A i \in DOMAIN Key(s) : rows[t][groupBy[i]] = Key(s)[i])
                        <=> Key(t) = Key(s)
    BY DEF OfKey
  <2> HIDE DEF Key
  <2>1. QED
    BY <1>3
<1> HIDE DEF Key, all, n
<1>5. /\ IsFiniteSet(1 .. n) /\ Cardinality(1 .. n) = n /\ n \in Nat
  <2>1. n \in Nat
    BY <1>2, FS_CardinalityType DEF n
  <2>2. QED
    BY <2>1, FS_Interval
<1>6. groups \in Injection(1 .. n, all)
  BY <1>1 DEF SetToSeqs, Injection, IsInjective, n
<1>7. groups \in Surjection(1 .. n, all)
  BY <1>2, <1>5, <1>6, FS_Injection DEF n
<1>8. DOMAIN groups = 1 .. n
  BY <1>6 DEF Injection
<1>9. ASSUME NEW i \in 1 .. n
      PROVE  \E s \in ss : groups[i] = Row(Key(s))
  <2>1. groups[i] \in all
    BY <1>6 DEF Injection
  <2>2. QED
    BY <2>1 DEF all
<1>10. \A key : Row(key).key = key /\ Row(key).summary = computeSummary(Chronological(Group(key)))
  OBVIOUS
<1>11. ASSUME NEW i \in 1 .. n
       PROVE  /\ Len(groups[i].key) = Len(groupBy)
              /\ OfKey(ss, groupBy, groups[i].key) = Group(groups[i].key)
              /\ Summarises(groups[i].summary, Group(groups[i].key))
  <2>1. PICK s \in ss : groups[i] = Row(Key(s))
    BY <1>9
  <2>2. groups[i].key = Key(s)
    BY <2>1
  <2>3. groups[i].summary = computeSummary(Chronological(Group(Key(s))))
    BY <2>1
  <2>4. Group(Key(s)) \in SUBSET (DOMAIN rows)
    OBVIOUS
  <2> HIDE DEF Group, Row
  <2>5. Summarises(computeSummary(Chronological(Group(Key(s)))), Group(Key(s)))
    BY <2>4, ComputedSummarises
  <2>6. QED
    BY <1>3, <1>4, <2>2, <2>3, <2>5
<1>12. UNION {OfKey(ss, groupBy, groups[i].key) : i \in DOMAIN groups} = ss
  <2>1. ASSUME NEW s \in ss PROVE \E i \in 1 .. n : s \in OfKey(ss, groupBy, groups[i].key)
    <3>1. Row(Key(s)) \in all
      BY DEF all
    <3>2. PICK i \in 1 .. n : groups[i] = Row(Key(s))
      BY <1>7, <3>1 DEF Surjection
    <3>3. groups[i].key = Key(s) /\ s \in Group(Key(s))
      BY <3>2
    <3> HIDE DEF Group, Row
    <3>4. QED
      BY <1>11, <3>2, <3>3
  <2>2. \A i \in 1 .. n : OfKey(ss, groupBy, groups[i].key) \subseteq ss
    BY DEF OfKey
  <2>3. QED
    BY <1>8, <2>1, <2>2
<1>13. ASSUME NEW i \in 1 .. n, NEW j \in 1 .. n, i < j
       PROVE  OfKey(ss, groupBy, groups[i].key) \cap OfKey(ss, groupBy, groups[j].key) = {}
  <2>1. groups[i] # groups[j]
    BY <1>6, <1>13 DEF Injection, IsInjective
  <2>2. PICK s \in ss : groups[i] = Row(Key(s))
    BY <1>9
  <2>3. PICK t \in ss : groups[j] = Row(Key(t))
    BY <1>9
  <2>4. groups[i].key = Key(s) /\ groups[j].key = Key(t)
    BY <2>2, <2>3
  <2>5. Key(s) # Key(t)
    BY <2>1, <2>2, <2>3
  <2>6. Group(Key(s)) \cap Group(Key(t)) = {}
    BY <2>5
  <2> HIDE DEF Group, Row
  <2>7. QED
    BY <1>11, <2>4, <2>6
<1>14. QED
  BY <1>8, <1>11, <1>12, <1>13

\* A sorted list of identifiers names all of them.
LEMMA SortedNames ==
  ASSUME NEW S, IsFiniteSet(S), NEW f, \A x \in S : f[x] \in Int
  PROVE  Range(Sorted({f[x] : x \in S})) = {f[x] : x \in S}
<1> DEFINE ids == {f[x] : x \in S}
<1>1. ids \in SUBSET Int
  OBVIOUS
<1>2. IsFiniteSet(ids)
  BY ImageIsFinite
<1> HIDE DEF ids
<1>3. /\ Sorted(ids) \in [1 .. Cardinality(ids) -> ids]
      /\ {Sorted(ids)[i] : i \in 1 .. Cardinality(ids)} = ids
  BY <1>1, <1>2, SortedIs
<1>4. Range(Sorted(ids)) = ids
  BY <1>3 DEF Range
<1>5. QED
  BY <1>4 DEF ids

LEMMA DimensionsAre ==
  ASSUME RowsTyped, NEW ss \in SUBSET (DOMAIN rows)
  PROVE  /\ {rows[s].series : s \in ss} = Range(DimensionsOf(ss).seriesIDs)
         /\ {rows[s].car : s \in ss} = Range(DimensionsOf(ss).carIDs)
<1> DEFINE series == [s \in ss |-> rows[s].series]
           cars == [s \in ss |-> rows[s].car]
<1>1. ASSUME NEW s \in ss PROVE rows[s].series \in Int /\ rows[s].car \in Int
  <2>1. rows[s] \in RaceRecords
    BY DEF RowsTyped
  <2>2. QED
    BY <2>1 DEF RaceRecords
<1>2. /\ {rows[s].series : s \in ss} = {series[s] : s \in ss}
      /\ {rows[s].car : s \in ss} = {cars[s] : s \in ss}
  OBVIOUS
<1>3. /\ DimensionsOf(ss).seriesIDs = Sorted({rows[s].series : s \in ss})
      /\ DimensionsOf(ss).carIDs = Sorted({rows[s].car : s \in ss})
  BY DEF DimensionsOf, Session
<1>4. IsFiniteSet(ss) /\ \A s \in ss : series[s] \in Int /\ cars[s] \in Int
  BY <1>1, RowsAre
<1> HIDE DEF series, cars
<1>5. /\ Range(Sorted({series[s] : s \in ss})) = {series[s] : s \in ss}
      /\ Range(Sorted({cars[s] : s \in ss})) = {cars[s] : s \in ss}
  BY <1>4, SortedNames
<1>6. QED
  BY <1>2, <1>3, <1>5

----------------------------------------------------------------------------
(* Theorems.                                                               *)

\* A request with bounds of ordinary length, for a page that an int can hold, is
\* never answered 500, whatever rows are there.
THEOREM OrdinaryRequestsServedHolds == Spec => []OrdinaryRequestsServed
<1>1. ASSUME QueriesInv PROVE OrdinaryRequestsServed
  <2> SUFFICES ASSUME answer.op # "none", Ordinary, DOMAIN rows # {},
                      answer.op = "races" => answer.page * answer.perPage <= MaxInt,
                      answer.result.status = 500
               PROVE  FALSE
    BY DEF OrdinaryRequestsServed
  <2>1. answer # NoAnswer
    BY DEF NoAnswer
  <2>2. CASE RacesAnswered
    <3>1. PICK range \in Ranges, series \in SeriesIDs, cars \in CarIDs,
               page \in 1 .. MaxInt, perPage \in 1 .. MaxInt :
                 answer = RacesAnswer(range, series, cars, page, perPage)
      BY <2>2 DEF RacesAnswered
    <3>2. /\ answer.op = "races" /\ answer.range = range
          /\ answer.series = series /\ answer.cars = cars
          /\ answer.page = page /\ answer.perPage = perPage
          /\ answer.result = RacesOf(range, series, cars, page, perPage)
      BY <3>1 DEF RacesAnswer
    <3>3. range[1] <= range[2] => ValidBetween(range[1], range[2])
      BY <1>1, <3>2, OrdinaryKeys DEF QueriesInv, RowsTyped
    <3>4. range[1] \in 0 .. 99 /\ range[2] \in 0 .. 99
      BY QueriesAssumption
    <3>5. Asked \in SUBSET Starts
      BY <1>1 DEF QueriesInv, RowsTyped, Asked
    <3>6. PageOf(Asked, page, perPage).status = 200
      <4>1. page * perPage <= MaxInt
        BY <3>2
      <4> DEFINE total == Cardinality(Asked)
                 start == AtMost((page - 1) * perPage, total)
                 end == AtMost((page - 1) * perPage + perPage, total)
      <4>2. PageOf(Asked, page, perPage) =
              [status |-> 200, items |-> [i \in 1 .. end - start |-> Nth(Asked, start + i)],
               pages |-> (total \div perPage) + IF total % perPage # 0 THEN 1 ELSE 0]
        BY <3>1, <3>5, <4>1, PageIs
      <4>3. QED
        BY <4>2
    <3>7. Filtered(Query(range[1], range[2]), series, cars) = Asked
      BY <1>1, <3>2, AskedIs DEF QueriesInv, RowsTyped
    <3>8. QED
      BY <3>2, <3>3, <3>4, <3>6, <3>7 DEF RacesOf
  <2>3. CASE AnalyticsAnswered \/ DimensionsAnswered
    <3>1. DOMAIN rows \subseteq Starts
      BY <1>1 DEF QueriesInv, RowsTyped
    <3>2. QED
      BY <2>3, <3>1, OthersFail, OrdinaryKeys
  <2>4. QED
    BY <1>1, <2>1, <2>2, <2>3 DEF QueriesInv
<1>2. QED
  BY <1>1, QueriesInvariant, PTL

\* The races of a page are those of the asked races whose ranks it names, in order,
\* and the number of pages is right.
LEMMA PageShows ==
  ASSUME NEW ss \in SUBSET Starts, \A s, t \in ss : KeyBefore(s, t) <=> s < t,
         NEW page \in 1 .. MaxInt, NEW perPage \in 1 .. MaxInt, page * perPage <= MaxInt
  PROVE  LET result == PageOf(ss, page, perPage)
             items == result.items
             before == (page - 1) * perPage
         IN  /\ \A i \in DOMAIN items :
                  /\ items[i] \in ss
                  /\ Cardinality({s \in ss : s > items[i]}) = before + i - 1
             /\ Len(items) = Cardinality({s \in ss :
                  LET newer == Cardinality({t \in ss : t > s}) IN
                  before <= newer /\ newer < before + perPage})
             /\ (page > result.pages) = (Cardinality(ss) <= before)
<1> DEFINE total == Cardinality(ss)
           before == (page - 1) * perPage
           start == AtMost(before, total)
           end == AtMost(before + perPage, total)
           items == [i \in 1 .. end - start |-> Nth(ss, start + i)]
           pages == (total \div perPage) + IF total % perPage # 0 THEN 1 ELSE 0
           shown == {s \in ss : LET newer == Cardinality({t \in ss : t > s}) IN
                                before <= newer /\ newer < before + perPage}
<1>1. total \in Nat /\ before \in Nat /\ page \in Nat \ {0} /\ perPage \in Nat \ {0}
  BY StartsFinite, PageBounds, QueriesAssumption
<1>2. /\ start \in Nat /\ end \in Nat /\ start <= end
      /\ PageOf(ss, page, perPage) = [status |-> 200, items |-> items, pages |-> pages]
  BY PageIs
<1>3. page > pages <=> total <= before
  BY <1>1, PagesAre
<1>4. \A s \in ss : s \in shown <=> /\ before <= Cardinality(Greater(ss, s))
                                    /\ Cardinality(Greater(ss, s)) < before + perPage
  BY DEF Greater
<1>5. shown \subseteq ss
  OBVIOUS
<1>6. /\ end <= total /\ end <= before + perPage
      /\ end = total \/ end = before + perPage
      /\ start < end => start = before
      /\ before < total => start = before
  <2> HIDE DEF before, total
  <2>1. QED
    BY <1>1 DEF AtMost
<1> HIDE DEF total, before, start, end, pages, shown
<1>7. ASSUME NEW i \in 1 .. end - start
      PROVE  /\ items[i] \in ss /\ items[i] \in shown
             /\ Cardinality(Greater(ss, items[i])) = before + i - 1
  <2>1. start + (i - 1) \in 0 .. total - 1 /\ start = before /\ i \in Nat
    BY <1>1, <1>2, <1>6
  <2>2. start + i = (start + (i - 1)) + 1
    BY <1>2, <2>1
  <2>3. items[i] = Nth(ss, start + i)
    OBVIOUS
  <2>4. /\ Nth(ss, (start + (i - 1)) + 1) \in ss
        /\ Cardinality(Greater(ss, Nth(ss, (start + (i - 1)) + 1))) = start + (i - 1)
    BY <2>1, NthIs DEF total
  <2>5. items[i] \in ss /\ Cardinality(Greater(ss, items[i])) = start + (i - 1)
    BY <2>2, <2>3, <2>4
  <2>6. start + (i - 1) = before + i - 1 /\ i <= end - start
    BY <1>1, <2>1
  <2>7. before <= before + i - 1 /\ before + i - 1 < before + perPage
    BY <1>1, <1>2, <1>6, <2>1, <2>6
  <2>8. QED
    BY <1>4, <2>5, <2>6, <2>7
<1>8. Len(items) = end - start
  BY <1>2
<1>9. ExistsBijection(1 .. end - start, shown)
  <2>1. items \in [1 .. end - start -> shown]
    BY <1>7
  <2>2. \A i, j \in 1 .. end - start : items[i] = items[j] => i = j
    <3>1. ASSUME NEW i \in 1 .. end - start, NEW j \in 1 .. end - start, items[i] = items[j]
          PROVE  i = j
      <4>1. before + i - 1 = before + j - 1
        BY <1>7, <3>1
      <4>2. QED
        BY <1>1, <4>1
    <3>2. QED
      BY <3>1
  <2>3. ASSUME NEW s \in shown PROVE \E i \in 1 .. end - start : items[i] = s
    <3> DEFINE k == Cardinality(Greater(ss, s))
    <3>1. s \in ss /\ k \in 0 .. total - 1 /\ before <= k /\ k < before + perPage
      BY <1>4, <1>5, RankIs DEF total
    <3> HIDE DEF k
    <3>2. k - before + 1 \in 1 .. end - start /\ before + (k - before + 1) - 1 = k
      BY <1>1, <1>2, <1>6, <3>1
    <3>3. /\ items[k - before + 1] \in ss
          /\ Cardinality(Greater(ss, items[k - before + 1])) = k
      BY <1>7, <3>2
    <3>4. items[k - before + 1] = s
      BY <3>1, <3>3, RanksDiffer DEF k
    <3>5. QED
      BY <3>2, <3>4
  <2> HIDE DEF items
  <2>4. items \in Bijection(1 .. end - start, shown)
    BY <2>1, <2>2, <2>3 DEF Bijection, Injection, Surjection, IsInjective
  <2>5. QED
    BY <2>4 DEF ExistsBijection
<1>10. Cardinality(shown) = end - start
  BY <1>2, <1>9, FS_CountingElements
<1>11. \A i \in DOMAIN items : /\ items[i] \in ss
                               /\ Cardinality({s \in ss : s > items[i]}) = before + i - 1
  BY <1>7 DEF Greater
<1> HIDE DEF items
<1>12. /\ PageOf(ss, page, perPage).items = items
       /\ PageOf(ss, page, perPage).pages = pages
  BY <1>2
<1>13. QED
  BY <1>3, <1>8, <1>10, <1>11, <1>12 DEF total, before, shown

\* Every page of the list is the part of the asked races, newest first, that it names,
\* for any rows, filters and sizes.
THEOREM PageIsRightHolds == Spec => []PageIsRight
<1>1. ASSUME QueriesInv PROVE PageIsRight
  <2> SUFFICES ASSUME Answered("races"), Ordinary, answer.page * answer.perPage <= MaxInt
               PROVE  PageIsRight
    BY DEF PageIsRight
  <2>1. PICK range \in Ranges, series \in SeriesIDs, cars \in CarIDs,
             page \in 1 .. MaxInt, perPage \in 1 .. MaxInt :
               answer = RacesAnswer(range, series, cars, page, perPage)
    <3>1. answer.op = "races"
      BY DEF Answered
    <3>2. answer # NoAnswer /\ ~AnalyticsAnswered /\ ~DimensionsAnswered
      BY <3>1, OthersFail DEF NoAnswer
    <3>3. QED
      BY <1>1, <3>2 DEF QueriesInv, RacesAnswered
  <2>2. /\ answer.range = range /\ answer.series = series /\ answer.cars = cars
        /\ answer.page = page /\ answer.perPage = perPage
        /\ answer.result = RacesOf(range, series, cars, page, perPage)
    BY <2>1 DEF RacesAnswer
  <2>3. Filtered(Query(range[1], range[2]), series, cars) = Asked
    BY <1>1, <2>2, AskedIs DEF QueriesInv, RowsTyped
  <2>4. Asked \subseteq DOMAIN rows /\ Asked \in SUBSET Starts
    BY <1>1 DEF QueriesInv, RowsTyped, Asked
  <2>5. \A s, t \in Asked : KeyBefore(s, t) <=> s < t
    BY <1>1, <2>2, <2>4, OrdinaryKeys DEF QueriesInv, RowsTyped
  <2>6. answer.result = PageOf(Asked, page, perPage)
    BY <2>2, <2>3 DEF RacesOf, Answered
  <2>7. page * perPage <= MaxInt
    BY <2>2
  <2> DEFINE result == PageOf(Asked, page, perPage)
             before == (page - 1) * perPage
  <2>8. /\ \A i \in DOMAIN result.items :
             /\ result.items[i] \in Asked
             /\ Cardinality({s \in Asked : s > result.items[i]}) = before + i - 1
        /\ Len(result.items) = Cardinality({s \in Asked :
             LET newer == Cardinality({t \in Asked : t > s}) IN
             before <= newer /\ newer < before + perPage})
        /\ (page > result.pages) = (Cardinality(Asked) <= before)
    BY <2>4, <2>5, <2>7, PageShows
  <2>9. QED
    BY <2>2, <2>6, <2>8 DEF PageIsRight
<1>2. QED
  BY <1>1, QueriesInvariant, PTL

----------------------------------------------------------------------------
(* The analytics of an ordinary request.                                   *)

\* What was computed for an answered request was computed from the asked races.
LEMMA AnalyticsOfAsked ==
  ASSUME QueriesInv, Answered("analytics"), Ordinary
  PROVE  \E granularity \in Granularities :
           /\ answer.groupBy \in GroupBys
           /\ answer.result \in AnalyticsOf(Asked, answer.groupBy, granularity)
<1>1. answer.op = "analytics" /\ answer.result.status = 200
  BY DEF Answered
<1>2. AnalyticsAnswered
  <2>1. answer # NoAnswer
    BY <1>1 DEF NoAnswer
  <2>2. ~RacesAnswered
    BY <1>1 DEF RacesAnswered, RacesAnswer
  <2>3. ~DimensionsAnswered
    BY <1>1, DimensionsParts DEF DimensionsAnswered
  <2>4. QED
    BY <2>1, <2>2, <2>3 DEF QueriesInv
<1>3. PICK range \in Ranges, series \in SeriesIDs, cars \in CarIDs,
           groupBy \in GroupBys, granularity \in Granularities :
        \E result \in AnalyticsResults(range, series, cars, groupBy, granularity) :
          answer = AnalyticsAnswer(range, series, cars, groupBy, granularity, result)
  BY <1>2 DEF AnalyticsAnswered
<1>4. PICK result \in AnalyticsResults(range, series, cars, groupBy, granularity) :
        answer = AnalyticsAnswer(range, series, cars, groupBy, granularity, result)
  BY <1>3
<1>5. /\ answer.range = range /\ answer.series = series /\ answer.cars = cars
      /\ answer.groupBy = groupBy /\ answer.result = result
  BY <1>4, AnalyticsParts
<1>6. result \in AnalyticsOf(Filtered(Query(range[1], range[2]), series, cars),
                             groupBy, granularity)
  BY <1>1, <1>4, <1>5 DEF AnalyticsResults
<1>7. Filtered(Query(range[1], range[2]), series, cars) = Asked
  BY <1>3, <1>5, AskedIs DEF QueriesInv, RowsTyped
<1>8. QED
  BY <1>3, <1>5, <1>6, <1>7

LEMMA DimensionsOfAsked ==
  ASSUME QueriesInv, Answered("dimensions"), Ordinary
  PROVE  answer.result = DimensionsOf(Asked)
<1>1. answer.op = "dimensions" /\ answer.result.status = 200
  BY DEF Answered
<1>2. DimensionsAnswered
  <2>1. answer # NoAnswer
    BY <1>1 DEF NoAnswer
  <2>2. ~RacesAnswered
    BY <1>1 DEF RacesAnswered, RacesAnswer
  <2>3. ~AnalyticsAnswered
    BY <1>1 DEF AnalyticsAnswered, AnalyticsAnswer
  <2>4. QED
    BY <2>1, <2>2, <2>3 DEF QueriesInv
<1>3. PICK range \in Ranges : answer = DimensionsAnswer(range)
  BY <1>2 DEF DimensionsAnswered
<1>4. /\ answer.range = range /\ answer.series = {} /\ answer.cars = {}
      /\ answer.result = DimensionsResult(range)
  BY <1>3, DimensionsParts
<1>5. answer.result = DimensionsOf(Query(range[1], range[2]))
  BY <1>1, <1>4 DEF DimensionsResult
<1>6. Query(range[1], range[2]) = Asked
  <2>1. Filtered(Query(range[1], range[2]), {}, {}) = Asked
    BY <1>3, <1>4, AskedIs DEF QueriesInv, RowsTyped
  <2>2. QED
    BY <2>1 DEF Filtered
<1>7. QED
  BY <1>5, <1>6

\* Whatever is asked of the analytics, in whatever order ingestion stored the races, the
\* whole, its groups, its periods and the dimensions agree with the races asked for: for
\* any rows, filters, groupings and lengths of a period.
THEOREM AnalyticsAreRightHolds == Spec => []AnalyticsAreRight
<1>1. ASSUME QueriesInv PROVE AnalyticsAreRight
  <2>1. RowsTyped /\ Asked \in SUBSET (DOMAIN rows)
    BY <1>1 DEF QueriesInv, Asked
  <2>2. ASSUME Answered("analytics"), Ordinary
        PROVE  SummaryIsRight /\ GroupsDivide /\ PeriodsAddUp
    <3>1. PICK granularity \in Granularities :
            /\ answer.groupBy \in GroupBys
            /\ answer.result \in AnalyticsOf(Asked, answer.groupBy, granularity)
      BY <1>1, <2>2, AnalyticsOfAsked
    <3> DEFINE groupBy == answer.groupBy
               groups == answer.result.groupedBy
               series == answer.result.timeSeries
               whole == answer.result.summary
    <3>2. /\ whole = computeSummary(Chronological(Asked))
          /\ groupBy # <<>> => groups \in computeGroupedStats(Asked, groupBy)
          /\ series = IF granularity = 0 THEN <<>> ELSE computeTimeSeries(Asked, granularity)
      BY <3>1, AnalyticsAre
    <3>3. Summarises(whole, Asked)
      BY <2>1, <3>2, ComputedSummarises
    <3>4. ASSUME groupBy # <<>> PROVE GroupsDivide
      <4>1. groupBy \in Seq({"series", "car"})
        BY <3>1, QueriesAssumption
      <4>2. groups \in computeGroupedStats(Asked, groupBy)
        BY <3>2, <3>4
      <4>3. /\ \A i \in DOMAIN groups :
                 /\ Len(groups[i].key) = Len(groupBy)
                 /\ Summarises(groups[i].summary, OfKey(Asked, groupBy, groups[i].key))
            /\ UNION {OfKey(Asked, groupBy, groups[i].key) : i \in DOMAIN groups} = Asked
            /\ \A i, j \in DOMAIN groups :
                 i < j => OfKey(Asked, groupBy, groups[i].key)
                            \cap OfKey(Asked, groupBy, groups[j].key) = {}
        BY <2>1, <4>1, <4>2, GroupsAre
      <4>4. QED
        BY <4>3, Zenon DEF GroupsDivide, OfKey
    <3>5. ASSUME series # <<>> PROVE PeriodsAddUp
      <4>1. granularity \in Nat \ {0} /\ series = computeTimeSeries(Asked, granularity)
        BY <3>1, <3>2, <3>5, QueriesAssumption
      <4>2. /\ \A i, j \in DOMAIN series : i < j => series[i].period < series[j].period
            /\ whole.raceCount
                 = SumFunction([i \in DOMAIN series |-> series[i].summary.raceCount])
            /\ whole.iRatingGain
                 = SumFunction([i \in DOMAIN series |-> series[i].summary.iRatingGain])
            /\ whole.incidents
                 = SumFunction([i \in DOMAIN series |-> series[i].summary.incidents])
            /\ Head(series).summary.iRatingStart = whole.iRatingStart
            /\ Last(series).summary.iRatingEnd = whole.iRatingEnd
        <5> HIDE DEF series, whole
        <5>1. computeTimeSeries(Asked, granularity) # <<>>
          BY <3>5, <4>1
        <5>2. QED
          BY <2>1, <3>2, <4>1, <5>1, SeriesIs, Zenon
      <4>3. QED
        BY <4>2, Zenon DEF PeriodsAddUp
    <3>6. QED
      BY <3>3, <3>4, <3>5 DEF SummaryIsRight, GroupsDivide, PeriodsAddUp
  <2>3. ASSUME Answered("dimensions"), Ordinary PROVE DimensionsFindRaces
    <3>1. answer.result = DimensionsOf(Asked)
      BY <1>1, <2>3, DimensionsOfAsked
    <3>2. QED
      BY <2>1, <3>1, DimensionsAre DEF DimensionsFindRaces
  <2>4. SummaryIsRight /\ GroupsDivide /\ PeriodsAddUp
    BY <2>2 DEF SummaryIsRight, GroupsDivide, PeriodsAddUp
  <2>5. DimensionsFindRaces
    BY <2>3 DEF DimensionsFindRaces
  <2>6. QED
    BY <2>4, <2>5 DEF AnalyticsAreRight
<1>2. QED
  BY <1>1, QueriesInvariant, PTL
=============================================================================
