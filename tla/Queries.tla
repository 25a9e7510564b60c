------------------------------- MODULE Queries -------------------------------
(***************************************************************************)
(* What the REST API answers about one driver's races while ingestion adds *)
(* to them: the pages of the list and the analytics, from the Query of the *)
(* table to the response.  A start is counted in units of which one or two *)
(* decimal digits are enough; averages are left as sums.                   *)
(***************************************************************************)
EXTENDS Integers, Sequences, FiniteSets, SequencesExt, FiniteSetsExt

CONSTANTS
  Starts,         \* seconds in which a race may start
  Races,          \* what else a session may say of a race, records
  QueryRows,      \* rows in one answer of Query
  MaxInt,         \* the largest int
  Ranges,         \* requests: pairs of startTime and endTime
  SeriesIDs, CarIDs,      \* requests: sets for seriesId and carId
  GroupBys,       \* requests: sequences for groupBy
  Granularities   \* requests: lengths of a period, 0 for none

ASSUME QueriesAssumption ==
  /\ Starts \subseteq 0 .. 99
  /\ QueryRows \in Nat \ {0} /\ MaxInt \in Nat \ {0}
  /\ Ranges \subseteq (0 .. 99) \X (0 .. 99)
  /\ Granularities \subseteq Nat
  /\ GroupBys \subseteq Seq({"series", "car"})

ASSUME RacesAssumption ==
  Races \subseteq [series : Int, car : Int, old : Int, new : Int, grid : Int,
                  finish : Nat, incidents : Int]    \* positions count from zero

VARIABLES
  rows,           \* the session# rows: start to race
  answer          \* the last answer of the API

vars == <<rows, answer>>

NoAnswer == [op |-> "none"]
Init == rows = <<>> /\ answer = NoAnswer

\* One race at a time; the answer given before is forgotten.
SaveDriverSession(start, race) ==
  /\ start \notin DOMAIN rows
  /\ rows' = [s \in DOMAIN rows \cup {start} |-> IF s = start THEN race ELSE rows[s]]
  /\ answer' = NoAnswer

----------------------------------------------------------------------------
(* store/dynamo_store.go: GetDriverSessionsByTimeRange                     *)

\* The sort key session#%d is compared as a string.
Digits(n) == IF n < 10 THEN <<n>> ELSE <<n \div 10, n % 10>>

KeyBefore(m, n) ==
  LET a == Digits(m)  b == Digits(n) IN
  \/ a[1] < b[1]
  \/ a[1] = b[1] /\ Len(a) < Len(b)
  \/ a[1] = b[1] /\ Len(a) = 2 /\ Len(b) = 2 /\ a[2] < b[2]

KeyUpTo(m, n) == m = n \/ KeyBefore(m, n)

\* BETWEEN refuses bounds in the wrong order.
ValidBetween(from, to) == KeyUpTo(from, to)

\* What a row says of the race that started then.
Session(start) == rows[start]

\* The rows come newest first: how many of the rows of ss come before that of s.
Newer(ss, s) == Cardinality({t \in ss : KeyBefore(s, t)})

\* No more rows than one answer of Query holds.
Query(from, to) ==
  LET found == {s \in DOMAIN rows : KeyUpTo(from, s) /\ KeyUpTo(s, to)} IN
  {s \in found : Newer(found, s) < QueryRows}

\* One filter after the other, each only if its parameter was given.
Filtered(ss, series, cars) ==
  LET bySeries == IF series = {} THEN ss ELSE {s \in ss : Session(s).series \in series} IN
  IF cars = {} THEN bySeries ELSE {s \in bySeries : Session(s).car \in cars}

----------------------------------------------------------------------------
(* api/driver/get_races_endpoint.go: the page                              *)

\* An int takes the values from -MaxInt - 1 to MaxInt.
Wrapped(n) == ((n + MaxInt + 1) % (2 * (MaxInt + 1))) - MaxInt - 1
AtMost(n, limit) == IF n > limit THEN limit ELSE n

\* Mutant: pages count from zero.
PageStartMutant(page, perPage) == Wrapped(page * perPage)

PageStart(page, perPage) == Wrapped((page - 1) * perPage)

Nth(ss, n) == CHOOSE s \in ss : Newer(ss, s) = n - 1

\* The page sessions[start:end]; bounds that Go refuses panic, which is answered 500.
PageOf(ss, page, perPage) ==
  LET total == Cardinality(ss)
      start == AtMost(PageStart(page, perPage), total)
      end == AtMost(Wrapped(PageStart(page, perPage) + perPage), total) IN
  IF 0 <= start /\ start <= end
  THEN [status |-> 200, items |-> [i \in 1 .. end - start |-> Nth(ss, start + i)],
        pages |-> (total \div perPage) + IF total % perPage # 0 THEN 1 ELSE 0]
  ELSE [status |-> 500]

\* GET /driver/{id}/races
RacesOf(range, series, cars, page, perPage) ==
  IF range[2] < range[1] THEN [status |-> 400]
  ELSE IF ~ValidBetween(range[1], range[2]) THEN [status |-> 500]
  ELSE PageOf(Filtered(Query(range[1], range[2]), series, cars), page, perPage)

GetRaces(range, series, cars, page, perPage) ==
  /\ answer' = [op |-> "races", range |-> range, series |-> series, cars |-> cars,
                page |-> page, perPage |-> perPage,
                result |-> RacesOf(range, series, cars, page, perPage)]
  /\ UNCHANGED rows

----------------------------------------------------------------------------
(* analytics/service.go                                                    *)

\* In rising order: before the i-th come the i - 1 that are less.
Sorted(ids) ==
  [i \in 1 .. Cardinality(ids) |->
     CHOOSE id \in ids : Cardinality({other \in ids : other < id}) = i - 1]

InOrder(order) == [i \in DOMAIN order |-> Session(order[i])]

\* Mutant: the order of the query.
ChronologicalMutant(ss) == InOrder(Reverse(Sorted(ss)))

Chronological(ss) == InOrder(Sorted(ss))

NoSummary == [raceCount |-> 0, iRatingStart |-> 0, iRatingEnd |-> 0, iRatingDelta |-> 0,
              iRatingGain |-> 0, iRatingLoss |-> 0, podiums |-> 0, top5 |-> 0, wins |-> 0,
              finishes |-> 0, gained |-> 0, incidents |-> 0]

Bit(condition) == IF condition THEN 1 ELSE 0

\* One race more in the sums; positions count from zero.  CPI goes the way of iRating.
Counted(sums, s) ==
  LET delta == s.new - s.old IN
  [sums EXCEPT !.iRatingGain = @ + IF delta > 0 THEN delta ELSE 0,
               !.iRatingLoss = @ + IF delta > 0 THEN 0 ELSE -delta,
               !.podiums = @ + Bit(s.finish <= 2),
               !.top5 = @ + Bit(s.finish <= 4),
               !.wins = @ + Bit(s.finish = 0),
               !.finishes = @ + s.finish,
               !.gained = @ + s.grid - s.finish,
               !.incidents = @ + s.incidents]

computeSummary(sessions) ==
  IF sessions = <<>> THEN NoSummary
  ELSE LET start == Head(sessions).old  end == Last(sessions).new IN
       FoldLeft(Counted,
                [NoSummary EXCEPT !.raceCount = Len(sessions), !.iRatingStart = start,
                                  !.iRatingEnd = end, !.iRatingDelta = end - start],
                sessions)

GroupKey(s, groupBy) == [i \in DOMAIN groupBy |-> Session(s)[groupBy[i]]]

\* By falling number of races; groups of one size come in the order of a map, any.
computeGroupedStats(ss, groupBy) ==
  LET keys == {GroupKey(s, groupBy) : s \in ss}
      Group(key) == {s \in ss : GroupKey(s, groupBy) = key}
      groups == {[key |-> key, summary |-> computeSummary(Chronological(Group(key)))] : key \in keys}
  IN {order \in SetToSeqs(groups) :
        \A i, j \in DOMAIN order : i < j => order[i].summary.raceCount >= order[j].summary.raceCount}

\* The ISO formats are of fixed width, so their string order is that of time.
formatPeriod(start, granularity) == start \div granularity

InPeriod(ss, period, granularity) ==
  {s \in ss : formatPeriod(s, granularity) = period}

computeTimeSeries(ss, granularity) ==
  LET order == Sorted({formatPeriod(s, granularity) : s \in ss}) IN
  [i \in DOMAIN order |->
     [period |-> order[i],
      summary |-> computeSummary(Chronological(InPeriod(ss, order[i], granularity)))]]

\* groupBy and granularity exclude each other.
Refused(range, groupBy, granularity) ==
  range[2] < range[1] \/ (groupBy # <<>> /\ granularity # 0)

AnalyticsOf(ss, groupBy, granularity) ==
  {[status |-> 200, summary |-> computeSummary(Chronological(ss)), groupedBy |-> groups,
    timeSeries |-> IF granularity = 0 THEN <<>> ELSE computeTimeSeries(ss, granularity)] :
     groups \in IF groupBy = <<>> THEN {<<>>} ELSE computeGroupedStats(ss, groupBy)}

\* GET /driver/{id}/analytics
GetAnalytics(range, series, cars, groupBy, granularity) ==
  /\ \E result \in
          IF Refused(range, groupBy, granularity) THEN {[status |-> 400]}
          ELSE IF ~ValidBetween(range[1], range[2]) THEN {[status |-> 500]}
          ELSE AnalyticsOf(Filtered(Query(range[1], range[2]), series, cars),
                           groupBy, granularity) :
       answer' = [op |-> "analytics", range |-> range, series |-> series, cars |-> cars,
                  groupBy |-> groupBy, granularity |-> granularity, result |-> result]
  /\ UNCHANGED rows

DimensionsOf(ss) ==
  [status |-> 200, seriesIDs |-> Sorted({Session(s).series : s \in ss}),
   carIDs |-> Sorted({Session(s).car : s \in ss})]

\* GET /driver/{id}/analytics/dimensions
GetDimensions(range) ==
  /\ answer' = [op |-> "dimensions", range |-> range, series |-> {}, cars |-> {},
                result |-> IF range[2] < range[1] THEN [status |-> 400]
                           ELSE IF ~ValidBetween(range[1], range[2]) THEN [status |-> 500]
                           ELSE DimensionsOf(Query(range[1], range[2]))]
  /\ UNCHANGED rows

Next ==
  \/ \E start \in Starts, race \in Races : SaveDriverSession(start, race)
  \/ \E range \in Ranges :
       /\ answer = NoAnswer    \* bound: one answer to one set of rows
       /\ \/ GetDimensions(range)
          \/ \E series \in SeriesIDs, cars \in CarIDs :
               \/ \E page, perPage \in 1 .. MaxInt : GetRaces(range, series, cars, page, perPage)
               \/ \E groupBy \in GroupBys, granularity \in Granularities :
                    GetAnalytics(range, series, cars, groupBy, granularity)

Spec == Init /\ [][Next]_vars

----------------------------------------------------------------------------
(* What was asked for, said without the code's order of things             *)

Answered(op) == answer.op = op /\ answer.result.status = 200

\* Bounds with the digits of the starts, and rows that one query finds.
Ordinary ==
  /\ \A s \in DOMAIN rows : \A i \in {1, 2} : Len(Digits(answer.range[i])) = Len(Digits(s))
  /\ Cardinality(DOMAIN rows) <= QueryRows

Asked ==
  {s \in DOMAIN rows :
     /\ answer.range[1] <= s /\ s <= answer.range[2]
     /\ answer.series # {} => rows[s].series \in answer.series
     /\ answer.cars # {} => rows[s].car \in answer.cars}

\* A summary of the races that start in the seconds ss.
Summarises(summary, ss) ==
  /\ summary.raceCount = Cardinality(ss)
  /\ ss # {} => /\ summary.iRatingStart = rows[Min(ss)].old
                /\ summary.iRatingEnd = rows[Max(ss)].new
  /\ summary.iRatingGain - summary.iRatingLoss = SumFunction([s \in ss |-> rows[s].new - rows[s].old])
  /\ summary.iRatingGain >= 0 /\ summary.iRatingLoss >= 0
  /\ summary.finishes + summary.gained = SumFunction([s \in ss |-> rows[s].grid])
  /\ summary.incidents = SumFunction([s \in ss |-> rows[s].incidents])
  /\ summary.wins = Quantify(ss, LAMBDA s : rows[s].finish = 0)
  /\ summary.podiums = Quantify(ss, LAMBDA s : rows[s].finish \in 0 .. 2)
  /\ summary.top5 = Quantify(ss, LAMBDA s : rows[s].finish \in 0 .. 4)

\* api/driver/get_races_endpoint.go: the page is the asked part of the asked races,
\* newest first, for every page and size whose product an int can hold.
PageIsRight ==
  Answered("races") /\ Ordinary /\ answer.page * answer.perPage <= MaxInt =>
    LET items == answer.result.items
        before == (answer.page - 1) * answer.perPage IN
    /\ \A i \in DOMAIN items :
         /\ items[i] \in Asked
         /\ Cardinality({s \in Asked : s > items[i]}) = before + i - 1
    /\ Len(items) = Cardinality({s \in Asked :
         LET newer == Cardinality({t \in Asked : t > s}) IN
         before <= newer /\ newer < before + answer.perPage})
    /\ (answer.page > answer.result.pages) = (Cardinality(Asked) <= before)

\* The same, said of failures: an ordinary request is never answered 500.
OrdinaryRequestsServed ==
  answer.op # "none" /\ Ordinary /\ DOMAIN rows # {}
  /\ (answer.op = "races" => answer.page * answer.perPage <= MaxInt)
  => answer.result.status # 500

\* analytics/service.go: the summary is that of the asked races, in order of time.
SummaryIsRight ==
  Answered("analytics") /\ Ordinary => Summarises(answer.result.summary, Asked)

\* analytics/service.go: the groups divide the asked races: each summarises the
\* races of its key, and together they count every race once.
GroupsDivide ==
  Answered("analytics") /\ Ordinary /\ answer.groupBy # <<>> =>
    LET groups == answer.result.groupedBy
        OfKey(key) == {s \in Asked : \A i \in DOMAIN key : rows[s][answer.groupBy[i]] = key[i]}
    IN /\ \A i \in DOMAIN groups : /\ Len(groups[i].key) = Len(answer.groupBy)
                                   /\ Summarises(groups[i].summary, OfKey(groups[i].key))
       /\ UNION {OfKey(groups[i].key) : i \in DOMAIN groups} = Asked
       /\ \A i, j \in DOMAIN groups : i < j => OfKey(groups[i].key) \cap OfKey(groups[j].key) = {}

\* analytics/service.go: the periods follow each other in time without overlap, and
\* what they count adds up to the summary of the whole.
PeriodsAddUp ==
  Answered("analytics") /\ Ordinary /\ answer.result.timeSeries # <<>> =>
    LET series == answer.result.timeSeries  whole == answer.result.summary IN
    /\ \A i, j \in DOMAIN series : i < j => series[i].period < series[j].period
    /\ whole.raceCount = SumFunction([i \in DOMAIN series |-> series[i].summary.raceCount])
    /\ whole.iRatingGain = SumFunction([i \in DOMAIN series |-> series[i].summary.iRatingGain])
    /\ whole.incidents = SumFunction([i \in DOMAIN series |-> series[i].summary.incidents])
    /\ Head(series).summary.iRatingStart = whole.iRatingStart
    /\ Last(series).summary.iRatingEnd = whole.iRatingEnd

\* analytics/service.go: a filter by a dimension the API has named finds a race.
DimensionsFindRaces ==
  Answered("dimensions") /\ Ordinary =>
    /\ {rows[s].series : s \in Asked} = Range(answer.result.seriesIDs)
    /\ {rows[s].car : s \in Asked} = Range(answer.result.carIDs)

\* analytics/service.go: whatever is asked of the analytics, in whatever order ingestion
\* stored the races: the whole, its groups, its periods and the dimensions agree with
\* the races asked for, and so with each other.
AnalyticsAreRight ==
  SummaryIsRight /\ GroupsDivide /\ PeriodsAddUp /\ DimensionsFindRaces
============================================================================
