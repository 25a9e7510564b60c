SPECIFICATION Spec
CONSTANTS
  Starts = {11, 12, 13, 15}
  Races <- MCRaces
  QueryRows = 3
  MaxInt = 7
  Ranges <- MCRanges
  SeriesIDs = {{}, {1}, {1, 2}}
  CarIDs = {{}, {1}}
  GroupBys <- MCGroupBys
  Granularities = {0, 4}
INVARIANT PageIsRight
INVARIANT OrdinaryRequestsServed
INVARIANT AnalyticsAreRight
CHECK_DEADLOCK FALSE
