SPECIFICATION Spec
CONSTANTS
  a1 = a1
  a2 = a2
  Races = {1, 2, 3}
  Calls = {a1, a2}
  PerPage = 1
  QueryRows = 3
  BatchGetKeys = 3
  BatchWrites = 2
  Faults = {"fail", "resend", "torn", "stale"}
  MaxFaults = 1
  MaxRequests = 3
SYMMETRY Symmetry
INVARIANT AnsweredWriteStays
INVARIANT SaveAnswersSaved
INVARIANT EntriesHaveRaces
INVARIANT PagesSkipNothing
CHECK_DEADLOCK FALSE
