SPECIFICATION FairSpec
CONSTANTS
  w1 = w1
  w2 = w2
  r1 = r1
  r2 = r2
  r3 = r3
  r4 = r4
  NoWorker = NoWorker
  NoRace = NoRace
  StartTime <- MCStartOf
  Workers = {w1, w2}
  Races = {r1, r2, r3, r4}
  TeamEvents = {r3}
  NoResult = {r4}
  Recent = {r1, r3}
  StoredBefore = {}
  Expires = TRUE
  MaxFailures = 2
INVARIANT NothingAfterClose
INVARIANT AdvancedOnlyIfStored
INVARIANT AnnouncedIfAdvanced
INVARIANT NoErrorLost
PROPERTY ImplementsAtomicRound
PROPERTY RoundEnds
