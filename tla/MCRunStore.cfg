SPECIFICATION FairSpec
CONSTANTS
  LastTick = 2
  BatchSize = 2
  FlushEvery = 2
  CallTicks <- NoneOrFirst
  Drifts = {FALSE, TRUE}
  Arenas = {FALSE, TRUE}
  MaxKills = 3
INVARIANTS
  TypeOK
  StoredIsPrefix
  ProjectionsAreOfWholeRun
PROPERTIES
  KeepsJournal
  GenesisThenFinished
