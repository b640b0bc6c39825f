SPECIFICATION FairSpec

CONSTANTS
  Processes = {p1, p2}
  Sources = {bluesky, youtube}
  Configs <- ThreeConfigs
  MaxFound = 1
  MaxRuns = 2

INVARIANTS
  TypeOK
  StatusIsHonest
  StoppedRunsAreQuiet
  NotificationIsHonest
  RecordsKept

PROPERTIES
  RunsEnd

CHECK_DEADLOCK FALSE
