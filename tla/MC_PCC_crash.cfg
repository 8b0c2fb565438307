\* PCC may die and be started again, twice, on the surviving segment.
SPECIFICATION Spec
CONSTANTS
  Names = {"a", "b"}
  NoName = ""
  MaxProcessPool = 2
  Info <- MCInfo
  VangrpAttached = TRUE
  MaxForks = 2
  MaxStarts = 3
INVARIANTS NoLostSigchld StaleSlotsAreOrphans BroadcastOnlyByRace
CHECK_DEADLOCK FALSE
