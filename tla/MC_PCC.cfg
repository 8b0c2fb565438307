\* Two programs, started by requests; the kill loops against sig_chld.
SPECIFICATION NamedSpec
SYMMETRY Symmetry
CONSTANTS
  Names = {a, b}
  NoName = NoName
  MaxProcessPool = 2
  Info <- MCNoInfo
  VangrpAttached = FALSE
  MaxForks = 3
  MaxStarts = 1
INVARIANTS KillCoversTargets
PROPERTIES KilledRestartedOnlyByRace OneForOne
CHECK_DEADLOCK FALSE
