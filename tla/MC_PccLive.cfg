CONSTANTS
    Pccs = {p1, p2}
    MaxStarts = 4
    Names = {"a"}
    NoName = ""
SPECIFICATION LiveSpec
INVARIANTS OneActive StartsSafely
PROPERTIES ZombiesReaped RequestAnswered
CHECK_DEADLOCK FALSE
