CONSTANTS
    MaxNum = 7
    Values <- SmallInts
    SortNum = 5
    SortValues = {1, 2, 3}
    LineChars = {"a", "b", "*"}
    MaxLine = 4
    MaxPattern = 4
    MaxFees = 5
    FeeValues = {1, 2, 3, 5, 7}
SPECIFICATION AlgorithmsSpec
INVARIANTS MissedOnlyLast SortsRight MatchesRight FeesRight
PROPERTIES AllEnd
CHECK_DEADLOCK FALSE
