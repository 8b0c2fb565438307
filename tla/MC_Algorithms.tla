---------------------------- MODULE MC_Algorithms ----------------------------
(***************************************************************************)
(* The programs that compute one result from their input, for TLC:         *)
(* binarySearch, the four sorts, both is_match with the memoized matcher,  *)
(* and the fee search.  They share nothing; the first state says which one *)
(* runs, and the others stay at one of their inputs.  The definitions of   *)
(* BinarySearch have their own names here.                                 *)
(***************************************************************************)
EXTENDS BinarySearch

SmallInts == -1 .. 4

CONSTANTS
    SortNum, SortValues,              \* of Sorting
    LineChars, MaxLine, MaxPattern,   \* of WildcardMatch
    MaxFees, FeeValues                \* of FeeSearch

(* Among the inputs is the one at which a program that does not run stays. *)
ASSUME InputsAssumption ==
    /\ SortNum \in Nat /\ SortValues \subseteq Int
    /\ MaxLine \in Nat /\ MaxPattern \in Nat /\ "NUL" \notin LineChars
    /\ MaxFees \in Nat /\ MaxFees > 1
    /\ FeeValues \subseteq Nat \ {0}
    /\ 0 \in Values /\ 1 \in FeeValues

VARIABLES
    program,
    sort, sorted_num, sorted_ar, i, calls, left, right, given,
    line, pattern, l, p, wildcard, last_line_start, last_pattern_start,
    match_pc, match_ret,
    inputList, result, length, step, listSize, j, finalList, finalListIndex,
    total, fee_pc

sortVars == <<sort, sorted_num, sorted_ar, i, calls, left, right, given>>
matchVars == <<line, pattern, l, p, wildcard, last_line_start, last_pattern_start,
               match_pc, match_ret>>
feeVars == <<inputList, result, length, step, listSize, j, finalList,
             finalListIndex, total, fee_pc>>
allVars == <<program, vars, sortVars, matchVars, feeVars>>

Sort == INSTANCE Sorting WITH
    MaxNum <- SortNum, Values <- SortValues, num <- sorted_num, ar <- sorted_ar

Match == INSTANCE WildcardMatch WITH
    Version <- "match", pc <- match_pc, ret <- match_ret

Match2 == INSTANCE WildcardMatch WITH
    Version <- "match2", pc <- match_pc, ret <- match_ret

Fees == INSTANCE FeeSearch WITH
    Fees <- FeeValues, pc <- fee_pc

(* The input of a program that does not run.                               *)
SearchIdle == num = 1 /\ key = 0 /\ ar = [x \in {0} |-> 0]
SortIdle == sorted_num = 0 /\ sort = "bubble"
MatchIdle == line = <<>> /\ pattern = <<>>
FeesIdle == length = 1 /\ inputList = [x \in {0, 1} |-> 1] /\ result = 1

AlgorithmsInit ==
    /\ program \in {"search", "sort", "match", "match2", "fees"}
    /\ (program # "search" => SearchIdle)
    /\ (program # "sort" => SortIdle)
    /\ (program \notin {"match", "match2"} => MatchIdle)
    /\ (program # "fees" => FeesIdle)
    /\ Init
    /\ Sort!Init
    /\ IF program = "match" THEN Match!Init ELSE Match2!Init
    /\ Fees!Init

AlgorithmsNext ==
    /\ UNCHANGED program
    /\ \/ program = "search" /\ Next /\ UNCHANGED <<sortVars, matchVars, feeVars>>
       \/ program = "sort" /\ Sort!Next /\ UNCHANGED <<vars, matchVars, feeVars>>
       \/ program = "match" /\ Match!Next /\ UNCHANGED <<vars, sortVars, feeVars>>
       \/ program = "match2" /\ Match2!Next /\ UNCHANGED <<vars, sortVars, feeVars>>
       \/ program = "fees" /\ Fees!Next /\ UNCHANGED <<vars, sortVars, matchVars>>

AlgorithmsSpec ==
    AlgorithmsInit /\ [][AlgorithmsNext]_allVars /\ WF_allVars(AlgorithmsNext)

-----------------------------------------------------------------------------
(* The four sorts (test_sort) return what they were given, in order; every *)
(* round settles a place, and the calls quickSort still has to make        *)
(* suffice.                                                                *)
SortsRight ==
    /\ Sort!TypeOK
    /\ Sort!SortsWhatWasGiven /\ Sort!RoundsSettle /\ Sort!CallsLeftSuffice

(* test_wildcard: match/main.c misses no match and reads NULL only after a *)
(* star in the line, match2/main.c is right but for several stars left     *)
(* over (line 74), and the memoized matcher is right.                      *)
MatchesRight ==
    /\ program = "match" =>
         /\ Match!TypeOK /\ Match!CrashOnlyByStarInLine
         /\ Match!NoMatchMissed /\ Match!MemoizationRight
    /\ program = "match2" =>
         Match2!TypeOK /\ Match2!CrashOnlyByStarInLine /\ Match2!Right

(* test_calculateFee/main.c 95-131: what is printed adds up, and the simple *)
(* answers are always found.                                               *)
FeesRight == Fees!TypeOK /\ Fees!AnswerIsMadeOfFees /\ Fees!SimpleAnswersFound

(* The sorts, both is_match, which go back to the last star (match/main.c  *)
(* 70), and the fee search come to their end.                              *)
AllEnd ==
    /\ program = "sort" => Sort!Ends
    /\ program \in {"match", "match2"} => Match!Terminates
    /\ program = "fees" => Fees!Ends
=============================================================================
