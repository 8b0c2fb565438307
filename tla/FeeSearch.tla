----------------------------- MODULE FeeSearch -----------------------------
(***************************************************************************)
(* calculateFee and compareResultAndList of src/test_calculateFee/main.c:  *)
(* which of the single fees make up a difference?  The fees are taken from *)
(* the largest down as long as they fit, first from all but one of them,   *)
(* then with the largest ones left out.  One action is one round of a      *)
(* loop; lists are indexed from 0, as in C.                                *)
(***************************************************************************)
EXTENDS Integers, FiniteSets, Functions

CONSTANTS MaxFees,     \* bound: fees on the command line
          Fees         \* what they are

VARIABLES
    inputList, result,     \* the arguments
    length,                \* one less than there are fees
    step,                  \* the fee that is left out
    listSize, j,           \* what is left of tempList, and the place in it
    finalList, finalListIndex,
    total,
    pc                     \* "sum", "step", "compare"; how it ended: "all",
                           \* "one", "some", "no found the result"

args == <<inputList, result, length>>
final == <<finalList, finalListIndex, total>>
vars == <<args, step, listSize, j, final, pc>>

(* The sum of the elements of a list with the indices in S.                *)
SumOver(list, S) == FoldFunctionOnSet(+, 0, list, S)

sum(list) == SumOver(list, DOMAIN list)

Zeros == [k \in 0 .. length - 1 |-> 0]

(* The fees are given in ascending order: inputList[0] is "the least value *)
(* of the list" (main.c 56), the last of tempList "the largest" (95).      *)
Init ==
    /\ length \in 1 .. MaxFees - 1
    /\ inputList \in [0 .. length -> Fees]
    /\ \A k \in 1 .. length : inputList[k - 1] <= inputList[k]
    /\ result \in 1 .. sum(inputList) + 1
    /\ step = 0
    /\ listSize = length
    /\ j = length - 1
    /\ finalList = Zeros
    /\ finalListIndex = 0
    /\ total = 0
    /\ pc = "sum"

(* All the fees but the one that is left out, in their order.              *)
tempList == [k \in 0 .. length - 1 |-> inputList[IF k < step THEN k ELSE k + 1]]

-----------------------------------------------------------------------------
(* All of them together, before anything else.                             *)
CheckAll ==
    /\ pc = "sum"
    /\ pc' = IF sum(inputList) = result THEN "all" ELSE "step"
    /\ UNCHANGED <<args, step, listSize, j, final>>

(* The end of the search, or tempList for the next step.                   *)
Step ==
    /\ pc = "step"
    /\ pc' = IF result < inputList[0] \/ step > length
             THEN "no found the result" ELSE "compare"
    /\ listSize' = length
    /\ j' = length - 1
    /\ finalList' = Zeros
    /\ finalListIndex' = 0
    /\ total' = 0
    /\ UNCHANGED <<args, step>>

(* A fee that is the result, is too large, or no longer fits.              *)
One ==
    /\ pc = "compare" /\ j >= 0
    /\ tempList[j] = result
    /\ pc' = "one"
    /\ UNCHANGED <<args, step, listSize, j, final>>

Skip ==
    /\ pc = "compare" /\ j >= 0
    /\ tempList[j] # result
    /\ result < tempList[j] \/ result - total < tempList[j]
    /\ j' = j - 1
    /\ UNCHANGED <<args, step, listSize, final, pc>>

(* A fee that fits is taken, and the taken ones are added up again.        *)
Take ==
    /\ pc = "compare" /\ j >= 0
    /\ tempList[j] < result /\ tempList[j] <= result - total
    /\ finalList' = [finalList EXCEPT ![finalListIndex] = tempList[j]]
    /\ total' = sum(finalList')
    /\ IF total' = result
       THEN pc' = "some" /\ UNCHANGED <<finalListIndex, j>>
       ELSE finalListIndex' = finalListIndex + 1 /\ j' = j - 1 /\ UNCHANGED pc
    /\ UNCHANGED <<args, step, listSize>>

(* Mutant of NextRow: total is kept.                                       *)
NextRowTotal ==
    /\ pc = "compare" /\ j < 0
    /\ listSize' = listSize - 1
    /\ j' = listSize - 2
    /\ finalListIndex' = 0
    /\ finalList' = [k \in DOMAIN finalList |-> IF k < listSize THEN 0 ELSE finalList[k]]
    /\ IF listSize = 0 THEN step' = step + 1 /\ pc' = "step"
                       ELSE UNCHANGED <<step, pc>>
    /\ UNCHANGED <<args, total>>

(* tempList is through: again without its last element; when none is left, *)
(* the next step.                                                          *)
NextRow ==
    /\ pc = "compare" /\ j < 0
    /\ listSize' = listSize - 1
    /\ j' = listSize - 2
    /\ total' = 0
    /\ finalListIndex' = 0
    /\ finalList' = [k \in DOMAIN finalList |-> IF k < listSize THEN 0 ELSE finalList[k]]
    /\ IF listSize = 0 THEN step' = step + 1 /\ pc' = "step"
                       ELSE UNCHANGED <<step, pc>>
    /\ UNCHANGED args

Next == CheckAll \/ Step \/ One \/ Skip \/ Take \/ NextRow

Spec == Init /\ [][Next]_vars /\ WF_vars(Next)

-----------------------------------------------------------------------------
Ended == pc \in {"all", "one", "some", "no found the result"}

(* Type invariant: the indices stay within the lists.                      *)
TypeOK ==
    /\ step \in 0 .. length + 1
    /\ listSize \in -1 .. length
    /\ j \in -2 .. length - 1
    /\ finalListIndex \in 0 .. length
    /\ finalList \in [0 .. length - 1 -> Fees \cup {0}]
    /\ total \in 0 .. result

(* main.c 122-127: what is printed adds up to the result, and no fee is in *)
(* it more often than on the command line.                                 *)
AnswerIsMadeOfFees ==
    pc = "some" =>
        /\ SumOver(finalList, 0 .. listSize - 1) = result
        /\ \A f \in Fees : Cardinality({k \in DOMAIN finalList : finalList[k] = f})
                           <= Cardinality({k \in DOMAIN inputList : inputList[k] = f})

(* main.c 95-131: one fee, two fees, all of them or all but one are always *)
(* found.                                                                  *)
SimpleAnswersFound ==
    pc = "no found the result" =>
        \A S \in SUBSET DOMAIN inputList :
            Cardinality(S) \in {1, 2, length, length + 1} =>
                SumOver(inputList, S) # result

(* The search comes to an end.                                             *)
Ends == <>Ended
=============================================================================
