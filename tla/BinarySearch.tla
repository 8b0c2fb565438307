---------------------------- MODULE BinarySearch ----------------------------
(***************************************************************************)
(* binarySearch (src/test_search/binary_search/main.c): one action is one  *)
(* round of its loop.  Arrays are indexed from 0, as in C.                 *)
(***************************************************************************)
EXTENDS Integers

CONSTANTS MaxNum,      \* the longest array
          Values       \* what is in the arrays

(* upper + lower is an int: it does not overflow for arrays of 2^30.       *)
ASSUME ArraysAssumption ==
    /\ MaxNum \in Nat \ {0} /\ MaxNum <= 2^30
    /\ Values \subseteq Int

VARIABLES num, ar, key,    \* the arguments
          lower, upper,    \* what is left of the array
          pc,              \* "search" or "return"
          ret              \* the result

args == <<num, ar, key>>
vars == <<args, lower, upper, pc, ret>>

Sorted(a, n) == \A i, j \in 0 .. n - 1 : i <= j => a[i] <= a[j]

(* The caller passes a sorted array that is not empty.                     *)
Init ==
    /\ num \in 1 .. MaxNum
    /\ ar \in [0 .. num - 1 -> Values]
    /\ Sorted(ar, num)
    /\ key \in Values
    /\ lower = 0
    /\ upper = num - 1
    /\ pc = "search"
    /\ ret = -1

mid == (upper + lower) \div 2

(* The element in the middle is the key.                                   *)
Found ==
    /\ pc = "search"
    /\ ar[mid] = key
    /\ pc' = "return"
    /\ ret' = mid
    /\ UNCHANGED <<args, lower, upper>>

(* Mutant of Narrow: it goes on with the wrong half.                       *)
NarrowWrongHalf ==
    /\ pc = "search"
    /\ ar[mid] # key
    /\ IF ar[mid] < key THEN upper' = mid - 1 /\ UNCHANGED lower
                        ELSE lower' = mid + 1 /\ UNCHANGED upper
    /\ pc' = IF upper' <= lower' THEN "return" ELSE "search"
    /\ UNCHANGED <<args, ret>>

(* The range is cut at mid; when one element or none is left the search    *)
(* ends with -1.                                                           *)
Narrow ==
    /\ pc = "search"
    /\ ar[mid] # key
    /\ IF ar[mid] > key THEN upper' = mid - 1 /\ UNCHANGED lower
                        ELSE lower' = mid + 1 /\ UNCHANGED upper
    /\ pc' = IF upper' <= lower' THEN "return" ELSE "search"
    /\ UNCHANGED <<args, ret>>

Next == Found \/ Narrow

Spec == Init /\ [][Next]_vars

-----------------------------------------------------------------------------
(* Type invariant: every read is inside the array.                         *)
TypeOK ==
    /\ num \in 1 .. MaxNum
    /\ ar \in [0 .. num - 1 -> Values]
    /\ key \in Values
    /\ lower \in 0 .. num
    /\ upper \in -1 .. num - 1
    /\ pc \in {"search", "return"}
    /\ ret \in -1 .. num - 1
    /\ pc = "search" => mid \in 0 .. num - 1

(* main.c 11: an index that is returned is one of the key.                 *)
FoundIsRight == ret # -1 => ar[ret] = key

(* main.c 20: -1 for a key that is there is returned only when the range   *)
(* has shrunk to the one place where it is, and no other place has it.     *)
MissedOnlyLast ==
    pc = "return" /\ ret = -1 =>
        \A k \in 0 .. num - 1 : ar[k] = key => lower = k /\ upper = k

(* main.c 10-19: every round that does not end the search leaves at most   *)
(* half of the range.                                                      *)
Halves ==
    [][pc' = "search" => 2 * (upper' - lower' + 1) <= upper - lower + 1]_vars
=============================================================================
