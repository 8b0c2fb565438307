------------------------------ MODULE Sorting ------------------------------
(***************************************************************************)
(* The four sorts of src/test_sort.  One action is one round of the outer  *)
(* loop of bubbleSort, insertionSort and selectionSort; quickSort is a     *)
(* stack of segments, and its actions are the rounds of its for loop and   *)
(* what follows the loop.  Arrays are indexed from 0, as in C.             *)
(***************************************************************************)
EXTENDS Integers, Sequences, FiniteSets

CONSTANTS MaxNum,      \* the longest array
          Values       \* what is in the arrays

VARIABLES sort,             \* which of the four
          num, ar,          \* the arguments
          i,                \* the outer loop; for quickSort 0 before a call
                            \* and 1 in its loop
          calls,            \* quickSort: the calls still to make, [from, num]
          left, right,      \* quickSort: counted from the start of the segment
          given             \* history: ar as it was passed

args == <<sort, num, given>>
vars == <<args, ar, i, calls, left, right>>

Bubble == "bubble"
Insertion == "insertion"
Selection == "selection"
Quick == "quick"

Init ==
    /\ sort \in {Bubble, Insertion, Selection, Quick}
    /\ num \in 0 .. MaxNum
    /\ ar \in [0 .. num - 1 -> Values]
    /\ given = ar
    /\ i = 0
    /\ calls = IF sort = Quick THEN <<[from |-> 0, num |-> num]>> ELSE <<>>
    /\ left = 0
    /\ right = 0

swap(a, x, y) == [a EXCEPT ![x] = a[y], ![y] = a[x]]

Least(S) == CHOOSE x \in S : \A y \in S : x <= y
Greatest(S) == CHOOSE x \in S : \A y \in S : y <= x

-----------------------------------------------------------------------------
(* The inner loop of bubbleSort from j = 1 on, carried along in a function *)
(* of j: the array when the round for j is over.                           *)
Bubbled(a, n) ==
    LET after[j \in 0 .. n] ==
            IF j = 0 THEN a
            ELSE IF j < n /\ after[j - 1][j - 1] > after[j - 1][j]
                 THEN swap(after[j - 1], j - 1, j)
                 ELSE after[j - 1]
    IN  after[n]

(* bubbleSort: the largest element of what is left goes to its end.        *)
bubbleSort ==
    /\ sort = Bubble
    /\ i < num - 1
    /\ ar' = Bubbled(ar, num - i)
    /\ i' = i + 1
    /\ UNCHANGED <<args, calls, left, right>>

(* insertionSort: the larger elements before ar[i] move up by one, and it  *)
(* is put below them.                                                      *)
insertionSort ==
    /\ sort = Insertion
    /\ i < num
    /\ LET j == Least({k \in 0 .. i : \A m \in k .. i - 1 : ar[m] > ar[i]})
       IN  ar' = [k \in 0 .. num - 1 |-> IF k = j THEN ar[i]
                                         ELSE IF k \in j + 1 .. i THEN ar[k - 1]
                                         ELSE ar[k]]
    /\ i' = i + 1
    /\ UNCHANGED <<args, calls, left, right>>

(* selectionSort: the first of the least elements from i on is swapped     *)
(* with ar[i].                                                             *)
selectionSort ==
    /\ sort = Selection
    /\ i < num - 1
    /\ LET minIdx == Least({k \in i .. num - 1 :
                               \A m \in i .. num - 1 : ar[k] <= ar[m]})
       IN  ar' = swap(ar, minIdx, i)
    /\ i' = i + 1
    /\ UNCHANGED <<args, calls, left, right>>

-----------------------------------------------------------------------------
from == calls[1].from
n == calls[1].num
key == ar[from + n - 1]

(* A call with one element or none returns; another one sets out from      *)
(* both ends of the segment, without its last element.                     *)
Call ==
    /\ calls # <<>>
    /\ i = 0
    /\ IF n <= 1
       THEN calls' = Tail(calls) /\ UNCHANGED <<i, left, right>>
       ELSE i' = 1 /\ left' = 0 /\ right' = n - 2 /\ UNCHANGED calls
    /\ UNCHANGED <<args, ar>>

(* Where the two while loops stop.  The key itself ends the first.  The    *)
(* second has no bound: in the segment at the front of the array it may    *)
(* read below it, and stops wherever the memory there tells it to.         *)
StopsLeft == Least({k \in left .. n - 1 : ar[from + k] >= key})
StopsRight ==
    LET inside == {k \in -from .. right : ar[from + k] <= key}
    IN  IF inside # {} THEN {Greatest(inside)} ELSE {-from - 1, -from - 2}

(* A round that finds a pair in the wrong order, swaps it and steps past.  *)
Round ==
    /\ calls # <<>>
    /\ i = 1
    /\ \E r \in StopsRight :
          /\ StopsLeft < r
          /\ ar' = swap(ar, from + StopsLeft, from + r)
          /\ left' = StopsLeft + 1
          /\ right' = r - 1
    /\ UNCHANGED <<args, i, calls>>

(* Mutant of Split: the key goes to where right stopped.                   *)
SplitAtRight ==
    /\ calls # <<>>
    /\ i = 1
    /\ \E r \in StopsRight :
          /\ StopsLeft >= r
          /\ LET k == IF r < 0 THEN 0 ELSE r
             IN  /\ ar' = swap(ar, from + k, from + n - 1)
                 /\ calls' = <<[from |-> from, num |-> k],
                               [from |-> from + k + 1, num |-> n - k - 1]>>
                             \o Tail(calls)
    /\ i' = 0
    /\ UNCHANGED <<args, left, right>>

(* The two have met: the key goes between, then come the segments on       *)
(* either side of it, the left one first.                                  *)
Split ==
    /\ calls # <<>>
    /\ i = 1
    /\ \E r \in StopsRight : StopsLeft >= r
    /\ LET k == StopsLeft
       IN  /\ ar' = swap(ar, from + k, from + n - 1)
           /\ calls' = <<[from |-> from, num |-> k],
                         [from |-> from + k + 1, num |-> n - k - 1]>> \o Tail(calls)
    /\ i' = 0
    /\ UNCHANGED <<args, left, right>>

Next ==
    \/ bubbleSort
    \/ insertionSort
    \/ selectionSort
    \/ Call
    \/ Round
    \/ Split

Spec == Init /\ [][Next]_vars /\ WF_vars(Next)

-----------------------------------------------------------------------------
Indices == 0 .. num - 1

(* Type invariant: the segments, left and right are in the array           *)
(* when a round of the loops begins.                                       *)
TypeOK ==
    /\ ar \in [Indices -> Values]
    /\ i \in 0 .. num
    /\ \A c \in 1 .. Len(calls) :
          /\ calls[c].from \in 0 .. num
          /\ calls[c].num \in 0 .. num - calls[c].from
    /\ calls # <<>> /\ i = 1 =>
          /\ left \in 0 .. n - 1
          /\ right \in 0 .. n - 2

SortedUpTo(a, k) == \A x, y \in 0 .. k - 1 : x <= y => a[x] <= a[y]
Done ==
    CASE sort \in {Bubble, Selection} -> i >= num - 1
      [] sort = Insertion -> i = num
      [] sort = Quick -> calls = <<>>

(* main prints the array after the call as the sorted one (line 28 of      *)
(* bubble_sort/main.c and its likes): it is in order, and the elements are *)
(* the ones that were passed.                                              *)
SortsWhatWasGiven ==
    Done =>
        /\ SortedUpTo(ar, num)
        /\ \A v \in Values : Cardinality({k \in Indices : ar[k] = v})
                             = Cardinality({k \in Indices : given[k] = v})

(* What every round of the three simple sorts leaves behind: bubbleSort    *)
(* the largest elements at the end, insertionSort a sorted beginning and   *)
(* an untouched rest, selectionSort the least elements at the beginning.   *)
RoundsSettle ==
    /\ sort = Bubble =>
          \A x, y \in Indices : (x <= y /\ y >= num - i) => ar[x] <= ar[y]
    /\ sort = Insertion =>
          /\ SortedUpTo(ar, i)
          /\ \A k \in i .. num - 1 : ar[k] = given[k]
    /\ sort = Selection =>
          \A x, y \in Indices : (x <= y /\ x < i) => ar[x] <= ar[y]

(* quick_sort/main.c 27-35: the order between two elements is wrong only   *)
(* if one call still to come has both of them, and no two calls share an   *)
(* element; what the loop has passed is on its side of the key.            *)
CallsLeftSuffice ==
    sort = Quick =>
        LET within(c) == calls[c].from .. calls[c].from + calls[c].num - 1
            apart == \A c, e \in 1 .. Len(calls) :
                        c # e => within(c) \cap within(e) = {}
        IN  /\ apart
            /\ \A x, y \in Indices :
                  (x < y /\ ar[x] > ar[y]) =>
                      \E c \in 1 .. Len(calls) : {x, y} \subseteq within(c)
            /\ calls # <<>> /\ i = 1 =>
                  /\ \A k \in 0 .. left - 1 : ar[from + k] <= key
                  /\ \A k \in right + 1 .. n - 1 : ar[from + k] >= key

(* Every sort comes to its end, whatever is in the memory below the array. *)
Ends == <>Done
=============================================================================
