-------------------------- MODULE Algorithms_proofs --------------------------
(***************************************************************************)
(* What binarySearch does for sorted arrays of every length: it reads      *)
(* inside the array, what it finds is right, and what it misses is the one *)
(* element it stops at.  The four sorts return every array sorted, with    *)
(* the elements that it had.  The fee search prints only fees that add up, *)
(* and misses no simple answer.  Both is_match and the memoized matcher    *)
(* give the right answer, where they do, for strings of every length.      *)
(* Every step of any of them brings it nearer to its end.                  *)
(***************************************************************************)
EXTENDS MC_Algorithms, TLAPS, FiniteSetTheorems, SequenceTheorems,
        WellFoundedInduction

(* The arguments do not change and the range stays in the array.           *)
Arguments ==
    /\ num \in 1 .. MaxNum
    /\ ar \in [0 .. num - 1 -> Values]
    /\ Sorted(ar, num)
    /\ key \in Values

InRange ==
    /\ lower \in 0 .. num
    /\ upper \in -1 .. num - 1
    /\ pc \in {"search", "return"}
    /\ pc = "search" => lower <= upper
    /\ pc = "return" /\ ret = -1 => upper <= lower

(* Every occurrence of the key is still in the range.                      *)
KeyInRange == \A k \in 0 .. num - 1 : ar[k] = key => lower <= k /\ k <= upper

Result ==
    /\ ret \in -1 .. num - 1
    /\ ret # -1 => ar[ret] = key

IInv == Arguments /\ InRange /\ KeyInRange /\ Result

-----------------------------------------------------------------------------
(* The middle of a range is in it, and each side has at most half of it.   *)
LEMMA Middle ==
    ASSUME NEW lo \in Int, NEW up \in Int, lo <= up
    PROVE  /\ (up + lo) \div 2 \in Int
           /\ lo <= (up + lo) \div 2 /\ (up + lo) \div 2 <= up
           /\ 2 * ((up + lo) \div 2 - lo) <= up - lo + 1
           /\ 2 * (up - (up + lo) \div 2) <= up - lo + 1
OBVIOUS

(* The element that is read is in the array.                               *)
LEMMA ReadInside ==
    ASSUME IInv, pc = "search"
    PROVE  /\ mid \in Int /\ lower <= mid /\ mid <= upper
           /\ mid \in 0 .. num - 1 /\ ar[mid] \in Int
           /\ lower \in Int /\ upper \in Int /\ num \in Int
<1>1. lower \in Int /\ upper \in Int /\ lower <= upper /\ 0 <= lower /\ upper <= num - 1
  BY ArraysAssumption DEF IInv, Arguments, InRange
<1>2. num \in Int
  BY ArraysAssumption DEF IInv, Arguments
<1>3. mid \in Int /\ lower <= mid /\ mid <= upper
  BY <1>1, Middle DEF mid
<1> HIDE DEF mid
<1>4. mid \in 0 .. num - 1
  BY <1>1, <1>2, <1>3
<1>5. ar[mid] \in Int
  BY <1>4, ArraysAssumption DEF IInv, Arguments
<1>6. QED
  BY <1>1, <1>2, <1>3, <1>4, <1>5

(* The invariant holds at the call.                                        *)
LEMMA InitIInv ==
    ASSUME Init
    PROVE  IInv
<1>1. num \in Int /\ 1 <= num
  BY ArraysAssumption DEF Init
<1>2. Arguments
  BY DEF Init, Arguments
<1>3. InRange
  BY <1>1 DEF Init, InRange
<1>4. KeyInRange
  BY <1>1 DEF Init, KeyInRange
<1>5. Result
  BY <1>1 DEF Init, Result
<1>6. QED
  BY <1>2, <1>3, <1>4, <1>5 DEF IInv

(* The element in the middle is the key.                                   *)
LEMMA FoundIInv ==
    ASSUME IInv, Found
    PROVE  IInv'
<1>1. mid \in 0 .. num - 1 /\ ar[mid] = key
  BY ReadInside DEF Found
<1> HIDE DEF mid
<1>2. ret' = mid /\ ret' # -1 /\ pc' = "return" /\ UNCHANGED <<num, ar, key, lower, upper>>
  BY <1>1, ReadInside DEF Found, args
<1>3. Arguments' /\ KeyInRange'
  BY <1>2 DEF IInv, Arguments, KeyInRange
<1>4. InRange'
  BY <1>2 DEF IInv, InRange
<1>5. Result'
  BY <1>1, <1>2, ReadInside DEF Found, Result
<1>6. QED
  BY <1>3, <1>4, <1>5 DEF IInv

(* What is cut off holds no key, for the array is sorted.                  *)
LEMMA NarrowIInv ==
    ASSUME IInv, Narrow
    PROVE  IInv'
<1>1. /\ mid \in Int /\ lower <= mid /\ mid <= upper
      /\ mid \in 0 .. num - 1 /\ ar[mid] \in Int
      /\ lower \in Int /\ upper \in Int /\ num \in Int /\ key \in Int
  BY ReadInside, ArraysAssumption DEF Narrow, IInv, Arguments
<1>2. UNCHANGED <<num, ar, key, ret>> /\ ar[mid] # key
  BY DEF Narrow, args
<1>3. \/ ar[mid] > key /\ upper' = mid - 1 /\ lower' = lower
      \/ ar[mid] < key /\ lower' = mid + 1 /\ upper' = upper
  BY <1>1 DEF Narrow
<1>4. pc' = IF upper' <= lower' THEN "return" ELSE "search"
  BY DEF Narrow
<1>5. 0 <= lower /\ upper <= num - 1
  BY ReadInside, <1>1 DEF IInv, InRange, Narrow
<1> HIDE DEF mid
<1>6. Arguments' /\ Result'
  BY <1>2 DEF IInv, Arguments, Result
<1>7. InRange'
  <2>1. lower' \in 0 .. num /\ upper' \in -1 .. num - 1 /\ lower' \in Int /\ upper' \in Int
    BY <1>1, <1>3, <1>5
  <2>2. pc' \in {"search", "return"}
    BY <1>4
  <2>3. pc' = "search" => lower' <= upper'
    BY <1>4, <2>1
  <2>4. pc' = "return" => upper' <= lower'
    BY <1>4
  <2>5. QED
    BY <1>2, <2>1, <2>2, <2>3, <2>4 DEF InRange
<1>8. KeyInRange'
  <2> SUFFICES ASSUME NEW k \in 0 .. num - 1, ar[k] = key
               PROVE  lower' <= k /\ k <= upper'
    BY <1>2 DEF KeyInRange
  <2>1. lower <= k /\ k <= upper /\ k \in Int
    BY <1>1 DEF IInv, KeyInRange
  <2>2. k <= mid => ar[k] <= ar[mid]
    BY <1>1 DEF IInv, Arguments, Sorted
  <2>3. mid <= k => ar[mid] <= ar[k]
    BY <1>1 DEF IInv, Arguments, Sorted
  <2>4. CASE ar[mid] > key /\ upper' = mid - 1 /\ lower' = lower
    BY <2>1, <2>3, <2>4, <1>1
  <2>5. CASE ar[mid] < key /\ lower' = mid + 1 /\ upper' = upper
    BY <2>1, <2>2, <2>5, <1>1
  <2>6. QED
    BY <1>3, <2>4, <2>5
<1>9. QED
  BY <1>6, <1>7, <1>8 DEF IInv

(* What is proved above, for every reachable state.                        *)
LEMMA Inductive == Spec => []IInv
<1>1. Init => IInv
  BY InitIInv
<1>2. IInv /\ [Next]_vars => IInv'
  <2> SUFFICES ASSUME IInv, [Next]_vars PROVE IInv'
    OBVIOUS
  <2>1. CASE UNCHANGED vars
    BY <2>1 DEF vars, args, IInv, Arguments, InRange, KeyInRange, Result
  <2>2. QED
    BY <2>1, FoundIInv, NarrowIInv DEF Next
<1>3. QED
  BY <1>1, <1>2, PTL DEF Spec

-----------------------------------------------------------------------------
(* No read is outside the array, however long it is (main.c 10-12).        *)
THEOREM TypeCorrect == Spec => []TypeOK
<1>1. IInv => TypeOK
  BY ReadInside DEF IInv, Arguments, InRange, Result, TypeOK
<1>2. QED
  BY <1>1, Inductive, PTL

(* An index that is returned is one of the key (main.c 11).                *)
THEOREM FoundIsRightAlways == Spec => []FoundIsRight
<1>1. IInv => FoundIsRight
  BY DEF IInv, Result, FoundIsRight
<1>2. QED
  BY <1>1, Inductive, PTL

(* A key that is missed is at the one place that is left (main.c 20).      *)
THEOREM MissedOnlyLastAlways == Spec => []MissedOnlyLast
<1>1. IInv => MissedOnlyLast
  <2> SUFFICES ASSUME IInv, pc = "return", ret = -1,
                      NEW k \in 0 .. num - 1, ar[k] = key
               PROVE  lower = k /\ upper = k
    BY DEF MissedOnlyLast
  <2>1. lower <= k /\ k <= upper /\ upper <= lower
    BY DEF IInv, KeyInRange, InRange
  <2>2. lower \in Int /\ upper \in Int /\ k \in Int
    BY ArraysAssumption DEF IInv, InRange, Arguments
  <2>3. QED
    BY <2>1, <2>2
<1>2. QED
  BY <1>1, Inductive, PTL

(* Every round leaves at most half of the range, so that there are at most *)
(* as many as the length of the array has binary digits (main.c 10-19).    *)
THEOREM HalvesAlways == Spec => Halves
<1> DEFINE A == pc' = "search" => 2 * (upper' - lower' + 1) <= upper - lower + 1
<1>1. IInv /\ [Next]_vars => [A]_vars
  <2> SUFFICES ASSUME IInv, Next PROVE A
    OBVIOUS
  <2>1. CASE Found
    BY <2>1 DEF Found
  <2>2. CASE Narrow
    <3>1. lower \in Int /\ upper \in Int /\ lower <= upper
      BY <2>2, ReadInside DEF Narrow, IInv, InRange
    <3>2. \/ upper' = mid - 1 /\ lower' = lower
          \/ lower' = mid + 1 /\ upper' = upper
      BY <2>2 DEF Narrow
    <3>3. /\ mid \in Int
          /\ 2 * (mid - lower) <= upper - lower + 1
          /\ 2 * (upper - mid) <= upper - lower + 1
      BY <3>1, Middle DEF mid
    <3> HIDE DEF mid
    <3>4. QED
      BY <3>1, <3>2, <3>3
  <2>3. QED
    BY <2>1, <2>2 DEF Next
<1>2. QED
  BY <1>1, Inductive, PTL DEF Spec, Halves

-----------------------------------------------------------------------------
(* Induction over a set of numbers, which the well-founded order on Nat    *)
(* gives.                                                                  *)
Smaller == {ss \in Nat \X Nat : ss[1] < ss[2]}

LEMMA SmallerWF == IsWellFoundedOn(Smaller, Nat)
<1>1. Smaller = OpToRel(<, Nat)
  BY Zenon DEF Smaller, OpToRel
<1>2. QED
  BY <1>1, NatLessThanWellFounded, Zenon

LEMMA NatSetInduction ==
    ASSUME NEW Z, 0 \in Z, \A n \in Nat : n \in Z => n + 1 \in Z
    PROVE  Nat \subseteq Z
<1>1. SUFFICES ASSUME Nat \ Z # {} PROVE FALSE
  OBVIOUS
<1>2. PICK x \in Nat \ Z : \A y \in Nat \ Z : ~(<<y, x>> \in Smaller)
  <2>1. Nat \ Z \subseteq Nat
    OBVIOUS
  <2>2. QED
    BY <1>1, <2>1, SmallerWF, WFMin, Zenon
<1>3. x - 1 \in Nat /\ x - 1 < x
  BY <1>2
<1>4. x - 1 \in Z
  <2>1. <<x - 1, x>> \in Smaller
    BY <1>2, <1>3 DEF Smaller
  <2>2. QED
    BY <2>1, <1>2, <1>3
<1>5. QED
  BY <1>2, <1>3, <1>4

LEMMA LeastIn ==
    ASSUME NEW S, S \subseteq Nat, S # {}
    PROVE  Sort!Least(S) \in S /\ \A x \in S : Sort!Least(S) <= x
<1>1. PICK m \in S : \A y \in S : ~(<<y, m>> \in Smaller)
  BY SmallerWF, WFMin, Zenon
<1>2. ASSUME NEW y \in S PROVE m <= y
  <2>1. m \in Nat /\ y \in Nat
    OBVIOUS
  <2>2. ~(y < m)
    BY <1>1, <2>1 DEF Smaller
  <2>3. QED
    BY <2>1, <2>2
<1>3. QED
  BY <1>2 DEF Sort!Least

LEMMA GreatestIn ==
    ASSUME NEW S, S \subseteq Int, S # {}, NEW u \in Int, \A x \in S : x <= u
    PROVE  Sort!Greatest(S) \in S /\ \A x \in S : x <= Sort!Greatest(S)
<1> DEFINE T == {u - x : x \in S}
<1>1. T \subseteq Nat /\ T # {}
  <2>1. \A x \in S : u - x \in Nat
    OBVIOUS
  <2>2. QED
    BY <2>1
<1>2. PICK m \in T : \A y \in T : m <= y
  <2> HIDE DEF T
  <2>1. QED
    BY <1>1, LeastIn
<1>3. PICK g \in S : m = u - g
  OBVIOUS
<1>4. \A x \in S : x <= g
  <2> SUFFICES ASSUME NEW x \in S PROVE x <= g
    OBVIOUS
  <2>1. m <= u - x
    BY <1>2
  <2>2. QED
    BY <1>3, <2>1
<1>5. QED
  BY <1>4 DEF Sort!Greatest

(* An array has a least element between any two places.                    *)
LEMMA LeastElement ==
    ASSUME NEW a, NEW lo \in Int, NEW hi \in Int, lo <= hi,
           \A k \in lo .. hi : a[k] \in Int
    PROVE  \E k \in lo .. hi : \A m \in lo .. hi : a[k] <= a[m]
<1> DEFINE N == {d \in Nat : lo + d <= hi =>
                    \E k \in lo .. lo + d : \A m \in lo .. lo + d : a[k] <= a[m]}
<1>1. 0 \in N
  <2>1. \A m \in lo .. lo + 0 : m = lo
    OBVIOUS
  <2>2. lo \in lo .. lo + 0 /\ a[lo] <= a[lo]
    OBVIOUS
  <2>3. QED
    BY <2>1, <2>2
<1>2. ASSUME NEW d \in Nat, d \in N PROVE d + 1 \in N
  <2> SUFFICES ASSUME lo + (d + 1) <= hi
               PROVE  \E k \in lo .. lo + (d + 1) :
                         \A m \in lo .. lo + (d + 1) : a[k] <= a[m]
    OBVIOUS
  <2>1. PICK k \in lo .. lo + d : \A m \in lo .. lo + d : a[k] <= a[m]
    BY <1>2
  <2> DEFINE e == lo + (d + 1)
  <2>2. /\ e \in lo .. hi /\ k \in lo .. hi /\ k \in lo .. e /\ e \in lo .. e
        /\ \A m \in lo .. e : m \in lo .. lo + d \/ m = e
        /\ \A m \in lo .. e : m \in lo .. hi
    OBVIOUS
  <2> HIDE DEF e
  <2>3. CASE a[k] <= a[e]
    BY <2>1, <2>2, <2>3 DEF e
  <2>4. CASE ~(a[k] <= a[e])
    <3>1. \A m \in lo .. e : a[e] <= a[m]
      BY <2>1, <2>2, <2>4
    <3>2. QED
      BY <2>2, <3>1 DEF e
  <2>5. QED
    BY <2>3, <2>4
<1>3. hi - lo \in Nat /\ lo + (hi - lo) = hi
  OBVIOUS
<1>4. hi - lo \in N
  <2> HIDE DEF N
  <2>1. QED
    BY <1>1, <1>2, <1>3, NatSetInduction
<1>5. QED
  BY <1>3, <1>4

-----------------------------------------------------------------------------
(* One array has the elements of another, in some order.                   *)
Rearranged(a, b, D) == \E q \in Bijection(D, D) : \A k \in D : a[k] = b[q[k]]

LEMMA RearrangedSelf == ASSUME NEW a, NEW D PROVE Rearranged(a, a, D)
<1> DEFINE q == [k \in D |-> k]
<1>1. q \in Bijection(D, D)
  BY DEF Bijection, Injection, IsInjective, Surjection
<1>2. \A k \in D : a[k] = a[q[k]]
  OBVIOUS
<1>3. QED
  BY <1>1, <1>2 DEF Rearranged

LEMMA RearrangedAgain ==
    ASSUME NEW a, NEW b, NEW c, NEW D, Rearranged(a, b, D), Rearranged(b, c, D)
    PROVE  Rearranged(a, c, D)
<1>1. PICK q \in Bijection(D, D) : \A k \in D : a[k] = b[q[k]]
  BY DEF Rearranged
<1>2. PICK r \in Bijection(D, D) : \A k \in D : b[k] = c[r[k]]
  BY DEF Rearranged
<1> DEFINE s == [k \in D |-> r[q[k]]]
<1>3. \A k \in D : q[k] \in D /\ r[k] \in D
  BY DEF Bijection, Injection
<1>4. s \in [D -> D]
  BY <1>3
<1>5. \A x, y \in D : s[x] = s[y] => x = y
  BY <1>3 DEF Bijection, Injection, IsInjective
<1>6. ASSUME NEW t \in D PROVE \E k \in D : s[k] = t
  <2>1. PICK u \in D : r[u] = t
    BY DEF Bijection, Surjection
  <2>2. PICK k \in D : q[k] = u
    BY DEF Bijection, Surjection
  <2>3. QED
    BY <2>1, <2>2
<1>7. \A k \in D : a[k] = c[s[k]]
  BY <1>1, <1>2, <1>3
<1> HIDE DEF s
<1>8. s \in Bijection(D, D)
  BY <1>4, <1>5, <1>6 DEF Bijection, Injection, IsInjective, Surjection
<1>9. QED
  BY <1>7, <1>8 DEF Rearranged

(* b is a with the elements at x and y exchanged.                          *)
Swapped(b, a, x, y, D, V) ==
    /\ b \in [D -> V]
    /\ \A k \in D : b[k] = IF k = x THEN a[y] ELSE IF k = y THEN a[x] ELSE a[k]
    /\ Rearranged(b, a, D)

LEMMA SwapIs ==
    ASSUME NEW D, NEW V, NEW a \in [D -> V], NEW x \in D, NEW y \in D
    PROVE  Swapped(Sort!swap(a, x, y), a, x, y, D, V)
<1> DEFINE b == Sort!swap(a, x, y)
           q == [k \in D |-> IF k = x THEN y ELSE IF k = y THEN x ELSE k]
<1>1. b \in [D -> V]
  BY DEF Sort!swap
<1>2. \A k \in D : b[k] = IF k = x THEN a[y] ELSE IF k = y THEN a[x] ELSE a[k]
  BY DEF Sort!swap
<1> HIDE DEF b
<1>3. q \in [D -> D] /\ \A k \in D : q[q[k]] = k
  OBVIOUS
<1>4. \A k \in D : b[k] = a[q[k]]
  BY <1>2
<1> HIDE DEF q
<1>5. q \in Bijection(D, D)
  BY <1>3 DEF Bijection, Injection, IsInjective, Surjection
<1>6. Rearranged(b, a, D)
  BY <1>4, <1>5 DEF Rearranged
<1>7. Swapped(b, a, x, y, D, V)
  BY <1>1, <1>2, <1>6 DEF Swapped
<1>8. QED
  BY <1>7 DEF b

(* Then it has every value as often.                                       *)
AsOften(a, b, D, v) ==
    Cardinality({k \in D : a[k] = v}) = Cardinality({k \in D : b[k] = v})

LEMMA RearrangedCount ==
    ASSUME NEW a, NEW b, NEW D, IsFiniteSet(D), Rearranged(a, b, D), NEW v
    PROVE  AsOften(a, b, D, v)
<1>1. PICK q \in Bijection(D, D) : \A k \in D : a[k] = b[q[k]]
  BY DEF Rearranged
<1> DEFINE A == {k \in D : a[k] = v}
           B == {k \in D : b[k] = v}
           r == [k \in A |-> q[k]]
<1>2. \A k \in D : q[k] \in D
  BY DEF Bijection, Injection
<1>3. r \in [A -> B]
  BY <1>1, <1>2
<1>4. \A x, y \in A : r[x] = r[y] => x = y
  BY DEF Bijection, Injection, IsInjective
<1>5. ASSUME NEW t \in B PROVE \E k \in A : r[k] = t
  <2>1. PICK k \in D : q[k] = t
    BY DEF Bijection, Surjection
  <2>2. k \in A
    BY <1>1, <2>1
  <2>3. QED
    BY <2>1, <2>2
<1>6. IsFiniteSet(B)
  BY FS_Subset
<1> HIDE DEF A, B, r
<1>7. r \in Injection(A, B) /\ r \in Surjection(A, B)
  BY <1>3, <1>4, <1>5 DEF Injection, IsInjective, Surjection
<1>8. Cardinality(A) = Cardinality(B)
  BY <1>6, <1>7, FS_Injection
<1>9. QED
  BY <1>8 DEF A, B, AsOften

-----------------------------------------------------------------------------
(* The inner loop of bubbleSort.  g is the function inside Bubbled as far  *)
(* as m.                                                                   *)
Bubbles(g, a, n, m) ==
    g = [k \in 0 .. m |->
            IF k = 0 THEN a
            ELSE IF k < n /\ g[k - 1][k - 1] > g[k - 1][k]
                 THEN Sort!swap(g[k - 1], k - 1, k)
                 ELSE g[k - 1]]

LEMMA BubbledByBubbles ==
    ASSUME NEW a, NEW n
    PROVE  Sort!Bubbled(a, n) = (CHOOSE g : Bubbles(g, a, n, n))[n]
BY DEF Sort!Bubbled, Bubbles

LEMMA BubblesExist ==
    ASSUME NEW a, NEW n \in Nat
    PROVE  \E g : Bubbles(g, a, n, n)
<1> DEFINE N == {m \in Nat : \E g : Bubbles(g, a, n, m)}
<1>1. 0 \in N
  <2> DEFINE g == [k \in 0 .. 0 |-> a]
  <2>1. \A k \in 0 .. 0 : k = 0
    OBVIOUS
  <2>2. Bubbles(g, a, n, 0)
    BY <2>1 DEF Bubbles
  <2>3. QED
    BY <2>2
<1>2. ASSUME NEW m \in Nat, m \in N PROVE m + 1 \in N
  <2>1. PICK g : Bubbles(g, a, n, m)
    BY <1>2
  <2> DEFINE value(k) == IF k = 0 THEN a
                         ELSE IF k < n /\ g[k - 1][k - 1] > g[k - 1][k]
                              THEN Sort!swap(g[k - 1], k - 1, k)
                              ELSE g[k - 1]
             h == [k \in 0 .. m + 1 |-> value(k)]
             next(k) == IF k = 0 THEN a
                        ELSE IF k < n /\ h[k - 1][k - 1] > h[k - 1][k]
                             THEN Sort!swap(h[k - 1], k - 1, k)
                             ELSE h[k - 1]
  <2>2. \A k \in 0 .. m : h[k] = g[k]
    <3>1. \A k \in 0 .. m : h[k] = value(k)
      OBVIOUS
    <3>2. \A k \in 0 .. m : g[k] = value(k)
      BY <2>1, Zenon DEF Bubbles
    <3>3. QED
      BY <3>1, <3>2
  <2>3. \A k \in 0 .. m + 1 : k # 0 => k - 1 \in 0 .. m
    OBVIOUS
  <2>4. \A k \in 0 .. m + 1 : value(k) = next(k)
    <3> HIDE DEF h
    <3>1. QED
      BY <2>2, <2>3
  <2>5. h = [k \in 0 .. m + 1 |-> next(k)]
    <3> HIDE DEF next
    <3>1. QED
      BY <2>4
  <2> HIDE DEF h
  <2>6. Bubbles(h, a, n, m + 1)
    BY <2>5 DEF Bubbles
  <2>7. QED
    BY <2>6
<1> HIDE DEF N
<1>3. n \in N
  BY <1>1, <1>2, NatSetInduction
<1>4. QED
  BY <1>3 DEF N

(* It takes the largest of the first n elements to their end and leaves    *)
(* the rest alone.                                                         *)
BubbledTo(b, a, n, D, V) ==
    /\ b \in [D -> V]
    /\ Rearranged(b, a, D)
    /\ \A x \in D : x \notin 0 .. n - 1 => b[x] = a[x]
    /\ \A x \in 0 .. n - 1 : \E z \in 0 .. n - 1 : b[x] = a[z]
    /\ \A x \in 0 .. n - 1 : b[x] <= b[n - 1]

LEMMA BubbledIs ==
    ASSUME NEW D, NEW V, V \subseteq Int, NEW a \in [D -> V],
           NEW n \in Nat \ {0}, 0 .. n - 1 \subseteq D
    PROVE  BubbledTo(Sort!Bubbled(a, n), a, n, D, V)
<1> DEFINE g == CHOOSE h : Bubbles(h, a, n, n)
           Good(m) ==
             /\ g[m] \in [D -> V]
             /\ Rearranged(g[m], a, D)
             /\ \A x \in D : x \notin 0 .. m => g[m][x] = a[x]
             /\ \A x \in 0 .. m : \E z \in 0 .. m : g[m][x] = a[z]
             /\ \A x \in 0 .. m : g[m][x] <= g[m][m]
           N == {m \in Nat : m < n => Good(m)}
<1>1. Sort!Bubbled(a, n) = g[n]
  BY BubbledByBubbles
<1>2. \A k \in 0 .. n :
         g[k] = IF k = 0 THEN a
                ELSE IF k < n /\ g[k - 1][k - 1] > g[k - 1][k]
                     THEN Sort!swap(g[k - 1], k - 1, k)
                     ELSE g[k - 1]
  <2>1. Bubbles(g, a, n, n)
    BY BubblesExist, Zenon
  <2> HIDE DEF g
  <2>2. QED
    BY <2>1, Zenon DEF Bubbles
<1> HIDE DEF g
<1>3. 0 \in N
  <2>1. g[0] = a
    BY <1>2
  <2>2. \A x : x \in 0 .. 0 <=> x = 0
    OBVIOUS
  <2>3. 0 \in D /\ a[0] \in Int
    <3>1. 0 \in 0 .. n - 1
      OBVIOUS
    <3>2. QED
      BY <3>1
  <2>4. Good(0)
    BY <2>1, <2>2, <2>3, RearrangedSelf
  <2>5. QED
    BY <2>4
<1>4. ASSUME NEW m \in Nat, m \in N PROVE m + 1 \in N
  <2>1. SUFFICES ASSUME m + 1 < n PROVE Good(m + 1)
    OBVIOUS
  <2> DEFINE b == g[m]
             c == g[m + 1]
  <2>2. /\ b \in [D -> V]
        /\ Rearranged(b, a, D)
        /\ \A x \in D : x \notin 0 .. m => b[x] = a[x]
        /\ \A x \in 0 .. m : \E z \in 0 .. m : b[x] = a[z]
        /\ \A x \in 0 .. m : b[x] <= b[m]
    BY <1>4, <2>1
  <2>3. c = IF b[m] > b[m + 1] THEN Sort!swap(b, m, m + 1) ELSE b
    <3>1. /\ m + 1 \in 0 .. n /\ m + 1 < n /\ m + 1 # 0 /\ m + 1 - 1 = m
      BY <2>1
    <3>2. QED
      BY <1>2, <3>1
  <2> HIDE DEF b, c
  <2>4. /\ m \in D /\ m + 1 \in D
        /\ \A x : x \in 0 .. m + 1 <=> x \in 0 .. m \/ x = m + 1
        /\ m + 1 \notin 0 .. m /\ m \in 0 .. m
        /\ \A x \in 0 .. m : x \in D
        /\ \A x \in D : b[x] \in Int
    <3>1. m \in 0 .. n - 1 /\ m + 1 \in 0 .. n - 1 /\ \A x \in 0 .. m : x \in 0 .. n - 1
      BY <2>1
    <3>2. /\ \A x : x \in 0 .. m + 1 <=> x \in 0 .. m \/ x = m + 1
          /\ m + 1 \notin 0 .. m /\ m \in 0 .. m
      OBVIOUS
    <3>3. \A x \in D : b[x] \in Int
      BY <2>2
    <3>4. QED
      BY <3>1, <3>2, <3>3
  <2>5. b[m + 1] = a[m + 1]
    BY <2>2, <2>4
  <2>6. CASE b[m] > b[m + 1]
    <3>1. /\ c \in [D -> V]
          /\ \A k \in D : c[k] = IF k = m THEN b[m + 1] ELSE IF k = m + 1 THEN b[m] ELSE b[k]
          /\ Rearranged(c, b, D)
      <4>1. c = Sort!swap(b, m, m + 1)
        BY <2>3, <2>6
      <4>2. b \in [D -> V] /\ m \in D /\ m + 1 \in D
        BY <2>2, <2>4
      <4>3. \A y \in D : Swapped(Sort!swap(b, m, y), b, m, y, D, V)
        BY <4>2, SwapIs
      <4>4. Swapped(c, b, m, m + 1, D, V)
        BY <4>1, <4>2, <4>3
      <4>5. QED
        BY <4>4 DEF Swapped
    <3>2. Rearranged(c, a, D)
      BY <2>2, <3>1, RearrangedAgain
    <3>3. \A x \in D : x \notin 0 .. m + 1 => c[x] = a[x]
      BY <2>2, <2>4, <3>1
    <3>4. ASSUME NEW x \in 0 .. m + 1 PROVE \E z \in 0 .. m + 1 : c[x] = a[z]
      <4>1. c[m] = a[m + 1] /\ c[m + 1] = b[m] /\ (x # m /\ x # m + 1 => c[x] = b[x])
        BY <2>4, <2>5, <3>1
      <4>2. QED
        BY <2>2, <2>4, <3>4, <4>1
    <3>5. \A x \in 0 .. m + 1 : c[x] <= c[m + 1]
      BY <2>2, <2>4, <2>6, <3>1
    <3>6. QED
      BY <3>1, <3>2, <3>3, <3>4, <3>5 DEF c
  <2>7. CASE ~(b[m] > b[m + 1])
    <3>1. c = b
      BY <2>3, <2>7
    <3>2. \A x \in D : x \notin 0 .. m + 1 => c[x] = a[x]
      BY <2>2, <2>4, <3>1
    <3>3. \A x \in 0 .. m + 1 : \E z \in 0 .. m + 1 : c[x] = a[z]
      BY <2>2, <2>4, <2>5, <3>1
    <3>4. \A x \in 0 .. m + 1 : c[x] <= c[m + 1]
      BY <2>2, <2>4, <2>7, <3>1
    <3>5. QED
      BY <2>2, <3>1, <3>2, <3>3, <3>4 DEF c
  <2>8. QED
    BY <2>6, <2>7
<1>5. Nat \subseteq N
  <2> HIDE DEF N
  <2>1. QED
    BY <1>3, <1>4, NatSetInduction
<1>6. n - 1 \in Nat /\ n - 1 < n
  OBVIOUS
<1>7. Good(n - 1)
  BY <1>5, <1>6
<1>8. g[n] = g[n - 1]
  BY <1>2
<1> HIDE DEF N
<1>9. QED
  BY <1>1, <1>7, <1>8 DEF BubbledTo

-----------------------------------------------------------------------------
(* The sorts.                                                              *)
Segment(s) == s.from .. s.from + s.num - 1

SortTypes ==
    /\ sorted_num \in 0 .. SortNum
    /\ sort \in {"bubble", "insertion", "selection", "quick"}
    /\ sorted_ar \in [Sort!Indices -> SortValues]
    /\ given \in [Sort!Indices -> SortValues]
    /\ i \in 0 .. sorted_num
    /\ calls \in Seq([from : 0 .. sorted_num, num : 0 .. sorted_num])
    /\ \A c \in 1 .. Len(calls) : calls[c].from + calls[c].num <= sorted_num
    /\ sort # "quick" => calls = <<>>

SortKept == Rearranged(sorted_ar, given, Sort!Indices)

(* The calls to come do not overlap, and what is out of order is within    *)
(* one of them.                                                            *)
Apart(q) ==
    \A c, e \in 1 .. Len(q) : c # e => Segment(q[c]) \cap Segment(q[e]) = {}

OrderedBut(a, q) ==
    \A x, y \in Sort!Indices : x < y /\ a[x] > a[y] =>
        \E c \in 1 .. Len(q) : x \in Segment(q[c]) /\ y \in Segment(q[c])

(* left and right are in the segment, and what they have passed is on its  *)
(* side of the key.                                                        *)
Passed(a, s) ==
    /\ s.num > 1
    /\ left \in 0 .. s.num - 1
    /\ right \in 0 .. s.num - 2
    /\ \A k \in 0 .. left - 1 : a[s.from + k] <= a[s.from + s.num - 1]
    /\ \A k \in right + 1 .. s.num - 1 : a[s.from + k] >= a[s.from + s.num - 1]

QuickInv ==
    sort = "quick" =>
        /\ Apart(calls)
        /\ OrderedBut(sorted_ar, calls)
        /\ calls # <<>> /\ i = 1 => Passed(sorted_ar, calls[1])

SortInv == SortTypes /\ SortKept /\ Sort!RoundsSettle /\ QuickInv

LEMMA SortConstants ==
    SortNum \in Nat /\ SortValues \subseteq Int
BY InputsAssumption

LEMMA SortInit == Sort!Init => SortInv
<1> SUFFICES ASSUME Sort!Init PROVE SortInv
  OBVIOUS
<1> USE SortConstants DEF Sort!Init, Sort!Bubble, Sort!Insertion, Sort!Selection, Sort!Quick
<1> DEFINE s == [from |-> 0, num |-> sorted_num]
<1>1. /\ sorted_num \in 0 .. SortNum /\ i = 0 /\ given = sorted_ar
      /\ sorted_ar \in [Sort!Indices -> SortValues]
      /\ calls = IF sort = "quick" THEN <<s>> ELSE <<>>
  BY DEF Sort!Indices
<1>2. Len(<<s>>) = 1 /\ <<s>>[1] = s /\ \A c \in 1 .. 1 : c = 1
  OBVIOUS
<1>3. SortTypes
  <2>1. s \in [from : 0 .. sorted_num, num : 0 .. sorted_num]
    BY <1>1
  <2>2. calls \in Seq([from : 0 .. sorted_num, num : 0 .. sorted_num])
    <3> DEFINE X == [from : 0 .. sorted_num, num : 0 .. sorted_num]
    <3> HIDE DEF X, s
    <3>1. <<s>> \in Seq(X) /\ <<>> \in Seq(X)
      BY <2>1 DEF X
    <3>2. QED
      BY <1>1, <3>1 DEF X
  <2>3. \A c \in 1 .. Len(calls) : calls[c].from + calls[c].num <= sorted_num
    BY <1>1, <1>2
  <2>4. QED
    BY <1>1, <2>2, <2>3 DEF SortTypes
<1>4. SortKept
  BY <1>1, RearrangedSelf DEF SortKept
<1>5. Sort!RoundsSettle
  BY <1>1 DEF Sort!RoundsSettle, Sort!Indices, Sort!SortedUpTo
<1>6. QuickInv
  <2> SUFFICES ASSUME sort = "quick" PROVE Apart(calls) /\ OrderedBut(sorted_ar, calls)
    BY <1>1 DEF QuickInv
  <2>1. Segment(calls[1]) = Sort!Indices
    BY <1>1, <1>2 DEF Segment, Sort!Indices
  <2>2. Apart(calls)
    BY <1>1, <1>2 DEF Apart
  <2>3. 1 \in 1 .. Len(calls)
    BY <1>1, <1>2
  <2>4. OrderedBut(sorted_ar, calls)
    BY <2>1, <2>3, Zenon DEF OrderedBut
  <2>5. QED
    BY <2>2, <2>4
<1>7. QED
  BY <1>3, <1>4, <1>5, <1>6 DEF SortInv

(* A round of the simple sorts rearranges the array and goes on to the     *)
(* next place.                                                             *)
LEMMA RoundInv ==
    ASSUME SortInv, sort # "quick", i' = i + 1, i < sorted_num,
           sorted_ar' \in [Sort!Indices -> SortValues],
           Rearranged(sorted_ar', sorted_ar, Sort!Indices),
           UNCHANGED <<sort, sorted_num, given, calls>>,
           Sort!RoundsSettle'
    PROVE  SortInv'
<1> USE SortConstants DEF SortInv
<1>1. SortTypes'
  BY DEF SortTypes, Sort!Indices
<1>2. SortKept'
  BY RearrangedAgain DEF SortKept, Sort!Indices
<1>3. QuickInv'
  BY DEF QuickInv
<1>4. QED
  BY <1>1, <1>2, <1>3

LEMMA BubbleStep == SortInv /\ Sort!bubbleSort => SortInv'
<1> SUFFICES ASSUME SortInv, Sort!bubbleSort PROVE SortInv'
  OBVIOUS
<1> USE SortConstants
<1> DEFINE n == sorted_num - i
           D == Sort!Indices
<1>1. /\ sort = "bubble" /\ i < sorted_num - 1 /\ i' = i + 1
      /\ sorted_ar' = Sort!Bubbled(sorted_ar, n)
      /\ UNCHANGED <<sort, sorted_num, given, calls>>
  BY DEF Sort!bubbleSort, Sort!args, Sort!Bubble
<1>2. /\ sorted_num \in Nat /\ i \in Nat /\ sorted_ar \in [D -> SortValues]
      /\ D = 0 .. sorted_num - 1
  BY DEF SortInv, SortTypes, Sort!Indices
<1>3. n \in Nat \ {0} /\ 0 .. n - 1 \subseteq D
  BY <1>1, <1>2
<1> HIDE DEF n, D
<1>4. /\ sorted_ar' \in [D -> SortValues]
      /\ Rearranged(sorted_ar', sorted_ar, D)
      /\ \A x \in D : x \notin 0 .. n - 1 => sorted_ar'[x] = sorted_ar[x]
      /\ \A x \in 0 .. n - 1 : \E z \in 0 .. n - 1 : sorted_ar'[x] = sorted_ar[z]
      /\ \A x \in 0 .. n - 1 : sorted_ar'[x] <= sorted_ar'[n - 1]
  <2>1. BubbledTo(Sort!Bubbled(sorted_ar, n), sorted_ar, n, D, SortValues)
    BY <1>2, <1>3, SortConstants, BubbledIs
  <2>2. BubbledTo(sorted_ar', sorted_ar, n, D, SortValues)
    BY <1>1, <2>1
  <2>3. QED
    BY <2>2 DEF BubbledTo
<1>5. \A x, y \in D : x <= y /\ y >= n => sorted_ar[x] <= sorted_ar[y]
  BY <1>1 DEF SortInv, Sort!RoundsSettle, Sort!Bubble, n, D
<1>6. ASSUME NEW x \in D, NEW y \in D, x <= y, y >= n - 1
      PROVE  sorted_ar'[x] <= sorted_ar'[y]
  <2>1. x \in Nat /\ y \in Nat /\ n \in Nat
    BY <1>2, <1>3
  <2>2. CASE y = n - 1
    BY <1>4, <1>6, <2>1, <2>2
  <2>3. CASE y # n - 1
    <3>1. y >= n /\ sorted_ar'[y] = sorted_ar[y]
      BY <1>4, <1>6, <2>1, <2>3
    <3>2. PICK z \in D : sorted_ar'[x] = sorted_ar[z] /\ z <= y
      <4>1. CASE x \in 0 .. n - 1
        <5>1. PICK z \in 0 .. n - 1 : sorted_ar'[x] = sorted_ar[z]
          BY <1>4, <4>1
        <5>2. z \in D /\ z <= y
          BY <1>3, <2>1, <3>1
        <5>3. QED
          BY <5>1, <5>2
      <4>2. CASE x \notin 0 .. n - 1
        BY <1>4, <1>6, <4>2
      <4>3. QED
        BY <4>1, <4>2
    <3>3. QED
      BY <1>5, <3>1, <3>2
  <2>4. QED
    BY <2>2, <2>3
<1>7. Sort!RoundsSettle'
  <2>1. sorted_num' - i' = n - 1 /\ Sort!Indices' = D
    BY <1>1, <1>2 DEF n, D, Sort!Indices
  <2>2. QED
    BY <1>1, <1>6, <2>1 DEF Sort!RoundsSettle, Sort!Bubble, Sort!Insertion, Sort!Selection
<1>8. i < sorted_num
  BY <1>1, <1>2
<1>9. QED
  BY <1>1, <1>4, <1>7, <1>8, RoundInv DEF D

(* The element goes below the larger ones that are moved up.               *)
LEMMA InsertionStep == SortInv /\ Sort!insertionSort => SortInv'
<1> SUFFICES ASSUME SortInv, Sort!insertionSort PROVE SortInv'
  OBVIOUS
<1> USE SortConstants
<1> DEFINE D == Sort!Indices
           a == sorted_ar
           b == sorted_ar'
           K == {k \in 0 .. i : \A m \in k .. i - 1 : a[m] > a[i]}
           e == Sort!Least(K)
<1>1. /\ sort = "insertion" /\ i < sorted_num /\ i' = i + 1
      /\ b = [k \in 0 .. sorted_num - 1 |->
                 IF k = e THEN a[i] ELSE IF k \in e + 1 .. i THEN a[k - 1] ELSE a[k]]
      /\ UNCHANGED <<sort, sorted_num, given, calls>>
  BY DEF Sort!insertionSort, Sort!args, Sort!Insertion
<1>2. /\ sorted_num \in Nat /\ i \in Nat /\ a \in [D -> SortValues]
      /\ D = 0 .. sorted_num - 1
  BY DEF SortInv, SortTypes, Sort!Indices
<1>3. e \in K /\ \A k \in K : e <= k
  <2>1. i \in 0 .. i /\ \A m \in i .. i - 1 : FALSE
    BY <1>2
  <2>2. i \in K /\ K \subseteq Nat
    BY <2>1
  <2> HIDE DEF K
  <2>3. QED
    BY <2>2, LeastIn
<1>4. e \in 0 .. i /\ \A m \in e .. i - 1 : a[m] > a[i]
  <2> HIDE DEF e
  <2>1. QED
    BY <1>3
<1>5. e > 0 => ~(a[e - 1] > a[i])
  <2> SUFFICES ASSUME e > 0, a[e - 1] > a[i] PROVE FALSE
    OBVIOUS
  <2> HIDE DEF e
  <2>1. e - 1 \in 0 .. i /\ \A m \in e - 1 .. i - 1 : m = e - 1 \/ m \in e .. i - 1
    BY <1>2, <1>4
  <2>2. e - 1 \in K
    BY <1>4, <2>1
  <2>3. QED
    BY <1>3, <1>4, <2>2
<1> HIDE DEF e, K, a, b, D
<1>6. /\ \A x, y \in 0 .. i - 1 : x <= y => a[x] <= a[y]
      /\ \A k \in i .. sorted_num - 1 : a[k] = given[k]
  BY <1>1 DEF SortInv, Sort!RoundsSettle, Sort!Insertion, Sort!SortedUpTo, a
<1>7. \A k \in D : /\ a[k] \in SortValues /\ a[k] \in Int
                   /\ b[k] = IF k = e THEN a[i] ELSE IF k \in e + 1 .. i THEN a[k - 1] ELSE a[k]
  BY <1>1, <1>2
<1> DEFINE q == [k \in D |-> IF k = e THEN i ELSE IF k \in e + 1 .. i THEN k - 1 ELSE k]
<1>8. q \in [D -> D] /\ e \in D /\ i \in D
  BY <1>1, <1>2, <1>4
<1>9. \A k \in D : b[k] = a[q[k]]
  BY <1>7
<1>10. b \in [D -> SortValues]
  <2>1. \A k \in D : b[k] \in SortValues
    <3> HIDE DEF q
    <3>1. QED
      BY <1>7, <1>8, <1>9
  <2>2. QED
    BY <1>1, <1>2, <2>1
<1>11. Rearranged(b, a, D)
  <2>1. \A x, y \in D : q[x] = q[y] => x = y
    BY <1>2, <1>4
  <2>2. ASSUME NEW t \in D PROVE \E k \in D : q[k] = t
    <3>1. CASE t = i
      BY <1>8, <3>1
    <3>2. CASE t \in e .. i - 1
      <4>1. PICK u \in D : u \in e + 1 .. i /\ u # e /\ u - 1 = t
        <5> DEFINE v == t + 1
        <5>1. v \in D /\ v \in e + 1 .. i /\ v # e /\ v - 1 = t
          BY <1>1, <1>2, <1>4, <3>2
        <5> HIDE DEF v
        <5>2. QED
          BY <5>1
      <4>2. q[u] = t
        BY <4>1
      <4>3. QED
        BY <4>2
    <3>3. CASE t # i /\ t \notin e .. i - 1
      <4>1. t # e /\ t \notin e + 1 .. i
        BY <1>2, <1>4, <3>3
      <4>2. QED
        BY <4>1
    <3>4. QED
      BY <3>1, <3>2, <3>3
  <2> HIDE DEF q
  <2>3. q \in Bijection(D, D)
    BY <1>8, <2>1, <2>2 DEF Bijection, Injection, IsInjective, Surjection
  <2>4. QED
    BY <1>9, <2>3 DEF Rearranged
<1> HIDE DEF q
<1>12. \A k \in 0 .. i : k \in D
  BY <1>1, <1>2
<1>13. \A k \in 0 .. e - 1 : a[k] <= a[i]
  <2> SUFFICES ASSUME NEW k \in 0 .. e - 1 PROVE a[k] <= a[i]
    OBVIOUS
  <2>1. /\ e > 0 /\ k <= e - 1 /\ k \in 0 .. i - 1 /\ e - 1 \in 0 .. i - 1
        /\ k \in 0 .. i /\ e - 1 \in 0 .. i /\ i \in 0 .. i
    BY <1>2, <1>4
  <2>2. a[k] <= a[e - 1]
    BY <1>6, <2>1
  <2>3. a[k] \in Int /\ a[e - 1] \in Int /\ a[i] \in Int
    BY <1>7, <1>12, <2>1
  <2>4. QED
    BY <1>5, <2>1, <2>2, <2>3
<1>14. ASSUME NEW x \in 0 .. i, NEW y \in 0 .. i, x <= y
       PROVE  b[x] <= b[y]
  <2>1. x \in D /\ y \in D /\ i \in D /\ x \in Nat /\ y \in Nat /\ e \in Nat
    BY <1>2, <1>4, <1>8, <1>12
  <2>2. ASSUME NEW z \in 0 .. i
        PROVE  /\ z < e => b[z] = a[z] /\ z \in 0 .. e - 1 /\ z \in 0 .. i - 1
               /\ z = e => b[z] = a[i]
               /\ z > e => /\ b[z] = a[z - 1] /\ z - 1 \in e .. i - 1
                           /\ z - 1 \in 0 .. i - 1
    <3>1. z \in D /\ z \in Nat /\ e \in Nat
      BY <1>2, <1>4, <1>12
    <3>2. z < e => z # e /\ z \notin e + 1 .. i /\ z \in 0 .. e - 1 /\ z \in 0 .. i - 1
      BY <1>2, <1>4, <3>1
    <3>3. z > e => z # e /\ z \in e + 1 .. i /\ z - 1 \in e .. i - 1 /\ z - 1 \in 0 .. i - 1
      BY <1>2, <1>4, <3>1
    <3>4. QED
      BY <1>7, <3>1, <3>2, <3>3
  <2>3. a[i] \in Int /\ \A z \in 0 .. i - 1 : a[z] \in Int
    <3>1. \A z \in 0 .. i - 1 : z \in 0 .. i
      BY <1>2
    <3>2. QED
      BY <1>7, <1>12, <2>1, <3>1
  <2>4. CASE x < e /\ y < e
    BY <1>6, <1>14, <2>2, <2>4
  <2>5. CASE x < e /\ y = e
    BY <1>13, <2>2, <2>5
  <2>6. CASE x < e /\ y > e
    <3>1. x <= y - 1
      BY <2>1, <2>6
    <3>2. QED
      BY <1>6, <2>2, <2>6, <3>1
  <2>7. CASE x = e /\ y = e
    BY <2>2, <2>3, <2>7
  <2>8. CASE x = e /\ y > e
    <3>1. a[y - 1] > a[i]
      BY <1>4, <2>2, <2>8
    <3>2. a[y - 1] \in Int
      BY <2>2, <2>3, <2>8
    <3>3. QED
      BY <2>2, <2>3, <2>8, <3>1, <3>2
  <2>9. CASE x > e /\ y > e
    <3>1. x - 1 <= y - 1
      BY <1>14, <2>1
    <3>2. QED
      BY <1>6, <2>2, <2>9, <3>1
  <2>10. QED
    BY <1>14, <2>1, <2>4, <2>5, <2>6, <2>7, <2>8, <2>9
<1>15. Sort!RoundsSettle'
  <2>1. \A x, y \in 0 .. i' - 1 : x <= y => b[x] <= b[y]
    <3>1. i' - 1 = i
      BY <1>1, <1>2
    <3>2. QED
      BY <1>14, <3>1
  <2>2. ASSUME NEW k \in i' .. sorted_num - 1 PROVE b[k] = given[k]
    <3>1. k \in D /\ k # e /\ k \notin e + 1 .. i /\ k \in i .. sorted_num - 1
      BY <1>1, <1>2, <1>4
    <3>2. QED
      BY <1>6, <1>7, <3>1
  <2>3. QED
    BY <1>1, <2>1, <2>2 DEF Sort!RoundsSettle, Sort!Bubble, Sort!Insertion,
                            Sort!Selection, Sort!SortedUpTo, b
<1>16. QED
  BY <1>1, <1>10, <1>11, <1>15, RoundInv DEF D, a, b

LEMMA SelectionStep == SortInv /\ Sort!selectionSort => SortInv'
<1> SUFFICES ASSUME SortInv, Sort!selectionSort PROVE SortInv'
  OBVIOUS
<1> USE SortConstants
<1> DEFINE D == Sort!Indices
           a == sorted_ar
           b == sorted_ar'
           K == {k \in i .. sorted_num - 1 : \A m \in i .. sorted_num - 1 : a[k] <= a[m]}
           e == Sort!Least(K)
<1>1. /\ sort = "selection" /\ i < sorted_num - 1 /\ i' = i + 1
      /\ b = Sort!swap(a, e, i)
      /\ UNCHANGED <<sort, sorted_num, given, calls>>
  BY DEF Sort!selectionSort, Sort!args, Sort!Selection
<1>2. /\ sorted_num \in Nat /\ i \in Nat /\ a \in [D -> SortValues]
      /\ D = 0 .. sorted_num - 1
  BY DEF SortInv, SortTypes, Sort!Indices
<1>3. \A k \in i .. sorted_num - 1 : k \in D /\ a[k] \in Int
  <2>1. \A k \in i .. sorted_num - 1 : k \in D
    BY <1>2
  <2>2. \A k \in D : a[k] \in Int
    <3> HIDE DEF a, D
    <3>1. QED
      BY <1>2
  <2>3. QED
    BY <2>1, <2>2
<1>4. e \in i .. sorted_num - 1 /\ \A m \in i .. sorted_num - 1 : a[e] <= a[m]
  <2>1. \E k \in i .. sorted_num - 1 : \A m \in i .. sorted_num - 1 : a[k] <= a[m]
    <3>1. i \in Int /\ sorted_num - 1 \in Int /\ i <= sorted_num - 1
      BY <1>1, <1>2
    <3> HIDE DEF a
    <3>2. QED
      BY <1>3, <3>1, LeastElement
  <2>2. K # {} /\ K \subseteq Nat
    BY <1>2, <2>1
  <2>3. e \in K
    <3> HIDE DEF K
    <3>1. QED
      BY <2>2, LeastIn
  <2> HIDE DEF e
  <2>4. QED
    BY <2>3
<1>5. i \in i .. sorted_num - 1 /\ e \in D /\ i \in D
  BY <1>1, <1>2, <1>3, <1>4
<1> HIDE DEF e, K, a, b, D
<1>6. /\ b \in [D -> SortValues]
      /\ \A k \in D : b[k] = IF k = e THEN a[i] ELSE IF k = i THEN a[e] ELSE a[k]
      /\ Rearranged(b, a, D)
  <2>1. Swapped(b, a, e, i, D, SortValues)
    BY <1>1, <1>2, <1>5, SwapIs
  <2>2. QED
    BY <2>1 DEF Swapped
<1>7. \A x, y \in D : x <= y /\ x < i => a[x] <= a[y]
  BY <1>1 DEF SortInv, Sort!RoundsSettle, Sort!Selection, a, D
<1>8. ASSUME NEW x \in D, NEW y \in D, x <= y, x < i + 1 PROVE b[x] <= b[y]
  <2>1. x \in Nat /\ y \in Nat /\ e >= i
    BY <1>2, <1>4
  <2>2. PICK z \in D : b[y] = a[z] /\ (y >= i => z >= i) /\ (y < i => z = y)
    BY <1>2, <1>5, <1>6, <2>1
  <2>3. CASE x < i
    <3>1. b[x] = a[x]
      <4>1. x # e /\ x # i
        BY <1>2, <1>4, <2>1, <2>3
      <4>2. QED
        BY <1>6, <1>8, <4>1
    <3>2. x <= z
      BY <1>2, <1>8, <2>1, <2>2, <2>3
    <3>3. QED
      BY <1>7, <2>2, <2>3, <3>1, <3>2
  <2>4. CASE x = i
    <3>1. b[x] = a[e]
      BY <1>6, <2>4
    <3>2. z \in i .. sorted_num - 1
      BY <1>2, <1>8, <2>1, <2>2, <2>4
    <3>3. QED
      BY <1>4, <2>2, <3>1, <3>2
  <2>5. QED
    BY <1>2, <1>8, <2>1, <2>3, <2>4
<1>9. Sort!RoundsSettle'
  <2>1. Sort!Indices' = D
    BY <1>1 DEF D, Sort!Indices
  <2>2. QED
    BY <1>1, <1>8, <2>1 DEF Sort!RoundsSettle, Sort!Bubble, Sort!Insertion, Sort!Selection, b
<1>10. i < sorted_num
  BY <1>1, <1>2
<1>11. QED
  BY <1>1, <1>6, <1>9, <1>10, RoundInv DEF D, a, b

-----------------------------------------------------------------------------
(* quickSort.                                                              *)
LEMMA TailIs ==
    ASSUME NEW X, NEW q \in Seq(X), q # <<>>
    PROVE  /\ Tail(q) \in Seq(X)
           /\ Len(q) \in Nat \ {0}
           /\ Len(Tail(q)) = Len(q) - 1
           /\ \A c \in 1 .. Len(q) - 1 : Tail(q)[c] = q[c + 1]
<1>1. Len(q) \in Nat \ {0}
  BY EmptySeq
<1>2. QED
  BY <1>1, HeadTailProperties

LEMMA TwoForOne ==
    ASSUME NEW X, NEW q \in Seq(X), q # <<>>, NEW A \in X, NEW B \in X, NEW w,
           w = <<A, B>> \o Tail(q)
    PROVE  /\ w \in Seq(X)
           /\ Len(w) = Len(q) + 1
           /\ w[1] = A /\ w[2] = B
           /\ \A c \in 2 .. Len(q) : w[c + 1] = q[c]
<1> DEFINE u == <<A, B>>
           v == Tail(q)
<1>1. u \in Seq(X) /\ Len(u) = 2 /\ u[1] = A /\ u[2] = B
  OBVIOUS
<1>2. /\ v \in Seq(X) /\ Len(q) \in Nat \ {0} /\ Len(v) = Len(q) - 1
      /\ \A c \in 1 .. Len(q) - 1 : v[c] = q[c + 1]
  BY TailIs
<1> HIDE DEF u, v
<1>3. w = u \o v
  BY DEF u, v
<1> HIDE <1>3
<1>4. /\ u \o v \in Seq(X) /\ Len(u \o v) = Len(u) + Len(v)
      /\ \A c \in 1 .. Len(u) + Len(v) : (u \o v)[c] = IF c <= Len(u) THEN u[c] ELSE v[c - Len(u)]
  BY <1>1, <1>2, ConcatProperties
<1>5. /\ w \in Seq(X) /\ Len(w) = Len(q) + 1
      /\ \A c \in 1 .. Len(q) + 1 : w[c] = IF c <= 2 THEN u[c] ELSE v[c - 2]
  <2>1. Len(u) = 2 /\ Len(u) + Len(v) = Len(q) + 1
    BY <1>1, <1>2
  <2>2. /\ w \in Seq(X) /\ Len(w) = Len(u) + Len(v)
        /\ \A c \in 1 .. Len(u) + Len(v) : w[c] = IF c <= Len(u) THEN u[c] ELSE v[c - Len(u)]
    BY <1>3, <1>4, Zenon
  <2>3. QED
    BY <2>1, <2>2, Zenon
<1>6. w[1] = A /\ w[2] = B
  BY <1>1, <1>2, <1>5
<1>7. ASSUME NEW c \in 2 .. Len(q) PROVE w[c + 1] = q[c]
  <2> DEFINE e == c + 1
             d == c - 1
  <2>1. e \in 1 .. Len(q) + 1 /\ ~(e <= 2) /\ e - 2 = d
    BY <1>2
  <2> HIDE DEF e
  <2>2. w[e] = v[d]
    BY <1>5, <2>1
  <2>3. d \in 1 .. Len(q) - 1 /\ d + 1 = c
    BY <1>2
  <2> HIDE DEF d
  <2>4. v[d] = q[c]
    BY <1>2, <2>3
  <2>5. QED
    BY <2>2, <2>4 DEF e
<1>8. QED
  BY <1>5, <1>6, <1>7

(* What is changed inside the segment of the first call stays out of the   *)
(* way of the others.                                                      *)
ChangedOnlyIn(lo, hi, b, a) ==
    /\ \A k \in Sort!Indices : k \notin lo .. hi => b[k] = a[k]
    /\ \A k \in lo .. hi : \E z \in lo .. hi : b[k] = a[z]

OrderedBeyond(lo, hi, b, q) ==
    \A x, y \in Sort!Indices : x < y /\ b[x] > b[y] =>
        \/ x \in lo .. hi /\ y \in lo .. hi
        \/ \E c \in 2 .. Len(q) : x \in Segment(q[c]) /\ y \in Segment(q[c])

LEMMA OrderElsewhere ==
    ASSUME NEW X, NEW q \in Seq(X), q # <<>>, Apart(q),
           NEW lo \in Int, NEW hi \in Int, Segment(q[1]) = lo .. hi,
           Sort!Indices \subseteq Int,
           NEW a, NEW b, OrderedBut(a, q), lo .. hi \subseteq Sort!Indices,
           ChangedOnlyIn(lo, hi, b, a)
    PROVE  OrderedBeyond(lo, hi, b, q)
<1> SUFFICES ASSUME NEW x \in Sort!Indices, NEW y \in Sort!Indices, x < y, b[x] > b[y],
                    ~(x \in lo .. hi /\ y \in lo .. hi)
             PROVE  \E c \in 2 .. Len(q) : x \in Segment(q[c]) /\ y \in Segment(q[c])
  BY DEF OrderedBeyond
<1>0. /\ x \in Int /\ y \in Int
      /\ \A z \in lo .. hi : z \in Int /\ z \in Sort!Indices /\ lo <= z /\ z <= hi
      /\ x \notin lo .. hi => (x < lo \/ hi < x) /\ b[x] = a[x]
      /\ y \notin lo .. hi => (y < lo \/ hi < y) /\ b[y] = a[y]
  BY DEF ChangedOnlyIn
<1>1. 1 \in 1 .. Len(q) /\ \A c \in 1 .. Len(q) : c # 1 => c \in 2 .. Len(q)
  BY TailIs
<1>2. ASSUME NEW c \in 1 .. Len(q), NEW z \in lo .. hi, z \in Segment(q[c]) PROVE c = 1
  BY <1>1, <1>2 DEF Apart
<1>3. CASE x \notin lo .. hi /\ y \notin lo .. hi
  <2>1. PICK c \in 1 .. Len(q) : x \in Segment(q[c]) /\ y \in Segment(q[c])
    BY <1>0, <1>3 DEF OrderedBut
  <2>2. c # 1
    BY <1>3, <2>1
  <2>3. QED
    BY <1>1, <2>1, <2>2
<1>4. CASE x \in lo .. hi /\ y \notin lo .. hi
  <2>1. PICK z \in lo .. hi : b[x] = a[z]
    BY <1>4 DEF ChangedOnlyIn
  <2>2. z < y /\ z \in Sort!Indices /\ b[y] = a[y]
    BY <1>0, <1>4
  <2>3. PICK c \in 1 .. Len(q) : z \in Segment(q[c]) /\ y \in Segment(q[c])
    BY <2>1, <2>2 DEF OrderedBut
  <2>4. c = 1
    BY <1>2, <2>3
  <2>5. QED
    BY <1>4, <2>3, <2>4
<1>5. CASE x \notin lo .. hi /\ y \in lo .. hi
  <2>1. PICK z \in lo .. hi : b[y] = a[z]
    BY <1>5 DEF ChangedOnlyIn
  <2>2. x < z /\ z \in Sort!Indices /\ b[x] = a[x]
    BY <1>0, <1>5
  <2>3. PICK c \in 1 .. Len(q) : x \in Segment(q[c]) /\ z \in Segment(q[c])
    BY <2>1, <2>2 DEF OrderedBut
  <2>4. c = 1
    BY <1>2, <2>3
  <2>5. QED
    BY <1>5, <2>3, <2>4
<1>6. QED
  BY <1>3, <1>4, <1>5

(* The segment of the first call is in the array.                          *)
CallType == [from : 0 .. sorted_num, num : 0 .. sorted_num]

LEMMA FirstCall ==
    ASSUME SortTypes, calls # <<>>
    PROVE  /\ sort = "quick"
           /\ calls \in Seq(CallType)
           /\ Sort!from \in Nat /\ Sort!n \in Nat /\ Sort!from + Sort!n <= sorted_num
           /\ Segment(calls[1]) = Sort!from .. Sort!from + Sort!n - 1
           /\ \A k \in Int : k \in 0 .. Sort!n - 1 =>
                 /\ Sort!from + k \in Sort!Indices
                 /\ sorted_ar[Sort!from + k] \in Int
<1>1. sort = "quick" /\ calls \in Seq(CallType) /\ sorted_num \in Nat
  BY SortConstants DEF SortTypes, CallType
<1>2. 1 \in 1 .. Len(calls)
  BY <1>1, TailIs
<1>3. calls[1] \in CallType /\ calls[1].from + calls[1].num <= sorted_num
  BY <1>1, <1>2 DEF SortTypes
<1>4. Sort!from \in Nat /\ Sort!n \in Nat /\ Sort!from + Sort!n <= sorted_num
  BY <1>1, <1>3 DEF Sort!from, Sort!n, CallType
<1>5. Segment(calls[1]) = Sort!from .. Sort!from + Sort!n - 1
  BY DEF Segment, Sort!from, Sort!n
<1>6. \A x \in Sort!Indices : sorted_ar[x] \in Int
  BY SortConstants DEF SortTypes
<1>7. \A k \in Int : k \in 0 .. Sort!n - 1 => Sort!from + k \in Sort!Indices
  BY <1>1, <1>4 DEF Sort!Indices
<1>8. QED
  BY <1>1, <1>4, <1>5, <1>6, <1>7

(* A step of quickSort.                                                    *)
LEMMA QuickRest ==
    ASSUME SortInv, sort = "quick", UNCHANGED <<sort, sorted_num, given>>,
           sorted_ar' \in [Sort!Indices -> SortValues],
           Rearranged(sorted_ar', sorted_ar, Sort!Indices),
           i' \in 0 .. sorted_num,
           calls' \in Seq(CallType),
           \A c \in 1 .. Len(calls') : calls'[c].from + calls'[c].num <= sorted_num,
           QuickInv'
    PROVE  SortInv'
<1> USE DEF SortInv
<1>1. SortTypes'
  BY DEF SortTypes, Sort!Indices, CallType
<1>2. SortKept'
  BY RearrangedAgain DEF SortKept, Sort!Indices
<1>3. Sort!RoundsSettle'
  BY DEF Sort!RoundsSettle, Sort!Bubble, Sort!Insertion, Sort!Selection
<1>4. QED
  BY <1>1, <1>2, <1>3

LEMMA CallStep == SortInv /\ Sort!Call => SortInv'
<1> SUFFICES ASSUME SortInv, Sort!Call PROVE SortInv'
  OBVIOUS
<1> DEFINE D == Sort!Indices
           a == sorted_ar
           q == calls
           f == Sort!from
           m == Sort!n
<1>1. /\ q # <<>> /\ i = 0
      /\ UNCHANGED <<sort, sorted_num, given, sorted_ar>>
      /\ IF m <= 1 THEN q' = Tail(q) /\ i' = i
                   ELSE i' = 1 /\ left' = 0 /\ right' = m - 2 /\ q' = q
  BY DEF Sort!Call, Sort!args
<1>2. /\ sort = "quick" /\ q \in Seq(CallType) /\ f \in Nat /\ m \in Nat
      /\ f + m <= sorted_num
      /\ Segment(q[1]) = f .. f + m - 1
      /\ \A k \in Int : k \in 0 .. m - 1 => a[f + k] \in Int
  BY <1>1, FirstCall DEF SortInv
<1>3. /\ Apart(q) /\ OrderedBut(a, q)
      /\ a \in [D -> SortValues] /\ i \in 0 .. sorted_num /\ sorted_num \in Nat
      /\ \A c \in 1 .. Len(q) : q[c].from + q[c].num <= sorted_num
  BY <1>2, SortConstants DEF SortInv, SortTypes, QuickInv
<1>4. Rearranged(sorted_ar', sorted_ar, Sort!Indices)
  BY <1>1, RearrangedSelf
<1>5. CASE m <= 1
  <2> DEFINE w == Tail(q)
  <2>1. /\ w \in Seq(CallType) /\ Len(q) \in Nat \ {0} /\ Len(w) = Len(q) - 1
        /\ \A c \in 1 .. Len(q) - 1 : w[c] = q[c + 1]
    BY <1>1, <1>2, TailIs
  <2>2. q' = w /\ i' = 0
    BY <1>1, <1>5
  <2> HIDE DEF w
  <2>3. \A c \in 1 .. Len(w) : w[c] = q[c + 1] /\ c + 1 \in 1 .. Len(q)
    BY <2>1
  <2>4. \A c \in 1 .. Len(w) : w[c].from + w[c].num <= sorted_num
    BY <1>3, <2>3
  <2>5. Apart(w)
    <3> SUFFICES ASSUME NEW c \in 1 .. Len(w), NEW e \in 1 .. Len(w), c # e
                 PROVE  Segment(w[c]) \cap Segment(w[e]) = {}
      BY DEF Apart
    <3>1. c + 1 # e + 1
      OBVIOUS
    <3>2. QED
      BY <1>3, <2>3, <3>1 DEF Apart
  <2>6. OrderedBut(a, w)
    <3> SUFFICES ASSUME NEW x \in Sort!Indices, NEW y \in Sort!Indices, x < y, a[x] > a[y]
                 PROVE  \E c \in 1 .. Len(w) : x \in Segment(w[c]) /\ y \in Segment(w[c])
      BY DEF OrderedBut
    <3>1. PICK c \in 1 .. Len(q) : x \in Segment(q[c]) /\ y \in Segment(q[c])
      BY <1>3 DEF OrderedBut
    <3>2. c # 1
      BY <1>2, <1>5, <3>1
    <3> DEFINE e == c - 1
    <3>3. e \in 1 .. Len(w) /\ e + 1 = c
      BY <2>1, <3>2
    <3> HIDE DEF e
    <3>4. w[e] = q[c]
      BY <2>3, <3>3
    <3>5. QED
      BY <3>1, <3>3, <3>4
  <2>7. QuickInv'
    <3>1. Apart(q)'
      BY <2>2, <2>5 DEF Apart
    <3>2. OrderedBut(a, q)'
      BY <1>1, <2>2, <2>6 DEF OrderedBut, Sort!Indices
    <3>3. i' # 1
      BY <2>2
    <3>4. QED
      BY <3>1, <3>2, <3>3 DEF QuickInv
  <2>8. QED
    BY <1>1, <1>2, <1>3, <1>4, <2>1, <2>2, <2>4, <2>7, QuickRest
<1>6. CASE ~(m <= 1)
  <2>1. i' = 1 /\ left' = 0 /\ right' = m - 2 /\ q' = q
    BY <1>1, <1>6
  <2>2. i' \in 0 .. sorted_num
    BY <1>2, <1>3, <1>6, <2>1
  <2>3. Passed(a, q[1])'
    <3>1. \A k \in 0 .. left' - 1 : FALSE
      BY <2>1
    <3>2. \A k \in right' + 1 .. m - 1 : k = m - 1 /\ a[f + k] \in Int /\ f + k = f + m - 1
      BY <1>2, <1>6, <2>1
    <3>3. left' \in 0 .. m - 1 /\ right' \in 0 .. m - 2 /\ m > 1
      BY <1>2, <1>6, <2>1
    <3>4. m = q'[1].num /\ f = q'[1].from /\ a' = a
      BY <1>1, <2>1 DEF Sort!n, Sort!from
    <3> HIDE DEF f, m, a, q
    <3>5. \A k \in right' + 1 .. m - 1 : a[f + k] >= a[f + m - 1]
      BY <3>2
    <3>6. QED
      BY <3>1, <3>3, <3>4, <3>5 DEF Passed, a, q
  <2>4. QuickInv'
    BY <1>1, <1>3, <2>1, <2>3 DEF QuickInv, Apart, OrderedBut, Sort!Indices
  <2>5. QED
    BY <1>1, <1>2, <1>3, <1>4, <2>1, <2>2, <2>4, QuickRest
<1>7. QED
  BY <1>5, <1>6

(* Where the two while loops stop, and what they have passed.              *)
LEMMA LoopsStop ==
    ASSUME SortInv, calls # <<>>, i = 1
    PROVE  /\ Sort!n > 1
           /\ left \in 0 .. Sort!n - 1 /\ right \in 0 .. Sort!n - 2
           /\ Sort!StopsLeft \in left .. Sort!n - 1
           /\ sorted_ar[Sort!from + Sort!StopsLeft] >= Sort!key
           /\ \A k \in 0 .. Sort!StopsLeft - 1 : sorted_ar[Sort!from + k] <= Sort!key
           /\ \A r \in Sort!StopsRight :
                 /\ r \in Int /\ r <= right
                 /\ r >= 0 => sorted_ar[Sort!from + r] <= Sort!key
                 /\ \A k \in 0 .. Sort!n - 1 : k > r => sorted_ar[Sort!from + k] >= Sort!key
<1> DEFINE a == sorted_ar
           f == Sort!from
           m == Sort!n
           h == Sort!key
           S == {k \in left .. m - 1 : a[f + k] >= h}
           T == {k \in -f .. right : a[f + k] <= h}
           z == Sort!StopsLeft
<1>1. /\ f \in Nat /\ m \in Nat
      /\ \A k \in Int : k \in 0 .. m - 1 => a[f + k] \in Int
  BY FirstCall DEF SortInv
<1>2. /\ m > 1 /\ left \in 0 .. m - 1 /\ right \in 0 .. m - 2
      /\ \A k \in 0 .. left - 1 : a[f + k] <= h
      /\ \A k \in right + 1 .. m - 1 : a[f + k] >= h
  <2>1. Passed(sorted_ar, calls[1])
    BY FirstCall DEF SortInv, QuickInv
  <2>2. QED
    BY <2>1 DEF Passed, Sort!from, Sort!n, Sort!key
<1>3. h = a[f + m - 1] /\ h \in Int
  <2>1. h = a[f + m - 1]
    BY DEF Sort!key
  <2>2. m - 1 \in 0 .. m - 1 /\ f + (m - 1) = f + m - 1
    BY <1>1, <1>2
  <2>3. a[f + (m - 1)] \in Int
    BY <1>1, <2>2
  <2>4. QED
    BY <2>1, <2>2, <2>3
<1>4. z = Sort!Least(S)
  BY DEF Sort!StopsLeft
<1>5. Sort!StopsRight = IF T # {} THEN {Sort!Greatest(T)} ELSE {-f - 1, -f - 2}
  BY DEF Sort!StopsRight
<1> HIDE DEF a, f, m, h, z
<1>6. ASSUME NEW k \in 0 .. m - 1 PROVE a[f + k] \in Int
  <2>1. k \in Int
    OBVIOUS
  <2>2. QED
    BY <1>1, <2>1
<1>7. z \in S /\ \A x \in S : z <= x
  <2>1. m - 1 \in left .. m - 1 /\ f + (m - 1) = f + m - 1
    BY <1>1, <1>2
  <2>2. m - 1 \in S
    BY <1>3, <2>1
  <2>3. S \subseteq Nat
    BY <1>2
  <2> HIDE DEF S
  <2>4. QED
    BY <1>4, <2>2, <2>3, LeastIn
<1>8. z \in left .. m - 1 /\ a[f + z] >= h
  BY <1>7
<1>9. ASSUME NEW k \in 0 .. z - 1 PROVE a[f + k] <= h
  <2>1. CASE k < left
    BY <1>2, <2>1
  <2>2. CASE k >= left
    <3>1. k \in left .. m - 1 /\ k \in 0 .. m - 1 /\ ~(z <= k)
      BY <1>1, <1>2, <1>8, <2>2
    <3>2. ~(a[f + k] >= h)
      BY <1>7, <3>1
    <3>3. QED
      BY <1>3, <1>6, <3>1, <3>2
  <2>3. QED
    BY <1>2, <2>1, <2>2
<1>10. ASSUME NEW r \in Sort!StopsRight
       PROVE  /\ r \in Int /\ r <= right
              /\ r >= 0 => a[f + r] <= h
              /\ \A k \in 0 .. m - 1 : k > r => a[f + k] >= h
  <2>1. /\ r \in Int /\ r <= right
        /\ r >= 0 => a[f + r] <= h
        /\ \A k \in T : k <= r
    <3>1. CASE T # {}
      <4>1. r = Sort!Greatest(T)
        BY <1>5, <3>1
      <4>2. T \subseteq Int /\ right \in Int /\ \A x \in T : x <= right
        BY <1>1, <1>2
      <4>3. r \in T /\ \A x \in T : x <= r
        <5> HIDE DEF T
        <5>1. QED
          BY <3>1, <4>1, <4>2, GreatestIn
      <4>4. r \in -f .. right /\ a[f + r] <= h
        BY <4>3
      <4>5. r \in Int /\ r <= right
        BY <1>1, <1>2, <4>4
      <4> HIDE DEF T
      <4>6. QED
        BY <4>3, <4>4, <4>5
    <3>2. CASE T = {}
      <4>1. r \in {-f - 1, -f - 2}
        BY <1>5, <3>2
      <4>2. r \in Int /\ r < 0 /\ r <= right
        BY <1>1, <1>2, <4>1
      <4>3. QED
        BY <3>2, <4>2
    <3>3. QED
      BY <3>1, <3>2
  <2>2. ASSUME NEW k \in 0 .. m - 1, k > r PROVE a[f + k] >= h
    <3>1. CASE k \in right + 1 .. m - 1
      BY <1>2, <3>1
    <3>2. CASE k \notin right + 1 .. m - 1
      <4>1. k \in -f .. right
        BY <1>1, <1>2, <3>2
      <4>2. k \notin T
        BY <2>1, <2>2
      <4>3. ~(a[f + k] <= h)
        BY <4>1, <4>2
      <4>4. QED
        BY <1>3, <1>6, <4>3
    <3>3. QED
      BY <3>1, <3>2
  <2>3. QED
    BY <2>1, <2>2
<1>11. QED
  BY <1>2, <1>8, <1>9, <1>10 DEF a, f, m, h, z

(* Two elements of the segment are swapped.                                *)
LEMMA SwapInside ==
    ASSUME SortInv, calls # <<>>, i = 1, sorted_num \in Nat,
           NEW x \in 0 .. Sort!n - 1, NEW y \in 0 .. Sort!n - 1, NEW b,
           b = Sort!swap(sorted_ar, Sort!from + x, Sort!from + y)
    PROVE  /\ b \in [Sort!Indices -> SortValues]
           /\ Rearranged(b, sorted_ar, Sort!Indices)
           /\ \A k \in 0 .. Sort!n - 1 :
                 b[Sort!from + k] = IF k = x THEN sorted_ar[Sort!from + y]
                                    ELSE IF k = y THEN sorted_ar[Sort!from + x]
                                    ELSE sorted_ar[Sort!from + k]
           /\ OrderedBeyond(Sort!from, Sort!from + Sort!n - 1, b, calls)
<1> DEFINE a == sorted_ar
           f == Sort!from
           m == Sort!n
           D == Sort!Indices
           fx == f + x
           fy == f + y
           lo == f
           hi == f + m - 1
<1>1. /\ sort = "quick" /\ calls \in Seq(CallType) /\ f \in Nat /\ m \in Nat
      /\ f + m <= sorted_num
      /\ Segment(calls[1]) = f .. f + m - 1
      /\ \A k \in Int : k \in 0 .. m - 1 => f + k \in D
  BY FirstCall DEF SortInv
<1>2. /\ Apart(calls) /\ OrderedBut(a, calls) /\ a \in [D -> SortValues]
      /\ D = 0 .. sorted_num - 1
  BY <1>1 DEF SortInv, SortTypes, QuickInv, Sort!Indices
<1>3. /\ fx \in D /\ fy \in D /\ fx \in lo .. hi /\ fy \in lo .. hi
      /\ lo \in Int /\ hi \in Int /\ lo .. hi \subseteq D
  BY <1>1, <1>2
<1>4. b = Sort!swap(a, fx, fy)
  OBVIOUS
<1>5. \A k \in 0 .. m - 1 : /\ f + k \in D /\ (f + k = fx <=> k = x) /\ (f + k = fy <=> k = y)
  BY <1>1, <1>2
<1> HIDE DEF a, D, fx, fy, lo, hi
<1>6. Swapped(b, a, fx, fy, D, SortValues)
  BY <1>2, <1>3, <1>4, SwapIs
<1>7. /\ b \in [D -> SortValues] /\ Rearranged(b, a, D)
      /\ \A k \in D : b[k] = IF k = fx THEN a[fy] ELSE IF k = fy THEN a[fx] ELSE a[k]
  BY <1>6 DEF Swapped
<1>8. \A k \in 0 .. m - 1 :
         b[f + k] = IF k = x THEN a[fy] ELSE IF k = y THEN a[fx] ELSE a[f + k]
  BY <1>5, <1>7
<1>9. \A k \in D : k \notin lo .. hi => b[k] = a[k]
  BY <1>3, <1>7
<1>10. \A k \in lo .. hi : \E z \in lo .. hi : b[k] = a[z]
  BY <1>3, <1>7
<1>11. OrderedBeyond(lo, hi, b, calls)
  <2>1. Sort!Indices \subseteq Int /\ Segment(calls[1]) = lo .. hi
    BY <1>1, <1>2 DEF D, lo, hi
  <2>2. ChangedOnlyIn(lo, hi, b, a)
    BY <1>9, <1>10 DEF ChangedOnlyIn, D
  <2>3. lo .. hi \subseteq Sort!Indices
    BY <1>3 DEF D
  <2>4. QED
    BY <1>1, <1>2, <1>3, <2>1, <2>2, <2>3, OrderElsewhere
<1>12. QED
  BY <1>7, <1>8, <1>11 DEF a, D, fx, fy, lo, hi

LEMMA PartitionStep == SortInv /\ Sort!Round => SortInv'
<1> SUFFICES ASSUME SortInv, Sort!Round PROVE SortInv'
  OBVIOUS
<1> DEFINE a == sorted_ar
           b == sorted_ar'
           q == calls
           f == Sort!from
           m == Sort!n
           h == Sort!key
           z == Sort!StopsLeft
<1>1. q # <<>> /\ i = 1 /\ UNCHANGED <<sort, sorted_num, given, i, calls>>
  BY DEF Sort!Round, Sort!args
<1>2. PICK r \in Sort!StopsRight :
         /\ z < r
         /\ b = Sort!swap(a, f + z, f + r)
         /\ left' = z + 1
         /\ right' = r - 1
  BY DEF Sort!Round
<1>3. /\ sort = "quick" /\ q \in Seq(CallType) /\ f \in Nat /\ m \in Nat
      /\ Segment(q[1]) = f .. f + m - 1 /\ 1 \in 1 .. Len(q)
  BY <1>1, FirstCall, TailIs DEF SortInv
<1>4. /\ Apart(q) /\ i \in 0 .. sorted_num /\ sorted_num \in Nat
      /\ \A c \in 1 .. Len(q) : q[c].from + q[c].num <= sorted_num
  <2>1. SortTypes /\ QuickInv
    BY <1>3 DEF SortInv
  <2>2. i \in 0 .. sorted_num /\ sorted_num \in Nat
    BY <2>1, SortConstants DEF SortTypes
  <2>3. Apart(q) /\ \A c \in 1 .. Len(q) : q[c].from + q[c].num <= sorted_num
    BY <1>3, <2>1 DEF QuickInv, SortTypes
  <2>4. QED
    BY <2>2, <2>3
<1>5. /\ m > 1
      /\ left \in 0 .. m - 1 /\ right \in 0 .. m - 2
      /\ z \in left .. m - 1
      /\ a[f + z] >= h
      /\ \A k \in 0 .. z - 1 : a[f + k] <= h
      /\ r \in Int /\ r <= right
      /\ r >= 0 => a[f + r] <= h
      /\ \A k \in 0 .. m - 1 : k > r => a[f + k] >= h
  BY <1>1, LoopsStop
<1>6. h = a[f + m - 1] /\ f + (m - 1) = f + m - 1
  BY <1>3 DEF Sort!key
<1>7. m = q'[1].num /\ f = q'[1].from
  BY <1>1 DEF Sort!n, Sort!from
<1> HIDE DEF z
<1>8. z \in 0 .. m - 1 /\ r \in 0 .. m - 1 /\ m - 1 \in 0 .. m - 1 /\ r < m - 1 /\ z < m - 1
  BY <1>2, <1>3, <1>5
<1>9. /\ b \in [Sort!Indices -> SortValues]
      /\ Rearranged(b, a, Sort!Indices)
      /\ \A k \in 0 .. m - 1 :
            b[f + k] = IF k = z THEN a[f + r] ELSE IF k = r THEN a[f + z] ELSE a[f + k]
      /\ OrderedBeyond(f, f + m - 1, b, q)
  BY <1>1, <1>2, <1>4, <1>8, SwapInside
<1> HIDE DEF a, b, f, m, h, q
<1>10. OrderedBut(b, q)
  <2> SUFFICES ASSUME NEW s \in Sort!Indices, NEW t \in Sort!Indices, s < t, b[s] > b[t]
               PROVE  \E c \in 1 .. Len(q) : s \in Segment(q[c]) /\ t \in Segment(q[c])
    BY DEF OrderedBut
  <2>1. CASE s \in f .. f + m - 1 /\ t \in f .. f + m - 1
    BY <1>3, <2>1
  <2>2. CASE ~(s \in f .. f + m - 1 /\ t \in f .. f + m - 1)
    <3>1. PICK c \in 2 .. Len(q) : s \in Segment(q[c]) /\ t \in Segment(q[c])
      BY <1>9, <2>2 DEF OrderedBeyond
    <3>2. QED
      BY <3>1
  <2>3. QED
    BY <2>1, <2>2
<1>11. b[f + m - 1] = h
  <2>1. b[f + (m - 1)] = a[f + (m - 1)]
    BY <1>8, <1>9
  <2>2. QED
    BY <1>6, <2>1
<1>12. ASSUME NEW k \in 0 .. z PROVE b[f + k] <= h
  <2>1. CASE k = z
    BY <1>5, <1>8, <1>9, <2>1
  <2>2. CASE k # z
    <3>1. k \in 0 .. z - 1 /\ k \in 0 .. m - 1 /\ k # r
      BY <1>2, <1>5, <1>8, <2>2
    <3>2. b[f + k] = a[f + k]
      BY <1>9, <2>2, <3>1
    <3>3. QED
      BY <1>5, <3>1, <3>2
  <2>3. QED
    BY <2>1, <2>2
<1>13. ASSUME NEW k \in r .. m - 1 PROVE b[f + k] >= h
  <2>1. k \in 0 .. m - 1 /\ k # z
    BY <1>2, <1>5, <1>8
  <2>2. CASE k = r
    BY <1>5, <1>9, <2>1, <2>2
  <2>3. CASE k # r
    <3>1. b[f + k] = a[f + k] /\ k > r
      BY <1>5, <1>9, <2>1, <2>3
    <3>2. QED
      BY <1>5, <2>1, <3>1
  <2>4. QED
    BY <2>2, <2>3
<1>14. /\ m > 1 /\ left' \in 0 .. m - 1 /\ right' \in 0 .. m - 2
       /\ left' - 1 = z /\ right' + 1 = r
  BY <1>2, <1>3, <1>5, <1>8
<1>15. Passed(a, q[1])'
  <2>1. \A k \in 0 .. left' - 1 : b[f + k] <= b[f + m - 1]
    BY <1>11, <1>12, <1>14
  <2>2. \A k \in right' + 1 .. m - 1 : b[f + k] >= b[f + m - 1]
    BY <1>11, <1>13, <1>14
  <2>3. QED
    BY <1>7, <1>14, <2>1, <2>2 DEF Passed, a, b, q
<1>16. QuickInv'
  <2>1. Apart(q)'
    BY <1>1, <1>4 DEF Apart, q
  <2>2. OrderedBut(a, q)'
    BY <1>1, <1>10 DEF OrderedBut, Sort!Indices, a, b, q
  <2>3. QED
    BY <1>15, <2>1, <2>2 DEF QuickInv, a, q
<1>17. QED
  BY <1>1, <1>3, <1>4, <1>9, <1>16, QuickRest DEF a, b, q

(* The key goes between the two segments, which the next calls are for.    *)
LEMMA SplitStep == SortInv /\ Sort!Split => SortInv'
<1> SUFFICES ASSUME SortInv, Sort!Split PROVE SortInv'
  OBVIOUS
<1> DEFINE a == sorted_ar
           b == sorted_ar'
           q == calls
           w == calls'
           f == Sort!from
           m == Sort!n
           h == Sort!key
           z == Sort!StopsLeft
           A == [from |-> f, num |-> z]
           B == [from |-> f + z + 1, num |-> m - z - 1]
<1>1. /\ q # <<>> /\ i = 1 /\ i' = 0 /\ UNCHANGED <<sort, sorted_num, given>>
      /\ b = Sort!swap(a, f + z, f + m - 1)
      /\ w = <<A, B>> \o Tail(q)
  BY DEF Sort!Split, Sort!args
<1>2. PICK r \in Sort!StopsRight : z >= r
  BY DEF Sort!Split
<1>3. /\ sort = "quick" /\ q \in Seq(CallType) /\ f \in Nat /\ m \in Nat
      /\ f + m <= sorted_num
      /\ Segment(q[1]) = f .. f + m - 1 /\ 1 \in 1 .. Len(q) /\ Len(q) \in Nat \ {0}
      /\ \A k \in Int : k \in 0 .. m - 1 => a[f + k] \in Int
  BY <1>1, FirstCall, TailIs DEF SortInv
<1>4. /\ Apart(q) /\ i \in 0 .. sorted_num /\ sorted_num \in Nat
      /\ \A c \in 1 .. Len(q) : q[c].from + q[c].num <= sorted_num
  <2>1. SortTypes /\ QuickInv
    BY <1>3 DEF SortInv
  <2>2. i \in 0 .. sorted_num /\ sorted_num \in Nat
    BY <2>1, SortConstants DEF SortTypes
  <2>3. Apart(q) /\ \A c \in 1 .. Len(q) : q[c].from + q[c].num <= sorted_num
    BY <1>3, <2>1 DEF QuickInv, SortTypes
  <2>4. QED
    BY <2>2, <2>3
<1>5. /\ m > 1
      /\ z \in 0 .. m - 1
      /\ a[f + z] >= h
      /\ \A k \in 0 .. z - 1 : a[f + k] <= h
      /\ r \in Int
      /\ \A k \in 0 .. m - 1 : k > r => a[f + k] >= h
  <2>1. /\ m > 1 /\ left \in 0 .. m - 1
        /\ z \in left .. m - 1
        /\ a[f + z] >= h
        /\ \A k \in 0 .. z - 1 : a[f + k] <= h
        /\ r \in Int
        /\ \A k \in 0 .. m - 1 : k > r => a[f + k] >= h
    BY <1>1, <1>2, LoopsStop, Zenon
  <2> HIDE DEF a, f, m, h, z
  <2>2. z \in 0 .. m - 1
    BY <1>3, <2>1
  <2>3. QED
    BY <2>1, <2>2
<1>6. h = a[f + (m - 1)] /\ f + (m - 1) = f + m - 1 /\ m - 1 \in 0 .. m - 1
  BY <1>3, <1>5 DEF Sort!key
<1> HIDE DEF z
<1>7. A \in CallType /\ B \in CallType /\ A.from + A.num <= sorted_num
      /\ B.from + B.num <= sorted_num
  BY <1>3, <1>4, <1>5 DEF CallType
<1>8. /\ Segment(A) = f .. f + z - 1 /\ Segment(B) = f + z + 1 .. f + m - 1
  BY <1>3, <1>5 DEF Segment
<1>9. /\ b \in [Sort!Indices -> SortValues]
      /\ Rearranged(b, a, Sort!Indices)
      /\ \A k \in 0 .. m - 1 :
            b[f + k] = IF k = z THEN a[f + (m - 1)] ELSE IF k = m - 1 THEN a[f + z]
                       ELSE a[f + k]
      /\ OrderedBeyond(f, f + m - 1, b, q)
  <2> DEFINE y == m - 1
  <2>1. y \in 0 .. m - 1 /\ b = Sort!swap(a, f + z, f + y)
    BY <1>1, <1>6
  <2> HIDE DEF y
  <2>2. /\ b \in [Sort!Indices -> SortValues]
        /\ Rearranged(b, a, Sort!Indices)
        /\ \A k \in 0 .. m - 1 :
              b[f + k] = IF k = z THEN a[f + y] ELSE IF k = y THEN a[f + z] ELSE a[f + k]
        /\ OrderedBeyond(f, f + m - 1, b, q)
    BY <1>1, <1>4, <1>5, <2>1, SwapInside
  <2>3. QED
    BY <2>2 DEF y
<1> HIDE DEF A, B
<1>10. /\ w \in Seq(CallType) /\ Len(w) = Len(q) + 1 /\ w[1] = A /\ w[2] = B
       /\ \A c \in 2 .. Len(q) : w[c + 1] = q[c]
  BY <1>1, <1>3, <1>7, TwoForOne
<1> HIDE DEF a, b, f, m, h, q, w
<1>11. ASSUME NEW c \in 1 .. Len(w), c # 1, c # 2
       PROVE  \E e \in 2 .. Len(q) : w[c] = q[e] /\ c = e + 1
  <2> DEFINE e == c - 1
  <2>1. e \in 2 .. Len(q) /\ e + 1 = c
    BY <1>3, <1>10, <1>11
  <2> HIDE DEF e
  <2>2. w[c] = q[e]
    BY <1>10, <2>1
  <2>3. QED
    BY <2>1, <2>2
<1>12. \A c \in 1 .. Len(w) : w[c].from + w[c].num <= sorted_num
  <2> SUFFICES ASSUME NEW c \in 1 .. Len(w) PROVE w[c].from + w[c].num <= sorted_num
    OBVIOUS
  <2>1. CASE c = 1 \/ c = 2
    BY <1>7, <1>10, <2>1
  <2>2. CASE c # 1 /\ c # 2
    <3>1. PICK e \in 2 .. Len(q) : w[c] = q[e]
      BY <1>11, <2>2
    <3>2. e \in 1 .. Len(q)
      BY <1>3
    <3>3. QED
      BY <1>4, <3>1, <3>2
  <2>3. QED
    BY <2>1, <2>2
<1>13. ASSUME NEW k \in 0 .. z PROVE b[f + k] <= h
  <2>1. k \in 0 .. m - 1 /\ h \in Int
    <3>1. k \in 0 .. m - 1
      BY <1>3, <1>5
    <3>2. m - 1 \in Int
      BY <1>3
    <3>3. QED
      BY <1>3, <1>6, <3>1, <3>2
  <2>2. CASE k = z
    BY <1>6, <1>9, <2>1, <2>2
  <2>3. CASE k # z
    <3>1. k \in 0 .. z - 1 /\ k # m - 1
      BY <1>5, <2>3
    <3>2. b[f + k] = a[f + k]
      BY <1>9, <2>1, <2>3, <3>1
    <3>3. QED
      BY <1>5, <3>1, <3>2
  <2>4. QED
    BY <2>2, <2>3
<1>14. ASSUME NEW k \in z .. m - 1 PROVE b[f + k] >= h
  <2>1. k \in 0 .. m - 1 /\ h \in Int
    <3>1. k \in 0 .. m - 1
      BY <1>3, <1>5
    <3>2. m - 1 \in Int
      BY <1>3
    <3>3. QED
      BY <1>3, <1>6, <3>1, <3>2
  <2>2. CASE k = z
    BY <1>6, <1>9, <2>1, <2>2
  <2>3. CASE k # z /\ k = m - 1
    BY <1>5, <1>9, <2>1, <2>3
  <2>4. CASE k # z /\ k # m - 1
    <3>1. b[f + k] = a[f + k] /\ k > r
      BY <1>2, <1>5, <1>9, <2>1, <2>4
    <3>2. QED
      BY <1>5, <2>1, <3>1
  <2>5. QED
    BY <2>2, <2>3, <2>4
<1>15. OrderedBut(b, w)
  <2> SUFFICES ASSUME NEW s \in Sort!Indices, NEW t \in Sort!Indices, s < t, b[s] > b[t]
               PROVE  \E c \in 1 .. Len(w) : s \in Segment(w[c]) /\ t \in Segment(w[c])
    BY DEF OrderedBut
  <2>1. CASE s \in f .. f + m - 1 /\ t \in f .. f + m - 1
    <3> DEFINE x == s - f
               y == t - f
    <3>1. x \in 0 .. m - 1 /\ y \in 0 .. m - 1 /\ x < y /\ f + x = s /\ f + y = t
      BY <1>3, <2>1
    <3>2. b[s] \in Int /\ b[t] \in Int /\ h \in Int
      <4>1. \A k \in Sort!Indices : b[k] \in Int
        BY <1>9, SortConstants
      <4>2. QED
        BY <1>3, <1>6, <4>1
    <3> HIDE DEF x, y
    <3>3. ~(x <= z /\ z <= y)
      <4> SUFFICES ASSUME x <= z, z <= y PROVE FALSE
        OBVIOUS
      <4>1. x \in 0 .. z /\ y \in z .. m - 1
        BY <1>5, <3>1
      <4>2. b[s] <= h /\ b[t] >= h
        BY <1>13, <1>14, <3>1, <4>1
      <4>3. QED
        BY <3>2, <4>2
    <3>4. CASE y < z
      <4>1. s \in Segment(A) /\ t \in Segment(A)
        BY <1>3, <1>5, <1>8, <3>1, <3>4
      <4>2. 1 \in 1 .. Len(w)
        BY <1>3, <1>10
      <4>3. QED
        BY <1>10, <4>1, <4>2
    <3>5. CASE x > z
      <4>1. s \in Segment(B) /\ t \in Segment(B)
        BY <1>3, <1>5, <1>8, <3>1, <3>5
      <4>2. 2 \in 1 .. Len(w)
        BY <1>3, <1>10
      <4>3. QED
        BY <1>10, <4>1, <4>2
    <3>6. QED
      BY <1>5, <3>1, <3>3, <3>4, <3>5
  <2>2. CASE ~(s \in f .. f + m - 1 /\ t \in f .. f + m - 1)
    <3>1. PICK c \in 2 .. Len(q) : s \in Segment(q[c]) /\ t \in Segment(q[c])
      BY <1>9, <2>2 DEF OrderedBeyond
    <3> DEFINE e == c + 1
    <3>2. e \in 1 .. Len(w) /\ w[e] = q[c]
      BY <1>3, <1>10
    <3> HIDE DEF e
    <3>3. QED
      BY <3>1, <3>2
  <2>3. QED
    BY <2>1, <2>2
<1>16. Apart(w)
  <2>1. Segment(A) \cap Segment(B) = {}
    BY <1>3, <1>5, <1>8
  <2>2. Segment(A) \subseteq Segment(q[1]) /\ Segment(B) \subseteq Segment(q[1])
    BY <1>3, <1>5, <1>8
  <2>3. \A e \in 2 .. Len(q) : Segment(q[1]) \cap Segment(q[e]) = {}
    <3>1. \A e \in 2 .. Len(q) : e \in 1 .. Len(q) /\ e # 1
      OBVIOUS
    <3>2. QED
      BY <1>3, <1>4, <3>1 DEF Apart
  <2>4. ASSUME NEW c \in 1 .. Len(w), NEW d \in 1 .. Len(w), c = 1 \/ c = 2, d # 1, d # 2
        PROVE  Segment(w[c]) \cap Segment(w[d]) = {}
    <3>1. PICK e \in 2 .. Len(q) : w[d] = q[e]
      BY <1>11, <2>4
    <3>2. Segment(w[c]) \subseteq Segment(q[1])
      BY <1>10, <2>2, <2>4
    <3>3. QED
      BY <2>3, <3>1, <3>2
  <2>5. ASSUME NEW c \in 1 .. Len(w), NEW d \in 1 .. Len(w), c # d,
               c # 1, c # 2, d # 1, d # 2
        PROVE  Segment(w[c]) \cap Segment(w[d]) = {}
    <3>1. PICK e \in 2 .. Len(q) : w[c] = q[e] /\ c = e + 1
      BY <1>11, <2>5
    <3>2. PICK g \in 2 .. Len(q) : w[d] = q[g] /\ d = g + 1
      BY <1>11, <2>5
    <3>3. e # g /\ e \in 1 .. Len(q) /\ g \in 1 .. Len(q)
      BY <1>3, <2>5, <3>1, <3>2
    <3>4. QED
      BY <1>4, <3>1, <3>2, <3>3 DEF Apart
  <2> SUFFICES ASSUME NEW c \in 1 .. Len(w), NEW d \in 1 .. Len(w), c # d
               PROVE  Segment(w[c]) \cap Segment(w[d]) = {}
    BY DEF Apart
  <2>6. CASE (c = 1 /\ d = 2) \/ (c = 2 /\ d = 1)
    BY <1>10, <2>1, <2>6
  <2>7. CASE (c = 1 \/ c = 2) /\ d # 1 /\ d # 2
    BY <2>4, <2>7
  <2>8. CASE c # 1 /\ c # 2 /\ (d = 1 \/ d = 2)
    BY <2>4, <2>8
  <2>9. CASE c # 1 /\ c # 2 /\ d # 1 /\ d # 2
    BY <2>5, <2>9
  <2>10. QED
    BY <2>6, <2>7, <2>8, <2>9
<1>17. QuickInv'
  <2>1. Apart(q)'
    BY <1>16 DEF Apart, q, w
  <2>2. OrderedBut(a, q)'
    BY <1>1, <1>15 DEF OrderedBut, Sort!Indices, a, b, q, w
  <2>3. i' # 1
    BY <1>1
  <2>4. QED
    BY <2>1, <2>2, <2>3 DEF QuickInv, a, q
<1>18. i' \in 0 .. sorted_num
  BY <1>1, <1>4
<1>19. QED
  BY <1>1, <1>3, <1>9, <1>10, <1>12, <1>17, <1>18, QuickRest DEF a, b, q, w

-----------------------------------------------------------------------------
LEMMA SortStep == SortInv /\ [Sort!Next]_sortVars => SortInv'
<1> SUFFICES ASSUME SortInv, [Sort!Next]_sortVars PROVE SortInv'
  OBVIOUS
<1>1. CASE Sort!bubbleSort
  BY <1>1, BubbleStep
<1>2. CASE Sort!insertionSort
  BY <1>2, InsertionStep
<1>3. CASE Sort!selectionSort
  BY <1>3, SelectionStep
<1>4. CASE Sort!Call
  BY <1>4, CallStep
<1>5. CASE Sort!Round
  BY <1>5, PartitionStep
<1>6. CASE Sort!Split
  BY <1>6, SplitStep
<1>7. CASE UNCHANGED sortVars
  <2>1. SortTypes'
    BY <1>7 DEF SortInv, SortTypes, sortVars, Sort!Indices
  <2>2. SortKept'
    BY <1>7 DEF SortInv, SortKept, sortVars, Sort!Indices
  <2>3. Sort!RoundsSettle'
    BY <1>7 DEF SortInv, Sort!RoundsSettle, sortVars, Sort!Indices, Sort!SortedUpTo
  <2>4. QuickInv'
    BY <1>7 DEF SortInv, QuickInv, sortVars, Apart, OrderedBut, Passed, Sort!Indices
  <2>5. QED
    BY <2>1, <2>2, <2>3, <2>4 DEF SortInv
<1>8. QED
  BY <1>1, <1>2, <1>3, <1>4, <1>5, <1>6, <1>7 DEF Sort!Next

LEMMA SortCardinality == \A S : Sort!Cardinality(S) = Cardinality(S)
BY DEF Sort!Cardinality, Cardinality

LEMMA SortInvImplies == SortInv => SortsRight
<1> SUFFICES ASSUME SortInv PROVE SortsRight
  OBVIOUS
<1>1. /\ sorted_num \in Nat /\ sorted_ar \in [Sort!Indices -> SortValues]
      /\ i \in 0 .. sorted_num /\ calls \in Seq(CallType)
      /\ \A c \in 1 .. Len(calls) : calls[c].from + calls[c].num <= sorted_num
      /\ Sort!Indices = 0 .. sorted_num - 1
      /\ sort \in {"bubble", "insertion", "selection", "quick"}
      /\ \A k \in Sort!Indices : sorted_ar[k] \in Int
  <2>1. SortTypes /\ sorted_num \in Nat
    BY SortConstants DEF SortInv, SortTypes
  <2>2. \A k \in Sort!Indices : sorted_ar[k] \in Int
    BY <2>1, SortConstants DEF SortTypes
  <2>3. calls \in Seq(CallType)
    BY <2>1 DEF SortTypes, CallType
  <2>4. QED
    BY <2>1, <2>2, <2>3 DEF SortTypes, Sort!Indices
<1>2. Sort!TypeOK
  <2>1. ASSUME NEW c \in 1 .. Len(calls)
        PROVE  /\ calls[c].from \in 0 .. sorted_num
               /\ calls[c].num \in 0 .. sorted_num - calls[c].from
    <3>1. calls[c] \in CallType /\ calls[c].from + calls[c].num <= sorted_num
      BY <1>1
    <3>2. QED
      BY <1>1, <3>1 DEF CallType
  <2>2. ASSUME calls # <<>>, i = 1
        PROVE  left \in 0 .. Sort!n - 1 /\ right \in 0 .. Sort!n - 2
    BY <2>2, LoopsStop
  <2>3. QED
    BY <1>1, <2>1, <2>2 DEF Sort!TypeOK
<1>3. Sort!RoundsSettle
  BY DEF SortInv
<1>4. sort = "quick" => Apart(calls) /\ OrderedBut(sorted_ar, calls)
  BY DEF SortInv, QuickInv
<1>5. Sort!CallsLeftSuffice
  <2> SUFFICES ASSUME sort = "quick"
               PROVE  /\ \A c, e \in 1 .. Len(calls) :
                            c # e => Segment(calls[c]) \cap Segment(calls[e]) = {}
                      /\ \A x, y \in Sort!Indices : (x < y /\ sorted_ar[x] > sorted_ar[y]) =>
                            \E c \in 1 .. Len(calls) : {x, y} \subseteq Segment(calls[c])
                      /\ calls # <<>> /\ i = 1 =>
                            /\ \A k \in 0 .. left - 1 : sorted_ar[Sort!from + k] <= Sort!key
                            /\ \A k \in right + 1 .. Sort!n - 1 :
                                  sorted_ar[Sort!from + k] >= Sort!key
    BY DEF Sort!CallsLeftSuffice, Segment, Sort!Quick
  <2>1. \A c, e \in 1 .. Len(calls) :
           c # e => Segment(calls[c]) \cap Segment(calls[e]) = {}
    BY <1>4 DEF Apart
  <2>2. \A x, y \in Sort!Indices : (x < y /\ sorted_ar[x] > sorted_ar[y]) =>
           \E c \in 1 .. Len(calls) : {x, y} \subseteq Segment(calls[c])
    BY <1>4 DEF OrderedBut
  <2>3. ASSUME calls # <<>>, i = 1
        PROVE  /\ \A k \in 0 .. left - 1 : sorted_ar[Sort!from + k] <= Sort!key
               /\ \A k \in right + 1 .. Sort!n - 1 : sorted_ar[Sort!from + k] >= Sort!key
    <3>1. Passed(sorted_ar, calls[1])
      BY <2>3 DEF SortInv, QuickInv
    <3>2. QED
      BY <3>1 DEF Passed, Sort!from, Sort!n, Sort!key
  <2>4. QED
    BY <2>1, <2>2, <2>3
<1>6. Sort!SortsWhatWasGiven
  <2> SUFFICES ASSUME Sort!Done
               PROVE  /\ Sort!SortedUpTo(sorted_ar, sorted_num)
                      /\ \A v \in SortValues : AsOften(sorted_ar, given, Sort!Indices, v)
    BY SortCardinality, Zenon DEF Sort!SortsWhatWasGiven, AsOften
  <2> USE DEF Sort!Bubble, Sort!Insertion, Sort!Selection, Sort!Quick
  <2>1. IsFiniteSet(Sort!Indices)
    <3> DEFINE hi == sorted_num - 1
    <3>1. hi \in Int /\ Sort!Indices = 0 .. hi
      BY <1>1
    <3> HIDE DEF hi
    <3>2. QED
      BY <3>1, FS_Interval
  <2>2. \A v \in SortValues : AsOften(sorted_ar, given, Sort!Indices, v)
    BY <2>1, RearrangedCount DEF SortInv, SortKept
  <2>3. CASE sort \in {"bubble", "selection"}
    <3>1. i >= sorted_num - 1
      BY <2>3 DEF Sort!Done
    <3>2. ASSUME NEW x \in Sort!Indices, NEW y \in Sort!Indices, x <= y
          PROVE  sorted_ar[x] <= sorted_ar[y]
      <4>1. CASE x = y
        BY <1>1, <4>1
      <4>2. CASE x < y
        <5>1. y >= sorted_num - i /\ x < i
          BY <1>1, <3>1, <4>2
        <5>2. QED
          BY <1>3, <2>3, <3>2, <5>1 DEF Sort!RoundsSettle
      <4>3. QED
        BY <1>1, <3>2, <4>1, <4>2
    <3>3. QED
      BY <1>1, <2>2, <3>2 DEF Sort!SortedUpTo
  <2>4. CASE sort = "insertion"
    <3>1. i = sorted_num
      BY <2>4 DEF Sort!Done
    <3>2. QED
      BY <1>3, <2>2, <2>4, <3>1 DEF Sort!RoundsSettle
  <2>5. CASE sort = "quick"
    <3>1. calls = <<>>
      BY <2>5 DEF Sort!Done
    <3>2. ASSUME NEW x \in Sort!Indices, NEW y \in Sort!Indices, x <= y
          PROVE  sorted_ar[x] <= sorted_ar[y]
      <4>1. CASE x = y
        BY <1>1, <4>1
      <4>2. CASE x < y
        <5>1. \A c \in 1 .. Len(calls) : FALSE
          BY <3>1
        <5>2. ~(sorted_ar[x] > sorted_ar[y])
          BY <1>4, <2>5, <4>2, <5>1 DEF OrderedBut
        <5>3. QED
          BY <1>1, <5>2
      <4>3. QED
        BY <1>1, <3>2, <4>1, <4>2
    <3>3. QED
      BY <1>1, <2>2, <3>2 DEF Sort!SortedUpTo
  <2>6. QED
    BY <1>1, <2>3, <2>4, <2>5
<1>7. QED
  BY <1>2, <1>3, <1>5, <1>6 DEF SortsRight

(* The four sorts of test_sort, for arrays of every length: what they      *)
(* return is in order and has the elements it had, as often; every round   *)
(* of the simple ones settles a place; and at every point of quickSort     *)
(* whatever is out of order is within one of the calls still to be made,   *)
(* which do not overlap, whatever the memory below the array holds.        *)
THEOREM SortsRightAlways == AlgorithmsSpec => []SortsRight
<1>1. AlgorithmsInit => SortInv
  BY SortInit DEF AlgorithmsInit
<1>2. SortInv /\ [AlgorithmsNext]_allVars => SortInv'
  <2>1. AlgorithmsNext => [Sort!Next]_sortVars
    BY DEF AlgorithmsNext
  <2>2. UNCHANGED allVars => UNCHANGED sortVars
    BY DEF allVars
  <2>3. QED
    BY <2>1, <2>2, SortStep
<1>3. QED
  BY <1>1, <1>2, SortInvImplies, PTL DEF AlgorithmsSpec

-----------------------------------------------------------------------------
(* Sums over finite sets.  The library's folds are recursive functions;    *)
(* induction over the subsets of a set says what they compute.             *)

(* The same over the subsets of a finite set: a set of sets that has a set *)
(* as soon as it has that set without any one of its elements has them all. *)
LEMMA SubsetInduction ==
    ASSUME NEW B, IsFiniteSet(B), NEW Z,
           \A T \in SUBSET B : (\A x \in T : T \ {x} \in Z) => T \in Z
    PROVE  SUBSET B \subseteq Z
<1> DEFINE N == {n \in Nat : \A T \in SUBSET B : Cardinality(T) = n => T \in Z}
<1>1. \A T \in SUBSET B : IsFiniteSet(T) /\ Cardinality(T) \in Nat
  BY FS_Subset, FS_CardinalityType
<1>2. 0 \in N
  BY <1>1, FS_EmptySet
<1>3. ASSUME NEW n \in Nat, n \in N PROVE n + 1 \in N
  <2>1. SUFFICES ASSUME NEW T \in SUBSET B, Cardinality(T) = n + 1 PROVE T \in Z
    OBVIOUS
  <2>2. ASSUME NEW x \in T PROVE T \ {x} \in Z
    <3>1. Cardinality(T \ {x}) = n
      BY <1>1, <2>1, FS_RemoveElement
    <3>2. QED
      BY <1>3, <3>1
  <2>3. QED
    BY <2>2
<1>4. Nat \subseteq N
  <2> HIDE DEF N
  <2>1. QED
    BY <1>2, <1>3, NatSetInduction
<1>5. QED
  BY <1>1, <1>4

(* The element that a fold over a set takes first.                         *)
First(T) == CHOOSE x \in T : TRUE

LEMMA FirstIn == ASSUME NEW T, T # {} PROVE First(T) \in T
BY DEF First

(* How the fold that SumOver is adds up: si holds the sums of the sets in  *)
(* D.                                                                      *)
Sums(f, si, D) ==
    si = [s \in D |-> IF s = {} THEN 0 ELSE f[First(s)] + si[s \ {First(s)}]]

LEMMA SumsByFold ==
    ASSUME NEW f, NEW T
    PROVE  Fees!SumOver(f, T) = (CHOOSE si : Sums(f, si, SUBSET T))[T]
BY DEF Fees!SumOver, Fees!FoldFunctionOnSet, Fees!MapThenFoldSet, Sums, First

(* There are such sums.                                                    *)
LEMMA SumsExist ==
    ASSUME NEW B, IsFiniteSet(B), NEW f \in [B -> Int]
    PROVE  \E si \in [SUBSET B -> Int] : Sums(f, si, SUBSET B)
<1> DEFINE D(n) == {s \in SUBSET B : Cardinality(s) <= n}
           N == {n \in Nat : \E si \in [D(n) -> Int] : Sums(f, si, D(n))}
<1>1. \A T \in SUBSET B : IsFiniteSet(T) /\ Cardinality(T) \in Nat
  BY FS_Subset, FS_CardinalityType
<1>2. 0 \in N
  <2> DEFINE si == [s \in D(0) |-> 0]
  <2>1. \A s \in D(0) : s = {}
    BY <1>1, FS_EmptySet
  <2>2. si \in [D(0) -> Int] /\ Sums(f, si, D(0))
    BY <2>1 DEF Sums
  <2>3. QED
    BY <2>2
<1>3. ASSUME NEW n \in Nat, n \in N PROVE n + 1 \in N
  <2>1. PICK si \in [D(n) -> Int] : Sums(f, si, D(n))
    BY <1>3
  <2> DEFINE value(s) == IF s = {} THEN 0 ELSE f[First(s)] + si[s \ {First(s)}]
             sj == [s \in D(n + 1) |-> value(s)]
  <2>2. ASSUME NEW s \in D(n + 1), s # {}
        PROVE  First(s) \in B /\ s \ {First(s)} \in D(n) /\ s \ {First(s)} \in D(n + 1)
    <3>1. First(s) \in s
      BY <2>2, FirstIn
    <3>2. Cardinality(s \ {First(s)}) = Cardinality(s) - 1
      BY <1>1, <3>1, FS_RemoveElement
    <3>3. QED
      BY <1>1, <3>1, <3>2
  <2>3. sj \in [D(n + 1) -> Int]
    BY <2>2
  <2>4. \A s \in D(n) : s \in D(n + 1) /\ sj[s] = si[s]
    <3>1. SUFFICES ASSUME NEW s \in D(n) PROVE s \in D(n + 1) /\ sj[s] = si[s]
      OBVIOUS
    <3>2. s \in D(n + 1)
      BY <1>1
    <3>3. si[s] = value(s)
      BY <2>1 DEF Sums
    <3>4. QED
      BY <3>2, <3>3
  <2>5. Sums(f, sj, D(n + 1))
    <3>1. \A s \in D(n + 1) : value(s) = IF s = {} THEN 0 ELSE f[First(s)] + sj[s \ {First(s)}]
      BY <2>2, <2>4
    <3> HIDE DEF D
    <3>2. QED
      BY <3>1 DEF Sums
  <2>6. n + 1 \in Nat /\ \E k \in [D(n + 1) -> Int] : Sums(f, k, D(n + 1))
    <3> HIDE DEF sj, D
    <3>1. QED
      BY <2>3, <2>5
  <2>7. QED
    BY <2>6
<1>4. Nat \subseteq N
  <2> HIDE DEF N
  <2>1. QED
    BY <1>2, <1>3, NatSetInduction
<1>5. SUBSET B = D(Cardinality(B))
  BY <1>1, FS_Subset
<1>6. Cardinality(B) \in N
  BY <1>1, <1>4
<1>7. QED
  BY <1>5, <1>6

(* One of the summands after the other: the first one first.               *)
LEMMA SumFirst ==
    ASSUME NEW B, IsFiniteSet(B), NEW f \in [B -> Int], NEW T \in SUBSET B
    PROVE  /\ Fees!SumOver(f, T) \in Int
           /\ Fees!SumOver(f, T) = IF T = {} THEN 0
                              ELSE f[First(T)] + Fees!SumOver(f, T \ {First(T)})
<1>1. PICK g \in [SUBSET B -> Int] : Sums(f, g, SUBSET B)
  BY SumsExist
<1>2. ASSUME NEW U \in SUBSET B PROVE Fees!SumOver(f, U) = g[U]
  <2> DEFINE r == [s \in SUBSET U |-> g[s]]
             si == CHOOSE k : Sums(f, k, SUBSET U)
             Z == {s \in SUBSET U : si[s] = g[s]}
  <2>1. Sums(f, r, SUBSET U)
    <3>1. \A s \in SUBSET U : s \in SUBSET B /\ s \ {First(s)} \in SUBSET U
      BY <1>2
    <3>2. \A s \in SUBSET U : g[s] = IF s = {} THEN 0 ELSE f[First(s)] + g[s \ {First(s)}]
      BY <1>1, <3>1 DEF Sums
    <3>3. \A s \in SUBSET U : g[s] = IF s = {} THEN 0 ELSE f[First(s)] + r[s \ {First(s)}]
      BY <3>1, <3>2
    <3>4. QED
      BY <3>3 DEF Sums
  <2>2. Sums(f, si, SUBSET U)
    <3> HIDE DEF r
    <3>1. QED
      BY <2>1
  <2>3. IsFiniteSet(U)
    BY FS_Subset
  <2>4. ASSUME NEW s \in SUBSET U, \A x \in s : s \ {x} \in Z PROVE s \in Z
    <3>0. s \in SUBSET B
      BY <1>2
    <3>1. si[s] = IF s = {} THEN 0 ELSE f[First(s)] + si[s \ {First(s)}]
      <4> HIDE DEF si
      <4>1. QED
        BY <2>2 DEF Sums
    <3>2. g[s] = IF s = {} THEN 0 ELSE f[First(s)] + g[s \ {First(s)}]
      BY <1>1, <3>0 DEF Sums
    <3>3. s # {} => si[s \ {First(s)}] = g[s \ {First(s)}]
      <4> HIDE DEF si
      <4>1. QED
        BY <2>4, FirstIn
    <3> HIDE DEF si
    <3>4. QED
      BY <3>1, <3>2, <3>3
  <2>5. SUBSET U \subseteq Z
    <3> HIDE DEF Z
    <3>1. QED
      BY <2>3, <2>4, SubsetInduction
  <2>6. si[U] = g[U]
    <3> HIDE DEF si
    <3>1. QED
      BY <2>5
  <2>7. QED
    BY <2>6, SumsByFold
<1>3. g[T] = IF T = {} THEN 0 ELSE f[First(T)] + g[T \ {First(T)}]
  BY <1>1 DEF Sums
<1>4. QED
  BY <1>1, <1>2, <1>3

(* Any one of them can be the first.                                       *)
LEMMA SumWithout ==
    ASSUME NEW B, IsFiniteSet(B), NEW f \in [B -> Int], NEW T \in SUBSET B, NEW x \in T
    PROVE  Fees!SumOver(f, T) = f[x] + Fees!SumOver(f, T \ {x})
<1> DEFINE Z == {U \in SUBSET B : \A y \in U : Fees!SumOver(f, U) = f[y] + Fees!SumOver(f, U \ {y})}
<1>1. ASSUME NEW U \in SUBSET B, \A y \in U : U \ {y} \in Z PROVE U \in Z
  <2>1. SUFFICES ASSUME NEW y \in U PROVE Fees!SumOver(f, U) = f[y] + Fees!SumOver(f, U \ {y})
    OBVIOUS
  <2> DEFINE z == First(U)
  <2>2. z \in U
    BY FirstIn
  <2>3. Fees!SumOver(f, U) = f[z] + Fees!SumOver(f, U \ {z})
    BY <2>2, SumFirst
  <2> HIDE DEF z
  <2>4. CASE y # z
    <3>1. Fees!SumOver(f, U \ {z}) = f[y] + Fees!SumOver(f, (U \ {z}) \ {y})
      BY <1>1, <2>2, <2>4
    <3>2. Fees!SumOver(f, U \ {y}) = f[z] + Fees!SumOver(f, (U \ {y}) \ {z})
      BY <1>1, <2>2, <2>4
    <3>3. Fees!SumOver(f, (U \ {z}) \ {y}) = Fees!SumOver(f, (U \ {y}) \ {z})
      <4>1. (U \ {z}) \ {y} = (U \ {y}) \ {z}
        OBVIOUS
      <4>2. QED
        BY <4>1
    <3>4. Fees!SumOver(f, (U \ {y}) \ {z}) \in Int
      BY SumFirst
    <3>5. f[y] \in Int /\ f[z] \in Int
      BY <2>2
    <3>6. QED
      BY <2>3, <3>1, <3>2, <3>3, <3>4, <3>5
  <2>5. QED
    BY <2>3, <2>4
<1>2. SUBSET B \subseteq Z
  <2> HIDE DEF Z
  <2>1. QED
    BY <1>1, SubsetInduction
<1>3. QED
  BY <1>2

(* Only what is summed matters.                                            *)
LEMMA SumSame ==
    ASSUME NEW B, IsFiniteSet(B), NEW f \in [B -> Int], NEW g \in [B -> Int],
           NEW T \in SUBSET B, \A x \in T : f[x] = g[x]
    PROVE  Fees!SumOver(f, T) = Fees!SumOver(g, T)
<1> DEFINE Z == {U \in SUBSET T : Fees!SumOver(f, U) = Fees!SumOver(g, U)}
<1>1. ASSUME NEW U \in SUBSET T, \A y \in U : U \ {y} \in Z PROVE U \in Z
  <2>1. U \in SUBSET B
    OBVIOUS
  <2>2. U # {} => First(U) \in U
    BY FirstIn
  <2>3. /\ Fees!SumOver(f, U) = IF U = {} THEN 0 ELSE f[First(U)] + Fees!SumOver(f, U \ {First(U)})
        /\ Fees!SumOver(g, U) = IF U = {} THEN 0 ELSE g[First(U)] + Fees!SumOver(g, U \ {First(U)})
    BY <2>1, SumFirst
  <2>4. QED
    BY <1>1, <2>2, <2>3
<1>2. SUBSET T \subseteq Z
  <2>1. IsFiniteSet(T)
    BY FS_Subset
  <2> HIDE DEF Z
  <2>2. QED
    BY <1>1, <2>1, SubsetInduction
<1>3. QED
  BY <1>2

(* What one element may change.                                            *)
LEMMA SumChange ==
    ASSUME NEW B, IsFiniteSet(B), NEW f \in [B -> Int], NEW g \in [B -> Int],
           NEW x \in B, \A y \in B \ {x} : f[y] = g[y]
    PROVE  Fees!SumOver(g, B) = Fees!SumOver(f, B) - f[x] + g[x]
<1> DEFINE R == B \ {x}
<1>0. B \in SUBSET B /\ R \in SUBSET B
  OBVIOUS
<1>1. Fees!SumOver(g, B) = g[x] + Fees!SumOver(g, R)
  BY <1>0, SumWithout
<1>2. Fees!SumOver(f, B) = f[x] + Fees!SumOver(f, R)
  BY <1>0, SumWithout
<1>3. Fees!SumOver(f, R) = Fees!SumOver(g, R)
  BY <1>0, SumSame
<1>4. Fees!SumOver(f, R) \in Int /\ f[x] \in Int /\ g[x] \in Int
  BY <1>0, SumFirst
<1> HIDE DEF R
<1>5. QED
  BY <1>1, <1>2, <1>3, <1>4

(* Nothing adds up to nothing, and what is not negative to nothing less.   *)
LEMMA SumZero ==
    ASSUME NEW B, IsFiniteSet(B), NEW f \in [B -> Int], NEW T \in SUBSET B,
           \A x \in T : f[x] = 0
    PROVE  Fees!SumOver(f, T) = 0
<1> DEFINE Z == {U \in SUBSET T : Fees!SumOver(f, U) = 0}
<1>1. ASSUME NEW U \in SUBSET T, \A y \in U : U \ {y} \in Z PROVE U \in Z
  <2>1. U \in SUBSET B
    OBVIOUS
  <2>2. U # {} => First(U) \in U
    BY FirstIn
  <2>3. Fees!SumOver(f, U) = IF U = {} THEN 0
                             ELSE f[First(U)] + Fees!SumOver(f, U \ {First(U)})
    BY <2>1, SumFirst
  <2>4. QED
    BY <1>1, <2>2, <2>3
<1>2. SUBSET T \subseteq Z
  <2>1. IsFiniteSet(T)
    BY FS_Subset
  <2> HIDE DEF Z
  <2>2. QED
    BY <1>1, <2>1, SubsetInduction
<1>3. QED
  BY <1>2

LEMMA SumNatural ==
    ASSUME NEW B, IsFiniteSet(B), NEW f \in [B -> Nat], NEW T \in SUBSET B
    PROVE  Fees!SumOver(f, T) \in Nat
<1> DEFINE Z == {U \in SUBSET T : Fees!SumOver(f, U) \in Nat}
<1>0. f \in [B -> Int]
  OBVIOUS
<1>1. ASSUME NEW U \in SUBSET T, \A y \in U : U \ {y} \in Z PROVE U \in Z
  <2>1. U \in SUBSET B
    OBVIOUS
  <2>2. U # {} => First(U) \in U /\ f[First(U)] \in Nat
    BY FirstIn
  <2>3. Fees!SumOver(f, U) = IF U = {} THEN 0
                             ELSE f[First(U)] + Fees!SumOver(f, U \ {First(U)})
    BY <1>0, <2>1, SumFirst
  <2>4. QED
    BY <1>1, <2>2, <2>3
<1>2. SUBSET T \subseteq Z
  <2>1. IsFiniteSet(T)
    BY FS_Subset
  <2> HIDE DEF Z
  <2>2. QED
    BY <1>1, <2>1, SubsetInduction
<1>3. QED
  BY <1>2

-----------------------------------------------------------------------------
(* The fee search.                                                         *)

(* The arguments: the fees in ascending order.                             *)
FeeArgs ==
    /\ length \in 1 .. MaxFees - 1
    /\ inputList \in [0 .. length -> FeeValues]
    /\ \A x, y \in 0 .. length : x <= y => inputList[x] <= inputList[y]
    /\ result \in Nat \ {0}

(* Where an element of tempList is in inputList, and what of inputList is  *)
(* still to be looked at in a row that keeps all of tempList.              *)
Place(k) == IF k < step THEN k ELSE k + 1
AtMost(k) == {x \in 0 .. length : x # step /\ x <= Place(k)}

FeeTypes ==
    /\ Fees!TypeOK
    /\ fee_pc \in {"sum", "step", "compare", "all", "one", "some", "no found the result"}
    /\ fee_pc = "compare" =>
         /\ step \in 0 .. length
         /\ listSize \in 0 .. length
         /\ j \in -1 .. listSize - 1
         /\ finalListIndex + j < listSize
         /\ total < result

(* The first n places of a finalList are taken, by different elements of a *)
(* tempList from the one at lo up, and the others are not.                 *)
Picked(list, temp, size, n, lo) ==
    /\ \A k \in n .. size - 1 : list[k] = 0
    /\ \E g \in Injection(0 .. n - 1, lo .. size - 1) :
         \A k \in 0 .. n - 1 : list[k] = temp[g[k]]

Picks ==
    /\ total = Fees!sum(finalList)
    /\ fee_pc = "compare" => Picked(finalList, Fees!tempList, length, finalListIndex, j + 1)
    /\ fee_pc = "some" =>
         /\ total = result
         /\ j >= 0 /\ finalListIndex + j < listSize /\ listSize <= length
         /\ Picked(finalList, Fees!tempList, length, finalListIndex + 1, j)

(* Leaving out the fee at z, the simple answers are none.                  *)
NoSimpleWithout(z) ==
    /\ Fees!SumOver(inputList, (0 .. length) \ {z}) # result
    /\ \A x \in (0 .. length) \ {z} : inputList[x] # result
    /\ \A x, y \in (0 .. length) \ {z} : x < y => inputList[x] + inputList[y] # result

Before ==
    /\ fee_pc \notin {"sum", "all"} => Fees!sum(inputList) # result
    /\ \A z \in 0 .. step - 1 : NoSimpleWithout(z)
    /\ fee_pc = "no found the result" => result < inputList[0] \/ step > length

(* The row that keeps all of tempList finds a single fee, and all of them: *)
(* they fit, one after the other.                                          *)
FullRow ==
    fee_pc = "compare" =>
        /\ listSize = length =>
             /\ \A k \in j + 1 .. length - 1 : Fees!tempList[k] # result
             /\ Fees!SumOver(inputList, (0 .. length) \ {step}) = result =>
                  total + Fees!SumOver(inputList, AtMost(j)) = result
        /\ listSize < length =>
             /\ \A k \in 0 .. length - 1 : Fees!tempList[k] # result
             /\ Fees!SumOver(inputList, (0 .. length) \ {step}) # result

(* The row whose last element is the greater of two fees finds the two.    *)
PairRow ==
    fee_pc = "compare" =>
        \A u, v \in 0 .. length - 1 :
            u < v /\ Fees!tempList[u] + Fees!tempList[v] = result =>
                /\ v < listSize
                /\ v = listSize - 1 =>
                     /\ u <= j
                     /\ total = IF j = v THEN 0 ELSE Fees!tempList[v]

FeeInv == FeeArgs /\ FeeTypes /\ Picks /\ Before /\ FullRow /\ PairRow

(* What is neighbour by neighbour in ascending order is so altogether.     *)
LEMMA Ascending ==
    ASSUME NEW n \in Nat, NEW a \in [0 .. n -> Nat],
           \A k \in 1 .. n : a[k - 1] <= a[k]
    PROVE  \A x, y \in 0 .. n : x <= y => a[x] <= a[y]
<1> DEFINE N == {d \in Nat : \A x \in 0 .. n : x + d <= n => a[x] <= a[x + d]}
<1>1. 0 \in N
  OBVIOUS
<1>2. ASSUME NEW d \in Nat, d \in N PROVE d + 1 \in N
  <2> SUFFICES ASSUME NEW x \in 0 .. n, x + (d + 1) <= n
               PROVE  a[x] <= a[x + (d + 1)]
    OBVIOUS
  <2> DEFINE y == x + (d + 1)
  <2>1. y \in 1 .. n /\ y - 1 = x + d /\ x + d <= n /\ y - 1 \in 0 .. n
    OBVIOUS
  <2>2. a[x] <= a[y - 1]
    BY <1>2, <2>1
  <2> HIDE DEF y
  <2>3. a[y - 1] <= a[y] /\ a[x] \in Nat /\ a[y] \in Nat /\ a[y - 1] \in Nat
    BY <2>1
  <2>4. a[x] <= a[y]
    BY <2>2, <2>3
  <2>5. QED
    BY <2>4 DEF y
<1>3. Nat \subseteq N
  <2> HIDE DEF N
  <2>1. QED
    BY <1>1, <1>2, NatSetInduction
<1>4. ASSUME NEW x \in 0 .. n, NEW y \in 0 .. n, x <= y PROVE a[x] <= a[y]
  <2> DEFINE d == y - x
  <2>1. d \in Nat /\ x + d = y /\ x + d <= n
    BY <1>4
  <2>2. d \in N
    BY <1>3, <2>1
  <2> HIDE DEF d
  <2>3. QED
    BY <2>1, <2>2
<1>5. QED
  BY <1>4

(* The fees are positive numbers, finitely many.                           *)
LEMMA FeeNumbers ==
    ASSUME FeeArgs
    PROVE  /\ length \in Nat /\ length >= 1 /\ result \in Nat /\ result >= 1
           /\ inputList \in [0 .. length -> Nat] /\ inputList \in [0 .. length -> Int]
           /\ \A x \in 0 .. length : inputList[x] \in Nat /\ inputList[x] >= 1
           /\ IsFiniteSet(0 .. length) /\ IsFiniteSet(0 .. length - 1)
           /\ DOMAIN inputList = 0 .. length
<1>1. length \in Nat /\ length >= 1 /\ result \in Nat /\ result >= 1
  BY InputsAssumption DEF FeeArgs
<1>2. \A v \in FeeValues : v \in Nat /\ v \in Int /\ v >= 1
  BY InputsAssumption
<1>3. inputList \in [0 .. length -> FeeValues]
  BY DEF FeeArgs
<1>4. IsFiniteSet(0 .. length) /\ IsFiniteSet(0 .. length - 1)
  BY <1>1, FS_Interval
<1>5. inputList \in [0 .. length -> Nat] /\ inputList \in [0 .. length -> Int]
  BY <1>2, <1>3
<1>6. QED
  BY <1>1, <1>2, <1>3, <1>4, <1>5

(* tempList is inputList without the fee at step.                          *)
LEMMA Places ==
    ASSUME FeeArgs, step \in Int
    PROVE  /\ \A k \in 0 .. length - 1 :
                 /\ Place(k) \in 0 .. length /\ Place(k) # step
                 /\ Fees!tempList[k] = inputList[Place(k)]
                 /\ Fees!tempList[k] \in FeeValues
                 /\ Fees!tempList[k] \in Nat /\ Fees!tempList[k] >= 1
           /\ \A k, m \in 0 .. length - 1 :
                 /\ k < m => Place(k) < Place(m)
                 /\ k <= m => Fees!tempList[k] <= Fees!tempList[m]
<1>1. length \in Nat
  BY FeeNumbers
<1>2. ASSUME NEW k \in 0 .. length - 1
      PROVE  /\ Place(k) \in 0 .. length /\ Place(k) # step
             /\ Fees!tempList[k] = inputList[Place(k)]
  BY <1>1, <1>2 DEF Place, Fees!tempList
<1>3. \A k, m \in 0 .. length - 1 :
         (k < m => Place(k) < Place(m)) /\ (k <= m => Place(k) <= Place(m))
  BY <1>1 DEF Place
<1>4. ASSUME NEW k \in 0 .. length - 1
      PROVE  /\ Fees!tempList[k] \in FeeValues
             /\ Fees!tempList[k] \in Nat /\ Fees!tempList[k] >= 1
  BY <1>2, FeeNumbers DEF FeeArgs
<1>5. ASSUME NEW k \in 0 .. length - 1, NEW m \in 0 .. length - 1, k <= m
      PROVE  Fees!tempList[k] <= Fees!tempList[m]
  BY <1>2, <1>3, <1>5 DEF FeeArgs
<1>6. QED
  BY <1>2, <1>3, <1>4, <1>5

LEMMA PlaceOf ==
    ASSUME FeeArgs, step \in 0 .. length, NEW x \in (0 .. length) \ {step}
    PROVE  \E k \in 0 .. length - 1 : Place(k) = x
<1> DEFINE k == IF x < step THEN x ELSE x - 1
<1>0. length \in Nat
  BY FeeNumbers
<1>1. k \in 0 .. length - 1 /\ Place(k) = x
  BY <1>0 DEF Place
<1>2. QED
  BY <1>1

LEMMA PickedNone ==
    ASSUME NEW list, NEW temp, NEW size \in Nat, NEW lo \in Int,
           \A k \in 0 .. size - 1 : list[k] = 0
    PROVE  Picked(list, temp, size, 0, lo)
<1> DEFINE g == [k \in 0 .. 0 - 1 |-> k]
<1>1. 0 .. 0 - 1 = {}
  OBVIOUS
<1>2. g \in Injection(0 .. 0 - 1, lo .. size - 1)
  BY <1>1 DEF Injection, IsInjective
<1>3. \A k \in 0 .. 0 - 1 : list[k] = temp[g[k]]
  BY <1>1
<1> HIDE DEF g
<1>4. QED
  BY <1>2, <1>3 DEF Picked

LEMMA PickedFrom ==
    ASSUME NEW list, NEW temp, NEW size \in Nat, NEW n \in Nat,
           NEW hi \in Int, NEW lo \in Int, lo <= hi,
           Picked(list, temp, size, n, hi)
    PROVE  Picked(list, temp, size, n, lo)
<1>1. PICK g \in Injection(0 .. n - 1, hi .. size - 1) :
               \A k \in 0 .. n - 1 : list[k] = temp[g[k]]
  BY DEF Picked
<1>2. hi .. size - 1 \subseteq lo .. size - 1
  OBVIOUS
<1>3. g \in Injection(0 .. n - 1, lo .. size - 1)
  BY <1>2 DEF Injection
<1>4. QED
  BY <1>1, <1>3 DEF Picked

(* One more, from below all of them.                                       *)
LEMMA PickedOneMore ==
    ASSUME NEW size \in Nat, NEW list \in [0 .. size - 1 -> Nat], NEW temp,
           NEW n \in 0 .. size - 1, NEW m \in 0 .. size - 1,
           temp[m] \in Nat, Picked(list, temp, size, n, m + 1)
    PROVE  Picked([list EXCEPT ![n] = temp[m]], temp, size, n + 1, m)
<1> DEFINE new == [list EXCEPT ![n] = temp[m]]
<1>1. PICK g \in Injection(0 .. n - 1, m + 1 .. size - 1) :
               \A k \in 0 .. n - 1 : list[k] = temp[g[k]]
  BY DEF Picked
<1> DEFINE A == 0 .. (n + 1) - 1
           h == [k \in A |-> IF k = n THEN m ELSE g[k]]
<1>2. \A k \in A : k = n \/ k \in 0 .. n - 1
  OBVIOUS
<1>3. \A k \in 0 .. n - 1 : /\ g[k] \in m .. size - 1 /\ g[k] # m
                            /\ \A x \in 0 .. n - 1 : g[k] = g[x] => k = x
  BY <1>1 DEF Injection, IsInjective
<1>4. m \in m .. size - 1
  OBVIOUS
<1>5. h \in [A -> m .. size - 1] /\ \A k, x \in A : h[k] = h[x] => k = x
  <2> HIDE DEF A
  <2>1. QED
    BY <1>2, <1>3, <1>4
<1>6. h \in Injection(A, m .. size - 1)
  <2> HIDE DEF h, A
  <2>1. DOMAIN h = A
    BY <1>5
  <2>2. QED
    BY <1>5, <2>1 DEF Injection, IsInjective
<1>7. \A k \in A : new[k] = temp[h[k]]
  BY <1>1, <1>2
<1>8. \A k \in n + 1 .. size - 1 : new[k] = 0
  BY DEF Picked
<1>9. Picked(new, temp, size, n + 1, m)
  <2> HIDE DEF h, new
  <2>1. QED
    BY <1>6, <1>7, <1>8 DEF Picked
<1>10. QED
  BY <1>9

-----------------------------------------------------------------------------
LEMMA FeeInit == Fees!Init => FeeInv
<1> SUFFICES ASSUME Fees!Init PROVE FeeInv
  OBVIOUS
<1>1. length \in Nat /\ length >= 1 /\ length \in 1 .. MaxFees - 1
  BY InputsAssumption DEF Fees!Init
<1>2. inputList \in [0 .. length -> FeeValues] /\ inputList \in [0 .. length -> Nat]
  <2>1. \A v \in FeeValues : v \in Nat
    BY InputsAssumption
  <2>2. inputList \in [0 .. length -> FeeValues]
    BY DEF Fees!Init
  <2>3. QED
    BY <2>1, <2>2
<1>3. \A x, y \in 0 .. length : x <= y => inputList[x] <= inputList[y]
  BY <1>1, <1>2, Ascending DEF Fees!Init
<1>4. result \in Nat \ {0}
  <2>1. DOMAIN inputList = 0 .. length /\ IsFiniteSet(0 .. length)
    BY <1>1, <1>2, FS_Interval
  <2>2. Fees!sum(inputList) \in Nat
    BY <1>2, <2>1, SumNatural DEF Fees!sum
  <2>3. QED
    BY <2>2 DEF Fees!Init
<1>5. FeeArgs
  BY <1>1, <1>2, <1>3, <1>4 DEF FeeArgs
<1>6. fee_pc = "sum" /\ step = 0 /\ total = 0 /\ finalList = Fees!Zeros
  BY DEF Fees!Init
<1>7. FeeTypes
  <2>1. finalList \in [0 .. length - 1 -> FeeValues \cup {0}]
    BY <1>6 DEF Fees!Zeros
  <2>2. Fees!TypeOK
    BY <1>1, <1>4, <2>1 DEF Fees!Init, Fees!TypeOK
  <2>3. QED
    BY <1>6, <2>2 DEF FeeTypes
<1>8. Picks
  <2>1. finalList \in [0 .. length - 1 -> Int] /\ DOMAIN finalList = 0 .. length - 1
        /\ \A k \in 0 .. length - 1 : finalList[k] = 0
    BY <1>6 DEF Fees!Zeros
  <2>2. IsFiniteSet(0 .. length - 1)
    BY <1>1, FS_Interval
  <2>3. Fees!SumOver(finalList, 0 .. length - 1) = 0
    BY <2>1, <2>2, SumZero
  <2>4. Fees!sum(finalList) = 0
    BY <2>1, <2>3 DEF Fees!sum
  <2>5. QED
    BY <1>6, <2>4 DEF Picks
<1>9. Before
  BY <1>6 DEF Before
<1>10. FullRow /\ PairRow
  BY <1>6 DEF FullRow, PairRow
<1>11. QED
  BY <1>5, <1>7, <1>8, <1>9, <1>10 DEF FeeInv

(* The list of a step and what was found of it do not change while step    *)
(* does not.                                                               *)
FeeList == <<inputList, result, length, step>>

LEMMA SameList ==
    ASSUME UNCHANGED FeeList
    PROVE  /\ inputList' = inputList /\ result' = result
           /\ length' = length /\ step' = step
           /\ Fees!tempList' = Fees!tempList
           /\ \A k : Place(k)' = Place(k) /\ AtMost(k)' = AtMost(k)
<1>1. inputList' = inputList /\ result' = result /\ length' = length /\ step' = step
  BY DEF FeeList
<1>2. Fees!tempList' = Fees!tempList
  BY <1>1 DEF Fees!tempList
<1>3. \A k : Place(k)' = Place(k) /\ AtMost(k)' = AtMost(k)
  BY <1>1 DEF Place, AtMost
<1>4. QED
  BY <1>1, <1>2, <1>3

LEMMA SameArgs ==
    ASSUME UNCHANGED Fees!args
    PROVE  /\ inputList' = inputList /\ result' = result /\ length' = length
           /\ FeeArgs => FeeArgs'
           /\ \A z : NoSimpleWithout(z) => NoSimpleWithout(z)'
<1>1. inputList' = inputList /\ result' = result /\ length' = length
  BY DEF Fees!args
<1>2. FeeArgs => FeeArgs'
  BY <1>1 DEF FeeArgs
<1>3. \A z : NoSimpleWithout(z) => NoSimpleWithout(z)'
  BY <1>1 DEF NoSimpleWithout
<1>4. QED
  BY <1>1, <1>2, <1>3

LEMMA CheckAllStep == FeeInv /\ Fees!CheckAll => FeeInv'
<1> SUFFICES ASSUME FeeInv, Fees!CheckAll PROVE FeeInv'
  OBVIOUS
<1> USE DEF FeeInv
<1>1. UNCHANGED Fees!args /\ UNCHANGED FeeList
  BY DEF Fees!CheckAll, Fees!args, FeeList
<1>2. /\ UNCHANGED <<listSize, j, finalList, finalListIndex, total>>
      /\ fee_pc' \in {"all", "step"}
      /\ fee_pc' = "step" => Fees!sum(inputList) # result
      /\ fee_pc = "sum"
  BY DEF Fees!CheckAll, Fees!final
<1>3. FeeArgs'
  BY <1>1, SameArgs
<1>4. FeeTypes'
  BY <1>1, <1>2, SameList DEF FeeTypes, Fees!TypeOK
<1>5. Picks'
  BY <1>1, <1>2, SameList DEF Picks, Fees!sum
<1>6. Before'
  <2>1. \A z \in 0 .. step' - 1 : NoSimpleWithout(z)'
    BY <1>1, SameList, SameArgs DEF Before
  <2>2. fee_pc' \notin {"sum", "all"} => Fees!sum(inputList)' # result'
    BY <1>1, <1>2, SameList
  <2>3. QED
    BY <1>2, <2>1, <2>2 DEF Before
<1>7. (FullRow /\ PairRow)'
  BY <1>2 DEF FullRow, PairRow
<1>8. QED
  BY <1>3, <1>4, <1>5, <1>6, <1>7

(* A step starts with the row that keeps all of tempList.                  *)
LEMMA StepStep == FeeInv /\ Fees!Step => FeeInv'
<1> SUFFICES ASSUME FeeInv, Fees!Step PROVE FeeInv'
  OBVIOUS
<1> USE DEF FeeInv
<1>0. length \in Nat /\ length >= 1 /\ result \in Nat /\ result >= 1
      /\ step \in 0 .. length + 1
  BY FeeNumbers DEF FeeTypes, Fees!TypeOK
<1>1. UNCHANGED Fees!args /\ UNCHANGED FeeList
  BY DEF Fees!Step, Fees!args, FeeList
<1>2. /\ listSize' = length /\ j' = length - 1
      /\ finalListIndex' = 0 /\ total' = 0
  BY DEF Fees!Step
<1>2a. /\ fee_pc = "step" /\ fee_pc' \in {"no found the result", "compare"}
       /\ fee_pc' = "no found the result" => result < inputList[0] \/ step > length
       /\ fee_pc' = "compare" => ~(step > length)
  BY DEF Fees!Step
<1>2b. finalList' = Fees!Zeros
  BY DEF Fees!Step
<1>3. FeeArgs'
  BY <1>1, SameArgs
<1>4. /\ finalList' \in [0 .. length - 1 -> FeeValues \cup {0}]
      /\ finalList' \in [0 .. length - 1 -> Int]
      /\ DOMAIN finalList' = 0 .. length - 1
      /\ \A k \in 0 .. length - 1 : finalList'[k] = 0
  BY <1>2b DEF Fees!Zeros
<1>5. FeeTypes'
  <2>1. result' = result /\ length' = length /\ step' = step
    BY <1>1, SameList
  <2>2. Fees!TypeOK'
    BY <1>0, <1>2, <1>4, <2>1 DEF Fees!TypeOK
  <2>3. fee_pc' = "compare" =>
            /\ step' \in 0 .. length' /\ listSize' \in 0 .. length'
            /\ j' \in -1 .. listSize' - 1 /\ finalListIndex' + j' < listSize'
            /\ total' < result'
    BY <1>0, <1>2, <1>2a, <2>1
  <2>4. QED
    BY <1>2a, <2>2, <2>3 DEF FeeTypes
<1>6. Picks'
  <2>1. IsFiniteSet(0 .. length - 1)
    BY FeeNumbers
  <2>2. Fees!SumOver(finalList', 0 .. length - 1) = 0
    BY <1>4, <2>1, SumZero
  <2>3. total' = Fees!sum(finalList')
    BY <1>2, <1>4, <2>2 DEF Fees!sum
  <2>4. Picked(finalList', Fees!tempList', length', 0, j' + 1)
    <3>1. j' + 1 \in Int /\ length' = length
      BY <1>0, <1>1, <1>2, SameList
    <3>2. QED
      BY <1>0, <1>4, <3>1, PickedNone
  <2>5. QED
    BY <1>2, <1>2a, <2>3, <2>4 DEF Picks
<1>7. Before'
  <2>1. \A z \in 0 .. step' - 1 : NoSimpleWithout(z)'
    BY <1>1, SameList, SameArgs DEF Before
  <2>2. Fees!sum(inputList)' # result'
    BY <1>1, <1>2a, SameList DEF Before
  <2>3. fee_pc' = "no found the result" => result' < inputList'[0] \/ step' > length'
    BY <1>1, <1>2a, SameList
  <2>4. QED
    BY <1>2a, <2>1, <2>2, <2>3 DEF Before
<1>8. FullRow'
  <2>1. fee_pc' = "compare" => AtMost(length - 1) = (0 .. length) \ {step}
    BY <1>0, <1>2a DEF AtMost, Place
  <2>2. fee_pc' = "compare" => AtMost(j)' = (0 .. length) \ {step}
    BY <1>0, <1>1, <1>2, <1>2a DEF AtMost, Place, FeeList
  <2>3. IsFiniteSet(0 .. length) /\ inputList \in [0 .. length -> Int]
    BY FeeNumbers
  <2>4. Fees!SumOver(inputList, (0 .. length) \ {step}) \in Int
    BY <2>3, SumFirst
  <2>5. \A k \in j' + 1 .. length' - 1 : FALSE
    BY <1>0, <1>1, <1>2, SameList
  <2>6. listSize' = length' /\ ~(listSize' < length')
    BY <1>0, <1>1, <1>2, SameList
  <2>7. inputList' = inputList /\ result' = result /\ length' = length /\ step' = step
    BY <1>1, SameList
  <2>8. ASSUME fee_pc' = "compare", Fees!SumOver(inputList', (0 .. length') \ {step'}) = result'
        PROVE  total' + Fees!SumOver(inputList', AtMost(j)') = result'
    <3>1. AtMost(j)' = (0 .. length') \ {step'}
      BY <2>2, <2>7, <2>8
    <3>2. Fees!SumOver(inputList', (0 .. length') \ {step'}) \in Int
      BY <2>4, <2>7
    <3> DEFINE rest == Fees!SumOver(inputList', (0 .. length') \ {step'})
    <3>3. Fees!SumOver(inputList', AtMost(j)') = rest
      BY <3>1
    <3>4. rest \in Int /\ rest = result' /\ total' = 0
      BY <1>2, <3>2, <2>8
    <3>5. total' + rest = result'
      BY <3>4
    <3> HIDE DEF rest
    <3>6. QED
      BY <3>3, <3>5, Zenon
  <2>9. QED
    BY <2>5, <2>6, <2>8 DEF FullRow
<1>9. PairRow'
  BY <1>0, <1>1, <1>2, <1>2a, SameList DEF PairRow
<1>10. QED
  BY <1>3, <1>5, <1>6, <1>7, <1>8, <1>9

LEMMA OneStep == FeeInv /\ Fees!One => FeeInv'
<1> SUFFICES ASSUME FeeInv, Fees!One PROVE FeeInv'
  OBVIOUS
<1> USE DEF FeeInv
<1>1. UNCHANGED Fees!args /\ UNCHANGED FeeList
  BY DEF Fees!One, Fees!args, FeeList
<1>2. /\ UNCHANGED <<listSize, j, finalList, finalListIndex, total>>
      /\ fee_pc = "compare" /\ fee_pc' = "one"
  BY DEF Fees!One, Fees!final
<1>3. FeeArgs'
  BY <1>1, SameArgs
<1>4. FeeTypes'
  BY <1>1, <1>2, SameList DEF FeeTypes, Fees!TypeOK
<1>5. Picks'
  BY <1>1, <1>2, SameList DEF Picks, Fees!sum
<1>6. Before'
  <2>1. \A z \in 0 .. step' - 1 : NoSimpleWithout(z)'
    BY <1>1, SameList, SameArgs DEF Before
  <2>2. QED
    BY <1>1, <1>2, <2>1, SameList DEF Before, Fees!sum
<1>7. (FullRow /\ PairRow)'
  BY <1>2 DEF FullRow, PairRow
<1>8. QED
  BY <1>3, <1>4, <1>5, <1>6, <1>7

(* What is left to be looked at adds up to its greatest element and what   *)
(* is left then.                                                           *)
LEMMA AtMostLess ==
    ASSUME FeeArgs, step \in 0 .. length, NEW k \in 0 .. length - 1
    PROVE  /\ Fees!SumOver(inputList, AtMost(k)) =
                  Fees!tempList[k] + Fees!SumOver(inputList, AtMost(k - 1))
           /\ Fees!SumOver(inputList, AtMost(k - 1)) \in Nat
           /\ Fees!SumOver(inputList, AtMost(k)) \in Nat
<1>1. length \in Nat
  BY FeeNumbers
<1>2. AtMost(k) \subseteq 0 .. length /\ AtMost(k - 1) \subseteq 0 .. length
  BY DEF AtMost
<1>3. Place(k) \in AtMost(k)
  BY <1>1 DEF AtMost, Place
<1>4. AtMost(k) \ {Place(k)} = AtMost(k - 1)
  BY <1>1 DEF AtMost, Place
<1>5. IsFiniteSet(0 .. length) /\ inputList \in [0 .. length -> Int]
      /\ inputList \in [0 .. length -> Nat]
  BY FeeNumbers
<1>6. Fees!SumOver(inputList, AtMost(k)) =
          inputList[Place(k)] + Fees!SumOver(inputList, AtMost(k - 1))
  <2> DEFINE A == AtMost(k)
             x == Place(k)
             B == 0 .. length
  <2>1. A \in SUBSET B /\ x \in A /\ IsFiniteSet(B) /\ inputList \in [B -> Int]
    BY <1>2, <1>3, <1>5
  <2> HIDE DEF A, x, B
  <2>2. Fees!SumOver(inputList, A) = inputList[x] + Fees!SumOver(inputList, A \ {x})
    BY <2>1, SumWithout
  <2>3. QED
    BY <1>4, <2>2 DEF A, x
<1>7. Fees!SumOver(inputList, AtMost(k - 1)) \in Nat
      /\ Fees!SumOver(inputList, AtMost(k)) \in Nat
  BY <1>2, <1>5, SumNatural
<1>8. Fees!tempList[k] = inputList[Place(k)]
  BY Places
<1>9. QED
  BY <1>6, <1>7, <1>8

LEMMA AtMostNone ==
    ASSUME FeeArgs, step \in 0 .. length
    PROVE  Fees!SumOver(inputList, AtMost(-1)) = 0
<1>1. AtMost(-1) = {}
  BY FeeNumbers DEF AtMost, Place
<1>2. IsFiniteSet(0 .. length) /\ inputList \in [0 .. length -> Int]
  BY FeeNumbers
<1>3. Fees!SumOver(inputList, {}) = 0
  BY <1>2, SumZero
<1>4. QED
  BY <1>1, <1>3

(* What a round of a row works on.                                         *)
LEMMA InRow ==
    ASSUME FeeInv, fee_pc = "compare"
    PROVE  /\ length \in Nat /\ length >= 1 /\ result \in Nat /\ result >= 1
           /\ step \in 0 .. length /\ listSize \in 0 .. length
           /\ j \in -1 .. listSize - 1 /\ finalListIndex \in Nat
           /\ finalListIndex + j < listSize
           /\ total \in Nat /\ total < result
           /\ finalList \in [0 .. length - 1 -> Nat]
<1>1. length \in Nat /\ length >= 1 /\ result \in Nat /\ result >= 1
  BY FeeNumbers DEF FeeInv
<1>2. finalList \in [0 .. length - 1 -> Nat]
  <2>1. \A v \in FeeValues \cup {0} : v \in Nat
    BY InputsAssumption
  <2>2. finalList \in [0 .. length - 1 -> FeeValues \cup {0}]
    BY DEF FeeInv, FeeTypes, Fees!TypeOK
  <2>3. QED
    BY <2>1, <2>2
<1>3. QED
  BY <1>1, <1>2 DEF FeeInv, FeeTypes, Fees!TypeOK

(* A fee that does not fit is none that the simple answers need.           *)
LEMMA FeeSkipStep == FeeInv /\ Fees!Skip => FeeInv'
<1> SUFFICES ASSUME FeeInv, Fees!Skip PROVE FeeInv'
  OBVIOUS
<1>1. UNCHANGED Fees!args /\ UNCHANGED FeeList
  BY DEF Fees!Skip, Fees!args, FeeList
<1>2. /\ fee_pc = "compare" /\ fee_pc' = "compare"
      /\ UNCHANGED <<listSize, finalList, finalListIndex, total>>
      /\ j >= 0 /\ j' = j - 1
  BY DEF Fees!Skip, Fees!final
<1>3. /\ Fees!tempList[j] # result
      /\ result < Fees!tempList[j] \/ result - total < Fees!tempList[j]
  BY DEF Fees!Skip
<1>4. FeeArgs /\ FeeTypes /\ Picks /\ Before /\ FullRow /\ PairRow
  BY DEF FeeInv
<1>5. /\ length \in Nat /\ length >= 1 /\ result \in Nat /\ result >= 1
      /\ step \in 0 .. length /\ listSize \in 0 .. length
      /\ j \in -1 .. listSize - 1 /\ finalListIndex \in Nat
      /\ finalListIndex + j < listSize
      /\ total \in Nat /\ total < result
  BY <1>2, InRow
<1>6. /\ inputList' = inputList /\ result' = result
      /\ length' = length /\ step' = step
      /\ Fees!tempList' = Fees!tempList
  BY <1>1, SameList
<1>7. j \in 0 .. length - 1 /\ Fees!tempList[j] \in Nat /\ Fees!tempList[j] >= 1
  <2>1. j \in 0 .. length - 1
    BY <1>2, <1>5
  <2>2. QED
    BY <2>1, <1>4, <1>5, Places
<1>8. FeeArgs'
  BY <1>1, <1>4, SameArgs
<1>9. FeeTypes'
  <2>1. Fees!TypeOK'
    BY <1>2, <1>4, <1>5, <1>6 DEF FeeTypes, Fees!TypeOK
  <2>2. QED
    BY <1>2, <1>5, <1>6, <2>1 DEF FeeTypes
<1>10. Picks'
  <2>1. Picked(finalList, Fees!tempList, length, finalListIndex, j + 1)
    BY <1>2, <1>4 DEF Picks
  <2>2. Picked(finalList, Fees!tempList, length, finalListIndex, j)
    <3>1. j + 1 \in Int /\ j \in Int /\ j <= j + 1
      BY <1>7
    <3>2. QED
      BY <1>5, <2>1, <3>1, PickedFrom
  <2>3. j' + 1 = j
    BY <1>2, <1>7
  <2>4. total' = Fees!sum(finalList')
    BY <1>2, <1>4 DEF Picks
  <2>5. Picked(finalList', Fees!tempList', length', finalListIndex', j' + 1)
    BY <1>2, <1>6, <2>2, <2>3
  <2>6. QED
    BY <1>2, <2>4, <2>5 DEF Picks
<1>11. Before'
  <2>1. \A z \in 0 .. step' - 1 : NoSimpleWithout(z)'
    BY <1>1, <1>4, <1>6, SameArgs DEF Before
  <2>2. QED
    BY <1>2, <1>4, <1>6, <2>1 DEF Before, Fees!sum
<1>12. FullRow'
  <2>1. AtMost(j)' = AtMost(j - 1)
    BY <1>2, <1>6 DEF AtMost, Place
  <2>2. ASSUME listSize = length
        PROVE  /\ \A k \in j .. length - 1 : Fees!tempList[k] # result
               /\ Fees!SumOver(inputList, (0 .. length) \ {step}) # result
    <3>1. \A k \in j + 1 .. length - 1 : Fees!tempList[k] # result
      BY <1>2, <1>4, <2>2 DEF FullRow
    <3>2. \A k \in j .. length - 1 : k = j \/ k \in j + 1 .. length - 1
      BY <1>5, <1>7
    <3>3. ASSUME Fees!SumOver(inputList, (0 .. length) \ {step}) = result PROVE FALSE
      <4>1. total + Fees!SumOver(inputList, AtMost(j)) = result
        BY <1>2, <1>4, <2>2, <3>3 DEF FullRow
      <4>2. /\ Fees!SumOver(inputList, AtMost(j)) =
                   Fees!tempList[j] + Fees!SumOver(inputList, AtMost(j - 1))
            /\ Fees!SumOver(inputList, AtMost(j - 1)) \in Nat
        BY <1>4, <1>5, <1>7, AtMostLess
      <4>3. QED
        BY <1>3, <1>5, <1>7, <4>1, <4>2
    <3>4. QED
      BY <1>3, <3>1, <3>2, <3>3
  <2>3. ASSUME listSize < length
        PROVE  /\ \A k \in 0 .. length - 1 : Fees!tempList[k] # result
               /\ Fees!SumOver(inputList, (0 .. length) \ {step}) # result
    BY <1>2, <1>4, <2>3 DEF FullRow
  <2>4. j' + 1 = j /\ listSize' = listSize
    BY <1>2, <1>7
  <2>5. QED
    BY <1>6, <2>2, <2>3, <2>4 DEF FullRow
<1>13. PairRow'
  <2>1. SUFFICES ASSUME NEW u \in 0 .. length - 1, NEW v \in 0 .. length - 1, u < v,
                        Fees!tempList[u] + Fees!tempList[v] = result
                 PROVE  /\ v < listSize
                        /\ v = listSize - 1 =>
                             /\ u <= j'
                             /\ total = IF j' = v THEN 0 ELSE Fees!tempList[v]
    BY <1>2, <1>6 DEF PairRow
  <2>2. /\ v < listSize
        /\ v = listSize - 1 =>
             /\ u <= j
             /\ total = IF j = v THEN 0 ELSE Fees!tempList[v]
    BY <1>2, <1>4, <2>1 DEF PairRow
  <2>3. /\ Fees!tempList[u] \in Nat /\ Fees!tempList[u] >= 1
        /\ Fees!tempList[v] \in Nat /\ Fees!tempList[v] >= 1
    BY <1>4, <1>5, Places
  <2>4. v = listSize - 1 => j # v
    BY <1>3, <1>5, <2>1, <2>2, <2>3
  <2>5. v = listSize - 1 => j # u
    BY <1>3, <1>5, <2>1, <2>2, <2>3, <2>4
  <2>6. QED
    BY <1>2, <1>5, <1>7, <2>2, <2>4, <2>5
<1>14. QED
  BY <1>8, <1>9, <1>10, <1>11, <1>12, <1>13 DEF FeeInv

(* A fee that fits is taken; the first that fits after the greater one of  *)
(* two that are an answer is the other one or is as large.                 *)
LEMMA TakeStep == FeeInv /\ Fees!Take => FeeInv'
<1> SUFFICES ASSUME FeeInv, Fees!Take PROVE FeeInv'
  OBVIOUS
<1>1. UNCHANGED Fees!args /\ UNCHANGED FeeList
  BY DEF Fees!Take, Fees!args, FeeList
<1>2. /\ fee_pc = "compare" /\ j >= 0 /\ listSize' = listSize
      /\ Fees!tempList[j] < result /\ Fees!tempList[j] <= result - total
  BY DEF Fees!Take
<1>3. /\ finalList' = [finalList EXCEPT ![finalListIndex] = Fees!tempList[j]]
      /\ total' = Fees!sum(finalList')
  BY DEF Fees!Take
<1>4. /\ total' = result =>
            fee_pc' = "some" /\ finalListIndex' = finalListIndex /\ j' = j
      /\ total' # result =>
            fee_pc' = "compare" /\ finalListIndex' = finalListIndex + 1 /\ j' = j - 1
  BY <1>2 DEF Fees!Take
<1>5. FeeArgs /\ FeeTypes /\ Picks /\ Before /\ FullRow /\ PairRow
  BY DEF FeeInv
<1>6. /\ length \in Nat /\ length >= 1 /\ result \in Nat /\ result >= 1
      /\ step \in 0 .. length /\ listSize \in 0 .. length
      /\ j \in -1 .. listSize - 1 /\ finalListIndex \in Nat
      /\ finalListIndex + j < listSize
      /\ total \in Nat /\ total < result
      /\ finalList \in [0 .. length - 1 -> Nat]
  BY <1>2, InRow
<1>7. /\ inputList' = inputList /\ result' = result
      /\ length' = length /\ step' = step
      /\ Fees!tempList' = Fees!tempList
  BY <1>1, SameList
<1>8. /\ j \in 0 .. length - 1 /\ finalListIndex \in 0 .. length - 1
      /\ Fees!tempList[j] \in FeeValues
      /\ Fees!tempList[j] \in Nat /\ Fees!tempList[j] >= 1
  <2>1. j \in 0 .. length - 1 /\ finalListIndex \in 0 .. length - 1
    BY <1>2, <1>6
  <2>2. QED
    BY <2>1, <1>5, <1>6, Places
<1>9. Picked(finalList, Fees!tempList, length, finalListIndex, j + 1)
  BY <1>2, <1>5 DEF Picks
<1>10. total' = total + Fees!tempList[j]
  <2> DEFINE B == 0 .. length - 1
  <2>1. finalList' \in [0 .. length - 1 -> Int] /\ finalList \in [0 .. length - 1 -> Int]
        /\ DOMAIN finalList = 0 .. length - 1 /\ DOMAIN finalList' = 0 .. length - 1
    BY <1>3, <1>6, <1>8
  <2>2. finalList[finalListIndex] = 0
    BY <1>8, <1>9 DEF Picked
  <2>3. \A y \in (0 .. length - 1) \ {finalListIndex} : finalList[y] = finalList'[y]
    BY <1>3, <1>6
  <2>4. finalList'[finalListIndex] = Fees!tempList[j]
    BY <1>3, <1>6, <1>8
  <2>5. IsFiniteSet(0 .. length - 1)
    BY <1>5, FeeNumbers
  <2>6. Fees!SumOver(finalList', B) =
            Fees!SumOver(finalList, B) - finalList[finalListIndex] + finalList'[finalListIndex]
    <3>1. /\ IsFiniteSet(B) /\ finalList \in [B -> Int] /\ finalList' \in [B -> Int]
          /\ finalListIndex \in B
          /\ \A y \in B \ {finalListIndex} : finalList[y] = finalList'[y]
      BY <1>8, <2>1, <2>3, <2>5
    <3> HIDE DEF B
    <3>2. QED
      BY <3>1, SumChange
  <2>7. total = Fees!SumOver(finalList, 0 .. length - 1)
    BY <1>5, <2>1 DEF Picks, Fees!sum
  <2>8. total' = Fees!SumOver(finalList', 0 .. length - 1)
    BY <1>3, <2>1 DEF Fees!sum
  <2>9. QED
    BY <1>6, <1>8, <2>2, <2>4, <2>6, <2>7, <2>8
<1>11. total' \in Nat /\ total' <= result
  BY <1>2, <1>6, <1>8, <1>10
<1>12. FeeArgs'
  BY <1>1, <1>5, SameArgs
<1>13. FeeTypes'
  <2>1. finalList' \in [0 .. length - 1 -> FeeValues \cup {0}]
    <3>1. finalList \in [0 .. length - 1 -> FeeValues \cup {0}]
      BY <1>5 DEF FeeTypes, Fees!TypeOK
    <3>2. QED
      BY <1>3, <1>8, <3>1
  <2>2. finalListIndex' \in 0 .. length /\ j' \in -2 .. length - 1
    BY <1>4, <1>6, <1>8
  <2>3. Fees!TypeOK'
    BY <1>2, <1>6, <1>7, <1>11, <2>1, <2>2 DEF Fees!TypeOK
  <2>4. fee_pc' = "compare" =>
            /\ step' \in 0 .. length' /\ listSize' \in 0 .. length'
            /\ j' \in -1 .. listSize' - 1 /\ finalListIndex' + j' < listSize'
            /\ total' < result'
    BY <1>2, <1>4, <1>6, <1>7, <1>11
  <2>5. fee_pc' \in {"compare", "some"}
    BY <1>4
  <2>6. QED
    BY <2>3, <2>4, <2>5 DEF FeeTypes
<1>14. Picks'
  <2>1. Picked(finalList', Fees!tempList, length, finalListIndex + 1, j)
    BY <1>3, <1>6, <1>8, <1>9, PickedOneMore
  <2>2. CASE total' = result
    <3>1. Picked(finalList', Fees!tempList', length', finalListIndex' + 1, j')
      BY <1>4, <1>7, <2>1, <2>2
    <3>2. /\ fee_pc' = "some" /\ j' >= 0 /\ finalListIndex' + j' < listSize'
          /\ listSize' <= length'
      BY <1>2, <1>4, <1>6, <1>7, <2>2
    <3>3. QED
      BY <1>3, <1>7, <2>2, <3>1, <3>2 DEF Picks
  <2>3. CASE total' # result
    <3>1. j' + 1 = j
      BY <1>4, <1>8, <2>3
    <3>2. Picked(finalList', Fees!tempList', length', finalListIndex', j' + 1)
      BY <1>4, <1>7, <2>1, <2>3, <3>1
    <3>3. QED
      BY <1>3, <1>4, <2>3, <3>2 DEF Picks
  <2>4. QED
    BY <2>2, <2>3
<1>15. Before'
  <2>1. \A z \in 0 .. step' - 1 : NoSimpleWithout(z)'
    BY <1>1, <1>5, <1>7, SameArgs DEF Before
  <2>2. fee_pc' \in {"compare", "some"}
    BY <1>4
  <2>3. Fees!sum(inputList') # result'
    BY <1>2, <1>5, <1>7 DEF Before
  <2>4. QED
    BY <2>1, <2>2, <2>3 DEF Before
<1>16. FullRow'
  <2>1. AtMost(j)' = AtMost(j')
    BY <1>7 DEF AtMost, Place
  <2> SUFFICES ASSUME fee_pc' = "compare" PROVE FullRow'
    BY DEF FullRow
  <2>2. j' = j - 1 /\ j' + 1 = j
    BY <1>4, <1>8
  <2>3. ASSUME listSize = length
        PROVE  /\ \A k \in j .. length - 1 : Fees!tempList[k] # result
               /\ Fees!SumOver(inputList, (0 .. length) \ {step}) = result =>
                     total' + Fees!SumOver(inputList, AtMost(j - 1)) = result
    <3>1. \A k \in j + 1 .. length - 1 : Fees!tempList[k] # result
      BY <1>2, <1>5, <2>3 DEF FullRow
    <3>2. \A k \in j .. length - 1 : k = j \/ k \in j + 1 .. length - 1
      BY <1>6, <1>8
    <3>3. ASSUME Fees!SumOver(inputList, (0 .. length) \ {step}) = result
          PROVE  total' + Fees!SumOver(inputList, AtMost(j - 1)) = result
      <4>1. total + Fees!SumOver(inputList, AtMost(j)) = result
        BY <1>2, <1>5, <2>3, <3>3 DEF FullRow
      <4>2. /\ Fees!SumOver(inputList, AtMost(j)) =
                   Fees!tempList[j] + Fees!SumOver(inputList, AtMost(j - 1))
            /\ Fees!SumOver(inputList, AtMost(j - 1)) \in Nat
        BY <1>5, <1>6, <1>8, AtMostLess
      <4>3. QED
        BY <1>6, <1>8, <1>10, <4>1, <4>2
    <3>4. Fees!tempList[j] # result
      BY <1>2, <1>6, <1>8
    <3>5. QED
      BY <3>1, <3>2, <3>3, <3>4
  <2>4. ASSUME listSize < length
        PROVE  /\ \A k \in 0 .. length - 1 : Fees!tempList[k] # result
               /\ Fees!SumOver(inputList, (0 .. length) \ {step}) # result
    BY <1>2, <1>5, <2>4 DEF FullRow
  <2>5. AtMost(j)' = AtMost(j - 1)
    BY <2>1, <2>2
  <2>6. QED
    BY <1>2, <1>7, <2>2, <2>3, <2>4, <2>5 DEF FullRow
<1>17. PairRow'
  <2>1. SUFFICES ASSUME NEW u \in 0 .. length - 1, NEW v \in 0 .. length - 1, u < v,
                        Fees!tempList[u] + Fees!tempList[v] = result,
                        fee_pc' = "compare"
                 PROVE  /\ v < listSize
                        /\ v = listSize - 1 =>
                             /\ u <= j'
                             /\ total' = IF j' = v THEN 0 ELSE Fees!tempList[v]
    BY <1>2, <1>7 DEF PairRow
  <2>2. /\ v < listSize
        /\ v = listSize - 1 =>
             /\ u <= j
             /\ total = IF j = v THEN 0 ELSE Fees!tempList[v]
    BY <1>2, <1>5, <2>1 DEF PairRow
  <2>3. /\ Fees!tempList[u] \in Nat /\ Fees!tempList[u] >= 1
        /\ Fees!tempList[v] \in Nat /\ Fees!tempList[v] >= 1
        /\ u <= j => Fees!tempList[u] <= Fees!tempList[j]
    <3>1. /\ \A y \in 0 .. length - 1 : Fees!tempList[y] \in Nat /\ Fees!tempList[y] >= 1
          /\ \A x, y \in 0 .. length - 1 : x <= y => Fees!tempList[x] <= Fees!tempList[y]
      BY <1>5, <1>6, Places
    <3>2. QED
      BY <1>8, <3>1
  <2>4. total' # result /\ j' = j - 1
    BY <1>4, <2>1
  <2>5. v = listSize - 1 => j = v
    <3> SUFFICES ASSUME v = listSize - 1, j # v PROVE FALSE
      OBVIOUS
    <3>1. total = Fees!tempList[v] /\ u <= j
      BY <2>2
    <3>2. Fees!tempList[u] <= Fees!tempList[j] /\ Fees!tempList[j] <= result - total
      BY <1>2, <2>3, <3>1
    <3> DEFINE tu == Fees!tempList[u]
               tv == Fees!tempList[v]
               tj == Fees!tempList[j]
    <3>3. /\ tu \in Nat /\ tv \in Nat /\ tj \in Nat /\ result \in Nat
          /\ tu + tv = result /\ total = tv /\ tu <= tj /\ tj <= result - total
          /\ total' = total + tj /\ total' # result
      BY <1>6, <1>8, <1>10, <2>1, <2>3, <2>4, <3>1, <3>2
    <3> HIDE DEF tu, tv, tj
    <3>4. QED
      BY <3>3
  <2>6. QED
    BY <1>6, <1>8, <1>10, <2>1, <2>2, <2>4, <2>5
<1>18. QED
  BY <1>12, <1>13, <1>14, <1>15, <1>16, <1>17 DEF FeeInv

(* A row that is through has found neither; the next one is tried, or the  *)
(* next step, with all of them missed.                                     *)
LEMMA NextRowStep == FeeInv /\ Fees!NextRow => FeeInv'
<1> SUFFICES ASSUME FeeInv, Fees!NextRow PROVE FeeInv'
  OBVIOUS
<1>1. UNCHANGED Fees!args
  BY DEF Fees!NextRow, Fees!args
<1>2. /\ fee_pc = "compare" /\ j < 0
      /\ listSize' = listSize - 1 /\ j' = listSize - 2
      /\ total' = 0 /\ finalListIndex' = 0
  BY DEF Fees!NextRow
<1>3. finalList' = [k \in DOMAIN finalList |-> IF k < listSize THEN 0 ELSE finalList[k]]
  BY DEF Fees!NextRow
<1>4. /\ listSize = 0 => step' = step + 1 /\ fee_pc' = "step"
      /\ listSize # 0 => step' = step /\ fee_pc' = "compare"
  BY <1>2 DEF Fees!NextRow
<1>5. FeeArgs /\ FeeTypes /\ Picks /\ Before /\ FullRow /\ PairRow
  BY DEF FeeInv
<1>6. /\ length \in Nat /\ length >= 1 /\ result \in Nat /\ result >= 1
      /\ step \in 0 .. length /\ listSize \in 0 .. length
      /\ j \in -1 .. listSize - 1 /\ finalListIndex \in Nat
      /\ finalListIndex + j < listSize
      /\ total \in Nat /\ total < result
      /\ finalList \in [0 .. length - 1 -> Nat]
  BY <1>2, InRow
<1>7. j = -1 /\ finalListIndex <= listSize
  BY <1>2, <1>6
<1>8. inputList' = inputList /\ result' = result /\ length' = length
  BY <1>1, SameArgs
<1>9. FeeArgs'
  BY <1>1, <1>5, SameArgs
<1>10. /\ finalList' \in [0 .. length - 1 -> FeeValues \cup {0}]
       /\ finalList' \in [0 .. length - 1 -> Int]
       /\ DOMAIN finalList' = 0 .. length - 1
       /\ \A k \in 0 .. length - 1 : finalList'[k] = 0
  <2>1. Picked(finalList, Fees!tempList, length, finalListIndex, j + 1)
    BY <1>2, <1>5 DEF Picks
  <2>2. \A k \in finalListIndex .. length - 1 : finalList[k] = 0
    BY <2>1 DEF Picked
  <2>3. DOMAIN finalList = 0 .. length - 1
    BY <1>6
  <2>4. \A k \in 0 .. length - 1 : finalList'[k] = 0
    BY <1>3, <1>6, <1>7, <2>2, <2>3
  <2>5. finalList' = [k \in 0 .. length - 1 |-> finalList'[k]]
    BY <1>3, <2>3
  <2>6. QED
    BY <2>4, <2>5
<1>11. FeeTypes'
  <2>1. Fees!TypeOK'
    BY <1>2, <1>4, <1>6, <1>8, <1>10 DEF Fees!TypeOK
  <2>2. fee_pc' = "compare" =>
            /\ step' \in 0 .. length' /\ listSize' \in 0 .. length'
            /\ j' \in -1 .. listSize' - 1 /\ finalListIndex' + j' < listSize'
            /\ total' < result'
    BY <1>2, <1>4, <1>6, <1>8
  <2>3. fee_pc' \in {"compare", "step"}
    BY <1>4
  <2>4. QED
    BY <2>1, <2>2, <2>3 DEF FeeTypes
<1>12. Picks'
  <2>1. IsFiniteSet(0 .. length - 1)
    BY <1>5, FeeNumbers
  <2>2. Fees!SumOver(finalList', 0 .. length - 1) = 0
    BY <1>10, <2>1, SumZero
  <2>3. total' = Fees!sum(finalList')
    BY <1>2, <1>10, <2>2 DEF Fees!sum
  <2>4. j' + 1 \in Int
    BY <1>2, <1>6
  <2>5. Picked(finalList', Fees!tempList', length', 0, j' + 1)
    BY <1>6, <1>8, <1>10, <2>4, PickedNone
  <2>6. fee_pc' # "some"
    BY <1>4
  <2>7. QED
    BY <1>2, <2>3, <2>5, <2>6 DEF Picks
<1>13. /\ \A k \in 0 .. length - 1 : Fees!tempList[k] # result
       /\ Fees!SumOver(inputList, (0 .. length) \ {step}) # result
  <2>1. CASE listSize < length
    BY <1>2, <1>5, <2>1 DEF FullRow
  <2>2. CASE listSize = length
    <3>1. \A k \in 0 .. length - 1 : Fees!tempList[k] # result
      BY <1>2, <1>5, <1>7, <2>2 DEF FullRow
    <3>2. Fees!SumOver(inputList, AtMost(j)) = 0
      BY <1>5, <1>6, <1>7, AtMostNone
    <3>3. total + Fees!SumOver(inputList, AtMost(j)) # result
      BY <1>6, <3>2
    <3>4. QED
      BY <1>2, <1>5, <2>2, <3>1, <3>3 DEF FullRow
  <2>3. QED
    BY <1>6, <2>1, <2>2
<1>14. ASSUME NEW u \in 0 .. length - 1, NEW v \in 0 .. length - 1, u < v,
              Fees!tempList[u] + Fees!tempList[v] = result
       PROVE  v < listSize - 1
  <2>1. /\ v < listSize
        /\ v = listSize - 1 => u <= j
    BY <1>2, <1>5, <1>14 DEF PairRow
  <2>2. QED
    BY <1>6, <1>7, <2>1
<1>15. fee_pc' = "compare" => FullRow'
  <2> SUFFICES ASSUME fee_pc' = "compare" PROVE FullRow'
    OBVIOUS
  <2>1. step' = step
    BY <1>4
  <2>2. Fees!tempList' = Fees!tempList
    BY <1>8, <2>1 DEF Fees!tempList
  <2>3. listSize' # length'
    BY <1>2, <1>6, <1>8
  <2>4. QED
    BY <1>8, <1>13, <2>1, <2>2, <2>3 DEF FullRow
<1>16. fee_pc' = "compare" => PairRow'
  <2> SUFFICES ASSUME fee_pc' = "compare" PROVE PairRow'
    OBVIOUS
  <2>1. step' = step
    BY <1>4
  <2>2. Fees!tempList' = Fees!tempList
    BY <1>8, <2>1 DEF Fees!tempList
  <2>3. SUFFICES ASSUME NEW u \in 0 .. length - 1, NEW v \in 0 .. length - 1, u < v,
                        Fees!tempList[u] + Fees!tempList[v] = result
                 PROVE  /\ v < listSize'
                        /\ v = listSize' - 1 =>
                             /\ u <= j'
                             /\ total' = IF j' = v THEN 0 ELSE Fees!tempList[v]
    BY <1>8, <2>2 DEF PairRow
  <2>4. v < listSize - 1
    BY <1>14, <2>3
  <2>5. QED
    BY <1>2, <1>6, <2>3, <2>4
<1>17. (FullRow /\ PairRow)'
  BY <1>4, <1>15, <1>16 DEF FullRow, PairRow
<1>18. listSize = 0 => NoSimpleWithout(step)
  <2> SUFFICES ASSUME listSize = 0 PROVE NoSimpleWithout(step)
    OBVIOUS
  <2>1. ASSUME NEW x \in (0 .. length) \ {step} PROVE inputList[x] # result
    <3>1. PICK k \in 0 .. length - 1 : Place(k) = x
      BY <1>5, <1>6, PlaceOf
    <3>2. Fees!tempList[k] = inputList[x]
      BY <1>5, <1>6, <3>1, Places
    <3>3. QED
      BY <1>13, <3>2
  <2>2. ASSUME NEW x \in (0 .. length) \ {step}, NEW y \in (0 .. length) \ {step}, x < y,
               inputList[x] + inputList[y] = result
        PROVE  FALSE
    <3>1. PICK u \in 0 .. length - 1 : Place(u) = x
      BY <1>5, <1>6, PlaceOf
    <3>2. PICK v \in 0 .. length - 1 : Place(v) = y
      BY <1>5, <1>6, PlaceOf
    <3>3. Fees!tempList[u] = inputList[x] /\ Fees!tempList[v] = inputList[y]
      BY <1>5, <1>6, <3>1, <3>2, Places
    <3>4. u < v
      BY <1>6, <2>2, <3>1, <3>2 DEF Place
    <3>5. v < 0 - 1
      BY <1>14, <2>2, <3>3, <3>4
    <3>6. QED
      BY <3>5
  <2>3. QED
    BY <1>13, <2>1, <2>2 DEF NoSimpleWithout
<1>19. Before'
  <2>1. ASSUME NEW z \in 0 .. step' - 1 PROVE NoSimpleWithout(z)
    <3>1. step' = step \/ (step' = step + 1 /\ listSize = 0)
      BY <1>4
    <3>2. z \in 0 .. step - 1 \/ (z = step /\ listSize = 0)
      BY <1>6, <2>1, <3>1
    <3>3. QED
      BY <1>5, <1>18, <3>2 DEF Before
  <2>2. \A z \in 0 .. step' - 1 : NoSimpleWithout(z)'
    BY <1>1, <2>1, SameArgs
  <2>3. fee_pc' \in {"compare", "step"}
    BY <1>4
  <2>4. Fees!sum(inputList') # result'
    BY <1>2, <1>5, <1>8 DEF Before
  <2>5. QED
    BY <2>2, <2>3, <2>4 DEF Before
<1>20. QED
  BY <1>9, <1>11, <1>12, <1>17, <1>19 DEF FeeInv

LEMMA FeeStep == FeeInv /\ [Fees!Next]_feeVars => FeeInv'
<1> SUFFICES ASSUME FeeInv, [Fees!Next]_feeVars PROVE FeeInv'
  OBVIOUS
<1>1. CASE Fees!CheckAll
  BY <1>1, CheckAllStep
<1>2. CASE Fees!Step
  BY <1>2, StepStep
<1>3. CASE Fees!One
  BY <1>3, OneStep
<1>4. CASE Fees!Skip
  BY <1>4, FeeSkipStep
<1>5. CASE Fees!Take
  BY <1>5, TakeStep
<1>6. CASE Fees!NextRow
  BY <1>6, NextRowStep
<1>7. CASE UNCHANGED feeVars
  <2>1. UNCHANGED Fees!args /\ UNCHANGED FeeList
    BY <1>7 DEF feeVars, Fees!args, FeeList
  <2>2. UNCHANGED <<listSize, j, finalList, finalListIndex, total, fee_pc>>
    BY <1>7 DEF feeVars
  <2>3. FeeArgs'
    BY <2>1, SameArgs DEF FeeInv
  <2>4. FeeTypes'
    BY <2>1, <2>2, SameList DEF FeeInv, FeeTypes, Fees!TypeOK
  <2>5. Picks'
    BY <2>1, <2>2, SameList DEF FeeInv, Picks, Fees!sum
  <2>6. Before'
    <3>1. \A z \in 0 .. step' - 1 : NoSimpleWithout(z)'
      BY <2>1, SameList, SameArgs DEF FeeInv, Before
    <3>2. QED
      BY <2>1, <2>2, <3>1, SameList DEF FeeInv, Before, Fees!sum
  <2>7. FullRow'
    BY <2>1, <2>2, SameList DEF FeeInv, FullRow
  <2>8. PairRow'
    BY <2>1, <2>2, SameList DEF FeeInv, PairRow
  <2>9. QED
    BY <2>3, <2>4, <2>5, <2>6, <2>7, <2>8 DEF FeeInv
<1>8. QED
  BY <1>1, <1>2, <1>3, <1>4, <1>5, <1>6, <1>7 DEF Fees!Next

-----------------------------------------------------------------------------
LEMMA FeeCardinality == \A S : Fees!Cardinality(S) = Cardinality(S)
BY DEF Fees!Cardinality, Cardinality

(* Zeros do not count.                                                     *)
LEMMA SumBut ==
    ASSUME NEW B, IsFiniteSet(B), NEW f \in [B -> Int], NEW T \in SUBSET B,
           \A x \in B \ T : f[x] = 0
    PROVE  Fees!SumOver(f, B) = Fees!SumOver(f, T)
<1> DEFINE Z == {U \in SUBSET B : Fees!SumOver(f, U) = Fees!SumOver(f, U \cap T)}
<1>1. ASSUME NEW U \in SUBSET B, \A y \in U : U \ {y} \in Z PROVE U \in Z
  <2>1. CASE U \subseteq T
    <3>1. U \cap T = U
      BY <2>1
    <3>2. QED
      BY <3>1
  <2>2. CASE ~(U \subseteq T)
    <3>1. PICK y \in U : y \notin T
      BY <2>2
    <3>2. (U \ {y}) \cap T = U \cap T
      BY <3>1
    <3>3. Fees!SumOver(f, U \ {y}) = Fees!SumOver(f, U \cap T)
      BY <1>1, <3>2
    <3>4. Fees!SumOver(f, U) = f[y] + Fees!SumOver(f, U \ {y})
      BY SumWithout
    <3>5. f[y] = 0
      BY <3>1
    <3>6. U \cap T \in SUBSET B
      OBVIOUS
    <3>7. Fees!SumOver(f, U \cap T) \in Int
      BY <3>6, SumFirst
    <3>8. QED
      BY <3>3, <3>4, <3>5, <3>7
  <2>3. QED
    BY <2>1, <2>2
<1>2. SUBSET B \subseteq Z
  <2> HIDE DEF Z
  <2>1. QED
    BY <1>1, SubsetInduction
<1>3. Fees!SumOver(f, B) = Fees!SumOver(f, B \cap T) /\ B \cap T = T
  BY <1>2
<1>4. QED
  BY <1>3

(* One and two summands.                                                   *)
LEMMA SumOfOne ==
    ASSUME NEW B, IsFiniteSet(B), NEW f \in [B -> Int], NEW x \in B
    PROVE  Fees!SumOver(f, {x}) = f[x]
<1>1. Fees!SumOver(f, {x}) = f[x] + Fees!SumOver(f, {x} \ {x})
  <2>1. {x} \in SUBSET B /\ x \in {x}
    OBVIOUS
  <2>2. QED
    BY <2>1, SumWithout
<1>2. {x} \ {x} = {}
  OBVIOUS
<1>3. Fees!SumOver(f, {}) = 0
  BY SumZero
<1>4. Fees!SumOver(f, {x}) = f[x] + 0
  BY <1>1, <1>2, <1>3
<1>5. f[x] \in Int
  OBVIOUS
<1>6. QED
  BY <1>4, <1>5

LEMMA SumOfTwo ==
    ASSUME NEW B, IsFiniteSet(B), NEW f \in [B -> Int], NEW x \in B, NEW y \in B, x # y
    PROVE  Fees!SumOver(f, {x, y}) = f[x] + f[y]
<1>1. Fees!SumOver(f, {x, y}) = f[x] + Fees!SumOver(f, {x, y} \ {x})
  <2>1. {x, y} \in SUBSET B /\ x \in {x, y}
    OBVIOUS
  <2>2. QED
    BY <2>1, SumWithout
<1>2. {x, y} \ {x} = {y}
  OBVIOUS
<1>3. Fees!SumOver(f, {y}) = f[y]
  BY SumOfOne
<1>4. QED
  BY <1>1, <1>2, <1>3

LEMMA TwoElements ==
    ASSUME NEW S, IsFiniteSet(S), Cardinality(S) = 2
    PROVE  \E x, y : x # y /\ S = {x, y}
<1>1. PICK x : x \in S
  BY FS_EmptySet
<1>2. IsFiniteSet(S \ {x}) /\ Cardinality(S \ {x}) = 1
  BY <1>1, FS_RemoveElement
<1>3. PICK y : S \ {x} = {y}
  BY <1>2, FS_Singleton
<1>4. QED
  BY <1>1, <1>3

(* What is printed: no fee is taken more often than it was given.          *)
LEMMA AnswerMade == FeeInv => Fees!AnswerIsMadeOfFees
<1> SUFFICES ASSUME FeeInv, fee_pc = "some" PROVE Fees!AnswerIsMadeOfFees
  BY DEF Fees!AnswerIsMadeOfFees
<1>1. FeeArgs /\ FeeTypes /\ Picks
  BY DEF FeeInv
<1>2. length \in Nat /\ result \in Nat /\ inputList \in [0 .. length -> Nat]
      /\ DOMAIN inputList = 0 .. length
      /\ IsFiniteSet(0 .. length) /\ IsFiniteSet(0 .. length - 1)
  BY <1>1, FeeNumbers
<1>3. /\ step \in 0 .. length + 1 /\ j \in 0 .. length - 1
      /\ finalListIndex \in Nat /\ finalListIndex + j < listSize
      /\ listSize \in Int /\ listSize <= length
  BY <1>1, <1>2 DEF FeeTypes, Fees!TypeOK, Picks
<1>4. finalList \in [0 .. length - 1 -> Int] /\ DOMAIN finalList = 0 .. length - 1
  <2>1. \A v \in FeeValues \cup {0} : v \in Int
    BY InputsAssumption
  <2>2. finalList \in [0 .. length - 1 -> FeeValues \cup {0}]
    BY <1>1 DEF FeeTypes, Fees!TypeOK
  <2>3. QED
    BY <2>1, <2>2
<1>5. Picked(finalList, Fees!tempList, length, finalListIndex + 1, j)
  BY <1>1 DEF Picks
<1>6. \A k \in finalListIndex + 1 .. length - 1 : finalList[k] = 0
  BY <1>5 DEF Picked
<1>7. Fees!SumOver(finalList, 0 .. listSize - 1) = result
  <2>1. Fees!SumOver(finalList, 0 .. length - 1) = result
    BY <1>1, <1>4 DEF Picks, Fees!sum
  <2>2. \A k \in (0 .. length - 1) \ (0 .. listSize - 1) : finalList[k] = 0
    BY <1>2, <1>3, <1>6
  <2>3. (0 .. listSize - 1) \in SUBSET (0 .. length - 1)
    BY <1>2, <1>3
  <2>4. QED
    BY <1>2, <1>4, <2>1, <2>2, <2>3, SumBut
<1>8. ASSUME NEW f \in FeeValues
      PROVE  Cardinality({k \in DOMAIN finalList : finalList[k] = f})
                 <= Cardinality({k \in DOMAIN inputList : inputList[k] = f})
  <2> DEFINE A == {k \in DOMAIN finalList : finalList[k] = f}
             B == {k \in DOMAIN inputList : inputList[k] = f}
             n == finalListIndex + 1
  <2>1. PICK g \in Injection(0 .. n - 1, j .. length - 1) :
                 \A k \in 0 .. n - 1 : finalList[k] = Fees!tempList[g[k]]
    BY <1>5 DEF Picked
  <2> DEFINE h == [k \in A |-> Place(g[k])]
  <2>2. f # 0
    BY InputsAssumption
  <2>3. \A k \in A : k \in 0 .. n - 1
    BY <1>2, <1>3, <1>4, <1>6, <2>2
  <2>4. \A k \in 0 .. n - 1 : g[k] \in 0 .. length - 1
    BY <1>2, <1>3, <2>1 DEF Injection
  <2>5. \A k, m \in 0 .. n - 1 : g[k] = g[m] => k = m
    BY <2>1 DEF Injection, IsInjective
  <2>6. \A k \in A : h[k] \in B
    <3>1. SUFFICES ASSUME NEW k \in A PROVE Place(g[k]) \in B
      OBVIOUS
    <3>2. g[k] \in 0 .. length - 1 /\ finalList[k] = Fees!tempList[g[k]] /\ finalList[k] = f
      BY <2>1, <2>3, <2>4
    <3>3. Place(g[k]) \in 0 .. length /\ Fees!tempList[g[k]] = inputList[Place(g[k])]
      <4>1. step \in Int
        BY <1>2, <1>3
      <4>2. \A m \in 0 .. length - 1 :
                Place(m) \in 0 .. length /\ Fees!tempList[m] = inputList[Place(m)]
        BY <1>1, <4>1, Places
      <4>3. QED
        BY <3>2, <4>2
    <3>4. QED
      BY <1>2, <3>2, <3>3
  <2>7. \A k, m \in A : h[k] = h[m] => k = m
    <3>1. SUFFICES ASSUME NEW k \in A, NEW m \in A, Place(g[k]) = Place(g[m]) PROVE k = m
      OBVIOUS
    <3>2. /\ g[k] \in 0 .. length - 1 /\ g[m] \in 0 .. length - 1
          /\ g[k] \in Int /\ g[m] \in Int
      BY <1>2, <2>3, <2>4
    <3>3. g[k] = g[m]
      BY <1>3, <3>1, <3>2 DEF Place
    <3>4. k \in 0 .. n - 1 /\ m \in 0 .. n - 1
      BY <2>3
    <3> HIDE DEF n
    <3>5. QED
      BY <2>5, <3>3, <3>4
  <2>8. h \in Injection(A, B)
    <3>1. h \in [A -> B] /\ DOMAIN h = A
      BY <2>6
    <3> HIDE DEF A, B, h
    <3>2. QED
      BY <2>7, <3>1 DEF Injection, IsInjective
  <2>9. IsFiniteSet(B)
    <3>1. B \in SUBSET (0 .. length)
      BY <1>2
    <3> HIDE DEF B
    <3>2. QED
      BY <1>2, <3>1, FS_Subset
  <2> HIDE DEF A, B, h
  <2>10. Cardinality(A) <= Cardinality(B)
    BY <2>8, <2>9, FS_Injection
  <2>11. QED
    BY <2>10 DEF A, B
<1>9. QED
  BY <1>7, <1>8, FeeCardinality DEF Fees!AnswerIsMadeOfFees

(* Every answer is at least the smallest fee.                              *)
LEMMA LeastFee ==
    ASSUME FeeArgs, NEW S, S \subseteq 0 .. length, NEW x, x \in S
    PROVE  Fees!SumOver(inputList, S) >= inputList[0]
<1> DEFINE B == 0 .. length
<1>1. length \in Nat /\ IsFiniteSet(B) /\ inputList \in [B -> Nat]
      /\ inputList \in [B -> Int]
  BY FeeNumbers
<1>2. S \in SUBSET B /\ S \ {x} \in SUBSET B /\ 0 \in B /\ x \in B
  BY <1>1
<1>3. inputList[0] <= inputList[x]
  BY <1>1, <1>2 DEF FeeArgs
<1> HIDE DEF B
<1>4. Fees!SumOver(inputList, S) = inputList[x] + Fees!SumOver(inputList, S \ {x})
  <2>1. IsFiniteSet(B) /\ inputList \in [B -> Int] /\ S \in SUBSET B /\ x \in S
    BY <1>1, <1>2
  <2>2. QED
    BY ONLY <2>1, SumWithout
<1>5. Fees!SumOver(inputList, S \ {x}) \in Nat
  BY <1>1, <1>2, SumNatural
<1>6. inputList[0] \in Nat /\ inputList[x] \in Nat
  BY <1>1, <1>2
<1>7. QED
  BY <1>3, <1>4, <1>5, <1>6

(* A search that ends without an answer has missed no simple one.          *)
NothingFound == fee_pc = "no found the result"

LEMMA NoSimpleMissed ==
    ASSUME FeeInv, NothingFound,
           NEW S \in SUBSET (0 .. length),
           Cardinality(S) \in {1, 2, length, length + 1},
           Fees!SumOver(inputList, S) = result
    PROVE  FALSE
<1>1. FeeArgs /\ FeeTypes /\ Before
  BY DEF FeeInv
<1>2. /\ length \in Nat /\ length >= 1 /\ result \in Nat
      /\ inputList \in [0 .. length -> Nat] /\ inputList \in [0 .. length -> Int]
      /\ DOMAIN inputList = 0 .. length /\ IsFiniteSet(0 .. length)
  BY <1>1, FeeNumbers
<1>3. S \in SUBSET (0 .. length) /\ IsFiniteSet(S)
      /\ Cardinality(0 .. length) = length + 1
  <2>1. IsFiniteSet(S)
    BY <1>2, FS_Subset
  <2>2. Cardinality(0 .. length) = length + 1
    <3>1. 0 \in Int /\ length \in Int /\ ~(0 > length) /\ length - 0 + 1 = length + 1
      BY <1>2
    <3>2. Cardinality(0 .. length) = IF 0 > length THEN 0 ELSE length - 0 + 1
      BY <3>1, FS_Interval, Zenon
    <3>3. QED
      BY <3>1, <3>2
  <2>3. QED
    BY <2>1, <2>2
<1>4. result < inputList[0] \/ step > length
  BY <1>1, Zenon DEF Before, NothingFound
<1>5. CASE result < inputList[0]
  <2>1. S # {}
    BY <1>2, <1>3, FS_EmptySet
  <2>2. PICK x \in S : TRUE
    BY <2>1
  <2>3. result >= inputList[0]
    BY <1>1, <1>3, <2>2, LeastFee
  <2>4. inputList[0] \in Nat
    BY <1>2
  <2>5. QED
    BY <1>2, <1>5, <2>3, <2>4
<1>6. CASE step > length
  <2>0. \A z \in 0 .. length : NoSimpleWithout(z)
    <3>1. \A z \in 0 .. step - 1 : NoSimpleWithout(z)
      BY <1>1, Zenon DEF Before
    <3>2. Fees!TypeOK
      BY <1>1, Zenon DEF FeeTypes
    <3>3. step \in 0 .. length + 1
      BY <3>2 DEF Fees!TypeOK
    <3>4. QED
      BY <1>2, <1>6, <3>1, <3>3
  <2>1. CASE Cardinality(S) = length + 1
    <3>0. Fees!sum(inputList) # result
      BY <1>1, Zenon DEF Before, NothingFound
    <3>1. S = 0 .. length
      BY <1>2, <1>3, <2>1, FS_Subset
    <3>2. QED
      BY <1>2, <3>0, <3>1 DEF Fees!sum
  <2>2. CASE Cardinality(S) = length
    <3> DEFINE R == (0 .. length) \ S
    <3>1. Cardinality(R) = 1 /\ IsFiniteSet(R)
      <4>1. (0 .. length) \cap S = S
        BY <1>3
      <4>2. QED
        <5> DEFINE B == 0 .. length
        <5>1. IsFiniteSet(B) /\ Cardinality(B) = length + 1 /\ B \cap S = S
          BY <1>2, <1>3, <4>1
        <5>2. length \in Nat /\ Cardinality(S) = length
          BY <1>2, <2>2
        <5> HIDE DEF B
        <5>3. IsFiniteSet(B \ S) /\ Cardinality(B \ S) = Cardinality(B) - Cardinality(B \cap S)
          BY <5>1, FS_Difference, Zenon
        <5>4. IsFiniteSet(B \ S) /\ Cardinality(B \ S) = 1
          BY <5>1, <5>2, <5>3
        <5>5. QED
          BY <5>4 DEF B
    <3>2. PICK z : R = {z}
      <4> HIDE DEF R
      <4>1. QED
        BY <3>1, FS_Singleton
    <3>3. z \in 0 .. length /\ S = (0 .. length) \ {z}
      BY <1>3, <3>2
    <3>4. QED
      BY <2>0, <3>3 DEF NoSimpleWithout
  <2>3. CASE Cardinality(S) = 1
    <3>1. PICK x : S = {x}
      BY <1>3, <2>3, FS_Singleton
    <3>2. x \in 0 .. length
      BY <1>3, <3>1
    <3>3. Fees!SumOver(inputList, {x}) = inputList[x]
      BY <1>2, <3>2, SumOfOne
    <3>4. PICK z \in 0 .. length : z # x
      <4>1. 0 \in 0 .. length /\ 1 \in 0 .. length
        BY <1>2
      <4>2. QED
        BY <4>1
    <3>5. x \in (0 .. length) \ {z}
      BY <3>2, <3>4
    <3>6. inputList[x] # result
      BY <2>0, <3>5 DEF NoSimpleWithout
    <3>7. QED
      BY <3>1, <3>3, <3>6
  <2>4. CASE Cardinality(S) = 2 /\ length # 1
    <3>1. PICK x, y : x # y /\ S = {x, y}
      BY <1>3, <2>4, TwoElements
    <3>2. x \in 0 .. length /\ y \in 0 .. length
      BY <1>3, <3>1
    <3>3. Fees!SumOver(inputList, {x, y}) = inputList[x] + inputList[y]
      <4> DEFINE B == 0 .. length
      <4>1. IsFiniteSet(B) /\ inputList \in [B -> Int] /\ x \in B /\ y \in B /\ x # y
        BY <1>2, <3>1, <3>2
      <4> HIDE DEF B
      <4>2. QED
        BY <4>1, SumOfTwo
    <3>4. PICK z \in 0 .. length : z # x /\ z # y
      <4>1. 0 \in 0 .. length /\ 1 \in 0 .. length /\ 2 \in 0 .. length
        BY <1>2, <2>4
      <4>2. QED
        BY <4>1
    <3>5. x \in (0 .. length) \ {z} /\ y \in (0 .. length) \ {z}
      BY <3>2, <3>4
    <3>6. (x < y => inputList[x] + inputList[y] # result)
          /\ (y < x => inputList[y] + inputList[x] # result)
      BY <2>0, <3>5 DEF NoSimpleWithout
    <3>7. inputList[x] \in Nat /\ inputList[y] \in Nat /\ (x < y \/ y < x)
      BY <1>2, <3>1, <3>2
    <3>8. QED
      BY <3>1, <3>3, <3>6, <3>7
  <2>5. QED
    BY <1>2, <1>3, <2>1, <2>2, <2>3, <2>4
<1>7. QED
  BY <1>4, <1>5, <1>6

LEMMA SimpleFound == FeeInv => Fees!SimpleAnswersFound
<1>1. FeeInv => DOMAIN inputList = 0 .. length
  BY FeeNumbers DEF FeeInv
<1>2. FeeInv /\ NothingFound =>
          \A S \in SUBSET DOMAIN inputList :
              Fees!Cardinality(S) \in {1, 2, length, length + 1} =>
                  Fees!SumOver(inputList, S) # result
  BY <1>1, NoSimpleMissed, FeeCardinality
<1>3. QED
  BY <1>2, Zenon DEF Fees!SimpleAnswersFound, NothingFound

(* The fee search of test_calculateFee, for any number of fees: what it    *)
(* prints adds up to the result and is made of the fees that were given,   *)
(* and when it finds nothing there was no answer of one fee, of two, of    *)
(* all, or of all but one.                                                 *)
THEOREM FeesRightAlways == AlgorithmsSpec => []FeesRight
<1>1. AlgorithmsInit => FeeInv
  BY FeeInit DEF AlgorithmsInit
<1>2. FeeInv /\ [AlgorithmsNext]_allVars => FeeInv'
  <2>1. AlgorithmsNext => [Fees!Next]_feeVars
    BY DEF AlgorithmsNext
  <2>2. UNCHANGED allVars => UNCHANGED feeVars
    BY DEF allVars
  <2>3. QED
    BY <2>1, <2>2, FeeStep
<1>3. FeeInv => FeesRight
  BY AnswerMade, SimpleFound DEF FeeInv, FeeTypes, FeesRight
<1>4. QED
  BY <1>1, <1>2, <1>3, PTL DEF AlgorithmsSpec

-----------------------------------------------------------------------------
(* Matching, told by places: a way through the pattern gives for every     *)
(* character of it the place in the line before which it is done.          *)

(* The character at q of pt may match what is behind the first x           *)
(* characters of ln, up to the first y.                                    *)
Fits(ln, pt, q, x, y) ==
    IF pt[q] = "*" THEN x <= y
    ELSE y = x + 1 /\ (pt[q] = "?" \/ pt[q] = ln[y])

(* f leads from the first x characters of ln, and a of pt, to y and b.     *)
Leads(ln, pt, a, x, b, y, f) ==
    /\ f \in [a .. b -> 0 .. Len(ln)]
    /\ f[a] = x /\ f[b] = y
    /\ \A q \in a + 1 .. b : Fits(ln, pt, q, f[q - 1], f[q])

Way(ln, pt, a, x, b, y) == \E f : Leads(ln, pt, a, x, b, y, f)

LEMMA WayNone ==
    ASSUME NEW ln, NEW pt, Len(ln) \in Nat, NEW a \in Nat,
           NEW x \in 0 .. Len(ln), NEW y \in 0 .. Len(ln)
    PROVE  Way(ln, pt, a, x, a, y) <=> x = y
<1>1. ASSUME x = y PROVE Way(ln, pt, a, x, a, y)
  <2> DEFINE f == [q \in a .. a |-> x]
  <2>1. f \in [a .. a -> 0 .. Len(ln)] /\ f[a] = x
    OBVIOUS
  <2>2. \A q \in a + 1 .. a : FALSE
    OBVIOUS
  <2> HIDE DEF f
  <2>3. Leads(ln, pt, a, x, a, y, f)
    BY <1>1, <2>1, <2>2 DEF Leads
  <2>4. QED
    BY <2>3 DEF Way
<1>2. Way(ln, pt, a, x, a, y) => x = y
  BY DEF Way, Leads
<1>3. QED
  BY <1>1, <1>2

(* The last step of a way, and the first.                                  *)
LEMMA WayLast ==
    ASSUME NEW ln, NEW pt, Len(ln) \in Nat, NEW a \in Nat, NEW b \in Nat, a <= b,
           NEW x \in 0 .. Len(ln), NEW y \in 0 .. Len(ln)
    PROVE  Way(ln, pt, a, x, b + 1, y) <=>
               \E z \in 0 .. Len(ln) : Way(ln, pt, a, x, b, z) /\ Fits(ln, pt, b + 1, z, y)
<1>1. ASSUME Way(ln, pt, a, x, b + 1, y)
      PROVE  \E z \in 0 .. Len(ln) : Way(ln, pt, a, x, b, z) /\ Fits(ln, pt, b + 1, z, y)
  <2>1. PICK f : Leads(ln, pt, a, x, b + 1, y, f)
    BY <1>1 DEF Way
  <2>2. /\ f \in [a .. b + 1 -> 0 .. Len(ln)] /\ f[a] = x /\ f[b + 1] = y
        /\ \A q \in a + 1 .. b + 1 : Fits(ln, pt, q, f[q - 1], f[q])
    BY <2>1 DEF Leads
  <2> DEFINE g == [q \in a .. b |-> f[q]]
  <2>3. g \in [a .. b -> 0 .. Len(ln)] /\ g[a] = x /\ f[b] \in 0 .. Len(ln) /\ g[b] = f[b]
    BY <2>2
  <2>4. \A q \in a + 1 .. b : Fits(ln, pt, q, g[q - 1], g[q])
    <3>1. \A q \in a + 1 .. b :
              q \in a + 1 .. b + 1 /\ g[q - 1] = f[q - 1] /\ g[q] = f[q]
      OBVIOUS
    <3> HIDE DEF g
    <3>2. QED
      BY <2>2, <3>1
  <2>5. Way(ln, pt, a, x, b, f[b])
    <3> HIDE DEF g
    <3>1. Leads(ln, pt, a, x, b, f[b], g)
      BY <2>3, <2>4 DEF Leads
    <3>2. QED
      BY <3>1 DEF Way
  <2>6. Fits(ln, pt, b + 1, f[b], y)
    <3>1. b + 1 \in a + 1 .. b + 1 /\ (b + 1) - 1 = b
      OBVIOUS
    <3>2. Fits(ln, pt, b + 1, f[(b + 1) - 1], f[b + 1])
      BY <2>2, <3>1
    <3>3. QED
      BY <2>2, <3>1, <3>2
  <2>7. QED
    BY <2>3, <2>5, <2>6
<1>2. ASSUME NEW z \in 0 .. Len(ln), Way(ln, pt, a, x, b, z), Fits(ln, pt, b + 1, z, y)
      PROVE  Way(ln, pt, a, x, b + 1, y)
  <2>1. PICK f : Leads(ln, pt, a, x, b, z, f)
    BY <1>2 DEF Way
  <2>2. /\ f \in [a .. b -> 0 .. Len(ln)] /\ f[a] = x /\ f[b] = z
        /\ \A q \in a + 1 .. b : Fits(ln, pt, q, f[q - 1], f[q])
    BY <2>1 DEF Leads
  <2> DEFINE e == b + 1
             g == [q \in a .. e |-> IF q = e THEN y ELSE f[q]]
  <2>3. /\ e \in a .. e /\ a \in a .. e /\ a # e
        /\ \A q \in a .. e : q = e \/ q \in a .. b
        /\ \A q \in a + 1 .. e : q - 1 \in a .. b /\ q - 1 # e /\ q \in a .. e /\ q - 1 \in a .. e
        /\ \A q \in a + 1 .. e : q = e \/ q \in a + 1 .. b
        /\ e - 1 = b
    OBVIOUS
  <2> HIDE DEF e
  <2>4. g \in [a .. e -> 0 .. Len(ln)] /\ g[a] = x /\ g[e] = y
    BY <2>2, <2>3
  <2>5. ASSUME NEW q \in a + 1 .. e PROVE Fits(ln, pt, q, g[q - 1], g[q])
    <3>1. g[q - 1] = f[q - 1]
      BY <2>3
    <3>2. CASE q = e
      <4>1. g[q] = y /\ g[q - 1] = z
        BY <2>2, <2>3, <2>4, <3>1, <3>2
      <4> HIDE DEF g
      <4>2. QED
        BY <1>2, <3>2, <4>1 DEF e
    <3>3. CASE q # e
      <4>1. q \in a + 1 .. b /\ g[q] = f[q]
        BY <2>3, <3>3
      <4> HIDE DEF g
      <4>2. QED
        BY <2>2, <3>1, <4>1
    <3>4. QED
      BY <3>2, <3>3
  <2>6. Leads(ln, pt, a, x, e, y, g)
    <3> HIDE DEF g
    <3>1. QED
      BY <2>4, <2>5 DEF Leads
  <2>7. QED
    <3> HIDE DEF g
    <3>1. QED
      BY <2>6 DEF Way, e
<1>3. QED
  BY <1>1, <1>2

LEMMA WayFirst ==
    ASSUME NEW ln, NEW pt, Len(ln) \in Nat, NEW a \in Nat, NEW b \in Nat, a < b,
           NEW x \in 0 .. Len(ln), NEW y \in 0 .. Len(ln)
    PROVE  Way(ln, pt, a, x, b, y) <=>
               \E z \in 0 .. Len(ln) : Fits(ln, pt, a + 1, x, z) /\ Way(ln, pt, a + 1, z, b, y)
<1> DEFINE e == a + 1
<1>0. /\ e \in a + 1 .. b /\ e - 1 = a /\ e \in a .. b /\ a \in a .. b /\ a # e
      /\ e \in e .. b /\ b \in e .. b /\ b \in a .. b /\ b # a
      /\ \A q \in e .. b : q \in a .. b /\ q # a
      /\ \A q \in a .. b : q = a \/ q \in e .. b
      /\ \A q \in e + 1 .. b : q \in e .. b /\ q - 1 \in e .. b
      /\ \A q \in e .. b : q = e \/ q \in e + 1 .. b
  OBVIOUS
<1> HIDE DEF e
<1>1. ASSUME Way(ln, pt, a, x, b, y)
      PROVE  \E z \in 0 .. Len(ln) : Fits(ln, pt, e, x, z) /\ Way(ln, pt, e, z, b, y)
  <2>1. PICK f : Leads(ln, pt, a, x, b, y, f)
    BY <1>1 DEF Way
  <2>2. /\ f \in [a .. b -> 0 .. Len(ln)] /\ f[a] = x /\ f[b] = y
        /\ \A q \in e .. b : Fits(ln, pt, q, f[q - 1], f[q])
    BY <2>1 DEF Leads, e
  <2> DEFINE g == [q \in e .. b |-> f[q]]
  <2>3. g \in [e .. b -> 0 .. Len(ln)] /\ g[b] = y /\ f[e] \in 0 .. Len(ln) /\ g[e] = f[e]
    BY <1>0, <2>2
  <2>4. \A q \in e + 1 .. b : Fits(ln, pt, q, g[q - 1], g[q])
    <3>1. \A q \in e + 1 .. b : q \in e .. b /\ g[q - 1] = f[q - 1] /\ g[q] = f[q]
      BY <1>0
    <3> HIDE DEF g
    <3>2. QED
      BY <2>2, <3>1
  <2>5. Way(ln, pt, e, f[e], b, y)
    <3> HIDE DEF g
    <3>1. Leads(ln, pt, e, f[e], b, y, g)
      BY <2>3, <2>4 DEF Leads
    <3>2. QED
      BY <3>1 DEF Way
  <2>6. Fits(ln, pt, e, x, f[e])
    <3>1. Fits(ln, pt, e, f[e - 1], f[e])
      BY <1>0, <2>2
    <3>2. QED
      BY <1>0, <2>2, <3>1
  <2>7. QED
    BY <2>3, <2>5, <2>6
<1>2. ASSUME NEW z \in 0 .. Len(ln), Fits(ln, pt, e, x, z), Way(ln, pt, e, z, b, y)
      PROVE  Way(ln, pt, a, x, b, y)
  <2>1. PICK f : Leads(ln, pt, e, z, b, y, f)
    BY <1>2 DEF Way
  <2>2. /\ f \in [e .. b -> 0 .. Len(ln)] /\ f[e] = z /\ f[b] = y
        /\ \A q \in e + 1 .. b : Fits(ln, pt, q, f[q - 1], f[q])
    BY <2>1 DEF Leads
  <2> DEFINE g == [q \in a .. b |-> IF q = a THEN x ELSE f[q]]
  <2>3. g \in [a .. b -> 0 .. Len(ln)] /\ g[a] = x /\ g[b] = y /\ g[e] = z
    BY <1>0, <2>2
  <2>4. ASSUME NEW q \in e .. b PROVE Fits(ln, pt, q, g[q - 1], g[q])
    <3>1. CASE q = e
      <4>1. g[q] = z /\ g[q - 1] = x
        BY <1>0, <2>3, <3>1
      <4> HIDE DEF g
      <4>2. QED
        BY <1>2, <3>1, <4>1
    <3>2. CASE q # e
      <4>1. q \in e + 1 .. b /\ g[q] = f[q] /\ g[q - 1] = f[q - 1]
        BY <1>0, <3>2
      <4> HIDE DEF g
      <4>2. QED
        BY <2>2, <4>1
    <3>3. QED
      BY <3>1, <3>2
  <2>5. Leads(ln, pt, a, x, b, y, g)
    <3> HIDE DEF g
    <3>1. QED
      BY <2>3, <2>4 DEF Leads, e
  <2>6. QED
    <3> HIDE DEF g
    <3>1. QED
      BY <2>5 DEF Way
<1>3. QED
  BY <1>1, <1>2 DEF e

(* The rest of the line from x matches the rest of the pattern from k.     *)
From(ln, pt, x, k) == Way(ln, pt, k - 1, x - 1, Len(pt), Len(ln))

(* What is before x in the line matches what is before k in the pattern.   *)
To(ln, pt, x, k) == Way(ln, pt, 0, 0, k - 1, x - 1)


LEMMA FromEnd ==
    ASSUME NEW ln, NEW pt, Len(ln) \in Nat, Len(pt) \in Nat, NEW x \in 1 .. Len(ln) + 1
    PROVE  From(ln, pt, x, Len(pt) + 1) <=> x = Len(ln) + 1
<1>1. x - 1 \in 0 .. Len(ln) /\ Len(ln) \in 0 .. Len(ln) /\ (Len(pt) + 1) - 1 = Len(pt)
  OBVIOUS
<1>2. Way(ln, pt, Len(pt), x - 1, Len(pt), Len(ln)) <=> x - 1 = Len(ln)
  BY <1>1, WayNone
<1>3. From(ln, pt, x, Len(pt) + 1) <=> x - 1 = Len(ln)
  BY <1>1, <1>2 DEF From
<1>4. QED
  BY <1>3

LEMMA FromStep ==
    ASSUME NEW ln, NEW pt, Len(ln) \in Nat, Len(pt) \in Nat,
           NEW x \in 1 .. Len(ln) + 1, NEW k \in 1 .. Len(pt)
    PROVE  From(ln, pt, x, k) <=>
               \E z \in 1 .. Len(ln) + 1 :
                   Fits(ln, pt, k, x - 1, z - 1) /\ From(ln, pt, z, k + 1)
<1>1. /\ x - 1 \in 0 .. Len(ln) /\ Len(ln) \in 0 .. Len(ln)
      /\ k - 1 \in Nat /\ k - 1 < Len(pt) /\ (k - 1) + 1 = k /\ (k + 1) - 1 = k
      /\ \A z \in 1 .. Len(ln) + 1 : z - 1 \in 0 .. Len(ln)
      /\ \A z \in 0 .. Len(ln) : z + 1 \in 1 .. Len(ln) + 1 /\ (z + 1) - 1 = z
  OBVIOUS
<1> DEFINE h == k - 1
           xx == x - 1
<1>2. /\ h \in Nat /\ h < Len(pt) /\ h + 1 = k /\ xx \in 0 .. Len(ln)
  BY <1>1
<1>3. From(ln, pt, x, k) <=> Way(ln, pt, h, xx, Len(pt), Len(ln))
  BY DEF From
<1> HIDE DEF h
<1>4. Way(ln, pt, h, xx, Len(pt), Len(ln)) <=>
          \E z \in 0 .. Len(ln) :
              Fits(ln, pt, h + 1, xx, z) /\ Way(ln, pt, h + 1, z, Len(pt), Len(ln))
  <2> HIDE DEF xx
  <2>1. QED
    BY <1>1, <1>2, WayFirst
<1>5. \A z \in 1 .. Len(ln) + 1 :
          From(ln, pt, z, k + 1) <=> Way(ln, pt, k, z - 1, Len(pt), Len(ln))
  BY <1>1 DEF From
<1>6. ASSUME NEW z \in 0 .. Len(ln), Fits(ln, pt, k, xx, z), Way(ln, pt, k, z, Len(pt), Len(ln))
      PROVE  \E zz \in 1 .. Len(ln) + 1 :
                 Fits(ln, pt, k, xx, zz - 1) /\ From(ln, pt, zz, k + 1)
  <2>1. z + 1 \in 1 .. Len(ln) + 1 /\ (z + 1) - 1 = z
    OBVIOUS
  <2>2. From(ln, pt, z + 1, k + 1)
    BY <1>5, <1>6, <2>1
  <2>3. Fits(ln, pt, k, xx, (z + 1) - 1)
    BY <1>6, <2>1
  <2> DEFINE zz == z + 1
  <2> HIDE DEF xx
  <2>4. zz \in 1 .. Len(ln) + 1 /\ From(ln, pt, zz, k + 1) /\ Fits(ln, pt, k, xx, zz - 1)
    BY <2>1, <2>2, <2>3
  <2> HIDE DEF zz
  <2>5. QED
    BY <2>4
<1>7. ASSUME NEW z \in 1 .. Len(ln) + 1, Fits(ln, pt, k, xx, z - 1), From(ln, pt, z, k + 1)
      PROVE  \E zz \in 0 .. Len(ln) :
                 Fits(ln, pt, k, xx, zz) /\ Way(ln, pt, k, zz, Len(pt), Len(ln))
  <2>1. z - 1 \in 0 .. Len(ln)
    OBVIOUS
  <2> HIDE DEF xx
  <2>2. QED
    BY <1>5, <1>7, <2>1
<1>8. QED
  BY <1>2, <1>3, <1>4, <1>6, <1>7

LEMMA FromStar ==
    ASSUME NEW ln, NEW pt, Len(ln) \in Nat, Len(pt) \in Nat,
           NEW x \in 1 .. Len(ln) + 1, NEW k \in 1 .. Len(pt), pt[k] = "*"
    PROVE  From(ln, pt, x, k) <=> \E z \in x .. Len(ln) + 1 : From(ln, pt, z, k + 1)
<1>1. \A z \in 1 .. Len(ln) + 1 : Fits(ln, pt, k, x - 1, z - 1) <=> x <= z
  BY DEF Fits
<1>2. \A z \in 1 .. Len(ln) + 1 : x <= z <=> z \in x .. Len(ln) + 1
  OBVIOUS
<1>3. \A z \in x .. Len(ln) + 1 : z \in 1 .. Len(ln) + 1
  OBVIOUS
<1>4. QED
  BY <1>1, <1>2, <1>3, FromStep

LEMMA FromChar ==
    ASSUME NEW ln, NEW pt, Len(ln) \in Nat, Len(pt) \in Nat,
           NEW x \in 1 .. Len(ln) + 1, NEW k \in 1 .. Len(pt), pt[k] # "*"
    PROVE  From(ln, pt, x, k) <=>
               /\ x <= Len(ln)
               /\ pt[k] = "?" \/ pt[k] = ln[x]
               /\ From(ln, pt, x + 1, k + 1)
<1> DEFINE xx == x + 1
<1>1. \A z \in 1 .. Len(ln) + 1 :
          Fits(ln, pt, k, x - 1, z - 1) <=> z = xx /\ (pt[k] = "?" \/ pt[k] = ln[x])
  <2>1. \A z \in 1 .. Len(ln) + 1 : z - 1 = (x - 1) + 1 <=> z = xx
    OBVIOUS
  <2>2. \A z \in 1 .. Len(ln) + 1 : z = xx => z - 1 = x
    OBVIOUS
  <2> HIDE DEF xx
  <2>3. QED
    BY <2>1, <2>2 DEF Fits
<1>2. xx \in 1 .. Len(ln) + 1 <=> x <= Len(ln)
  OBVIOUS
<1> HIDE DEF xx
<1>3. From(ln, pt, x, k) <=> 
          /\ xx \in 1 .. Len(ln) + 1
          /\ pt[k] = "?" \/ pt[k] = ln[x]
          /\ From(ln, pt, xx, k + 1)
  BY <1>1, FromStep
<1>4. QED
  BY <1>2, <1>3 DEF xx

LEMMA ToStart ==
    ASSUME NEW ln, NEW pt, Len(ln) \in Nat, NEW x \in 1 .. Len(ln) + 1
    PROVE  To(ln, pt, x, 1) <=> x = 1
<1>1. x - 1 \in 0 .. Len(ln) /\ 0 \in 0 .. Len(ln) /\ 1 - 1 = 0
  OBVIOUS
<1>2. Way(ln, pt, 0, 0, 0, x - 1) <=> 0 = x - 1
  BY <1>1, WayNone
<1>3. To(ln, pt, x, 1) <=> 0 = x - 1
  BY <1>1, <1>2 DEF To
<1>4. QED
  BY <1>3

LEMMA ToStep ==
    ASSUME NEW ln, NEW pt, Len(ln) \in Nat, Len(pt) \in Nat,
           NEW x \in 1 .. Len(ln) + 1, NEW k \in 1 .. Len(pt)
    PROVE  To(ln, pt, x, k + 1) <=>
               \E z \in 1 .. Len(ln) + 1 :
                   Fits(ln, pt, k, z - 1, x - 1) /\ To(ln, pt, z, k)
<1> DEFINE h == k - 1
           xx == x - 1
<1>1. /\ h \in Nat /\ 0 \in Nat /\ 0 <= h /\ h + 1 = k /\ (k + 1) - 1 = h + 1
      /\ xx \in 0 .. Len(ln) /\ 0 \in 0 .. Len(ln)
  OBVIOUS
<1>2. To(ln, pt, x, k + 1) <=> Way(ln, pt, 0, 0, h + 1, xx)
  BY <1>1 DEF To
<1>3. \A z \in 1 .. Len(ln) + 1 : To(ln, pt, z, k) <=> Way(ln, pt, 0, 0, h, z - 1)
  BY DEF To
<1>4. /\ \A z \in 1 .. Len(ln) + 1 : z - 1 \in 0 .. Len(ln)
      /\ \A z \in 0 .. Len(ln) : z + 1 \in 1 .. Len(ln) + 1 /\ (z + 1) - 1 = z
  OBVIOUS
<1> HIDE DEF h, xx
<1>5. Way(ln, pt, 0, 0, h + 1, xx) <=>
          \E z \in 0 .. Len(ln) : Way(ln, pt, 0, 0, h, z) /\ Fits(ln, pt, h + 1, z, xx)
  BY <1>1, WayLast
<1>6. ASSUME NEW z \in 0 .. Len(ln), Fits(ln, pt, k, z, xx), Way(ln, pt, 0, 0, h, z)
      PROVE  \E zz \in 1 .. Len(ln) + 1 : Fits(ln, pt, k, zz - 1, xx) /\ To(ln, pt, zz, k)
  <2> DEFINE zz == z + 1
  <2>1. zz \in 1 .. Len(ln) + 1 /\ zz - 1 = z
    BY <1>4
  <2> HIDE DEF zz
  <2>2. QED
    BY <1>3, <1>6, <2>1
<1>7. ASSUME NEW z \in 1 .. Len(ln) + 1, Fits(ln, pt, k, z - 1, xx), To(ln, pt, z, k)
      PROVE  \E zz \in 0 .. Len(ln) : Way(ln, pt, 0, 0, h, zz) /\ Fits(ln, pt, k, zz, xx)
  BY <1>3, <1>4, <1>7
<1>8. QED
  BY <1>1, <1>2, <1>5, <1>6, <1>7 DEF xx

LEMMA ToStar ==
    ASSUME NEW ln, NEW pt, Len(ln) \in Nat, Len(pt) \in Nat,
           NEW x \in 1 .. Len(ln) + 1, NEW k \in 1 .. Len(pt), pt[k] = "*"
    PROVE  To(ln, pt, x, k + 1) <=> \E z \in 1 .. x : To(ln, pt, z, k)
<1>1. \A z \in 1 .. Len(ln) + 1 : Fits(ln, pt, k, z - 1, x - 1) <=> z <= x
  BY DEF Fits
<1>2. /\ \A z \in 1 .. Len(ln) + 1 : z <= x <=> z \in 1 .. x
      /\ \A z \in 1 .. x : z \in 1 .. Len(ln) + 1
  OBVIOUS
<1>3. QED
  BY <1>1, <1>2, ToStep

LEMMA ToChar ==
    ASSUME NEW ln, NEW pt, Len(ln) \in Nat, Len(pt) \in Nat,
           NEW x \in 1 .. Len(ln), NEW k \in 1 .. Len(pt), pt[k] # "*"
    PROVE  To(ln, pt, x + 1, k + 1) <=>
               (pt[k] = "?" \/ pt[k] = ln[x]) /\ To(ln, pt, x, k)
<1>1. x + 1 \in 1 .. Len(ln) + 1 /\ (x + 1) - 1 = x /\ x \in 1 .. Len(ln) + 1
  OBVIOUS
<1>2. \A z \in 1 .. Len(ln) + 1 :
          Fits(ln, pt, k, z - 1, x) <=> z = x /\ (pt[k] = "?" \/ pt[k] = ln[x])
  BY DEF Fits
<1> DEFINE xx == x + 1
<1> HIDE DEF xx
<1>3. To(ln, pt, xx, k + 1) <=>
          \E z \in 1 .. Len(ln) + 1 : Fits(ln, pt, k, z - 1, xx - 1) /\ To(ln, pt, z, k)
  BY <1>1, ToStep DEF xx
<1>4. QED
  BY <1>1, <1>2, <1>3 DEF xx

-----------------------------------------------------------------------------
(* Reach of Matches: the beginnings of the line there is a way to.         *)
ReachNext(ln, pt, S, k) ==
    IF pt[k] = "*"
    THEN {y \in 0 .. Len(ln) : \E x \in S : x <= y}
    ELSE {y \in 1 .. Len(ln) : y - 1 \in S /\ (pt[k] = "?" \/ pt[k] = ln[y])}

ReachOf(R, ln, pt) ==
    R = [k \in 0 .. Len(pt) |-> IF k = 0 THEN {0} ELSE ReachNext(ln, pt, R[k - 1], k)]

Reached(ln, pt, k) == {y \in 0 .. Len(ln) : Way(ln, pt, 0, 0, k, y)}

LEMMA MatchesByReach ==
    ASSUME NEW ln, NEW pt
    PROVE  /\ Match!Matches(ln, pt) <=> Len(ln) \in (CHOOSE R : ReachOf(R, ln, pt))[Len(pt)]
           /\ Match2!Matches(ln, pt) <=> Len(ln) \in (CHOOSE R : ReachOf(R, ln, pt))[Len(pt)]
BY DEF Match!Matches, Match2!Matches, ReachOf, ReachNext

LEMMA ReachedNext ==
    ASSUME NEW ln, NEW pt, Len(ln) \in Nat, NEW k \in Nat, k # 0
    PROVE  Reached(ln, pt, k) = ReachNext(ln, pt, Reached(ln, pt, k - 1), k)
<1> DEFINE h == k - 1
           S == Reached(ln, pt, h)
<1>1. h \in Nat /\ 0 <= h /\ h + 1 = k /\ 0 \in Nat
  OBVIOUS
<1> HIDE DEF h
<1>2. \A y \in 0 .. Len(ln) :
          Way(ln, pt, 0, 0, k, y) <=>
              \E x \in 0 .. Len(ln) : Way(ln, pt, 0, 0, h, x) /\ Fits(ln, pt, k, x, y)
  <2>1. 0 \in 0 .. Len(ln)
    OBVIOUS
  <2>2. QED
    BY <1>1, <2>1, WayLast
<1>3. \A x : x \in S <=> x \in 0 .. Len(ln) /\ Way(ln, pt, 0, 0, h, x)
  BY DEF Reached
<1> HIDE DEF S
<1>4. \A y \in 0 .. Len(ln) :
          Way(ln, pt, 0, 0, k, y) <=> \E x \in S : Fits(ln, pt, k, x, y)
  BY <1>2, <1>3
<1>5. S \subseteq 0 .. Len(ln)
  BY <1>3
<1>6. CASE pt[k] = "*"
  <2>1. \A x \in S : \A y \in 0 .. Len(ln) : Fits(ln, pt, k, x, y) <=> x <= y
    BY <1>6 DEF Fits
  <2>2. Reached(ln, pt, k) = {y \in 0 .. Len(ln) : \E x \in S : x <= y}
    BY <1>4, <2>1 DEF Reached
  <2>3. QED
    BY <1>6, <2>2 DEF ReachNext, S, h
<1>7. CASE pt[k] # "*"
  <2>1. \A x \in S : \A y \in 0 .. Len(ln) :
            Fits(ln, pt, k, x, y) <=>
                y \in 1 .. Len(ln) /\ x = y - 1 /\ (pt[k] = "?" \/ pt[k] = ln[y])
    BY <1>5, <1>7 DEF Fits
  <2>2. \A y \in 1 .. Len(ln) : y \in 0 .. Len(ln)
    OBVIOUS
  <2>3. Reached(ln, pt, k) =
            {y \in 1 .. Len(ln) : y - 1 \in S /\ (pt[k] = "?" \/ pt[k] = ln[y])}
    BY <1>4, <2>1, <2>2 DEF Reached
  <2>4. QED
    BY <1>7, <2>3 DEF ReachNext, S, h
<1>8. QED
  BY <1>6, <1>7

LEMMA ReachedFirst ==
    ASSUME NEW ln, NEW pt, Len(ln) \in Nat
    PROVE  Reached(ln, pt, 0) = {0}
<1>1. \A y \in 0 .. Len(ln) : Way(ln, pt, 0, 0, 0, y) <=> 0 = y
  BY WayNone
<1>2. 0 \in 0 .. Len(ln)
  OBVIOUS
<1>3. QED
  BY <1>1, <1>2 DEF Reached

LEMMA ReachExists ==
    ASSUME NEW ln, NEW pt, Len(ln) \in Nat, Len(pt) \in Nat
    PROVE  \E R : ReachOf(R, ln, pt)
<1> DEFINE R == [k \in 0 .. Len(pt) |-> Reached(ln, pt, k)]
           value(k) == IF k = 0 THEN {0} ELSE ReachNext(ln, pt, R[k - 1], k)
<1>1. \A k \in 0 .. Len(pt) : k # 0 => k \in Nat /\ k - 1 \in 0 .. Len(pt)
  OBVIOUS
<1>2. \A k \in 0 .. Len(pt) : R[k] = Reached(ln, pt, k)
  OBVIOUS
<1> HIDE DEF R
<1>3. \A k \in 0 .. Len(pt) : Reached(ln, pt, k) = value(k)
  BY <1>1, <1>2, ReachedNext, ReachedFirst
<1>4. R = [k \in 0 .. Len(pt) |-> value(k)]
  <2> HIDE DEF value
  <2>1. QED
    BY <1>3 DEF R
<1>5. ReachOf(R, ln, pt)
  BY <1>4 DEF ReachOf
<1>6. QED
  BY <1>5

LEMMA ReachIs ==
    ASSUME NEW ln, NEW pt, Len(ln) \in Nat, Len(pt) \in Nat, NEW R, ReachOf(R, ln, pt)
    PROVE  R[Len(pt)] = Reached(ln, pt, Len(pt))
<1> DEFINE N == {n \in Nat : n <= Len(pt) => R[n] = Reached(ln, pt, n)}
           value(k) == IF k = 0 THEN {0} ELSE ReachNext(ln, pt, R[k - 1], k)
<1>1. \A k \in 0 .. Len(pt) : R[k] = value(k)
  BY Zenon DEF ReachOf
<1>2. 0 \in N
  <2>1. 0 \in 0 .. Len(pt)
    OBVIOUS
  <2>2. R[0] = {0}
    BY <1>1, <2>1
  <2>3. QED
    BY <2>2, ReachedFirst
<1>3. ASSUME NEW n \in Nat, n \in N PROVE n + 1 \in N
  <2> DEFINE e == n + 1
  <2>1. SUFFICES ASSUME e <= Len(pt) PROVE R[e] = Reached(ln, pt, e)
    OBVIOUS
  <2>2. e \in 0 .. Len(pt) /\ e \in Nat /\ e # 0 /\ e - 1 = n /\ n <= Len(pt)
    BY <2>1
  <2>3. R[n] = Reached(ln, pt, n)
    BY <1>3, <2>2
  <2> HIDE DEF e
  <2>4. R[e] = ReachNext(ln, pt, R[n], e)
    BY <1>1, <2>2
  <2>5. QED
    BY <2>2, <2>3, <2>4, ReachedNext
<1> HIDE DEF N
<1>4. Len(pt) \in N
  BY <1>2, <1>3, NatSetInduction
<1>5. QED
  BY <1>4 DEF N

(* Matches says that there is a way through the whole of both.             *)
LEMMA MatchesIs ==
    ASSUME NEW ln, NEW pt, Len(ln) \in Nat, Len(pt) \in Nat
    PROVE  /\ Match!Matches(ln, pt) <=> From(ln, pt, 1, 1)
           /\ Match2!Matches(ln, pt) <=> From(ln, pt, 1, 1)
           /\ From(ln, pt, 1, 1) <=> To(ln, pt, Len(ln) + 1, Len(pt) + 1)
<1> DEFINE R == CHOOSE R : ReachOf(R, ln, pt)
<1>1. ReachOf(R, ln, pt)
  BY ReachExists
<1> HIDE DEF R
<1>2. R[Len(pt)] = Reached(ln, pt, Len(pt))
  BY <1>1, ReachIs
<1>3. Len(ln) \in R[Len(pt)] <=> Way(ln, pt, 0, 0, Len(pt), Len(ln))
  BY <1>2 DEF Reached
<1>4. 1 - 1 = 0 /\ (Len(ln) + 1) - 1 = Len(ln) /\ (Len(pt) + 1) - 1 = Len(pt)
  OBVIOUS
<1>5. /\ From(ln, pt, 1, 1) <=> Way(ln, pt, 0, 0, Len(pt), Len(ln))
      /\ To(ln, pt, Len(ln) + 1, Len(pt) + 1) <=> Way(ln, pt, 0, 0, Len(pt), Len(ln))
  BY <1>4 DEF From, To
<1>6. /\ Match!Matches(ln, pt) <=> Len(ln) \in R[Len(pt)]
      /\ Match2!Matches(ln, pt) <=> Len(ln) \in R[Len(pt)]
  BY MatchesByReach DEF R
<1>7. QED
  BY <1>3, <1>5, <1>6

-----------------------------------------------------------------------------
(* The table of memoization: the entry of w and t says whether the rest of *)
(* the text from t matches the rest of the pattern from w.                 *)
MemoNext(D, W, T, w, t) ==
    IF w <= Len(W) /\ t <= Len(T) /\ (W[w] = T[t] \/ W[w] = "?")
    THEN D[<<w + 1, t + 1>>]
    ELSE IF w > Len(W) THEN t > Len(T)
    ELSE W[w] = "*" /\ (D[<<w + 1, t>>] \/ (t <= Len(T) /\ D[<<w, t + 1>>]))

Entries(W, T) == (1 .. Len(W) + 1) \X (1 .. Len(T) + 1)

MemoOf(D, W, T) == D = [wt \in Entries(W, T) |-> MemoNext(D, W, T, wt[1], wt[2])]

LEMMA MemoizationByMemo ==
    ASSUME NEW W, NEW T
    PROVE  /\ Match!memoization(W, T) = (CHOOSE D : MemoOf(D, W, T))[<<1, 1>>]
           /\ Match2!memoization(W, T) = (CHOOSE D : MemoOf(D, W, T))[<<1, 1>>]
BY DEF Match!memoization, Match2!memoization, MemoOf, MemoNext, Entries

(* What MemoNext asks for, of whether the rests match.                     *)
FromNext(W, T, w, t) ==
    IF w <= Len(W) /\ t <= Len(T) /\ (W[w] = T[t] \/ W[w] = "?")
    THEN From(T, W, t + 1, w + 1)
    ELSE IF w > Len(W) THEN t > Len(T)
    ELSE W[w] = "*" /\ (From(T, W, t, w + 1) \/ (t <= Len(T) /\ From(T, W, t + 1, w)))

LEMMA FromIsNext ==
    ASSUME NEW W, NEW T, Len(W) \in Nat, Len(T) \in Nat,
           \A k \in 1 .. Len(T) : T[k] # "*",
           NEW w \in 1 .. Len(W) + 1, NEW t \in 1 .. Len(T) + 1
    PROVE  From(T, W, t, w) <=> FromNext(W, T, w, t)
<1>1. CASE w = Len(W) + 1
  <2>1. From(T, W, t, w) <=> t = Len(T) + 1
    BY <1>1, FromEnd
  <2>2. ~(w <= Len(W)) /\ w > Len(W) /\ (t = Len(T) + 1 <=> t > Len(T))
    BY <1>1
  <2>3. QED
    BY <2>1, <2>2 DEF FromNext
<1>2. CASE w <= Len(W)
  <2>1. w \in 1 .. Len(W) /\ ~(w > Len(W))
    BY <1>2
  <2>2. CASE W[w] = "*"
    <3>1. From(T, W, t, w) <=> \E z \in t .. Len(T) + 1 : From(T, W, z, w + 1)
      BY <2>1, <2>2, FromStar
    <3>2. ASSUME t <= Len(T)
          PROVE  From(T, W, t + 1, w) <=> \E z \in t + 1 .. Len(T) + 1 : From(T, W, z, w + 1)
      <4> DEFINE s == t + 1
      <4>1. s \in 1 .. Len(T) + 1
        BY <3>2
      <4> HIDE DEF s
      <4>2. From(T, W, s, w) <=> \E z \in s .. Len(T) + 1 : From(T, W, z, w + 1)
        BY <2>1, <2>2, <4>1, FromStar
      <4>3. QED
        BY <4>2 DEF s
    <3>3. /\ \A z \in t .. Len(T) + 1 : z = t \/ (t <= Len(T) /\ z \in t + 1 .. Len(T) + 1)
          /\ \A z \in t + 1 .. Len(T) + 1 : z \in t .. Len(T) + 1
          /\ t \in t .. Len(T) + 1
      OBVIOUS
    <3>4. From(T, W, t, w) <=> From(T, W, t, w + 1) \/ (t <= Len(T) /\ From(T, W, t + 1, w))
      BY <3>1, <3>2, <3>3
    <3>5. ~(t <= Len(T) /\ (W[w] = T[t] \/ W[w] = "?"))
      BY <2>2
    <3>6. QED
      BY <2>1, <2>2, <3>4, <3>5 DEF FromNext
  <2>3. CASE W[w] # "*"
    <3>1. From(T, W, t, w) <=>
              t <= Len(T) /\ (W[w] = "?" \/ W[w] = T[t]) /\ From(T, W, t + 1, w + 1)
      BY <2>1, <2>3, FromChar
    <3>2. QED
      BY <1>2, <2>1, <2>3, <3>1 DEF FromNext
  <2>4. QED
    BY <2>2, <2>3
<1>3. QED
  BY <1>1, <1>2

LEMMA MemoExists ==
    ASSUME NEW W, NEW T, Len(W) \in Nat, Len(T) \in Nat,
           \A k \in 1 .. Len(T) : T[k] # "*"
    PROVE  \E D : MemoOf(D, W, T)
<1> DEFINE D == [wt \in Entries(W, T) |-> From(T, W, wt[2], wt[1])]
           next(wt) == MemoNext(D, W, T, wt[1], wt[2])
<1>1. ASSUME NEW wt \in Entries(W, T) PROVE From(T, W, wt[2], wt[1]) = next(wt)
  <2> DEFINE w == wt[1]
             t == wt[2]
  <2>1. w \in 1 .. Len(W) + 1 /\ t \in 1 .. Len(T) + 1
    BY DEF Entries
  <2> HIDE DEF w, t
  <2>2. \A x \in 1 .. Len(W) + 1, y \in 1 .. Len(T) + 1 : D[<<x, y>>] = From(T, W, y, x)
    BY DEF Entries
  <2>3. /\ w <= Len(W) => w + 1 \in 1 .. Len(W) + 1
        /\ t <= Len(T) => t + 1 \in 1 .. Len(T) + 1
        /\ w > Len(W) \/ w <= Len(W)
    BY <2>1
  <2> HIDE DEF D
  <2>4. MemoNext(D, W, T, w, t) <=> FromNext(W, T, w, t)
    BY <2>1, <2>2, <2>3 DEF MemoNext, FromNext
  <2>5. From(T, W, t, w) <=> MemoNext(D, W, T, w, t)
    BY <2>1, <2>4, FromIsNext
  <2>6. From(T, W, t, w) \in BOOLEAN /\ \A x, y : From(T, W, y, x) \in BOOLEAN
    BY DEF From, Way
  <2>7. MemoNext(D, W, T, w, t) \in BOOLEAN
    <3>1. w <= Len(W) /\ t <= Len(T) => D[<<w + 1, t + 1>>] \in BOOLEAN
      BY <2>1, <2>2, <2>3, <2>6
    <3>2. (t > Len(T)) \in BOOLEAN
      OBVIOUS
    <3>3. (W[w] = "*" /\ (D[<<w + 1, t>>] \/ (t <= Len(T) /\ D[<<w, t + 1>>]))) \in BOOLEAN
      OBVIOUS
    <3>4. QED
      BY <3>1, <3>2, <3>3, Zenon DEF MemoNext
  <2>8. From(T, W, t, w) = MemoNext(D, W, T, w, t)
    BY <2>5, <2>6, <2>7
  <2>9. QED
    BY <2>8 DEF w, t
<1>2. D = [wt \in Entries(W, T) |-> next(wt)]
  <2> HIDE DEF next
  <2>1. QED
    BY <1>1
<1> HIDE DEF D
<1>3. MemoOf(D, W, T)
  BY <1>2 DEF MemoOf
<1>4. QED
  BY <1>3

LEMMA MemoIs ==
    ASSUME NEW W, NEW T, Len(W) \in Nat, Len(T) \in Nat,
           \A k \in 1 .. Len(T) : T[k] # "*",
           NEW D, MemoOf(D, W, T)
    PROVE  D[<<1, 1>>] <=> From(T, W, 1, 1)
<1> DEFINE Settled(n) ==
               \A w \in 1 .. Len(W) + 1, t \in 1 .. Len(T) + 1 :
                   w + t + n >= Len(W) + Len(T) + 2 => (D[<<w, t>>] <=> From(T, W, t, w))
           N == {n \in Nat : Settled(n)}
<1>1. \A w \in 1 .. Len(W) + 1, t \in 1 .. Len(T) + 1 :
          D[<<w, t>>] = MemoNext(D, W, T, w, t)
  BY DEF MemoOf, Entries
<1>2. ASSUME NEW w \in 1 .. Len(W) + 1, NEW t \in 1 .. Len(T) + 1,
             w <= Len(W) /\ t <= Len(T) => (D[<<w + 1, t + 1>>] <=> From(T, W, t + 1, w + 1)),
             w <= Len(W) => (D[<<w + 1, t>>] <=> From(T, W, t, w + 1)),
             t <= Len(T) => (D[<<w, t + 1>>] <=> From(T, W, t + 1, w))
      PROVE  D[<<w, t>>] <=> From(T, W, t, w)
  <2>1. w > Len(W) \/ w <= Len(W)
    OBVIOUS
  <2>2. MemoNext(D, W, T, w, t) <=> FromNext(W, T, w, t)
    BY <1>2, <2>1 DEF MemoNext, FromNext
  <2>3. FromNext(W, T, w, t) <=> From(T, W, t, w)
    BY FromIsNext
  <2>4. D[<<w, t>>] = MemoNext(D, W, T, w, t)
    BY <1>1
  <2>5. QED
    BY <2>2, <2>3, <2>4
<1>3. Settled(0)
  <2> SUFFICES ASSUME NEW w \in 1 .. Len(W) + 1, NEW t \in 1 .. Len(T) + 1,
                      w + t + 0 >= Len(W) + Len(T) + 2
               PROVE  D[<<w, t>>] <=> From(T, W, t, w)
    OBVIOUS
  <2>1. ~(w <= Len(W)) /\ ~(t <= Len(T))
    OBVIOUS
  <2>2. QED
    BY <1>2, <2>1
<1>4. ASSUME NEW n \in Nat, Settled(n) PROVE Settled(n + 1)
  <2> SUFFICES ASSUME NEW w \in 1 .. Len(W) + 1, NEW t \in 1 .. Len(T) + 1,
                      w + t + (n + 1) >= Len(W) + Len(T) + 2
               PROVE  D[<<w, t>>] <=> From(T, W, t, w)
    OBVIOUS
  <2> DEFINE w1 == w + 1
             t1 == t + 1
  <2>1. /\ w <= Len(W) => w1 \in 1 .. Len(W) + 1
        /\ t <= Len(T) => t1 \in 1 .. Len(T) + 1
        /\ w1 + t1 + n >= Len(W) + Len(T) + 2
        /\ w1 + t + n >= Len(W) + Len(T) + 2
        /\ w + t1 + n >= Len(W) + Len(T) + 2
    OBVIOUS
  <2> HIDE DEF w1, t1
  <2>2. /\ w <= Len(W) /\ t <= Len(T) => (D[<<w1, t1>>] <=> From(T, W, t1, w1))
        /\ w <= Len(W) => (D[<<w1, t>>] <=> From(T, W, t, w1))
        /\ t <= Len(T) => (D[<<w, t1>>] <=> From(T, W, t1, w))
    BY <1>4, <2>1
  <2>3. QED
    BY <1>2, <2>2 DEF w1, t1
<1> HIDE DEF Settled
<1>5. Len(W) + Len(T) \in N
  <2>1. \A n \in Nat : n \in N <=> Settled(n)
    OBVIOUS
  <2> HIDE DEF N
  <2>2. 0 \in N /\ \A n \in Nat : n \in N => n + 1 \in N
    BY <1>3, <1>4, <2>1
  <2>3. Nat \subseteq N
    BY <2>2, NatSetInduction
  <2>4. QED
    BY <2>3
<1>6. Settled(Len(W) + Len(T))
  BY <1>5
<1>7. /\ 1 \in 1 .. Len(W) + 1 /\ 1 \in 1 .. Len(T) + 1
      /\ 1 + 1 + (Len(W) + Len(T)) >= Len(W) + Len(T) + 2
  OBVIOUS
<1>8. QED
  BY <1>6, <1>7 DEF Settled

(* memoization is right for a text without '*'.                            *)
LEMMA MemoizationIs ==
    ASSUME NEW W, NEW T, Len(W) \in Nat, Len(T) \in Nat,
           \A k \in 1 .. Len(T) : T[k] # "*"
    PROVE  /\ Match!memoization(W, T) <=> Match!Matches(T, W)
           /\ Match2!memoization(W, T) <=> Match2!Matches(T, W)
<1> DEFINE D == CHOOSE D : MemoOf(D, W, T)
<1>1. MemoOf(D, W, T)
  BY MemoExists
<1> HIDE DEF D
<1>2. D[<<1, 1>>] <=> From(T, W, 1, 1)
  BY <1>1, MemoIs
<1>3. Match!memoization(W, T) = D[<<1, 1>>] /\ Match2!memoization(W, T) = D[<<1, 1>>]
  BY MemoizationByMemo DEF D
<1>4. QED
  BY <1>2, <1>3, MatchesIs

-----------------------------------------------------------------------------
(* Either is_match: the program says which one runs.                       *)
MatchRuns == program \in {"match", "match2"}

(* What both versions answer for: match does not for a '*' in the line.    *)
Clean == program = "match2" \/ ~Match!StarsIn(line)

Going == match_pc \in {"test", "body", "end"}

(* Before its first test match looks at an empty line.                     *)
FirstRound ==
    /\ program = "match" /\ line = <<>>
    /\ l = 1 /\ p = 1 /\ wildcard = FALSE
    /\ last_line_start = 0 /\ last_pattern_start = 0

PassedEnd ==
    /\ program = "match" /\ line = <<>> /\ pattern = <<>>
    /\ l = 2 /\ p = 2 /\ match_pc \in {"test", "overrun"}

MatchTypes ==
    /\ line \in Seq(LineChars) /\ pattern \in Seq(LineChars \cup {"?", "*"})
    /\ (l \in 0 .. Len(line) + 1 /\ p \in 1 .. Len(pattern) + 1) \/ PassedEnd
    /\ wildcard \in BOOLEAN
    /\ last_line_start \in 0 .. Len(line) + 1
    /\ last_pattern_start \in 0 .. Len(pattern)
    /\ match_pc \in {"test", "body", "end", "return", "crash", "overrun"}
    /\ match_ret \in {0, 1}

MatchPlaces ==
    /\ l = 0 => ~Clean
    /\ match_pc = "body" => l # 0 /\ (l = Len(line) + 1 => FirstRound)
    /\ match_pc = "end" => l = Len(line) + 1
    /\ match_pc = "crash" => l = 0
    /\ match_pc = "overrun" => PassedEnd

(* Where the search is behind the last '*', and where it would start again. *)
Trail ==
    /\ wildcard => last_pattern_start # 0 /\ p = last_pattern_start + 1
    /\ last_pattern_start = 0 => last_line_start = 0
    /\ last_pattern_start # 0 =>
           pattern[last_pattern_start] = "*" /\ last_pattern_start < Len(pattern)
    /\ last_pattern_start # 0 /\ ~wildcard =>
           \/ last_line_start = 0 /\ p = last_pattern_start
           \/ last_line_start # 0 /\ last_line_start <= l
              /\ l - last_line_start = p - last_pattern_start - 2

(* A match of the whole line goes on from here, or from the next place for *)
(* the last '*'.                                                           *)
NoneLost ==
    From(line, pattern, 1, 1) =>
        \/ From(line, pattern, l, IF wildcard THEN last_pattern_start ELSE p)
        \/ /\ ~wildcard /\ last_pattern_start # 0 /\ last_line_start # 0
           /\ From(line, pattern, last_line_start, last_pattern_start)

(* What is between the last '*' and p has one length.                      *)
Shifted ==
    ~wildcard /\ last_line_start # 0 =>
        \A x \in last_line_start .. Len(line) + 1 :
            From(line, pattern, x, last_pattern_start + 1) =>
                /\ x + (l - last_line_start + 1) <= Len(line) + 1
                /\ From(line, pattern, x + (l - last_line_start + 1), p)

(* match2 has matched what it has passed.                                  *)
Came ==
    /\ \/ To(line, pattern, l, p)
       \/ p = last_pattern_start /\ To(line, pattern, l, p + 1)
    /\ wildcard => To(line, pattern, l, p)
    /\ ~wildcard /\ last_line_start # 0 =>
           To(line, pattern, last_line_start, last_pattern_start + 1)

StarsLeft == Match!At(pattern, p) = "*" /\ Match!At(pattern, p + 1) = "*"

Answered ==
    match_pc = "return" =>
        /\ match_ret = 0 =>
               ~From(line, pattern, 1, 1) \/ (program = "match2" /\ StarsLeft)
        /\ program = "match2" /\ match_ret = 1 => From(line, pattern, 1, 1)

MatchSays ==
    /\ Trail /\ Answered
    /\ Going => NoneLost /\ Shifted
    /\ Going /\ program = "match2" => Came

MatchInv ==
    MatchRuns =>
        /\ MatchTypes /\ MatchPlaces
        /\ Clean /\ ~PassedEnd => MatchSays

-----------------------------------------------------------------------------
(* What is read from a string and its terminator.                          *)
LEMMA Reads ==
    ASSUME MatchTypes
    PROVE  /\ Len(line) \in Nat /\ Len(pattern) \in Nat
           /\ \A k \in Nat \ {0} :
                  IF k <= Len(line)
                  THEN Match!At(line, k) = line[k] /\ line[k] # "NUL"
                  ELSE Match!At(line, k) = "NUL"
           /\ \A k \in Nat \ {0} :
                  IF k <= Len(pattern)
                  THEN Match!At(pattern, k) = pattern[k] /\ pattern[k] # "NUL"
                  ELSE Match!At(pattern, k) = "NUL"
<1>1. Len(line) \in Nat /\ Len(pattern) \in Nat
  BY DEF MatchTypes
<1>2. \A k \in 1 .. Len(line) : line[k] # "NUL"
  BY InputsAssumption DEF MatchTypes
<1>3. \A k \in 1 .. Len(pattern) : pattern[k] # "NUL"
  <2>1. \A k \in 1 .. Len(pattern) : pattern[k] \in LineChars \cup {"?", "*"}
    BY DEF MatchTypes
  <2>2. QED
    BY <2>1, InputsAssumption
<1>4. \A k \in Nat \ {0} : k <= Len(line) => k \in 1 .. Len(line)
  BY <1>1
<1>5. \A k \in Nat \ {0} : k <= Len(pattern) => k \in 1 .. Len(pattern)
  BY <1>1
<1>6. QED
  BY <1>1, <1>2, <1>3, <1>4, <1>5 DEF Match!At, Match!NUL

LEMMA StarNotIn ==
    ASSUME MatchTypes, ~Match!StarsIn(line)
    PROVE  \A k \in 1 .. Len(line) : line[k] # "*"
BY DEF MatchTypes, Match!StarsIn

(* The branches of the loop, as either version takes them.                 *)
PatternHas == Match!At(pattern, p)
LineHas == Match!At(line, l)

TestDone ==
    /\ match_pc = "test"
    /\ match_pc' = IF l = 0 THEN "crash"
                   ELSE IF l > Len(line) + 1 THEN "overrun"
                   ELSE IF l = Len(line) + 1 THEN "end" ELSE "body"
    /\ UNCHANGED <<line, pattern, l, p, wildcard, last_line_start,
                   last_pattern_start, match_ret>>

(* '?' is not for the terminator.                                          *)
CharEnds ==
    /\ match_pc = "body" /\ PatternHas = "?" /\ LineHas = "NUL"
    /\ match_pc' = "return" /\ match_ret' = 0
    /\ UNCHANGED <<line, pattern, l, p, wildcard, last_line_start, last_pattern_start>>

CharGoes ==
    /\ match_pc = "body"
    /\ PatternHas = LineHas \/ (PatternHas = "?" /\ LineHas # "NUL")
    /\ Clean => PatternHas # "*"
    /\ l' = l + 1 /\ p' = p + 1
    /\ last_line_start' = IF wildcard THEN l + 1 ELSE last_line_start
    /\ wildcard' = FALSE
    /\ match_pc' = "test"
    /\ UNCHANGED <<line, pattern, last_pattern_start, match_ret>>

StarEnds ==
    /\ match_pc = "body" /\ PatternHas = "*" /\ Match!At(pattern, p + 1) = "NUL"
    /\ match_pc' = "return" /\ match_ret' = 1
    /\ UNCHANGED <<line, pattern, l, p, wildcard, last_line_start, last_pattern_start>>

StarGoes ==
    /\ match_pc = "body" /\ PatternHas = "*" /\ Match!At(pattern, p + 1) # "NUL"
    /\ last_pattern_start' = p /\ wildcard' = TRUE /\ p' = p + 1
    /\ match_pc' = "test"
    /\ UNCHANGED <<line, pattern, l, last_line_start, match_ret>>

Differs == PatternHas # "*" /\ PatternHas # "?" /\ PatternHas # LineHas

SkipGoes ==
    /\ match_pc = "body" /\ Differs /\ wildcard
    /\ l' = l + 1
    /\ match_pc' = "test"
    /\ UNCHANGED <<line, pattern, p, wildcard, last_line_start, last_pattern_start,
                   match_ret>>

FailGoes ==
    /\ match_pc = "body" /\ Differs /\ wildcard = FALSE
    /\ last_pattern_start # 0
    /\ p' = last_pattern_start /\ l' = last_line_start /\ last_line_start' = 0
    /\ match_pc' = "test"
    /\ UNCHANGED <<line, pattern, wildcard, last_pattern_start, match_ret>>

FailEnds ==
    /\ match_pc = "body" /\ Differs /\ wildcard = FALSE
    /\ last_pattern_start = 0
    /\ match_pc' = "return" /\ match_ret' = 0
    /\ UNCHANGED <<line, pattern, l, p, wildcard, last_line_start, last_pattern_start>>

EndDone ==
    /\ match_pc = "end"
    /\ match_pc' = "return"
    /\ match_ret' = IF \/ PatternHas = "NUL"
                       \/ program = "match" /\ (PatternHas = "?" \/ PatternHas = "*")
                       \/ /\ program = "match2" /\ PatternHas = "*"
                          /\ Match!At(pattern, p + 1) = "NUL"
                    THEN 1 ELSE 0
    /\ UNCHANGED <<line, pattern, l, p, wildcard, last_line_start, last_pattern_start>>

LoopStep ==
    \/ TestDone \/ CharEnds \/ CharGoes \/ StarEnds \/ StarGoes
    \/ SkipGoes \/ FailGoes \/ FailEnds \/ EndDone

LEMMA SameReads ==
    ASSUME NEW s, NEW k
    PROVE  Match2!At(s, k) = Match!At(s, k)
BY DEF Match2!At, Match!At, Match2!NUL, Match!NUL

LEMMA MatchSteps ==
    ASSUME MatchTypes, MatchPlaces, program = "match", Match!Next
    PROVE  LoopStep
<1> USE DEF PatternHas, LineHas, Match!NUL, Match!NULL, Match!IsStar, Match!IsOne, Match!Same,
            Match!TakesStar, Match!TakesChar, Match!Return, Match!input, Match!restart
<1>1. CASE Match!Test
  BY <1>1 DEF Match!Test, TestDone, LoopStep
<1>2. CASE Match!Char
  <2>1. match_pc = "body" /\ (PatternHas = LineHas \/ PatternHas = "?")
    BY <1>2 DEF Match!Char
  <2>2. Clean => PatternHas # "*"
    <3> SUFFICES ASSUME Clean, PatternHas = "*" PROVE FALSE
      OBVIOUS
    <3>1. LineHas = "*" /\ l \in Nat \ {0}
      BY <2>1 DEF MatchTypes, MatchPlaces, PassedEnd
    <3>2. l \in 1 .. Len(line) /\ line[l] = "*"
      BY <3>1, Reads
    <3>3. QED
      BY <3>2, StarNotIn DEF Clean
  <2>3. CASE PatternHas # LineHas /\ LineHas = "NUL"
    BY <1>2, <2>1, <2>3 DEF Match!Char, CharEnds, LoopStep
  <2>4. CASE ~(PatternHas # LineHas /\ LineHas = "NUL")
    <3>1. CharGoes
      BY <1>2, <2>1, <2>2, <2>4 DEF Match!Char, CharGoes
    <3>2. QED
      BY <3>1 DEF LoopStep
  <2>5. QED
    BY <2>3, <2>4
<1>3. CASE Match!Star
  BY <1>3 DEF Match!Star, StarEnds, StarGoes, LoopStep
<1>4. CASE Match!Skip
  BY <1>4 DEF Match!Skip, SkipGoes, Differs, LoopStep
<1>5. CASE Match!Fail
  BY <1>5 DEF Match!Fail, FailGoes, FailEnds, Differs, LoopStep, MatchTypes
<1>6. CASE Match!End
  BY <1>6 DEF Match!End, EndDone, LoopStep
<1>7. QED
  BY <1>1, <1>2, <1>3, <1>4, <1>5, <1>6 DEF Match!Next

LEMMA Match2Steps ==
    ASSUME MatchTypes, MatchPlaces, program = "match2", Match2!Next
    PROVE  LoopStep
<1> USE SameReads DEF PatternHas, LineHas, Match2!NUL, Match2!NULL, Match2!IsStar, Match2!IsOne,
            Match2!Same, Match2!TakesStar, Match2!TakesChar, Match2!Return, Match2!input,
            Match2!restart
<1>1. CASE Match2!Test
  BY <1>1 DEF Match2!Test, TestDone, LoopStep
<1>2. CASE Match2!Char
  <2>1. CASE PatternHas # LineHas /\ LineHas = "NUL"
    BY <1>2, <2>1 DEF Match2!Char, CharEnds, LoopStep
  <2>2. CASE ~(PatternHas # LineHas /\ LineHas = "NUL")
    <3>1. CharGoes
      BY <1>2, <2>2 DEF Match2!Char, CharGoes
    <3>2. QED
      BY <3>1 DEF LoopStep
  <2>3. QED
    BY <2>1, <2>2
<1>3. CASE Match2!Star
  BY <1>3 DEF Match2!Star, StarEnds, StarGoes, LoopStep
<1>4. CASE Match2!Skip
  BY <1>4 DEF Match2!Skip, SkipGoes, Differs, LoopStep
<1>5. CASE Match2!Fail
  BY <1>5 DEF Match2!Fail, FailGoes, FailEnds, Differs, LoopStep, MatchTypes
<1>6. CASE Match2!End
  BY <1>6 DEF Match2!End, EndDone, LoopStep
<1>7. QED
  BY <1>1, <1>2, <1>3, <1>4, <1>5, <1>6 DEF Match2!Next

-----------------------------------------------------------------------------
(* Types and places.                                                       *)

(* In the body the pointers are in the strings, but for the first round.   *)
LEMMA InBody ==
    ASSUME MatchTypes, MatchPlaces, match_pc = "body"
    PROVE  /\ l \in 1 .. Len(line) + 1 /\ p \in 1 .. Len(pattern) + 1
           /\ l = Len(line) + 1 => FirstRound
           /\ l <= Len(line) => LineHas = line[l] /\ LineHas # "NUL"
           /\ l = Len(line) + 1 => LineHas = "NUL"
           /\ PatternHas # "NUL" => p \in 1 .. Len(pattern) /\ pattern[p] = PatternHas
           /\ PatternHas = "NUL" => p = Len(pattern) + 1
<1>1. ~PassedEnd
  BY DEF PassedEnd
<1>2. l \in 1 .. Len(line) + 1 /\ p \in 1 .. Len(pattern) + 1
  BY <1>1 DEF MatchTypes, MatchPlaces
<1>3. l \in Nat \ {0} /\ p \in Nat \ {0}
  BY <1>2, Reads
<1>4. QED
  BY <1>2, <1>3, Reads DEF MatchPlaces, LineHas, PatternHas

LEMMA TypesKept ==
    ASSUME MatchTypes, MatchPlaces, Clean /\ ~PassedEnd => Trail, LoopStep, program' = program
    PROVE  MatchTypes' /\ MatchPlaces'
<1>1. Len(line) \in Nat /\ Len(pattern) \in Nat
  BY Reads
<1>2. line' = line /\ pattern' = pattern /\ (Clean' <=> Clean)
  BY DEF LoopStep, TestDone, CharEnds, CharGoes, StarEnds, StarGoes, SkipGoes, FailGoes,
         FailEnds, EndDone, Clean, Match!StarsIn
<1>3. CASE TestDone
  <2>1. PassedEnd \/ (l \in 0 .. Len(line) + 1 /\ p \in 1 .. Len(pattern) + 1)
    BY DEF MatchTypes
  <2>2. CASE PassedEnd
    <3>1. l > Len(line) + 1 /\ match_pc' = "overrun"
      BY <1>3, <2>2 DEF PassedEnd, TestDone
    <3>2. PassedEnd'
      BY <1>2, <1>3, <2>2, <3>1 DEF PassedEnd, TestDone
    <3>3. MatchTypes'
      BY <1>2, <1>3, <3>1, <3>2 DEF MatchTypes, TestDone
    <3>4. MatchPlaces'
      BY <1>2, <1>3, <2>2, <3>1, <3>2 DEF MatchPlaces, PassedEnd, TestDone
    <3>5. QED
      BY <3>3, <3>4
  <2>3. CASE l \in 0 .. Len(line) + 1 /\ p \in 1 .. Len(pattern) + 1
    <3>1. MatchTypes'
      BY <1>1, <1>2, <1>3, <2>3 DEF MatchTypes, TestDone
    <3>2. MatchPlaces'
      BY <1>1, <1>2, <1>3, <2>3 DEF MatchPlaces, TestDone
    <3>3. QED
      BY <3>1, <3>2
  <2>4. QED
    BY <2>1, <2>2, <2>3
<1>4. CASE CharEnds \/ StarEnds \/ FailEnds
  <2>1. match_pc = "body" /\ match_pc' = "return" /\ match_ret' \in {0, 1}
    BY <1>4 DEF CharEnds, StarEnds, FailEnds
  <2>2. UNCHANGED <<line, pattern, l, p, wildcard, last_line_start, last_pattern_start>>
    BY <1>4 DEF CharEnds, StarEnds, FailEnds
  <2>3. MatchTypes'
    BY <1>1, <2>1, <2>2, InBody DEF MatchTypes
  <2>4. MatchPlaces'
    BY <1>2, <2>1, <2>2 DEF MatchPlaces
  <2>5. QED
    BY <2>3, <2>4
<1>5. CASE EndDone
  <2>1. match_pc' = "return" /\ match_ret' \in {0, 1} /\ ~PassedEnd
    BY <1>5 DEF EndDone, PassedEnd
  <2>2. UNCHANGED <<line, pattern, l, p, wildcard, last_line_start, last_pattern_start>>
    BY <1>5 DEF EndDone
  <2>3. MatchTypes'
    BY <2>1, <2>2 DEF MatchTypes
  <2>4. MatchPlaces'
    BY <1>2, <2>1, <2>2 DEF MatchPlaces
  <2>5. QED
    BY <2>3, <2>4
<1>6. CASE CharGoes
  <2>1. match_pc = "body" /\ match_pc' = "test" /\ l' = l + 1 /\ p' = p + 1
    BY <1>6 DEF CharGoes
  <2>2. CASE l = Len(line) + 1
    <3>1. FirstRound /\ PatternHas = "NUL" /\ p = Len(pattern) + 1
      BY <1>6, <2>1, <2>2, InBody DEF CharGoes
    <3>2. pattern = <<>>
      <4>1. Len(pattern) = 0 /\ pattern \in Seq(LineChars \cup {"?", "*"})
        BY <1>1, <3>1 DEF FirstRound, MatchTypes
      <4>2. QED
        BY <4>1, EmptySeq
    <3>3. PassedEnd'
      BY <1>2, <2>1, <3>1, <3>2 DEF PassedEnd, FirstRound
    <3>4. MatchTypes'
      BY <1>2, <1>6, <3>1, <3>3 DEF MatchTypes, CharGoes, FirstRound
    <3>5. MatchPlaces'
      BY <1>2, <2>1, <3>1 DEF MatchPlaces, FirstRound
    <3>6. QED
      BY <3>4, <3>5
  <2>3. CASE l # Len(line) + 1
    <3>1. l \in 1 .. Len(line) /\ p \in 1 .. Len(pattern)
      BY <1>1, <1>6, <2>1, <2>3, InBody DEF CharGoes
    <3>2. MatchTypes'
      <4>1. l + 1 \in 0 .. Len(line) + 1 /\ p + 1 \in 1 .. Len(pattern) + 1
        BY <1>1, <3>1
      <4>2. last_line_start' \in 0 .. Len(line) + 1
        BY <1>6, <4>1 DEF CharGoes, MatchTypes
      <4>3. /\ l' = l + 1 /\ p' = p + 1 /\ wildcard' = FALSE /\ match_pc' = "test"
            /\ last_pattern_start' = last_pattern_start /\ match_ret' = match_ret
        BY <1>6 DEF CharGoes
      <4>4. QED
        BY <1>2, <4>1, <4>2, <4>3 DEF MatchTypes
    <3>3. MatchPlaces'
      BY <1>1, <1>2, <2>1, <3>1 DEF MatchPlaces
    <3>4. QED
      BY <3>2, <3>3
  <2>4. QED
    BY <2>2, <2>3
<1>7. CASE StarGoes
  <2>1. match_pc = "body" /\ p \in 1 .. Len(pattern) /\ l \in 1 .. Len(line) + 1
    BY <1>7, InBody DEF StarGoes
  <2>2. MatchTypes'
    BY <1>1, <1>2, <1>7, <2>1 DEF MatchTypes, StarGoes
  <2>3. MatchPlaces'
    BY <1>1, <1>2, <1>7, <2>1 DEF MatchPlaces, StarGoes
  <2>4. QED
    BY <2>2, <2>3
<1>8. CASE SkipGoes
  <2>1. match_pc = "body" /\ l \in 1 .. Len(line) /\ p \in 1 .. Len(pattern) + 1
    BY <1>1, <1>8, InBody DEF SkipGoes, FirstRound
  <2>2. MatchTypes'
    BY <1>1, <1>2, <1>8, <2>1 DEF MatchTypes, SkipGoes
  <2>3. MatchPlaces'
    BY <1>1, <1>2, <1>8, <2>1 DEF MatchPlaces, SkipGoes
  <2>4. QED
    BY <2>2, <2>3
<1>9. CASE FailGoes
  <2>1. /\ match_pc = "body" /\ match_pc' = "test" /\ ~wildcard /\ last_pattern_start # 0
        /\ Differs /\ p' = last_pattern_start /\ l' = last_line_start
    BY <1>9 DEF FailGoes
  <2>2. ASSUME Clean PROVE last_line_start # 0
    <3>1. ~PassedEnd
      BY <2>1 DEF PassedEnd
    <3>2. pattern[last_pattern_start] = "*" /\ last_pattern_start \in 1 .. Len(pattern)
      BY <1>1, <2>1, <2>2, <3>1 DEF Trail, MatchTypes
    <3>3. p # last_pattern_start
      BY <2>1, <3>2, InBody DEF Differs
    <3>4. QED
      BY <2>1, <2>2, <3>1, <3>3 DEF Trail
  <2>3. last_pattern_start \in 1 .. Len(pattern) /\ last_line_start \in 0 .. Len(line) + 1
    BY <1>1, <2>1 DEF MatchTypes
  <2>4. MatchTypes'
    BY <1>1, <1>2, <1>9, <2>3 DEF MatchTypes, FailGoes
  <2>5. MatchPlaces'
    BY <1>1, <1>2, <2>1, <2>2, <2>3 DEF MatchPlaces
  <2>6. QED
    BY <2>4, <2>5
<1>10. QED
  BY <1>3, <1>4, <1>5, <1>6, <1>7, <1>8, <1>9 DEF LoopStep

-----------------------------------------------------------------------------
(* What the search says.                                                   *)

(* A '*' that matches from a place matches from every place before it.     *)
LEMMA StarFrom ==
    ASSUME MatchTypes, NEW k \in 1 .. Len(pattern), pattern[k] = "*",
           NEW x \in 1 .. Len(line) + 1, NEW y \in x .. Len(line) + 1,
           From(line, pattern, y, k) \/ From(line, pattern, y, k + 1)
    PROVE  From(line, pattern, x, k)
<1>0. Len(line) \in Nat /\ Len(pattern) \in Nat
  BY Reads
<1>1. y \in 1 .. Len(line) + 1 /\ y \in y .. Len(line) + 1
  BY <1>0
<1>2. /\ From(line, pattern, x, k) <=>
             \E z \in x .. Len(line) + 1 : From(line, pattern, z, k + 1)
      /\ From(line, pattern, y, k) <=>
             \E z \in y .. Len(line) + 1 : From(line, pattern, z, k + 1)
  BY <1>0, <1>1, FromStar
<1>3. \A z \in y .. Len(line) + 1 : z \in x .. Len(line) + 1
  BY <1>0
<1>4. QED
  BY <1>2, <1>3

LEMMA StarTo ==
    ASSUME MatchTypes, NEW k \in 1 .. Len(pattern), pattern[k] = "*",
           NEW x \in 1 .. Len(line) + 1, NEW y \in x .. Len(line) + 1,
           To(line, pattern, x, k) \/ To(line, pattern, x, k + 1)
    PROVE  To(line, pattern, y, k + 1)
<1>0. Len(line) \in Nat /\ Len(pattern) \in Nat
  BY Reads
<1>1. y \in 1 .. Len(line) + 1 /\ x \in 1 .. x
  BY <1>0
<1>2. /\ To(line, pattern, x, k + 1) <=> \E z \in 1 .. x : To(line, pattern, z, k)
      /\ To(line, pattern, y, k + 1) <=> \E z \in 1 .. y : To(line, pattern, z, k)
  BY <1>0, <1>1, ToStar
<1>3. \A z \in 1 .. x : z \in 1 .. y
  BY <1>0
<1>4. QED
  BY <1>1, <1>2, <1>3

(* The last '*' and the pointers.                                          *)
LEMMA OnTrail ==
    ASSUME MatchTypes, Trail, last_pattern_start # 0
    PROVE  /\ last_pattern_start \in 1 .. Len(pattern)
           /\ last_pattern_start + 1 \in 1 .. Len(pattern)
           /\ pattern[last_pattern_start] = "*"
           /\ wildcard => p = last_pattern_start + 1
           /\ last_line_start # 0 => last_line_start \in 1 .. Len(line) + 1
<1>1. Len(line) \in Nat /\ Len(pattern) \in Nat
  BY Reads
<1>2. QED
  BY <1>1 DEF MatchTypes, Trail

(* No match goes on from a character that differs.                         *)
LEMMA Dead ==
    ASSUME MatchTypes, MatchPlaces, match_pc = "body", Differs
    PROVE  ~From(line, pattern, l, p)
<1>1. Len(line) \in Nat /\ Len(pattern) \in Nat
  BY Reads
<1>2. l \in 1 .. Len(line) + 1 /\ p \in 1 .. Len(pattern) + 1
  BY InBody
<1>3. CASE PatternHas = "NUL"
  <2>1. p = Len(pattern) + 1
    BY <1>3, InBody
  <2>2. l # Len(line) + 1
    BY <1>3, InBody DEF Differs
  <2>3. From(line, pattern, l, Len(pattern) + 1) <=> l = Len(line) + 1
    BY <1>1, <1>2, FromEnd
  <2>4. QED
    BY <2>1, <2>2, <2>3
<1>4. CASE PatternHas # "NUL"
  <2>1. p \in 1 .. Len(pattern) /\ pattern[p] # "*" /\ pattern[p] # "?" /\ pattern[p] # LineHas
    BY <1>4, InBody DEF Differs
  <2>2. From(line, pattern, l, p) => l <= Len(line) /\ (pattern[p] = "?" \/ pattern[p] = line[l])
    BY <1>1, <1>2, <2>1, FromChar
  <2>3. l <= Len(line) => LineHas = line[l]
    BY InBody
  <2>4. QED
    BY <2>1, <2>2, <2>3
<1>5. QED
  BY <1>3, <1>4

(* A match that the search can still find from the last '*', when it is    *)
(* behind it with no '*' passed since, goes on behind p.                   *)
LEMMA Later ==
    ASSUME MatchTypes, Trail, Shifted, ~wildcard, last_pattern_start # 0, last_line_start # 0,
           From(line, pattern, last_line_start, last_pattern_start)
    PROVE  \E z \in l + 1 .. Len(line) + 1 : From(line, pattern, z, p)
<1>1. Len(line) \in Nat /\ Len(pattern) \in Nat
  BY Reads
<1>2. PICK x \in last_line_start .. Len(line) + 1 :
          From(line, pattern, x, last_pattern_start + 1)
  <2>1. From(line, pattern, last_line_start, last_pattern_start) <=>
            \E x \in last_line_start .. Len(line) + 1 :
                From(line, pattern, x, last_pattern_start + 1)
    BY <1>1, OnTrail, FromStar
  <2>2. QED
    BY <2>1
<1> DEFINE y == x + (l - last_line_start + 1)
<1>3. y <= Len(line) + 1 /\ From(line, pattern, y, p)
  BY <1>2 DEF Shifted
<1>4. y \in l + 1 .. Len(line) + 1
  <2>1. l \in Int /\ last_line_start \in Int /\ x \in Int
    BY <1>1 DEF MatchTypes, PassedEnd
  <2>2. QED
    BY <1>1, <1>2, <1>3, <2>1
<1> HIDE DEF y
<1>5. QED
  BY <1>3, <1>4

LEMMA TestSays ==
    ASSUME MatchTypes, MatchPlaces, Clean, MatchSays, TestDone, program' = program
    PROVE  MatchSays'
<1>1. /\ line' = line /\ pattern' = pattern /\ l' = l /\ p' = p /\ wildcard' = wildcard
      /\ last_line_start' = last_line_start /\ last_pattern_start' = last_pattern_start
      /\ match_pc' # "return" /\ Going
  BY DEF TestDone, Going
<1>2. Trail' /\ Answered'
  BY <1>1 DEF MatchSays, Trail, Answered
<1>3. NoneLost' /\ Shifted'
  BY <1>1 DEF MatchSays, NoneLost, Shifted
<1>4. program = "match2" => Came'
  BY <1>1 DEF MatchSays, Came
<1>5. QED
  BY <1>2, <1>3, <1>4 DEF MatchSays

LEMMA AnswerSays ==
    ASSUME MatchSays, program' = program, match_pc' = "return",
           UNCHANGED <<line, pattern, l, p, wildcard, last_line_start, last_pattern_start>>,
           match_ret' = 0 =>
               ~From(line, pattern, 1, 1) \/ (program = "match2" /\ StarsLeft),
           program = "match2" /\ match_ret' = 1 => From(line, pattern, 1, 1)
    PROVE  MatchSays'
<1>1. Trail'
  BY DEF MatchSays, Trail
<1>2. Answered'
  BY DEF Answered, StarsLeft
<1>3. ~Going'
  BY DEF Going
<1>4. QED
  BY <1>1, <1>2, <1>3 DEF MatchSays

LEMMA CharEndsSays ==
    ASSUME MatchTypes, MatchPlaces, Clean, MatchSays, CharEnds, program' = program
    PROVE  MatchSays'
<1>1. Len(line) \in Nat /\ Len(pattern) \in Nat
  BY Reads
<1>2. FirstRound /\ p \in 1 .. Len(pattern) /\ pattern[p] = "?"
  BY InBody DEF CharEnds
<1>3. p = 1 /\ Len(line) = 0
  BY <1>2 DEF FirstRound
<1>4. ~From(line, pattern, 1, 1)
  <2>1. 1 \in 1 .. Len(line) + 1 /\ ~(1 <= Len(line)) /\ pattern[1] # "*" /\ 1 \in 1 .. Len(pattern)
    BY <1>2, <1>3
  <2>2. QED
    BY <1>1, <2>1, FromChar
<1>5. QED
  BY <1>4, AnswerSays DEF CharEnds

LEMMA StarEndsSays ==
    ASSUME MatchTypes, MatchPlaces, Clean, MatchSays, StarEnds, program' = program
    PROVE  MatchSays'
<1>1. Len(line) \in Nat /\ Len(pattern) \in Nat
  BY Reads
<1>2. p \in 1 .. Len(pattern) /\ pattern[p] = "*" /\ l \in 1 .. Len(line) + 1
  BY InBody DEF StarEnds
<1>3. p = Len(pattern)
  BY <1>1, <1>2, Reads DEF StarEnds
<1>4. ASSUME program = "match2" PROVE From(line, pattern, 1, 1)
  <2>1. To(line, pattern, l, p) \/ To(line, pattern, l, p + 1)
    BY <1>4 DEF MatchSays, Came, StarEnds, Going
  <2>2. Len(line) + 1 \in l .. Len(line) + 1
    BY <1>1, <1>2
  <2>3. To(line, pattern, Len(line) + 1, p + 1)
    BY <1>2, <2>1, <2>2, StarTo
  <2>4. QED
    BY <1>1, <1>3, <2>3, MatchesIs
<1>5. QED
  BY <1>4, AnswerSays DEF StarEnds

LEMMA FailEndsSays ==
    ASSUME MatchTypes, MatchPlaces, Clean, MatchSays, FailEnds, program' = program
    PROVE  MatchSays'
<1>1. match_pc = "body" /\ Differs /\ ~wildcard /\ last_pattern_start = 0 /\ Going
  BY DEF FailEnds, Going
<1>2. ~From(line, pattern, l, p)
  BY <1>1, Dead
<1>3. ~From(line, pattern, 1, 1)
  BY <1>1, <1>2 DEF MatchSays, NoneLost
<1>4. QED
  BY <1>3, AnswerSays DEF FailEnds

LEMMA EndSays ==
    ASSUME MatchRuns, MatchTypes, MatchPlaces, Clean, MatchSays, EndDone, program' = program
    PROVE  MatchSays'
<1>1. /\ match_pc = "end" /\ Going /\ match_pc' = "return"
      /\ UNCHANGED <<line, pattern, l, p, wildcard, last_line_start, last_pattern_start>>
  BY DEF EndDone, Going
<1>2. /\ Len(line) \in Nat /\ Len(pattern) \in Nat
      /\ l = Len(line) + 1 /\ l \in 1 .. Len(line) + 1 /\ p \in 1 .. Len(pattern) + 1
      /\ l \in l .. Len(line) + 1
  BY <1>1, Reads DEF MatchPlaces, MatchTypes, PassedEnd
<1>3. /\ PatternHas = "NUL" => p = Len(pattern) + 1
      /\ PatternHas # "NUL" => p \in 1 .. Len(pattern) /\ pattern[p] = PatternHas
      /\ Match!At(pattern, p + 1) = "NUL" => p >= Len(pattern)
      /\ Match!At(pattern, p + 1) # "NUL" =>
             p + 1 \in 1 .. Len(pattern) /\ pattern[p + 1] = Match!At(pattern, p + 1)
  <2>1. p \in Nat \ {0} /\ p + 1 \in Nat \ {0}
    BY <1>2
  <2>2. QED
    BY <1>2, <2>1, Reads DEF PatternHas
<1>4. ASSUME match_ret' = 0, ~(program = "match2" /\ StarsLeft)
      PROVE  ~From(line, pattern, 1, 1)
  <2>1. PatternHas # "NUL" /\ p \in 1 .. Len(pattern) /\ pattern[p] = PatternHas
    BY <1>3, <1>4 DEF EndDone
  <2>2. ~From(line, pattern, l, p)
    <3>1. CASE PatternHas # "*"
      BY <1>2, <2>1, <3>1, FromChar
    <3>2. CASE PatternHas = "*"
      <4>1. program = "match2" /\ Match!At(pattern, p + 1) # "NUL"
        BY <1>4, <3>2 DEF EndDone, MatchRuns
      <4>2. Match!At(pattern, p + 1) # "*"
        BY <1>4, <3>2, <4>1 DEF StarsLeft, PatternHas
      <4>3. ~From(line, pattern, l, p + 1)
        <5> DEFINE q == p + 1
        <5>1. q \in 1 .. Len(pattern) /\ pattern[q] # "*"
          BY <1>3, <4>1, <4>2
        <5> HIDE DEF q
        <5>2. ~From(line, pattern, l, q)
          BY <1>2, <5>1, FromChar
        <5>3. QED
          BY <5>2 DEF q
      <4>4. \A z \in l .. Len(line) + 1 : z = l
        BY <1>2
      <4>5. QED
        BY <1>2, <2>1, <3>2, <4>3, <4>4, FromStar
    <3>3. QED
      BY <3>1, <3>2
  <2>3. ~(wildcard /\ From(line, pattern, l, last_pattern_start))
    <3> SUFFICES ASSUME wildcard, From(line, pattern, l, last_pattern_start) PROVE FALSE
      OBVIOUS
    <3>1. last_pattern_start # 0 /\ Trail
      BY DEF MatchSays, Trail
    <3>2. PICK z \in l .. Len(line) + 1 : From(line, pattern, z, last_pattern_start + 1)
      BY <1>2, <3>1, OnTrail, FromStar
    <3>3. z = l
      BY <1>2
    <3>4. QED
      BY <2>2, <3>1, <3>2, <3>3, OnTrail
  <2>4. ~(/\ ~wildcard /\ last_pattern_start # 0 /\ last_line_start # 0
          /\ From(line, pattern, last_line_start, last_pattern_start))
    <3>1. \A z \in l + 1 .. Len(line) + 1 : FALSE
      BY <1>2
    <3>2. QED
      BY <1>1, <3>1, Later DEF MatchSays
  <2>5. QED
    BY <1>1, <2>2, <2>3, <2>4 DEF MatchSays, NoneLost
<1>5. ASSUME match_ret' = 1, program = "match2" PROVE From(line, pattern, 1, 1)
  <2>1. To(line, pattern, l, p) \/ (p = last_pattern_start /\ To(line, pattern, l, p + 1))
    BY <1>1, <1>5 DEF MatchSays, Came
  <2>2. CASE PatternHas = "NUL"
    <3>1. p = Len(pattern) + 1 /\ p # last_pattern_start
      BY <1>2, <1>3, <2>2 DEF MatchTypes
    <3>2. QED
      BY <1>2, <2>1, <3>1, MatchesIs
  <2>3. CASE PatternHas # "NUL"
    <3>1. PatternHas = "*" /\ Match!At(pattern, p + 1) = "NUL"
      BY <1>5, <2>3 DEF EndDone
    <3>2. p \in 1 .. Len(pattern) /\ p = Len(pattern) /\ pattern[p] = "*"
      BY <1>2, <1>3, <2>3, <3>1
    <3>3. To(line, pattern, l, p + 1)
      BY <1>2, <2>1, <3>2, StarTo
    <3>4. QED
      BY <1>2, <3>2, <3>3, MatchesIs
  <2>4. QED
    BY <2>2, <2>3
<1>6. match_ret' = 0 => ~From(line, pattern, 1, 1) \/ (program = "match2" /\ StarsLeft)
  BY <1>4
<1>7. program = "match2" /\ match_ret' = 1 => From(line, pattern, 1, 1)
  BY <1>5
<1>8. QED
  BY <1>1, <1>6, <1>7, AnswerSays

LEMMA StarGoesSays ==
    ASSUME MatchTypes, MatchPlaces, Clean, MatchSays, StarGoes, program' = program
    PROVE  MatchSays'
<1>1. /\ match_pc = "body" /\ Going /\ match_pc' = "test" /\ wildcard' = TRUE
      /\ line' = line /\ pattern' = pattern /\ l' = l /\ last_line_start' = last_line_start
      /\ last_pattern_start' = p /\ p' = p + 1
  BY DEF StarGoes, Going
<1>2. /\ Len(line) \in Nat /\ Len(pattern) \in Nat /\ l \in 1 .. Len(line) + 1
      /\ p \in 1 .. Len(pattern) /\ pattern[p] = "*"
  BY <1>1, Reads, InBody DEF StarGoes
<1>3. p < Len(pattern)
  <2>1. p + 1 \in Nat \ {0}
    BY <1>2
  <2>2. p + 1 <= Len(pattern)
    BY <2>1, <1>2, Reads DEF StarGoes
  <2>3. QED
    BY <1>2, <2>2
<1>4. Trail'
  BY <1>1, <1>2, <1>3 DEF Trail
<1>5. ASSUME From(line, pattern, 1, 1) PROVE From(line, pattern, l, p)
  <2>1. CASE wildcard
    <3>1. From(line, pattern, l, last_pattern_start) /\ last_pattern_start # 0 /\ Trail
      BY <1>1, <1>5, <2>1 DEF MatchSays, NoneLost, Trail
    <3>2. PICK z \in l .. Len(line) + 1 : From(line, pattern, z, last_pattern_start + 1)
      BY <1>2, <3>1, OnTrail, FromStar
    <3>3. From(line, pattern, z, p)
      BY <2>1, <3>1, <3>2, OnTrail
    <3>4. QED
      BY <1>2, <3>3, StarFrom
  <2>2. CASE ~wildcard /\ ~From(line, pattern, l, p)
    <3>1. /\ last_pattern_start # 0 /\ last_line_start # 0
          /\ From(line, pattern, last_line_start, last_pattern_start)
      BY <1>1, <1>5, <2>2 DEF MatchSays, NoneLost
    <3>2. PICK z \in l + 1 .. Len(line) + 1 : From(line, pattern, z, p)
      BY <1>1, <2>2, <3>1, Later DEF MatchSays
    <3>3. z \in l .. Len(line) + 1
      BY <1>2
    <3>4. QED
      BY <1>2, <3>2, <3>3, StarFrom
  <2>3. QED
    BY <2>1, <2>2
<1>6. NoneLost'
  BY <1>1, <1>5 DEF NoneLost
<1>7. Shifted'
  BY <1>1 DEF Shifted
<1>8. ASSUME program = "match2" PROVE Came'
  <2>1. To(line, pattern, l, p) \/ To(line, pattern, l, p + 1)
    BY <1>1, <1>8 DEF MatchSays, Came
  <2>2. l \in l .. Len(line) + 1
    BY <1>2
  <2>3. To(line, pattern, l, p + 1)
    BY <1>2, <2>1, <2>2, StarTo
  <2>4. QED
    BY <1>1, <2>3 DEF Came
<1>9. Answered'
  BY <1>1 DEF Answered
<1>10. QED
  BY <1>4, <1>6, <1>7, <1>8, <1>9 DEF MatchSays

LEMMA SkipSays ==
    ASSUME MatchTypes, MatchPlaces, Clean, MatchSays, SkipGoes, program' = program
    PROVE  MatchSays'
<1>1. /\ match_pc = "body" /\ Going /\ match_pc' = "test" /\ wildcard = TRUE /\ wildcard' = TRUE
      /\ line' = line /\ pattern' = pattern /\ last_line_start' = last_line_start
      /\ last_pattern_start' = last_pattern_start /\ p' = p /\ l' = l + 1 /\ Differs
  BY DEF SkipGoes, Going, MatchTypes
<1>2. /\ Len(line) \in Nat /\ Len(pattern) \in Nat /\ l \in 1 .. Len(line)
      /\ last_pattern_start # 0 /\ Trail
  <2>1. l # Len(line) + 1
    BY <1>1, InBody DEF FirstRound
  <2>2. QED
    BY <1>1, <2>1, Reads, InBody DEF MatchSays, Trail
<1>3. last_pattern_start + 1 = p
  BY <1>1, <1>2, OnTrail
<1>4. Trail'
  BY <1>1, <1>2 DEF Trail
<1>5. ASSUME From(line, pattern, 1, 1) PROVE From(line, pattern, l + 1, last_pattern_start)
  <2>1. From(line, pattern, l, last_pattern_start)
    BY <1>1, <1>5 DEF MatchSays, NoneLost
  <2>2. l \in 1 .. Len(line) + 1
    BY <1>2
  <2>3. PICK z \in l .. Len(line) + 1 : From(line, pattern, z, last_pattern_start + 1)
    BY <1>2, <2>1, <2>2, OnTrail, FromStar
  <2>4. z # l
    BY <1>1, <1>3, <2>3, Dead
  <2> DEFINE x == l + 1
  <2>5. x \in 1 .. Len(line) + 1 /\ z \in x .. Len(line) + 1
    BY <1>2, <2>4
  <2> HIDE DEF x
  <2>6. From(line, pattern, x, last_pattern_start)
    BY <1>2, <2>3, <2>5, OnTrail, StarFrom
  <2>7. QED
    BY <2>6 DEF x
<1>6. NoneLost'
  BY <1>1, <1>5 DEF NoneLost
<1>7. Shifted'
  BY <1>1 DEF Shifted
<1>8. ASSUME program = "match2" PROVE Came'
  <2>1. To(line, pattern, l, last_pattern_start + 1)
    BY <1>1, <1>3, <1>8 DEF MatchSays, Came
  <2>2. l \in 1 .. Len(line) + 1 /\ l + 1 \in l .. Len(line) + 1
    BY <1>2
  <2>3. To(line, pattern, l + 1, last_pattern_start + 1)
    BY <1>2, <2>1, <2>2, OnTrail, StarTo
  <2>4. QED
    BY <1>1, <1>3, <2>3 DEF Came
<1>9. Answered'
  BY <1>1 DEF Answered
<1>10. QED
  BY <1>4, <1>6, <1>7, <1>8, <1>9 DEF MatchSays

LEMMA FailGoesSays ==
    ASSUME MatchTypes, MatchPlaces, Clean, MatchSays, FailGoes, program' = program
    PROVE  MatchSays'
<1>1. /\ match_pc = "body" /\ Going /\ match_pc' = "test" /\ ~wildcard /\ ~wildcard'
      /\ line' = line /\ pattern' = pattern /\ last_line_start' = 0
      /\ last_pattern_start' = last_pattern_start /\ last_pattern_start # 0
      /\ p' = last_pattern_start /\ l' = last_line_start /\ Differs
  BY DEF FailGoes, Going, MatchTypes
<1>2. Trail
  BY DEF MatchSays
<1>3. p # last_pattern_start
  BY <1>1, <1>2, OnTrail, InBody DEF Differs
<1>4. last_line_start # 0
  BY <1>1, <1>2, <1>3 DEF Trail
<1>5. Trail'
  BY <1>1, <1>2 DEF Trail
<1>6. ASSUME From(line, pattern, 1, 1)
      PROVE  From(line, pattern, last_line_start, last_pattern_start)
  <2>1. ~From(line, pattern, l, p)
    BY <1>1, Dead
  <2>2. QED
    BY <1>1, <1>6, <2>1 DEF MatchSays, NoneLost
<1>7. NoneLost'
  BY <1>1, <1>6 DEF NoneLost
<1>8. Shifted'
  BY <1>1 DEF Shifted
<1>9. ASSUME program = "match2" PROVE Came'
  <2>1. To(line, pattern, last_line_start, last_pattern_start + 1)
    BY <1>1, <1>4, <1>9 DEF MatchSays, Came
  <2>2. QED
    BY <1>1, <2>1 DEF Came
<1>10. Answered'
  BY <1>1 DEF Answered
<1>11. QED
  BY <1>5, <1>7, <1>8, <1>9, <1>10 DEF MatchSays

LEMMA CharGoesSays ==
    ASSUME MatchTypes, MatchPlaces, Clean, MatchSays, CharGoes, program' = program,
           ~PassedEnd'
    PROVE  MatchSays'
<1>1. /\ match_pc = "body" /\ Going /\ match_pc' = "test" /\ wildcard' = FALSE
      /\ line' = line /\ pattern' = pattern /\ last_pattern_start' = last_pattern_start
      /\ l' = l + 1 /\ p' = p + 1
      /\ wildcard => last_line_start' = l + 1
      /\ ~wildcard => last_line_start' = last_line_start
      /\ PatternHas # "*" /\ (PatternHas = LineHas \/ PatternHas = "?")
  BY DEF CharGoes, Going
<1>2. Len(line) \in Nat /\ Len(pattern) \in Nat /\ Trail
  BY Reads DEF MatchSays
<1>3. l \in 1 .. Len(line) /\ LineHas = line[l] /\ LineHas # "NUL"
  <2>1. CASE l = Len(line) + 1
    <3>1. FirstRound /\ PatternHas = "NUL" /\ p = Len(pattern) + 1
      BY <1>1, <2>1, InBody DEF CharGoes
    <3>2. Len(pattern) = 0 /\ pattern \in Seq(LineChars \cup {"?", "*"})
      BY <1>2, <3>1 DEF FirstRound, MatchTypes
    <3>3. pattern = <<>>
      BY <3>2, EmptySeq
    <3>4. PassedEnd'
      BY <1>1, <3>1, <3>3 DEF PassedEnd, FirstRound
    <3>5. QED
      BY <3>4
  <2>2. CASE l # Len(line) + 1
    BY <1>1, <1>2, <2>2, InBody
  <2>3. QED
    BY <2>1, <2>2
<1>4. /\ p \in 1 .. Len(pattern) /\ pattern[p] # "*"
      /\ pattern[p] = "?" \/ pattern[p] = line[l]
  BY <1>1, <1>3, InBody
<1>5. /\ l \in 1 .. Len(line) + 1 /\ l + 1 \in 1 .. Len(line) + 1
      /\ l \in Int /\ p \in Int /\ last_line_start \in Int /\ last_pattern_start \in Int
  BY <1>2, <1>3, <1>4 DEF MatchTypes
<1>6. last_pattern_start # 0 => p # last_pattern_start
  BY <1>2, <1>4, OnTrail
<1>7. Trail'
  <2>1. CASE last_pattern_start = 0
    BY <1>1, <1>2, <2>1 DEF Trail
  <2>2. CASE last_pattern_start # 0 /\ wildcard
    BY <1>1, <1>2, <1>5, <2>2 DEF Trail
  <2>3. CASE last_pattern_start # 0 /\ ~wildcard
    BY <1>1, <1>2, <1>5, <1>6, <2>3 DEF Trail
  <2>4. QED
    BY <2>1, <2>2, <2>3
<1>8. From(line, pattern, l, p) => From(line, pattern, l + 1, p + 1)
  BY <1>2, <1>4, <1>5, FromChar
<1>9. ASSUME wildcard
      PROVE  last_pattern_start # 0 /\ p = last_pattern_start + 1
  BY <1>2, <1>9 DEF Trail
<1>10. ASSUME From(line, pattern, 1, 1)
       PROVE  \/ From(line, pattern, l + 1, p + 1)
              \/ /\ last_pattern_start # 0 /\ last_line_start' # 0
                 /\ From(line, pattern, last_line_start', last_pattern_start)
  <2>1. CASE wildcard
    <3>1. From(line, pattern, l, last_pattern_start)
      BY <1>1, <1>10, <2>1 DEF MatchSays, NoneLost
    <3>2. PICK z \in l .. Len(line) + 1 : From(line, pattern, z, last_pattern_start + 1)
      BY <1>2, <1>5, <1>9, <2>1, <3>1, OnTrail, FromStar
    <3>3. CASE z = l
      BY <1>8, <1>9, <2>1, <3>2, <3>3
    <3>4. CASE z # l
      <4> DEFINE x == l + 1
      <4>1. x \in 1 .. Len(line) + 1 /\ z \in x .. Len(line) + 1 /\ x # 0
        BY <1>2, <1>3, <3>4
      <4> HIDE DEF x
      <4>2. From(line, pattern, x, last_pattern_start)
        BY <1>2, <1>9, <2>1, <3>2, <4>1, OnTrail, StarFrom
      <4>3. QED
        BY <1>1, <1>9, <2>1, <4>1, <4>2 DEF x
    <3>5. QED
      BY <3>3, <3>4
  <2>2. CASE ~wildcard
    BY <1>1, <1>8, <1>10, <2>2 DEF MatchSays, NoneLost
  <2>3. QED
    BY <2>1, <2>2
<1>11. NoneLost'
  BY <1>1, <1>10 DEF NoneLost
<1>12. Shifted'
  <2> SUFFICES ASSUME last_line_start' # 0,
                      NEW x \in last_line_start' .. Len(line) + 1,
                      From(line, pattern, x, last_pattern_start + 1)
               PROVE  /\ x + ((l + 1) - last_line_start' + 1) <= Len(line) + 1
                      /\ From(line, pattern, x + ((l + 1) - last_line_start' + 1), p + 1)
    BY <1>1 DEF Shifted
  <2>1. CASE wildcard
    <3>1. last_line_start' = l + 1 /\ x \in 1 .. Len(line) + 1 /\ p = last_pattern_start + 1
      BY <1>1, <1>2, <1>3, <1>9, <2>1
    <3>2. From(line, pattern, x, p)
      BY <3>1
    <3>3. x <= Len(line) /\ From(line, pattern, x + 1, p + 1)
      BY <1>2, <1>4, <3>1, <3>2, FromChar
    <3>4. x + ((l + 1) - last_line_start' + 1) = x + 1
      BY <1>5, <3>1
    <3>5. x + 1 <= Len(line) + 1
      BY <1>2, <3>1, <3>3
    <3>6. QED
      BY <3>3, <3>4, <3>5
  <2>2. CASE ~wildcard
    <3>1. last_line_start' = last_line_start /\ last_line_start # 0 /\ Shifted
      BY <1>1, <2>2 DEF MatchSays
    <3> DEFINE y == x + (l - last_line_start + 1)
    <3>2. y <= Len(line) + 1 /\ From(line, pattern, y, p)
      BY <2>2, <3>1 DEF Shifted
    <3>3. /\ last_pattern_start # 0 /\ last_line_start <= l
      BY <1>2, <1>6, <2>2, <3>1 DEF Trail
    <3>4. y \in 1 .. Len(line) + 1 /\ x \in Int
      BY <1>2, <1>3, <1>5, <3>1, <3>2, <3>3, OnTrail
    <3>5. x + ((l + 1) - last_line_start' + 1) = y + 1
      BY <1>5, <3>1, <3>4
    <3> HIDE DEF y
    <3>6. y <= Len(line) /\ From(line, pattern, y + 1, p + 1)
      BY <1>2, <1>4, <3>2, <3>4, FromChar
    <3>7. y + 1 <= Len(line) + 1
      BY <1>2, <3>4, <3>6
    <3>8. QED
      BY <3>5, <3>6, <3>7
  <2>3. QED
    BY <2>1, <2>2
<1>13. ASSUME program = "match2" PROVE Came'
  <2>1. To(line, pattern, l, p)
    <3>1. p # last_pattern_start
      BY <1>4, <1>6
    <3>2. QED
      BY <1>1, <1>13, <3>1 DEF MatchSays, Came
  <2>2. To(line, pattern, l + 1, p + 1)
    BY <1>2, <1>3, <1>4, <2>1, ToChar
  <2>3. ASSUME last_line_start' # 0
        PROVE  To(line, pattern, last_line_start', last_pattern_start + 1)
    <3>1. CASE wildcard
      <4>1. To(line, pattern, l, last_pattern_start + 1)
        BY <1>9, <2>1, <3>1
      <4>2. l + 1 \in l .. Len(line) + 1
        BY <1>2, <1>3
      <4>3. To(line, pattern, l + 1, last_pattern_start + 1)
        BY <1>2, <1>5, <1>9, <3>1, <4>1, <4>2, OnTrail, StarTo
      <4>4. QED
        BY <1>1, <3>1, <4>3
    <3>2. CASE ~wildcard
      BY <1>1, <1>13, <2>3, <3>2 DEF MatchSays, Came
    <3>3. QED
      BY <3>1, <3>2
  <2>4. QED
    BY <1>1, <2>2, <2>3 DEF Came
<1>14. Answered'
  BY <1>1 DEF Answered
<1>15. QED
  BY <1>7, <1>11, <1>12, <1>13, <1>14 DEF MatchSays

-----------------------------------------------------------------------------
LEMMA MatchInit == AlgorithmsInit => MatchInv
<1> SUFFICES ASSUME AlgorithmsInit, MatchRuns
             PROVE  MatchTypes /\ MatchPlaces /\ MatchSays
  BY DEF MatchInv
<1>1. /\ l = 1 /\ p = 1 /\ wildcard = FALSE
      /\ last_line_start = 0 /\ last_pattern_start = 0 /\ match_ret = 0
      /\ IF program = "match" THEN match_pc = "body" ELSE match_pc = "test"
  BY DEF AlgorithmsInit, Match!Init, Match2!Init, Match!NULL, Match2!NULL
<1>2. line \in Seq(LineChars) /\ pattern \in Seq(LineChars \cup {"?", "*"})
  <2>1. /\ line \in Match!Strings(LineChars, MaxLine)
        /\ pattern \in Match!Strings(LineChars \cup {"?", "*"}, MaxPattern)
    BY DEF AlgorithmsInit, Match!Init, Match2!Init, Match!Strings, Match2!Strings,
           Match!PatternChars, Match2!PatternChars
  <2>2. ASSUME NEW C, NEW n \in Nat, NEW s \in Match!Strings(C, n) PROVE s \in Seq(C)
    <3>1. PICK k \in 0 .. n : s \in [1 .. k -> C]
      BY DEF Match!Strings
    <3>2. k \in Nat
      OBVIOUS
    <3>3. QED
      BY <3>1, <3>2 DEF Seq
  <2>3. QED
    BY <2>1, <2>2, InputsAssumption
<1>3. Len(line) \in Nat /\ Len(pattern) \in Nat
  BY <1>2
<1>4. MatchTypes
  <2>1. l \in 0 .. Len(line) + 1 /\ p \in 1 .. Len(pattern) + 1
    BY <1>1, <1>3
  <2>2. last_line_start \in 0 .. Len(line) + 1 /\ last_pattern_start \in 0 .. Len(pattern)
    BY <1>1, <1>3
  <2>3. match_pc = "body" \/ match_pc = "test"
    BY <1>1
  <2>4. QED
    BY <1>1, <1>2, <2>1, <2>2, <2>3 DEF MatchTypes
<1>5. MatchPlaces
  <2>1. Len(line) + 1 = 1 => line = <<>>
    BY <1>2, <1>3, EmptySeq
  <2>2. match_pc = "body" => program = "match"
    BY <1>1
  <2>3. QED
    BY <1>1, <2>1, <2>2 DEF MatchPlaces, FirstRound
<1>6. Trail /\ Answered
  BY <1>1 DEF Trail, Answered
<1>7. NoneLost /\ Shifted
  BY <1>1 DEF NoneLost, Shifted
<1>8. Came
  <2>1. 1 \in 1 .. Len(line) + 1
    BY <1>3
  <2>2. To(line, pattern, 1, 1)
    BY <1>3, <2>1, ToStart
  <2>3. QED
    BY <1>1, <2>2 DEF Came
<1>9. QED
  BY <1>4, <1>5, <1>6, <1>7, <1>8 DEF MatchSays

LEMMA LoopStepInv ==
    ASSUME MatchRuns, MatchInv, LoopStep, program' = program
    PROVE  MatchInv'
<1>1. MatchTypes /\ MatchPlaces /\ (Clean /\ ~PassedEnd => MatchSays)
  BY DEF MatchInv
<1>2. MatchTypes' /\ MatchPlaces'
  BY <1>1, TypesKept DEF MatchSays
<1>3. ASSUME Clean', ~PassedEnd' PROVE MatchSays'
  <2>1. line' = line
    BY DEF LoopStep, TestDone, CharEnds, CharGoes, StarEnds, StarGoes, SkipGoes, FailGoes,
           FailEnds, EndDone
  <2>2. Clean
    BY <1>3, <2>1 DEF Clean, Match!StarsIn
  <2>3. ~PassedEnd
    <3> SUFFICES ASSUME PassedEnd PROVE FALSE
      OBVIOUS
    <3>1. TestDone
      BY DEF PassedEnd, LoopStep, CharEnds, CharGoes, StarEnds, StarGoes, SkipGoes, FailGoes,
             FailEnds, EndDone
    <3>2. Len(line) = 0 /\ l = 2
      BY DEF PassedEnd
    <3>3. PassedEnd'
      BY <3>1, <3>2 DEF TestDone, PassedEnd
    <3>4. QED
      BY <1>3, <3>3
  <2>4. MatchSays
    BY <1>1, <2>2, <2>3
  <2>5. CASE TestDone
    BY <1>1, <2>2, <2>4, <2>5, TestSays
  <2>6. CASE CharEnds
    BY <1>1, <2>2, <2>4, <2>6, CharEndsSays
  <2>7. CASE CharGoes
    BY <1>1, <1>3, <2>2, <2>4, <2>7, CharGoesSays
  <2>8. CASE StarEnds
    BY <1>1, <2>2, <2>4, <2>8, StarEndsSays
  <2>9. CASE StarGoes
    BY <1>1, <2>2, <2>4, <2>9, StarGoesSays
  <2>10. CASE SkipGoes
    BY <1>1, <2>2, <2>4, <2>10, SkipSays
  <2>11. CASE FailGoes
    BY <1>1, <2>2, <2>4, <2>11, FailGoesSays
  <2>12. CASE FailEnds
    BY <1>1, <2>2, <2>4, <2>12, FailEndsSays
  <2>13. CASE EndDone
    BY <1>1, <2>2, <2>4, <2>13, EndSays
  <2>14. QED
    BY <2>5, <2>6, <2>7, <2>8, <2>9, <2>10, <2>11, <2>12, <2>13 DEF LoopStep
<1>4. QED
  BY <1>2, <1>3 DEF MatchInv

LEMMA MatchStep == MatchInv /\ [AlgorithmsNext]_allVars => MatchInv'
<1> SUFFICES ASSUME MatchInv, [AlgorithmsNext]_allVars, MatchRuns' PROVE MatchInv'
  BY DEF MatchInv
<1>1. program' = program
  BY DEF AlgorithmsNext, allVars
<1>2. MatchRuns
  BY <1>1 DEF MatchRuns
<1>3. MatchTypes /\ MatchPlaces
  BY <1>2 DEF MatchInv
<1>4. CASE AlgorithmsNext
  <2>1. LoopStep
    <3>1. CASE program = "match"
      BY <1>3, <1>4, <3>1, MatchSteps DEF AlgorithmsNext
    <3>2. CASE program = "match2"
      BY <1>3, <1>4, <3>2, Match2Steps DEF AlgorithmsNext
    <3>3. QED
      BY <1>2, <3>1, <3>2 DEF MatchRuns
  <2>2. QED
    BY <1>1, <1>2, <2>1, LoopStepInv
<1>5. CASE UNCHANGED allVars
  <2>1. UNCHANGED <<program, matchVars>>
    BY <1>5 DEF allVars
  <2>2. MatchTypes' /\ MatchPlaces'
    BY <1>3, <2>1 DEF matchVars, MatchTypes, MatchPlaces, PassedEnd, FirstRound, Clean,
                      Match!StarsIn
  <2>3. (Clean' <=> Clean) /\ (PassedEnd' <=> PassedEnd) /\ (Going' <=> Going)
    BY <2>1 DEF matchVars, Clean, Match!StarsIn, PassedEnd, Going
  <2>4. /\ Trail => Trail'
        /\ Answered => Answered'
        /\ NoneLost => NoneLost'
        /\ Shifted => Shifted'
        /\ Came => Came'
    <3> USE <2>1 DEF matchVars
    <3>1. Trail => Trail'
      BY DEF Trail
    <3>2. Answered => Answered'
      BY DEF Answered, StarsLeft
    <3>3. NoneLost => NoneLost'
      BY DEF NoneLost
    <3>4. Shifted => Shifted'
      BY DEF Shifted
    <3>5. Came => Came'
      BY DEF Came
    <3>6. QED
      BY <3>1, <3>2, <3>3, <3>4, <3>5
  <2>5. MatchSays => MatchSays'
    BY <2>1, <2>3, <2>4 DEF MatchSays
  <2>6. QED
    BY <1>2, <2>2, <2>3, <2>5 DEF MatchInv
<1>6. QED
  BY <1>4, <1>5

LEMMA MatchInvImplies == MatchInv => MatchesRight
<1> SUFFICES ASSUME MatchInv, MatchRuns PROVE MatchesRight
  BY DEF MatchesRight, MatchRuns
<1>1. MatchTypes /\ MatchPlaces /\ (Clean /\ ~PassedEnd => MatchSays)
  BY DEF MatchInv
<1>2. Len(line) \in Nat /\ Len(pattern) \in Nat
  BY <1>1, Reads
<1>3. Match!TypeOK /\ Match2!TypeOK
  BY <1>1, <1>2 DEF Match!TypeOK, Match2!TypeOK, MatchTypes, PassedEnd
<1>4. (Match2!StarsIn(line) <=> Match!StarsIn(line))
  BY DEF Match!StarsIn, Match2!StarsIn
<1>5. /\ program = "match" => Match!CrashOnlyByStarInLine
      /\ program = "match2" => Match2!CrashOnlyByStarInLine
  <2>1. /\ match_pc = "crash" => ~Clean
        /\ match_pc = "overrun" => PassedEnd
    BY <1>1 DEF MatchPlaces
  <2>2. QED
    BY <2>1 DEF Clean, PassedEnd, Match!CrashOnlyByStarInLine, Match2!CrashOnlyByStarInLine
<1>6. /\ Match!Matches(line, pattern) <=> From(line, pattern, 1, 1)
      /\ Match2!Matches(line, pattern) <=> From(line, pattern, 1, 1)
  BY <1>2, MatchesIs
<1>7. match_pc = "return" /\ Clean => Answered
  BY <1>1 DEF PassedEnd, MatchSays
<1>8. match_ret \in {0, 1}
  BY <1>1 DEF MatchTypes
<1>9. program = "match" => Match!NoMatchMissed
  BY <1>6, <1>7, <1>8 DEF Match!NoMatchMissed, Clean, Answered
<1>10. program = "match2" => Match2!Right
  BY <1>6, <1>7, <1>8, SameReads DEF Match2!Right, Clean, Answered, StarsLeft
<1>11. Match!MemoizationRight
  <2> SUFFICES ASSUME ~Match!StarsIn(line)
               PROVE  Match!memoization(pattern, line) <=> Match!Matches(line, pattern)
    BY DEF Match!MemoizationRight
  <2>1. \A k \in 1 .. Len(line) : line[k] # "*"
    BY <1>1, StarNotIn
  <2>2. QED
    BY <1>2, <2>1, MemoizationIs
<1>12. QED
  BY <1>3, <1>5, <1>9, <1>10, <1>11 DEF MatchesRight

(* Wildcard matching, for lines and patterns of any length: is_match of    *)
(* match/main.c turns away no line without '*' that matches, and reads     *)
(* NULL only for a line with one; that of match2/main.c never does, and    *)
(* its answer is right but for several '*' left over; the memoized matcher *)
(* is right for a text without '*'.                                        *)
THEOREM MatchesRightAlways == AlgorithmsSpec => []MatchesRight
  BY MatchInit, MatchStep, MatchInvImplies, PTL DEF AlgorithmsSpec

-----------------------------------------------------------------------------
(* Every step of a program lowers what it has to do, four numbers that are *)
(* compared from the first on, and these cannot fall for ever: the safety  *)
(* half of AllEnd.                                                         *)

Fewer == LexProductOrdering(Smaller, Nat, 4)

LEMMA FewerWF == IsWellFoundedOn(Fewer, [1 .. 4 -> Nat])
BY SmallerWF, WFLexProductOrdering, Zenon DEF Fewer

LEMMA FewerBy ==
    ASSUME NEW a1 \in Nat, NEW a2 \in Nat, NEW a3 \in Nat, NEW a4 \in Nat,
           NEW b1 \in Nat, NEW b2 \in Nat, NEW b3 \in Nat, NEW b4 \in Nat,
           \/ a1 < b1
           \/ a1 = b1 /\ a2 < b2
           \/ a1 = b1 /\ a2 = b2 /\ a3 < b3
           \/ a1 = b1 /\ a2 = b2 /\ a3 = b3 /\ a4 < b4
    PROVE  <<<<a1, a2, a3, a4>>, <<b1, b2, b3, b4>>>> \in Fewer
<1> DEFINE a == <<a1, a2, a3, a4>>
           b == <<b1, b2, b3, b4>>
<1>1. a \in [1 .. 4 -> Nat] /\ b \in [1 .. 4 -> Nat]
  OBVIOUS
<1>2. /\ a[1] = a1 /\ a[2] = a2 /\ a[3] = a3 /\ a[4] = a4
      /\ b[1] = b1 /\ b[2] = b2 /\ b[3] = b3 /\ b[4] = b4
  OBVIOUS
<1> HIDE DEF a, b
<1>3. PICK c \in 1 .. 4 : a[c] < b[c] /\ a[c] \in Nat /\ b[c] \in Nat
                          /\ \A m \in 1 .. c - 1 : a[m] = b[m]
  <2>1. CASE a1 < b1
    <3>1. 1 \in 1 .. 4 /\ \A m \in 1 .. 1 - 1 : a[m] = b[m]
      OBVIOUS
    <3>2. QED
      BY <1>2, <2>1, <3>1
  <2>2. CASE a1 = b1 /\ a2 < b2
    <3>1. 2 \in 1 .. 4 /\ \A m \in 1 .. 2 - 1 : m = 1
      OBVIOUS
    <3>2. QED
      BY <1>2, <2>2, <3>1
  <2>3. CASE a1 = b1 /\ a2 = b2 /\ a3 < b3
    <3>1. 3 \in 1 .. 4 /\ \A m \in 1 .. 3 - 1 : m = 1 \/ m = 2
      OBVIOUS
    <3>2. QED
      BY <1>2, <2>3, <3>1
  <2>4. CASE a1 = b1 /\ a2 = b2 /\ a3 = b3 /\ a4 < b4
    <3>1. 4 \in 1 .. 4 /\ \A m \in 1 .. 4 - 1 : m = 1 \/ m = 2 \/ m = 3
      OBVIOUS
    <3>2. QED
      BY <1>2, <2>4, <3>1
  <2>5. QED
    BY <2>1, <2>2, <2>3, <2>4
<1>4. <<a[c], b[c]>> \in Smaller
  BY <1>3 DEF Smaller
<1>5. <<a, b>> \in [1 .. 4 -> Nat] \X [1 .. 4 -> Nat]
  BY <1>1
<1>6. <<a, b>>[1] = a /\ <<a, b>>[2] = b
  OBVIOUS
<1>7. <<a, b>> \in Fewer
  BY <1>3, <1>4, <1>5, <1>6 DEF Fewer, LexProductOrdering
<1>8. QED
  BY <1>7 DEF a, b

-----------------------------------------------------------------------------
(* binarySearch: the range.                                                *)
SearchToDo == <<IF pc = "search" THEN upper - lower + 1 ELSE 0, 0, 0, 0>>

LEMMA SearchNearer ==
    ASSUME IInv, IInv', Next
    PROVE  <<SearchToDo', SearchToDo>> \in Fewer
<1>1. pc = "search"
  BY DEF Next, Found, Narrow
<1>2. /\ lower \in Int /\ upper \in Int /\ lower <= upper
      /\ mid \in Int /\ lower <= mid /\ mid <= upper
  BY <1>1, ReadInside DEF IInv, InRange
<1> DEFINE b == upper - lower + 1
           a == IF pc' = "search" THEN upper' - lower' + 1 ELSE 0
<1>3. b \in Nat /\ a \in Nat /\ a < b
  <2>1. CASE pc' = "return"
    BY <1>2, <2>1
  <2>2. CASE pc' # "return"
    <3>1. Narrow /\ pc' = "search"
      BY <2>2 DEF Next, Found, Narrow
    <3>2. \/ upper' = mid - 1 /\ lower' = lower
          \/ lower' = mid + 1 /\ upper' = upper
      BY <3>1 DEF Narrow
    <3>3. lower' <= upper'
      BY <3>1 DEF IInv, InRange
    <3> HIDE DEF mid
    <3>4. QED
      BY <1>2, <3>1, <3>2, <3>3
  <2>3. QED
    BY <2>1, <2>2
<1> HIDE DEF a, b
<1>4. <<<<a, 0, 0, 0>>, <<b, 0, 0, 0>>>> \in Fewer
  BY <1>3, FewerBy
<1>5. QED
  BY <1>1, <1>4 DEF SearchToDo, a, b

(* The fee search: the search goes on, the steps, the rows, the row.       *)
FeeToDo ==
    <<CASE fee_pc = "sum" -> 2 [] fee_pc \in {"step", "compare"} -> 1 [] OTHER -> 0,
      length + 1 - step,
      IF fee_pc = "step" THEN length + 2 ELSE listSize + 1,
      j + 2>>

LEMMA FeeNearer ==
    ASSUME FeeInv, FeeInv', Fees!Next
    PROVE  <<FeeToDo', FeeToDo>> \in Fewer
<1> DEFINE a1 == CASE fee_pc' = "sum" -> 2 [] fee_pc' \in {"step", "compare"} -> 1 [] OTHER -> 0
           a2 == length' + 1 - step'
           a3 == IF fee_pc' = "step" THEN length' + 2 ELSE listSize' + 1
           a4 == j' + 2
           b1 == CASE fee_pc = "sum" -> 2 [] fee_pc \in {"step", "compare"} -> 1 [] OTHER -> 0
           b2 == length + 1 - step
           b3 == IF fee_pc = "step" THEN length + 2 ELSE listSize + 1
           b4 == j + 2
<1>1. /\ length \in Nat /\ step \in 0 .. length + 1 /\ listSize \in -1 .. length
      /\ j \in -2 .. length - 1 /\ (fee_pc = "compare" => step <= length /\ listSize >= 0)
  <2>1. length \in Nat
    BY InputsAssumption DEF FeeInv, FeeArgs
  <2>2. Fees!TypeOK /\ (fee_pc = "compare" => step \in 0 .. length /\ listSize \in 0 .. length)
    BY DEF FeeInv, FeeTypes
  <2>3. QED
    BY <2>1, <2>2 DEF Fees!TypeOK
<1>2. length' = length
  BY DEF Fees!Next, Fees!CheckAll, Fees!Step, Fees!One, Fees!Skip, Fees!Take, Fees!NextRow,
         Fees!args
<1>3. /\ step' \in 0 .. length + 1 /\ listSize' \in -1 .. length /\ j' \in -2 .. length - 1
  BY <1>2 DEF FeeInv, FeeTypes, Fees!TypeOK
<1>4. /\ a1 \in Nat /\ a2 \in Nat /\ a3 \in Nat /\ a4 \in Nat
      /\ b1 \in Nat /\ b2 \in Nat /\ b3 \in Nat /\ b4 \in Nat
  BY <1>1, <1>2, <1>3
<1>5. \/ a1 < b1
      \/ a1 = b1 /\ a2 < b2
      \/ a1 = b1 /\ a2 = b2 /\ a3 < b3
      \/ a1 = b1 /\ a2 = b2 /\ a3 = b3 /\ a4 < b4
  <2>1. CASE Fees!CheckAll
    BY <2>1 DEF Fees!CheckAll
  <2>2. CASE Fees!Step
    <3>1. /\ fee_pc = "step" /\ step' = step /\ listSize' = length
          /\ fee_pc' \in {"no found the result", "compare"}
      BY <2>2 DEF Fees!Step
    <3>2. CASE fee_pc' = "compare"
      <4>1. a1 = b1 /\ a2 = b2 /\ a3 < b3
        BY <1>1, <1>2, <3>1, <3>2
      <4>2. QED
        BY <4>1
    <3>3. CASE fee_pc' # "compare"
      <4>1. a1 = 0 /\ b1 = 1
        BY <3>1, <3>3
      <4>2. QED
        BY <4>1
    <3>4. QED
      BY <3>2, <3>3
  <2>3. CASE Fees!One
    BY <2>3 DEF Fees!One
  <2>4. CASE Fees!Skip
    BY <1>1, <1>2, <2>4 DEF Fees!Skip
  <2>5. CASE Fees!Take
    <3>1. /\ fee_pc = "compare" /\ step' = step /\ listSize' = listSize
          /\ fee_pc' = "some" \/ (fee_pc' = fee_pc /\ j' = j - 1)
      BY <2>5 DEF Fees!Take
    <3>2. QED
      BY <1>1, <1>2, <3>1
  <2>6. CASE Fees!NextRow
    <3>1. /\ fee_pc = "compare" /\ listSize' = listSize - 1
          /\ \/ step' = step + 1 /\ fee_pc' = "step"
             \/ step' = step /\ fee_pc' = fee_pc
      BY <2>6 DEF Fees!NextRow
    <3>2. QED
      BY <1>1, <1>2, <3>1
  <2>7. QED
    BY <2>1, <2>2, <2>3, <2>4, <2>5, <2>6 DEF Fees!Next
<1> HIDE DEF a1, a2, a3, a4, b1, b2, b3, b4
<1>6. <<<<a1, a2, a3, a4>>, <<b1, b2, b3, b4>>>> \in Fewer
  BY <1>4, <1>5, FewerBy
<1>7. QED
  BY <1>6 DEF FeeToDo, a1, a2, a3, a4, b1, b2, b3, b4

-----------------------------------------------------------------------------
(* Both is_match.  An attempt is made with the last '*' of those passed so *)
(* far, from one place in the line; it begins anew only behind that place. *)
Start == IF wildcard \/ last_line_start = 0 THEN l ELSE last_line_start

MatchToDo ==
    <<Len(pattern) - last_pattern_start,
      IF l = 0 THEN 0 ELSE Len(line) + 2 - Start,
      IF wildcard THEN 1 ELSE IF last_line_start = 0 THEN 2 ELSE Len(line) + 4 - l,
      CASE match_pc = "test" -> 2 [] match_pc \in {"body", "end"} -> 1 [] OTHER -> 0>>

(* The last '*' is not behind p, also for a line with a '*' in it.         *)
Ahead ==
    /\ last_pattern_start <= p
    /\ wildcard \/ last_line_start # 0 => last_pattern_start < p

LEMMA MatchNumbers ==
    ASSUME MatchTypes
    PROVE  /\ Len(line) \in Nat /\ Len(pattern) \in Nat /\ p \in Nat /\ l \in Nat
           /\ l <= Len(line) + 2
           /\ last_line_start \in Nat /\ last_line_start <= Len(line) + 1
           /\ last_pattern_start \in Nat /\ last_pattern_start <= Len(pattern)
           /\ wildcard \in BOOLEAN
<1>1. Len(line) \in Nat /\ Len(pattern) \in Nat
  BY Reads
<1>2. /\ last_line_start \in 0 .. Len(line) + 1 /\ last_pattern_start \in 0 .. Len(pattern)
      /\ wildcard \in BOOLEAN
  BY DEF MatchTypes
<1>3. CASE PassedEnd
  BY <1>1, <1>2, <1>3 DEF PassedEnd
<1>4. CASE ~PassedEnd
  <2>1. l \in 0 .. Len(line) + 1 /\ p \in 1 .. Len(pattern) + 1
    BY <1>4 DEF MatchTypes
  <2>2. QED
    BY <1>1, <1>2, <2>1
<1>5. QED
  BY <1>3, <1>4

LEMMA AheadStep ==
    ASSUME MatchTypes, Ahead, LoopStep
    PROVE  Ahead'
<1>1. /\ p \in Nat /\ last_pattern_start \in Nat /\ wildcard \in BOOLEAN
      /\ last_line_start \in Nat
  BY MatchNumbers
<1>2. CASE TestDone \/ CharEnds \/ StarEnds \/ SkipGoes \/ FailEnds \/ EndDone
  BY <1>2 DEF TestDone, CharEnds, StarEnds, SkipGoes, FailEnds, EndDone, Ahead
<1>3. CASE CharGoes
  BY <1>1, <1>3 DEF CharGoes, Ahead
<1>4. CASE StarGoes
  BY <1>1, <1>4 DEF StarGoes, Ahead
<1>5. CASE FailGoes
  BY <1>1, <1>5 DEF FailGoes, Ahead
<1>6. QED
  BY <1>2, <1>3, <1>4, <1>5 DEF LoopStep

LEMMA MatchNearer ==
    ASSUME MatchTypes, MatchPlaces, MatchTypes', MatchPlaces', Ahead, LoopStep
    PROVE  <<MatchToDo', MatchToDo>> \in Fewer
<1> DEFINE L == Len(line)
           a1 == Len(pattern') - last_pattern_start'
           a2 == IF l' = 0 THEN 0 ELSE Len(line') + 2 - Start'
           a3 == IF wildcard' THEN 1 ELSE IF last_line_start' = 0 THEN 2 ELSE Len(line') + 4 - l'
           a4 == CASE match_pc' = "test" -> 2 [] match_pc' \in {"body", "end"} -> 1 [] OTHER -> 0
           b1 == Len(pattern) - last_pattern_start
           b2 == IF l = 0 THEN 0 ELSE L + 2 - Start
           b3 == IF wildcard THEN 1 ELSE IF last_line_start = 0 THEN 2 ELSE L + 4 - l
           b4 == CASE match_pc = "test" -> 2 [] match_pc \in {"body", "end"} -> 1 [] OTHER -> 0
<1>1. /\ L \in Nat /\ Len(pattern) \in Nat /\ p \in Nat /\ l \in Nat /\ l <= L + 2
      /\ last_line_start \in Nat /\ last_line_start <= L + 1
      /\ last_pattern_start \in Nat /\ last_pattern_start <= Len(pattern)
      /\ wildcard \in BOOLEAN
  BY MatchNumbers
<1>2. line' = line /\ pattern' = pattern
  BY DEF LoopStep, TestDone, CharEnds, CharGoes, StarEnds, StarGoes, SkipGoes, FailGoes,
         FailEnds, EndDone
<1>3. /\ l' \in Nat /\ l' <= L + 2
      /\ last_line_start' \in Nat /\ last_line_start' <= L + 1
      /\ last_pattern_start' \in Nat /\ last_pattern_start' <= Len(pattern)
      /\ wildcard' \in BOOLEAN
  <2>1. /\ last_line_start' \in 0 .. L + 1 /\ last_pattern_start' \in 0 .. Len(pattern)
        /\ wildcard' \in BOOLEAN
        /\ l' \in 0 .. L + 1 \/ PassedEnd'
    BY <1>2 DEF MatchTypes
  <2>2. PassedEnd' => l' = L + 2
    BY <1>2 DEF PassedEnd
  <2> HIDE DEF L
  <2>3. l' \in Nat /\ l' <= L + 2
    <3>1. CASE l' \in 0 .. L + 1
      BY <1>1, <3>1
    <3>2. CASE PassedEnd'
      BY <1>1, <2>2, <3>2
    <3>3. QED
      BY <2>1, <3>1, <3>2
  <2>4. last_line_start' \in Nat /\ last_line_start' <= L + 1
    BY <1>1, <2>1
  <2>5. last_pattern_start' \in Nat /\ last_pattern_start' <= Len(pattern)
    BY <1>1, <2>1
  <2>6. QED
    BY <2>1, <2>3, <2>4, <2>5
<1> HIDE DEF L
<1>4. /\ b1 \in Nat /\ b2 \in Nat /\ b3 \in Nat /\ b4 \in Nat
  <2>1. Start \in Nat /\ Start <= L + 2
    BY <1>1 DEF Start
  <2>2. b1 \in Nat
    BY <1>1
  <2>3. b2 \in Nat
    BY <1>1, <2>1
  <2>4. b3 \in Nat
    BY <1>1
  <2>5. b4 \in Nat
    OBVIOUS
  <2>6. QED
    BY <2>2, <2>3, <2>4, <2>5
<1>5. /\ a1 \in Nat /\ a2 \in Nat /\ a3 \in Nat /\ a4 \in Nat
  <2>1. Start' \in Nat /\ Start' <= L + 2
    BY <1>1, <1>3 DEF Start
  <2>2. Len(line') = L /\ Len(pattern') = Len(pattern)
    BY <1>2 DEF L
  <2> DEFINE L1 == Len(line')
             S1 == Start'
             at == l'
  <2>3. a1 \in Nat
    BY <1>1, <1>3, <2>2
  <2>4. /\ L1 \in Nat /\ S1 \in Nat /\ S1 <= L1 + 2
        /\ at \in Nat /\ at <= L1 + 2
    BY <1>1, <1>3, <2>1, <2>2
  <2> HIDE DEF L1, S1, at
  <2>5. L1 + 2 - S1 \in Nat /\ L1 + 4 - at \in Nat
    BY <2>4
  <2>6. a2 \in Nat /\ a3 \in Nat
    BY <2>5 DEF L1, S1, at
  <2>7. a4 \in Nat
    OBVIOUS
  <2>8. QED
    BY <2>3, <2>6, <2>7
<1>6. match_pc = "body" => l # 0 /\ l <= L + 1
  BY <1>1, InBody DEF L
<1>7. \/ a1 < b1
      \/ a1 = b1 /\ a2 < b2
      \/ a1 = b1 /\ a2 = b2 /\ a3 < b3
      \/ a1 = b1 /\ a2 = b2 /\ a3 = b3 /\ a4 < b4
  <2>1. CASE TestDone \/ CharEnds \/ StarEnds \/ FailEnds \/ EndDone
    <3>1. UNCHANGED <<line, pattern, l, wildcard, last_line_start, last_pattern_start>>
      BY <2>1 DEF TestDone, CharEnds, StarEnds, FailEnds, EndDone
    <3>2. a1 = b1 /\ a2 = b2 /\ a3 = b3
      BY <3>1 DEF Start, L
    <3>3. a4 < b4
      BY <2>1 DEF TestDone, CharEnds, StarEnds, FailEnds, EndDone
    <3>4. QED
      BY <3>2, <3>3
  <2>2. CASE CharGoes
    <3>1. /\ l # 0 /\ l' = l + 1 /\ l' # 0 /\ wildcard' = FALSE
          /\ last_line_start' = IF wildcard THEN l + 1 ELSE last_line_start
      BY <1>1, <1>6, <2>2 DEF CharGoes
    <3>2. a1 = b1
      BY <1>2, <2>2 DEF CharGoes
    <3>3. CASE wildcard
      <4>1. Start = l /\ Start' = l + 1
        BY <1>1, <3>1, <3>3 DEF Start
      <4>2. QED
        BY <1>1, <1>2, <3>1, <3>2, <4>1 DEF L
    <3>4. CASE ~wildcard /\ last_line_start = 0
      <4>1. Start = l /\ Start' = l + 1
        BY <3>1, <3>4 DEF Start
      <4>2. QED
        BY <1>1, <1>2, <3>1, <3>2, <4>1 DEF L
    <3>5. CASE ~wildcard /\ last_line_start # 0
      <4>1. Start = last_line_start /\ Start' = last_line_start
        BY <3>1, <3>5 DEF Start
      <4>2. a2 = b2
        BY <1>2, <3>1, <4>1 DEF L
      <4>3. a3 < b3
        BY <1>1, <1>2, <3>1, <3>5 DEF L
      <4>4. QED
        BY <3>2, <4>2, <4>3
    <3>6. QED
      BY <3>3, <3>4, <3>5
  <2>3. CASE StarGoes
    <3>1. last_pattern_start' = p /\ l' = l /\ wildcard' /\ l # 0
      BY <1>6, <2>3 DEF StarGoes
    <3>2. CASE last_pattern_start < p
      BY <1>1, <1>2, <3>1, <3>2
    <3>3. CASE last_pattern_start = p
      <4>1. ~wildcard /\ last_line_start = 0
        BY <1>1, <3>3 DEF Ahead
      <4>2. Start = l /\ Start' = l
        BY <3>1, <4>1 DEF Start
      <4>3. a1 = b1 /\ a2 = b2
        BY <1>2, <3>1, <3>3, <4>2 DEF L
      <4>4. a3 = 1 /\ b3 = 2
        BY <3>1, <4>1
      <4>5. QED
        BY <4>3, <4>4
    <3>4. QED
      BY <1>1, <3>2, <3>3 DEF Ahead
  <2>4. CASE SkipGoes
    <3>1. /\ l' = l + 1 /\ l # 0 /\ l' # 0 /\ wildcard /\ wildcard' = wildcard
          /\ last_pattern_start' = last_pattern_start
      BY <1>1, <1>6, <2>4 DEF SkipGoes
    <3>2. Start = l /\ Start' = l + 1
      BY <3>1 DEF Start
    <3>3. a1 = b1 /\ a2 < b2
      BY <1>1, <1>2, <3>1, <3>2 DEF L
    <3>4. QED
      BY <3>3
  <2>5. CASE FailGoes
    <3>1. /\ l' = last_line_start /\ last_line_start' = 0 /\ l # 0 /\ l <= L + 1
          /\ wildcard = FALSE /\ wildcard' = FALSE
          /\ last_pattern_start' = last_pattern_start
      BY <1>6, <2>5 DEF FailGoes
    <3>2. a1 = b1
      BY <1>2, <3>1
    <3>3. CASE last_line_start = 0
      <4>1. a2 = 0 /\ b2 = L + 2 - l
        BY <3>1, <3>3 DEF Start
      <4>2. QED
        BY <1>1, <3>1, <3>2, <4>1
    <3>4. CASE last_line_start # 0
      <4>1. Start = last_line_start /\ Start' = last_line_start
        BY <3>1, <3>4 DEF Start
      <4>2. a2 = b2
        BY <1>2, <3>1, <3>4, <4>1 DEF L
      <4>3. a3 = 2 /\ b3 = L + 4 - l
        BY <3>1, <3>4
      <4>4. QED
        BY <1>1, <3>1, <3>2, <4>2, <4>3
    <3>5. QED
      BY <3>3, <3>4
  <2>6. QED
    BY <2>1, <2>2, <2>3, <2>4, <2>5 DEF LoopStep
<1> HIDE DEF a1, a2, a3, a4, b1, b2, b3, b4
<1>8. <<<<a1, a2, a3, a4>>, <<b1, b2, b3, b4>>>> \in Fewer
  BY <1>4, <1>5, <1>7, FewerBy
<1>9. QED
  BY <1>8 DEF MatchToDo, a1, a2, a3, a4, b1, b2, b3, b4, L

-----------------------------------------------------------------------------
(* The sorts: the rounds of the simple ones; for quickSort the elements of *)
(* the segments of its calls, the calls, and the loop of the first one.    *)
ToSort(q) == {x \in Sort!Indices : \E c \in 1 .. Len(q) : x \in Segment(q[c])}

SortToDo ==
    IF sort = "quick"
    THEN <<Cardinality(ToSort(calls)), Len(calls), 1 - i,
           IF i = 1 THEN Sort!n - left ELSE 0>>
    ELSE <<sorted_num - i, 0, 0, 0>>

LEMMA LessToSort ==
    ASSUME SortTypes, NEW q, NEW w, ToSort(w) \subseteq ToSort(q)
    PROVE  /\ Cardinality(ToSort(w)) \in Nat /\ Cardinality(ToSort(q)) \in Nat
           /\ Cardinality(ToSort(w)) <= Cardinality(ToSort(q))
           /\ ToSort(w) # ToSort(q) => Cardinality(ToSort(w)) < Cardinality(ToSort(q))
<1>1. sorted_num \in Int
  BY SortConstants DEF SortTypes
<1>2. IsFiniteSet(Sort!Indices)
  BY <1>1, FS_Interval DEF Sort!Indices
<1>3. ToSort(q) \subseteq Sort!Indices
  BY DEF ToSort
<1> HIDE DEF ToSort
<1>4. IsFiniteSet(ToSort(q))
  BY <1>2, <1>3, FS_Subset, Zenon
<1>5. IsFiniteSet(ToSort(w))
  BY <1>4, FS_Subset, Zenon
<1>6. Cardinality(ToSort(q)) \in Nat /\ Cardinality(ToSort(w)) \in Nat
  BY <1>4, <1>5, FS_CardinalityType, Zenon
<1>7. /\ Cardinality(ToSort(w)) <= Cardinality(ToSort(q))
      /\ Cardinality(ToSort(w)) = Cardinality(ToSort(q)) => ToSort(w) = ToSort(q)
  BY <1>4, FS_Subset, Zenon
<1>8. QED
  BY <1>6, <1>7

LEMMA SimpleNearer ==
    ASSUME SortInv, SortInv', Sort!bubbleSort \/ Sort!insertionSort \/ Sort!selectionSort
    PROVE  <<SortToDo', SortToDo>> \in Fewer
<1>1. /\ sort # "quick" /\ sort' = sort /\ sorted_num' = sorted_num /\ i' = i + 1
  BY DEF Sort!bubbleSort, Sort!insertionSort, Sort!selectionSort, Sort!args, Sort!Bubble,
         Sort!Insertion, Sort!Selection
<1>2. sorted_num \in Nat /\ i \in 0 .. sorted_num /\ i' \in 0 .. sorted_num'
  BY SortConstants DEF SortInv, SortTypes
<1> DEFINE a == sorted_num' - i'
           b == sorted_num - i
<1>3. a \in Nat /\ b \in Nat /\ a < b
  BY <1>1, <1>2
<1> HIDE DEF a, b
<1>4. <<<<a, 0, 0, 0>>, <<b, 0, 0, 0>>>> \in Fewer
  BY <1>3, FewerBy
<1>5. QED
  BY <1>1, <1>4 DEF SortToDo, a, b

(* What quickSort does to the calls.                                       *)
LEMMA SplitToSort ==
    ASSUME SortInv, Sort!Split
    PROVE  Cardinality(ToSort(calls')) < Cardinality(ToSort(calls))
<1> DEFINE q == calls
           w == calls'
           f == Sort!from
           m == Sort!n
           z == Sort!StopsLeft
           A == [from |-> f, num |-> z]
           B == [from |-> f + z + 1, num |-> m - z - 1]
<1>1. q # <<>> /\ i = 1 /\ w = <<A, B>> \o Tail(q)
  BY DEF Sort!Split
<1>2. /\ sort = "quick" /\ q \in Seq(CallType) /\ f \in Nat /\ m \in Nat
      /\ f + m <= sorted_num /\ sorted_num \in Nat
      /\ Segment(q[1]) = f .. f + m - 1 /\ 1 \in 1 .. Len(q) /\ Len(q) \in Nat \ {0}
  BY <1>1, FirstCall, TailIs, SortConstants DEF SortInv, SortTypes
<1>3. Apart(q) /\ SortTypes
  BY <1>2 DEF SortInv, QuickInv
<1>4. z \in 0 .. m - 1
  BY <1>1, <1>2, LoopsStop
<1> HIDE DEF z
<1>5. A \in CallType /\ B \in CallType
  BY <1>2, <1>4 DEF CallType
<1>6. Segment(A) = f .. f + z - 1 /\ Segment(B) = f + z + 1 .. f + m - 1
  BY <1>2, <1>4 DEF Segment
<1> HIDE DEF A, B
<1>7. /\ Len(w) = Len(q) + 1 /\ w[1] = A /\ w[2] = B
      /\ \A c \in 2 .. Len(q) : w[c + 1] = q[c]
  BY <1>1, <1>2, <1>5, TwoForOne
<1> HIDE DEF q, w, f, m
<1>8. ASSUME NEW x \in Sort!Indices, NEW c \in 1 .. Len(w), x \in Segment(w[c])
      PROVE  x # f + z /\ \E e \in 1 .. Len(q) : x \in Segment(q[e])
  <2>1. CASE c = 1 \/ c = 2
    <3>1. x \in f .. f + z - 1 \/ x \in f + z + 1 .. f + m - 1
      BY <1>6, <1>7, <1>8, <2>1
    <3>2. x \in f .. f + m - 1 /\ x # f + z
      BY <1>2, <1>4, <3>1
    <3>3. QED
      BY <1>2, <3>2
  <2>2. CASE c # 1 /\ c # 2
    <3> DEFINE e == c - 1
    <3>1. e \in 2 .. Len(q) /\ e + 1 = c
      BY <1>2, <1>7, <2>2
    <3> HIDE DEF e
    <3>2. x \in Segment(q[e]) /\ e \in 1 .. Len(q) /\ e # 1
      BY <1>2, <1>7, <1>8, <3>1
    <3>3. x \notin Segment(q[1])
      BY <1>2, <1>3, <3>2 DEF Apart
    <3>4. f + z \in Segment(q[1])
      BY <1>2, <1>4
    <3>5. QED
      BY <3>2, <3>3, <3>4
  <2>3. QED
    BY <2>1, <2>2
<1>9. ToSort(w) \subseteq ToSort(q)
  BY <1>8 DEF ToSort
<1>10. f + z \in ToSort(q) /\ f + z \notin ToSort(w)
  <2>1. f + z \in Sort!Indices /\ f + z \in Segment(q[1])
    BY <1>2, <1>4 DEF Sort!Indices
  <2>2. QED
    BY <1>2, <1>8, <2>1 DEF ToSort
<1>11. Cardinality(ToSort(w)) < Cardinality(ToSort(q))
  BY <1>3, <1>9, <1>10, LessToSort
<1>12. QED
  BY <1>11 DEF q, w

LEMMA QuickNearer ==
    ASSUME SortInv, SortInv', Sort!Call \/ Sort!Round \/ Sort!Split
    PROVE  <<SortToDo', SortToDo>> \in Fewer
<1>1. calls # <<>> /\ i \in {0, 1} /\ sorted_num' = sorted_num /\ sort' = sort
  BY DEF Sort!Call, Sort!Round, Sort!Split, Sort!args
<1>2. /\ sort = "quick" /\ calls \in Seq(CallType) /\ Len(calls) \in Nat \ {0}
      /\ Sort!n \in Nat /\ SortTypes
  BY <1>1, FirstCall, TailIs DEF SortInv
<1>3. Len(calls') \in Nat /\ i' \in Nat
  BY SortConstants DEF SortInv, SortTypes
<1> DEFINE a1 == Cardinality(ToSort(calls'))
           a2 == Len(calls')
           a3 == 1 - i'
           a4 == IF i' = 1 THEN Sort!n' - left' ELSE 0
           b1 == Cardinality(ToSort(calls))
           b2 == Len(calls)
           b3 == 1 - i
           b4 == IF i = 1 THEN Sort!n - left ELSE 0
<1>4. a1 = Cardinality(ToSort(calls)')
  BY <1>1 DEF ToSort, Sort!Indices
<1>5. i = 1 => left \in 0 .. Sort!n - 1 /\ Sort!n > 1
  BY <1>1, LoopsStop
<1>6. b1 \in Nat /\ b2 \in Nat /\ b3 \in Nat /\ b4 \in Nat
  <2>1. b1 \in Nat
    BY <1>2, LessToSort
  <2>2. QED
    BY <1>1, <1>2, <1>5, <2>1
<1>7. /\ a1 \in Nat /\ a3 \in Nat /\ a4 \in Nat
      /\ \/ a1 < b1
         \/ a1 = b1 /\ a2 < b2
         \/ a1 = b1 /\ a2 = b2 /\ a3 < b3
         \/ a1 = b1 /\ a2 = b2 /\ a3 = b3 /\ a4 < b4
  <2>1. CASE Sort!Call /\ Sort!n <= 1
    <3>1. calls' = Tail(calls) /\ i = 0 /\ i' = 0
      BY <2>1 DEF Sort!Call
    <3>2. /\ Len(calls') = Len(calls) - 1
          /\ \A c \in 1 .. Len(calls) - 1 : calls'[c] = calls[c + 1]
      BY <1>1, <1>2, <3>1, TailIs
    <3>3. ToSort(calls') \subseteq ToSort(calls)
      <4> SUFFICES ASSUME NEW x \in Sort!Indices, NEW c \in 1 .. Len(calls'),
                          x \in Segment(calls'[c])
                   PROVE  \E e \in 1 .. Len(calls) : x \in Segment(calls[e])
        BY DEF ToSort
      <4>1. c + 1 \in 1 .. Len(calls) /\ calls'[c] = calls[c + 1]
        BY <1>2, <3>2
      <4>2. QED
        BY <4>1
    <3>4. a1 \in Nat /\ a1 <= b1
      BY <1>2, <3>3, LessToSort
    <3>5. a2 < b2 /\ a3 = 1 /\ a4 = 0
      BY <1>2, <3>1, <3>2
    <3> HIDE DEF a1, b1, a2, b2, a3, a4
    <3>6. QED
      BY <1>6, <3>4, <3>5
  <2>2. CASE Sort!Call /\ ~(Sort!n <= 1)
    <3>1. calls' = calls /\ i = 0 /\ i' = 1 /\ left' = 0
      BY <2>2 DEF Sort!Call
    <3>2. Sort!n' = Sort!n
      BY <3>1 DEF Sort!n
    <3>3. a1 = b1 /\ a2 = b2 /\ a3 = 0 /\ b3 = 1 /\ a4 = Sort!n
      BY <1>2, <3>1, <3>2
    <3>4. QED
      BY <1>2, <1>6, <3>3
  <2>3. CASE Sort!Round
    <3>1. PICK r \in Sort!StopsRight : Sort!StopsLeft < r /\ left' = Sort!StopsLeft + 1
      BY <2>3 DEF Sort!Round
    <3>2. calls' = calls /\ i = 1 /\ i' = 1
      BY <2>3 DEF Sort!Round
    <3>3. Sort!n' = Sort!n
      BY <3>2 DEF Sort!n
    <3>4. /\ Sort!StopsLeft \in left .. Sort!n - 1 /\ r \in Int /\ r <= right
          /\ left \in 0 .. Sort!n - 1 /\ right \in 0 .. Sort!n - 2
      BY <1>1, <3>1, <3>2, LoopsStop
    <3>5. left' \in Nat /\ left < left' /\ left' <= Sort!n
      BY <1>2, <3>1, <3>4
    <3>6. a1 = b1 /\ a2 = b2 /\ a3 = b3 /\ a4 = Sort!n - left' /\ b4 = Sort!n - left
      BY <3>2, <3>3
    <3>7. QED
      BY <1>2, <1>6, <3>4, <3>5, <3>6
  <2>4. CASE Sort!Split
    <3>1. a1 < b1
      BY <2>4, SplitToSort DEF SortInv
    <3>2. i' = 0
      BY <2>4 DEF Sort!Split
    <3>3. a1 \in Nat
      <4>1. ToSort(calls') \subseteq ToSort(calls')
        OBVIOUS
      <4>2. QED
        BY <1>2, <4>1, LessToSort
    <3>4. QED
      BY <3>1, <3>2, <3>3
  <2>5. QED
    BY <2>1, <2>2, <2>3, <2>4
<1>8. SortToDo = <<b1, b2, b3, b4>>
  BY <1>2 DEF SortToDo
<1>9. SortToDo' = <<a1, a2, a3, a4>>
  BY <1>1, <1>2, <1>4 DEF SortToDo
<1>10. a2 \in Nat
  BY <1>3
<1> HIDE DEF a1, a2, a3, a4, b1, b2, b3, b4
<1>11. <<<<a1, a2, a3, a4>>, <<b1, b2, b3, b4>>>> \in Fewer
  BY <1>6, <1>7, <1>10, FewerBy
<1>12. QED
  BY <1>8, <1>9, <1>11

-----------------------------------------------------------------------------
ToDo ==
    CASE program = "search" -> SearchToDo
      [] program = "sort" -> SortToDo
      [] program \in {"match", "match2"} -> MatchToDo
      [] program = "fees" -> FeeToDo

Nearer == <<ToDo', ToDo>> \in Fewer

EndInv ==
    /\ program \in {"search", "sort", "match", "match2", "fees"}
    /\ IInv /\ SortInv /\ MatchInv /\ FeeInv
    /\ MatchRuns => Ahead

LEMMA EndInit == AlgorithmsInit => EndInv
<1> SUFFICES ASSUME AlgorithmsInit PROVE EndInv
  OBVIOUS
<1>1. IInv /\ SortInv /\ MatchInv /\ FeeInv
  BY InitIInv, SortInit, MatchInit, FeeInit DEF AlgorithmsInit
<1>2. p = 1 /\ wildcard = FALSE /\ last_pattern_start = 0 /\ last_line_start = 0
  BY DEF AlgorithmsInit, Match!Init, Match2!Init, Match!NULL, Match2!NULL
<1>3. Ahead
  BY <1>2 DEF Ahead
<1>4. QED
  BY <1>1, <1>3 DEF AlgorithmsInit, EndInv

LEMMA LoopIs ==
    ASSUME MatchInv, AlgorithmsNext, MatchRuns
    PROVE  LoopStep
<1>1. MatchTypes /\ MatchPlaces
  BY DEF MatchInv
<1>2. CASE program = "match"
  BY <1>1, <1>2, MatchSteps DEF AlgorithmsNext
<1>3. CASE program = "match2"
  BY <1>1, <1>3, Match2Steps DEF AlgorithmsNext
<1>4. QED
  BY <1>2, <1>3 DEF MatchRuns

LEMMA EndStep == EndInv /\ [AlgorithmsNext]_allVars => EndInv'
<1> SUFFICES ASSUME EndInv, [AlgorithmsNext]_allVars PROVE EndInv'
  OBVIOUS
<1>1. program' = program
  BY DEF AlgorithmsNext, allVars
<1>2. [Next]_vars /\ [Sort!Next]_sortVars /\ [Fees!Next]_feeVars
  BY DEF AlgorithmsNext, allVars
<1>3. IInv'
  <2>1. CASE UNCHANGED vars
    BY <2>1 DEF EndInv, vars, args, IInv, Arguments, InRange, KeyInRange, Result
  <2>2. QED
    BY <1>2, <2>1, FoundIInv, NarrowIInv DEF EndInv, Next
<1>4. SortInv' /\ FeeInv' /\ MatchInv'
  BY <1>2, SortStep, FeeStep, MatchStep DEF EndInv
<1>5. MatchRuns' => Ahead'
  <2> SUFFICES ASSUME MatchRuns PROVE Ahead'
    BY <1>1 DEF MatchRuns
  <2>1. CASE AlgorithmsNext
    <3>1. LoopStep /\ MatchTypes
      BY <2>1, LoopIs DEF EndInv, MatchInv
    <3>2. QED
      BY <3>1, AheadStep DEF EndInv
  <2>2. CASE UNCHANGED allVars
    BY <2>2 DEF EndInv, Ahead, allVars, matchVars
  <2>3. QED
    BY <2>1, <2>2
<1>6. QED
  BY <1>1, <1>3, <1>4, <1>5 DEF EndInv

LEMMA EveryStepNearer == EndInv /\ EndInv' /\ AlgorithmsNext => Nearer
<1> SUFFICES ASSUME EndInv, EndInv', AlgorithmsNext PROVE Nearer
  OBVIOUS
<1>1. program' = program
  BY DEF AlgorithmsNext
<1>2. CASE program = "search"
  <2>1. Next /\ IInv /\ IInv'
    BY <1>2 DEF AlgorithmsNext, EndInv
  <2>2. ToDo = SearchToDo /\ ToDo' = SearchToDo'
    BY <1>1, <1>2, Zenon DEF ToDo
  <2>3. QED
    BY <2>1, <2>2, SearchNearer DEF Nearer
<1>3. CASE program = "sort"
  <2>1. Sort!Next /\ SortInv /\ SortInv'
    BY <1>3 DEF AlgorithmsNext, EndInv
  <2>2. ToDo = SortToDo /\ ToDo' = SortToDo'
    BY <1>1, <1>3 DEF ToDo
  <2>3. <<SortToDo', SortToDo>> \in Fewer
    BY <2>1, SimpleNearer, QuickNearer DEF Sort!Next
  <2>4. QED
    BY <2>2, <2>3 DEF Nearer
<1>4. CASE MatchRuns
  <2>1. MatchTypes /\ MatchPlaces /\ MatchTypes' /\ MatchPlaces' /\ Ahead
    BY <1>1, <1>4 DEF EndInv, MatchInv, MatchRuns
  <2>2. LoopStep
    BY <1>4, LoopIs DEF EndInv
  <2>3. ToDo = MatchToDo /\ ToDo' = MatchToDo'
    BY <1>1, <1>4 DEF ToDo, MatchRuns
  <2>4. QED
    BY <2>1, <2>2, <2>3, MatchNearer DEF Nearer
<1>5. CASE program = "fees"
  <2>1. Fees!Next /\ FeeInv /\ FeeInv'
    BY <1>5 DEF AlgorithmsNext, EndInv
  <2>2. ToDo = FeeToDo /\ ToDo' = FeeToDo'
    BY <1>1, <1>5 DEF ToDo
  <2>3. QED
    BY <2>1, <2>2, FeeNearer DEF Nearer
<1>6. QED
  BY <1>2, <1>3, <1>4, <1>5 DEF EndInv, MatchRuns

(* The safety half of AllEnd, for inputs of any length: every step of a    *)
(* program, of both is_match whenever they go back to the last '*'         *)
(* (match/main.c 70) and of quickSort whatever the memory below the array  *)
(* holds, lowers what it has to do, and nothing falls so for ever.         *)
THEOREM EveryStepNearerAlways ==
    /\ IsWellFoundedOn(Fewer, [1 .. 4 -> Nat])
    /\ AlgorithmsSpec => [][Nearer]_allVars
<1>1. EndInv /\ EndInv' /\ [AlgorithmsNext]_allVars => [Nearer]_allVars
  BY EveryStepNearer
<1>2. AlgorithmsSpec => [][Nearer]_allVars
  BY <1>1, EndInit, EndStep, PTL DEF AlgorithmsSpec
<1>3. QED
  BY <1>2, FewerWF, Zenon
=============================================================================
