------------------------------ MODULE KeyNames ------------------------------
(***************************************************************************)
(* How the lock servers turn the name of a key, as a client sends it, into *)
(* the number that ftok and the servers' tables use.                       *)
(***************************************************************************)
EXTENDS Integers, Sequences

Capitals == 65 .. 90          \* 'A' .. 'Z'
FieldSize == 4                \* semKey[3 + 1], shmKey[3 + 1]

(* The number is the first capital letter of the name.  The field has four *)
(* bytes but the loop runs over the eight bytes of a pointer: a name with  *)
(* no capital letter is decided by memory that was never written.  The     *)
(* result is the set of numbers that may come out; unread are the capital  *)
(* letters that such memory may hold.                                      *)
changeCharToNumber(n, unread) ==
    LET letters == {i \in 1 .. Len(n) : i <= FieldSize /\ n[i] \in Capitals}
    IN  IF letters = {}
        THEN unread \cup {0}
        ELSE {n[i] : i \in {j \in letters : \A l \in letters : j <= l}}
=============================================================================
