---------------------------- MODULE LockService ----------------------------
(***************************************************************************)
(* What a lock server promises its clients, with no server in it.          *)
(*                                                                         *)
(* A key has at most one owner.  Being granted a key and being told so are *)
(* two steps, because the "[OK] succeed Locking" reply travels over a      *)
(* socket, and so are giving a key up (the client sends its unlock         *)
(* request) and the key becoming free again.  A reply or a request that is *)
(* lost on the way leaves a key owned by a client that does not know it or *)
(* no longer wants it; the service never gives such a key to anyone else.  *)
(***************************************************************************)

CONSTANTS Clients,   \* the programs that use the service
          Keys,      \* the keys that can be locked
          None       \* no client

VARIABLES owner,     \* owner[k]: the client key k is granted to, or None
          has        \* has[c]: the keys client c was told it holds

vars == <<owner, has>>

Init ==
    /\ owner = [k \in Keys |-> None]
    /\ has = [c \in Clients |-> {}]

(* A free key is granted.                                                  *)
Grant(c, k) ==
    /\ owner[k] = None
    /\ owner' = [owner EXCEPT ![k] = c]
    /\ UNCHANGED has

(* The owner learns that it holds the key.                                 *)
Tell(c, k) ==
    /\ owner[k] = c
    /\ has' = [has EXCEPT ![c] = @ \cup {k}]
    /\ UNCHANGED owner

(* A holder asks for the release; from here on it does not hold the key.   *)
GiveUp(c, k) ==
    /\ k \in has[c]
    /\ has' = [has EXCEPT ![c] = @ \ {k}]
    /\ UNCHANGED owner

(* The key becomes free, and nobody may be holding it then.                *)
Release(c, k) ==
    /\ owner[k] = c
    /\ k \notin has[c]
    /\ owner' = [owner EXCEPT ![k] = None]
    /\ UNCHANGED has

Next == \E c \in Clients, k \in Keys :
            Grant(c, k) \/ Tell(c, k) \/ GiveUp(c, k) \/ Release(c, k)

Spec == Init /\ [][Next]_vars
=============================================================================
