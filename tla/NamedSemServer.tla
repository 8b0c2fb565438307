--------------------------- MODULE NamedSemServer ---------------------------
(***************************************************************************)
(* The POSIX named-semaphore lock server and its client.  A key is the     *)
(* name of a semaphore, "<pgm>.<siteCd>".  The handler of a lock request   *)
(* opens the semaphore, reads its value and, if it is positive, takes it   *)
(* with a sem_wait that blocks.  A client is sequential: it waits for the  *)
(* answer without a timeout and exits when the connection breaks.          *)
(*                                                                         *)
(* pc[h] is the call that handler h is about to make:                      *)
(*    idle   no connection      value  sem_getvalue    post  sem_post      *)
(*    read   readSocket         wait   sem_wait        reply write         *)
(*    open   sem_open           file   createKeyFile                       *)
(*                                                                         *)
(* S/ServerMain.c (UnlockServed = FALSE) has the call of reqUnlockSem in a *)
(* comment and its client's unlockSem sends nothing; the version in        *)
(* S/backup (UnlockServed = TRUE) serves unlocks and writes no key file.   *)
(***************************************************************************)
EXTENDS Integers

CONSTANTS
    Clients,        \* the client programs
    Conns,          \* slots for connections that are served at the same time
    Keys,           \* names of semaphores
    None,           \* no client, no connection
    MaxValue,       \* SEM_VALUE_MAX
    UnlockServed    \* the version of the server, see above

ASSUME NoneAssumption == None \notin Clients \cup Conns
ASSUME MaxValueAssumption == MaxValue \in Nat \ {0}
ASSUME VersionAssumption == UnlockServed \in BOOLEAN

NoSem == -1         \* no semaphore has this name yet
NotRead == -2       \* sem_getvalue has not been called

VARIABLES
    sem,            \* sem[k]: value of the semaphore named k, or NoSem
    pc,             \* pc[h]: the next call of handler h
    req,            \* req[h]: who asked h for what
    seen,           \* seen[h]: what sem_getvalue returned
    res,            \* res[h]: the answer h will give
    conn,           \* conn[c]: the handler whose answer client c waits for
    has,            \* has[c]: the keys client c was told it holds
    owner,          \* history: the client whose sem_wait took key k, or None
    lost            \* history: keys whose unit nobody will give back

client == <<conn, has>>
vars == <<sem, pc, req, seen, res, conn, has, owner, lost>>

Flags == {"LOCK", "UNLOCK", "?"}
PCs == {"idle", "read", "open", "value", "wait", "file", "post", "reply"}
Answers == {"", "ok", "error"}
Requests == [client : Clients, key : Keys, flag : Flags]
NoRequest == [client |-> None, key |-> None, flag |-> "?"]

KeyOf(h) == req[h].key
Locks(h) == req[h].flag = "LOCK"
Unlocks(h) == req[h].flag = "UNLOCK"

(* h took the semaphore and has not answered.                              *)
Granted(h) ==
    /\ Locks(h)
    /\ pc[h] = "file" \/ (pc[h] = "reply" /\ res[h] = "ok")

(* h still has to carry out the unlock that a holder sent.                 *)
UnlockPending(h) == Unlocks(h) /\ pc[h] \in {"open", "value", "post"}

Carries(h) == Granted(h) \/ UnlockPending(h)

Init ==
    /\ sem = [k \in Keys |-> NoSem]
    /\ pc = [h \in Conns |-> "idle"]
    /\ req = [h \in Conns |-> NoRequest]
    /\ seen = [h \in Conns |-> NotRead]
    /\ res = [h \in Conns |-> ""]
    /\ conn = [c \in Clients |-> None]
    /\ has = [c \in Clients |-> {}]
    /\ owner = [k \in Keys |-> None]
    /\ lost = {}

-----------------------------------------------------------------------------
(* startServer: accept, and a handler is forked.                           *)
Accept(h) ==
    /\ pc[h] = "idle"
    /\ pc' = [pc EXCEPT ![h] = "read"]
    /\ UNCHANGED <<sem, req, seen, res, client, owner, lost>>

(* readSocket returns 0, -1 (20 seconds are over) or -2.                   *)
ReadFails(h) ==
    /\ pc[h] = "read"
    /\ pc' = [pc EXCEPT ![h] = "idle"]
    /\ UNCHANGED <<sem, req, seen, res, client, owner, lost>>

(* serverMain dispatches on the flag: a served request goes to sem_open,   *)
(* any other straight to the write, with an error or an empty buffer.      *)
Dispatch(h, c, k, f) ==
    /\ pc[h] = "read"
    /\ conn[c] = None
    /\ req' = [req EXCEPT ![h] = [client |-> c, key |-> k, flag |-> f]]
    /\ pc' = [pc EXCEPT ![h] =
                 IF f = "LOCK" \/ (f = "UNLOCK" /\ UnlockServed)
                 THEN "open" ELSE "reply"]
    /\ res' = [res EXCEPT ![h] = IF f = "?" THEN "error" ELSE ""]
    /\ conn' = [conn EXCEPT ![c] = h]
    /\ UNCHANGED <<sem, seen, owner, lost>>

(* lockSem connects, sends its request and waits.                          *)
LockSem(h, c, k, f) ==
    /\ f # "UNLOCK"
    /\ Dispatch(h, c, k, f)
    /\ UNCHANGED has

(* The client of the version that serves unlocks: an unlock is sent for a  *)
(* key the client holds, which it holds no longer from then on.            *)
SendUnlock(h, c, k) ==
    /\ UnlockServed
    /\ k \in has[c]
    /\ Dispatch(h, c, k, "UNLOCK")
    /\ has' = [has EXCEPT ![c] = @ \ {k}]

(* unlockSem formats the request, sends nothing and returns 0: the caller  *)
(* believes that the key is free.                                          *)
UnlockSem(c, k) ==
    /\ ~UnlockServed
    /\ conn[c] = None
    /\ k \in has[c]
    /\ has' = [has EXCEPT ![c] = @ \ {k}]
    /\ lost' = lost \cup {k}
    /\ UNCHANGED <<sem, pc, req, seen, res, conn, owner>>

(* Mutant of Open: the semaphore is created with value 0.                  *)
OpenZero(h) ==
    /\ pc[h] = "open"
    /\ Locks(h) \/ sem[KeyOf(h)] # NoSem
    /\ sem' = [sem EXCEPT ![KeyOf(h)] = IF @ = NoSem THEN 0 ELSE @]
    /\ pc' = [pc EXCEPT ![h] = "value"]
    /\ UNCHANGED <<req, seen, res, client, owner, lost>>

(* sem_open: O_CREAT with value 1 creates and initialises in one step, and *)
(* opens what exists; an unlock opens without O_CREAT.                     *)
Open(h) ==
    /\ pc[h] = "open"
    /\ Locks(h) \/ sem[KeyOf(h)] # NoSem
    /\ sem' = [sem EXCEPT ![KeyOf(h)] = IF @ = NoSem THEN 1 ELSE @]
    /\ pc' = [pc EXCEPT ![h] = "value"]
    /\ UNCHANGED <<req, seen, res, client, owner, lost>>

(* The handler is done: the connection is closed.                          *)
Exit(h) ==
    /\ pc' = [pc EXCEPT ![h] = "idle"]
    /\ req' = [req EXCEPT ![h] = NoRequest]
    /\ seen' = [seen EXCEPT ![h] = NotRead]
    /\ res' = [res EXCEPT ![h] = ""]
    /\ conn' = [c \in Clients |-> IF conn[c] = h THEN None ELSE conn[c]]

(* sem_open fails.  The backup version returns without an answer.          *)
OpenFails(h) ==
    /\ pc[h] = "open"
    /\ lost' = IF Carries(h) THEN lost \cup {KeyOf(h)} ELSE lost
    /\ IF UnlockServed
       THEN Exit(h)
       ELSE /\ pc' = [pc EXCEPT ![h] = "reply"]
            /\ res' = [res EXCEPT ![h] = "error"]
            /\ UNCHANGED <<req, seen, conn>>
    /\ UNCHANGED <<sem, has, owner>>

(* sem_getvalue, and the test of its result: a lock needs a positive value, *)
(* an unlock one that is not.                                              *)
GetValue(h) ==
    /\ pc[h] = "value"
    /\ seen' = [seen EXCEPT ![h] = sem[KeyOf(h)]]
    /\ IF (sem[KeyOf(h)] > 0) <=> Locks(h)
       THEN /\ pc' = [pc EXCEPT ![h] = IF Locks(h) THEN "wait" ELSE "post"]
            /\ UNCHANGED res
       ELSE /\ pc' = [pc EXCEPT ![h] = "reply"]
            /\ res' = [res EXCEPT ![h] = "error"]
    /\ UNCHANGED <<sem, req, client, owner, lost>>

(* Mutant of Wait: the value that was read decides.                        *)
WaitTrusting(h) ==
    /\ pc[h] = "wait"
    /\ sem' = [sem EXCEPT ![KeyOf(h)] = seen[h] - 1]
    /\ owner' = [owner EXCEPT ![KeyOf(h)] = req[h].client]
    /\ pc' = [pc EXCEPT ![h] = IF UnlockServed THEN "reply" ELSE "file"]
    /\ res' = [res EXCEPT ![h] = "ok"]
    /\ UNCHANGED <<req, seen, client, lost>>

(* sem_wait: whatever value was read, the handler waits while it is 0.     *)
Wait(h) ==
    /\ pc[h] = "wait"
    /\ sem[KeyOf(h)] > 0
    /\ sem' = [sem EXCEPT ![KeyOf(h)] = @ - 1]
    /\ owner' = [owner EXCEPT ![KeyOf(h)] = req[h].client]
    /\ pc' = [pc EXCEPT ![h] = IF UnlockServed THEN "reply" ELSE "file"]
    /\ res' = [res EXCEPT ![h] = "ok"]
    /\ UNCHANGED <<req, seen, client, lost>>

(* createKeyFile: when it fails the client is told ERROR, and the          *)
(* semaphore stays taken.                                                  *)
KeyFile(h) ==
    /\ pc[h] = "file"
    /\ pc' = [pc EXCEPT ![h] = "reply"]
    /\ \/ UNCHANGED <<res, lost>>
       \/ /\ res' = [res EXCEPT ![h] = "error"]
          /\ lost' = lost \cup {KeyOf(h)}
    /\ UNCHANGED <<sem, req, seen, client, owner>>

(* Mutant of Post: it answers without a sem_post.                          *)
PostNothing(h) ==
    /\ pc[h] = "post"
    /\ owner' = [owner EXCEPT ![KeyOf(h)] = None]
    /\ pc' = [pc EXCEPT ![h] = "reply"]
    /\ res' = [res EXCEPT ![h] = "ok"]
    /\ UNCHANGED <<sem, req, seen, client, lost>>

(* sem_post; the answer is OK even when the value is at its maximum.       *)
Post(h) ==
    /\ pc[h] = "post"
    /\ sem' = [sem EXCEPT ![KeyOf(h)] = IF @ < MaxValue THEN @ + 1 ELSE @]
    /\ owner' = [owner EXCEPT ![KeyOf(h)] = None]
    /\ pc' = [pc EXCEPT ![h] = "reply"]
    /\ res' = [res EXCEPT ![h] = "ok"]
    /\ UNCHANGED <<req, seen, client, lost>>

(* The answer is written.  It reaches the client that waits for it; an     *)
(* answer to a client that was restarted meanwhile goes nowhere.           *)
Reply(h) ==
    /\ pc[h] = "reply"
    /\ LET c == req[h].client
           heard == conn[c] = h
       IN  /\ has' = IF heard /\ Granted(h)
                     THEN [has EXCEPT ![c] = @ \cup {KeyOf(h)}] ELSE has
           /\ lost' = IF ~heard /\ Granted(h) THEN lost \cup {KeyOf(h)} ELSE lost
    /\ Exit(h)
    /\ UNCHANGED <<sem, owner>>

(* A handler is killed: sem_wait is not undone, and its client sees the    *)
(* connection close and exits.                                             *)
Die(h) ==
    /\ pc[h] \notin {"idle", "read"}
    /\ lost' = IF Carries(h) THEN lost \cup {KeyOf(h)} ELSE lost
    /\ Exit(h)
    /\ UNCHANGED <<sem, has, owner>>

(* A client that waits for an answer is killed and started again; what it  *)
(* holds is in its own key file.                                           *)
ClientRestarts(c) ==
    /\ conn[c] # None
    /\ conn' = [conn EXCEPT ![c] = None]
    /\ UNCHANGED <<sem, pc, req, seen, res, has, owner, lost>>

Step(h) ==
    \/ Open(h) \/ OpenFails(h) \/ GetValue(h) \/ Wait(h) \/ KeyFile(h)
    \/ Post(h) \/ Reply(h)

Next ==
    \/ \E h \in Conns :
         \/ Accept(h) \/ ReadFails(h) \/ Step(h) \/ Die(h)
         \/ \E c \in Clients, k \in Keys :
              \/ \E f \in Flags : LockSem(h, c, k, f)
              \/ SendUnlock(h, c, k)
    \/ \E c \in Clients :
         \/ ClientRestarts(c)
         \/ \E k \in Keys : UnlockSem(c, k)

Spec == Init /\ [][Next]_vars

(* Handlers run, sem_post wakes a handler that waits, connections are      *)
(* accepted.                                                               *)
Fairness ==
    \A h \in Conns : WF_vars(Accept(h)) /\ WF_vars(Step(h)) /\ SF_vars(Wait(h))

FairSpec == Spec /\ Fairness

-----------------------------------------------------------------------------
(* Type invariant.                                                         *)
TypeOK ==
    /\ sem \in [Keys -> NoSem .. MaxValue]
    /\ pc \in [Conns -> PCs]
    /\ req \in [Conns -> Requests \cup {NoRequest}]
    /\ seen \in [Conns -> NotRead .. MaxValue]
    /\ res \in [Conns -> Answers]
    /\ conn \in [Clients -> Conns \cup {None}]
    /\ has \in [Clients -> SUBSET Keys]
    /\ owner \in [Keys -> Clients \cup {None}]
    /\ lost \in SUBSET Keys

(* Mutual exclusion (reqLockSem, ServerMain.c 113-114): although the value *)
(* is read and taken in two calls, no two clients are told "Succeed        *)
(* Locking" for one key without an unlock in between.                      *)
MutualExclusion ==
    \A c, d \in Clients : c # d => has[c] \cap has[d] = {}

(* A semaphore at 0 is accounted for (ServerMain.c 111-121): a client was  *)
(* told that it holds the key, or a live handler has taken it or is about  *)
(* to give it back, unless a handler, an answer, a key file or the         *)
(* client's empty unlock lost it.                                          *)
NoLockLeaked ==
    \A k \in Keys :
        (sem[k] = 0 /\ k \notin lost) =>
            \/ \E c \in Clients : k \in has[c]
            \/ \E h \in Conns : Carries(h) /\ KeyOf(h) = k

(* The value is read and raised in two calls as well (backup/ServerMain.c  *)
(* 87-93): a semaphore never holds more than the one unit it was created   *)
(* with, as long as no client repeats an unlock.                           *)
BinarySemaphore == \A k \in Keys : sem[k] <= 1

Service == INSTANCE LockService WITH
    Clients <- Clients, Keys <- Keys, None <- None, owner <- owner, has <- has

(* The server is a lock service: a key is granted only when it is free,    *)
(* only its owner is told so, and it becomes free only after its holder    *)
(* sent an unlock.                                                         *)
ImplementsLockService == Service!Spec

(* Where unlocks are served and clients give back what they hold, a        *)
(* handler that lost the race between sem_getvalue and sem_wait is         *)
(* answered in the end, unless the unit of its key was lost.               *)
LockAnsweredUnlessLost == \A h \in Conns :
    (Locks(h) /\ pc[h] = "open") ~> (pc[h] = "idle" \/ lost # {})
=============================================================================
