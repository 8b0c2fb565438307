--------------------------- MODULE SysVSemServer ---------------------------
(***************************************************************************)
(* The System V semaphore lock server: a client connects, sends one        *)
(* request (lock or unlock, and the name of a key), a process forked for   *)
(* the connection carries it out and answers.  The handlers share nothing  *)
(* but the kernel's semaphores, which outlive them, and initialize.ini,    *)
(* in which every handler records the key it used and its status.          *)
(*                                                                         *)
(* A handler is one of the slots in Conns; its pc names the system call it *)
(* is about to make:                                                       *)
(*    idle    no connection          seek    fseek to the end of the file  *)
(*    read    readSocket             append  the fclose that writes it     *)
(*    get     semget                 op      semop                         *)
(*    set     semctl(SETVAL)         mfind   markInitFile looks for it     *)
(*    scan    writeInitFile reads    mwrite  markInitFile writes           *)
(*                                   reply   write to the client           *)
(* The file is a sequence of records [key, status].  stdio writes a record *)
(* with one write(2) at the offset fseek found, and a status with one      *)
(* write(2) of one character, so those are the atomic steps.  All records  *)
(* have the same length (the semids of one machine do), so a record        *)
(* written at an offset that is taken replaces the record that is there.   *)
(***************************************************************************)
EXTENDS Integers, Sequences, KeyNames

CONSTANTS
    Clients,      \* the client programs
    Conns,        \* slots for connections that are served at the same time
    Names,        \* what clients send as "semKey": sequences of bytes
    Keys,         \* the numbers those names can stand for
    None,         \* no client
    SEMVMX,       \* the kernel's largest semaphore value
    RetryUnlock   \* a client repeats an unlock until it is answered

ASSUME KeysAssumption == Keys \subseteq Capitals
ASSUME NoneAssumption == None \notin Clients
ASSUME SemvmxAssumption == SEMVMX \in Nat \ {0}
ASSUME RetryAssumption == RetryUnlock \in BOOLEAN
ASSUME NamesAssumption == Names \subseteq Seq(0 .. 255)

NoSem == -1       \* the value of a semaphore set that does not exist yet

VARIABLES
    sem,          \* sem[k]: value of the semaphore of key k, or NoSem
    file,         \* the records of initialize.ini
    garbled,      \* a status was written into the head of initialize.ini
    pc,           \* pc[h]: the next system call of handler h
    req,          \* req[h]: who asked h for what
    pos,          \* pos[h]: the record h found or will write; 0: none
    res,          \* res[h]: the answer h will give
    has,          \* has[c]: the keys client c was told it holds
    owes,         \* owes[c]: the unlocks client c has sent, unanswered so far
    owner,        \* history: the client whose semop took key k, or None
    lost,         \* history: keys whose unit went down with a handler, a reply
                  \* or a failed init_ipc
    raced,        \* history: two handlers registered different keys at once
    disturbed     \* history: two requests overlapped, a handler died or failed

kernel == <<sem>>
disk == <<file, garbled>>
client == <<has, owes>>
ghost == <<owner, lost, raced, disturbed>>
vars == <<sem, file, garbled, pc, req, pos, res, has, owes, owner, lost,
          raced, disturbed>>

Flags == {"1", "0", "?"}    \* lock, unlock, anything else
PCs == {"idle", "read", "get", "set", "scan", "seek", "append", "op", "mfind",
        "mwrite", "reply"}
Answers == {"", "ok", "fail", "nokey", "bad"}
Requests == [client : Clients, key : Keys, flag : Flags]
Records == [key : Keys, status : {0, 1}]
NoRequest == [client |-> None, key |-> 0, flag |-> "?"]

-----------------------------------------------------------------------------
(* Keys holds every letter that the names in use stand for.                *)
ASSUME NameKeysAssumption ==
    \A n \in Names : changeCharToNumber(n, Keys) \subseteq Keys \cup {0}

KeyOf(h) == req[h].key
RecordsOf(k) == {i \in DOMAIN file : file[i].key = k}
Busy(h) == pc[h] \notin {"idle", "read"}

(* h still has to carry out the unlock that a holder sent.                 *)
UnlockPending(h) ==
    /\ req[h].flag = "0"
    /\ pc[h] \in {"get", "set", "scan", "seek", "append", "op"}

(* h took the semaphore and its client has not been told.                  *)
Granted(h) ==
    /\ req[h].flag = "1"
    /\ res[h] = "ok"
    /\ pc[h] \in {"mfind", "mwrite", "reply"}

(* h alone carries the unit of its key's semaphore.                        *)
Carries(h) == UnlockPending(h) \/ Granted(h) \/ pc[h] = "set"

Init ==
    /\ sem = [k \in Keys |-> NoSem]
    /\ file = <<>>
    /\ garbled = FALSE
    /\ pc = [h \in Conns |-> "idle"]
    /\ req = [h \in Conns |-> NoRequest]
    /\ pos = [h \in Conns |-> 0]
    /\ res = [h \in Conns |-> ""]
    /\ has = [c \in Clients |-> {}]
    /\ owes = [c \in Clients |-> {}]
    /\ owner = [k \in Keys |-> None]
    /\ lost = {}
    /\ raced = FALSE
    /\ disturbed = FALSE

-----------------------------------------------------------------------------
(* server_daemon: accept, and a handler is forked.                         *)
Accept(h) ==
    /\ pc[h] = "idle"
    /\ pc' = [pc EXCEPT ![h] = "read"]
    /\ UNCHANGED <<kernel, disk, req, pos, res, client, ghost>>

(* readSocket returns 0, -1 or -2: the handler closes and exits.           *)
ReadFails(h) ==
    /\ pc[h] = "read"
    /\ pc' = [pc EXCEPT ![h] = "idle"]
    /\ UNCHANGED <<kernel, disk, req, pos, res, client, ghost>>

(* The clients' side of the protocol (there is no source of a client): an  *)
(* unlock is sent for a key the client was told it holds, which it holds   *)
(* no longer from then on.  A client that repeats its unlocks may send one *)
(* again as long as no handler has answered "[OK] succeed UnLocking".      *)
ClientSends(c, k, f) ==
    IF f = "0"
    THEN /\ k \in has[c] \cup owes[c]
         /\ has' = [has EXCEPT ![c] = @ \ {k}]
         /\ owes' = IF RetryUnlock THEN [owes EXCEPT ![c] = @ \cup {k}] ELSE owes
    ELSE UNCHANGED client

(* readSocket and parseRecvData: the request arrives.                      *)
Request(h, c, n, f) ==
    /\ pc[h] = "read"
    /\ \E k \in changeCharToNumber(n, Keys) :
         IF k = 0
         THEN /\ f # "0"
              /\ pc' = [pc EXCEPT ![h] = "reply"]
              /\ req' = [req EXCEPT ![h] = NoRequest]
              /\ UNCHANGED <<client, disturbed>>
         ELSE /\ f = "0" => changeCharToNumber(n, Keys) = {k}
              /\ ClientSends(c, k, f)
              /\ pc' = [pc EXCEPT ![h] = "get"]
              /\ req' = [req EXCEPT ![h] = [client |-> c, key |-> k, flag |-> f]]
              /\ disturbed' = (disturbed \/ \E g \in Conns \ {h} : Busy(g))
    /\ UNCHANGED <<kernel, disk, pos, res, owner, lost, raced>>

(* Mutants of SemGet: every handler sets the value, or none does.          *)
SemGetAlwaysSets(h) ==
    /\ pc[h] = "get"
    /\ sem' = [sem EXCEPT ![KeyOf(h)] = IF @ = NoSem THEN 0 ELSE @]
    /\ pc' = [pc EXCEPT ![h] = "set"]
    /\ UNCHANGED <<disk, req, pos, res, client, ghost>>

SemGetNeverSets(h) ==
    /\ pc[h] = "get"
    /\ sem' = [sem EXCEPT ![KeyOf(h)] = IF @ = NoSem THEN 0 ELSE @]
    /\ pc' = [pc EXCEPT ![h] = "scan"]
    /\ UNCHANGED <<disk, req, pos, res, client, ghost>>

(* init_ipc, first half: semget creates the set, with value 0, or finds it. *)
SemGet(h) ==
    /\ pc[h] = "get"
    /\ IF sem[KeyOf(h)] = NoSem
       THEN /\ sem' = [sem EXCEPT ![KeyOf(h)] = 0]
            /\ pc' = [pc EXCEPT ![h] = "set"]
       ELSE /\ pc' = [pc EXCEPT ![h] = "scan"]
            /\ UNCHANGED sem
    /\ UNCHANGED <<disk, req, pos, res, client, ghost>>

(* init_ipc fails: ftok has no key, no set is left, or SETVAL fails on the *)
(* set just created, which then stays at 0.  An unlock is not carried out. *)
InitIpcFails(h) ==
    /\ pc[h] \in {"get", "set"}
    /\ pc' = [pc EXCEPT ![h] = "reply"]
    /\ res' = [res EXCEPT ![h] = "nokey"]
    /\ lost' = IF Carries(h) THEN lost \cup {KeyOf(h)} ELSE lost
    /\ disturbed' = TRUE
    /\ UNCHANGED <<kernel, disk, req, pos, client, owner, raced>>

(* init_ipc, second half: the creator sets the value to 1.                 *)
SetVal(h) ==
    /\ pc[h] = "set"
    /\ sem' = [sem EXCEPT ![KeyOf(h)] = 1]
    /\ pc' = [pc EXCEPT ![h] = "scan"]
    /\ UNCHANGED <<disk, req, pos, res, client, ghost>>

(* Mutant of ScanInitFile: any record passes for the key's.                *)
ScanAnyRecord(h) ==
    /\ pc[h] = "scan"
    /\ pc' = [pc EXCEPT ![h] = IF file = <<>> THEN "seek" ELSE "op"]
    /\ UNCHANGED <<kernel, disk, req, pos, res, client, ghost>>

(* writeInitFile reads the file and returns if the key is recorded.        *)
ScanInitFile(h) ==
    /\ pc[h] = "scan"
    /\ pc' = [pc EXCEPT ![h] = IF RecordsOf(KeyOf(h)) = {} THEN "seek" ELSE "op"]
    /\ UNCHANGED <<kernel, disk, req, pos, res, client, ghost>>

(* writeInitFile finds the end of the file ...                             *)
SeekEnd(h) ==
    /\ pc[h] = "seek"
    /\ pos' = [pos EXCEPT ![h] = Len(file) + 1]
    /\ pc' = [pc EXCEPT ![h] = "append"]
    /\ raced' = (raced \/ \E g \in Conns \ {h} :
                             pc[g] = "append" /\ KeyOf(g) # KeyOf(h))
    /\ UNCHANGED <<kernel, disk, req, res, client, owner, lost, disturbed>>

(* ... and fclose writes the record there, wherever the end is by now.     *)
AppendRecord(h) ==
    /\ pc[h] = "append"
    /\ LET rec == [key |-> KeyOf(h), status |-> 0]
       IN  file' = IF pos[h] > Len(file) THEN Append(file, rec)
                   ELSE [file EXCEPT ![pos[h]] = rec]
    /\ pos' = [pos EXCEPT ![h] = 0]
    /\ pc' = [pc EXCEPT ![h] = "op"]
    /\ UNCHANGED <<kernel, garbled, req, res, client, ghost>>

(* setLockSemaphore: semop -1 with IPC_NOWAIT.                             *)
SetLockSemaphore(h) ==
    /\ pc[h] = "op"
    /\ req[h].flag = "1"
    /\ IF sem[KeyOf(h)] > 0
       THEN /\ sem' = [sem EXCEPT ![KeyOf(h)] = @ - 1]
            /\ owner' = [owner EXCEPT ![KeyOf(h)] = req[h].client]
            /\ res' = [res EXCEPT ![h] = "ok"]
       ELSE /\ res' = [res EXCEPT ![h] = "fail"]
            /\ UNCHANGED <<sem, owner>>
    /\ pc' = [pc EXCEPT ![h] = "mfind"]
    /\ UNCHANGED <<disk, req, pos, client, lost, raced, disturbed>>

(* setUnLockSemaphore: semop +1, which fails at SEMVMX.                    *)
SetUnLockSemaphore(h) ==
    /\ pc[h] = "op"
    /\ req[h].flag = "0"
    /\ IF sem[KeyOf(h)] < SEMVMX
       THEN /\ sem' = [sem EXCEPT ![KeyOf(h)] = @ + 1]
            /\ owner' = [owner EXCEPT ![KeyOf(h)] = None]
            /\ res' = [res EXCEPT ![h] = "ok"]
       ELSE /\ res' = [res EXCEPT ![h] = "fail"]
            /\ UNCHANGED <<sem, owner>>
    /\ pc' = [pc EXCEPT ![h] = "mfind"]
    /\ UNCHANGED <<disk, req, pos, client, lost, raced, disturbed>>

(* Neither flag: "[ERROR] not correct message".                            *)
BadFlag(h) ==
    /\ pc[h] = "op"
    /\ req[h].flag = "?"
    /\ pc' = [pc EXCEPT ![h] = "reply"]
    /\ res' = [res EXCEPT ![h] = "bad"]
    /\ UNCHANGED <<kernel, disk, req, pos, client, ghost>>

(* markInitFile takes the first record of the key, none is offset 0.       *)
MarkFind(h) ==
    /\ pc[h] = "mfind"
    /\ \/ /\ RecordsOf(KeyOf(h)) = {}
          /\ pos' = [pos EXCEPT ![h] = 0]
       \/ \E i \in RecordsOf(KeyOf(h)) :
            /\ \A j \in RecordsOf(KeyOf(h)) : i <= j
            /\ pos' = [pos EXCEPT ![h] = i]
    /\ pc' = [pc EXCEPT ![h] = "mwrite"]
    /\ UNCHANGED <<kernel, disk, req, res, client, ghost>>

(* Mutant of MarkWrite: isSemaphored is not reset for an unlock.           *)
MarkWriteLocked(h) ==
    /\ pc[h] = "mwrite"
    /\ IF pos[h] = 0
       THEN garbled' = TRUE /\ UNCHANGED file
       ELSE file' = [file EXCEPT ![pos[h]].status = 1] /\ UNCHANGED garbled
    /\ pos' = [pos EXCEPT ![h] = 0]
    /\ pc' = [pc EXCEPT ![h] = "reply"]
    /\ UNCHANGED <<kernel, req, res, client, ghost>>

(* It writes the status 20 characters on, whether the semop succeeded or   *)
(* not; without a record that is in the middle of the file's head.         *)
MarkWrite(h) ==
    /\ pc[h] = "mwrite"
    /\ IF pos[h] = 0
       THEN garbled' = TRUE /\ UNCHANGED file
       ELSE /\ file' = [file EXCEPT ![pos[h]].status =
                          IF req[h].flag = "1" THEN 1 ELSE 0]
            /\ UNCHANGED garbled
    /\ pos' = [pos EXCEPT ![h] = 0]
    /\ pc' = [pc EXCEPT ![h] = "reply"]
    /\ UNCHANGED <<kernel, req, res, client, ghost>>

(* The handler closes the socket and exits: its locals are gone.           *)
Exit(h) ==
    /\ pc' = [pc EXCEPT ![h] = "idle"]
    /\ req' = [req EXCEPT ![h] = NoRequest]
    /\ pos' = [pos EXCEPT ![h] = 0]
    /\ res' = [res EXCEPT ![h] = ""]

(* The answer reaches the client, which then knows what it holds, or that  *)
(* its unlock need not be repeated.                                        *)
Reply(h) ==
    /\ pc[h] = "reply"
    /\ has' = IF Granted(h)
              THEN [has EXCEPT ![req[h].client] = @ \cup {KeyOf(h)}]
              ELSE has
    /\ owes' = IF RetryUnlock /\ req[h].flag = "0" /\ res[h] = "ok"
               THEN [owes EXCEPT ![req[h].client] = @ \ {KeyOf(h)}]
               ELSE owes
    /\ Exit(h)
    /\ UNCHANGED <<kernel, disk, ghost>>

(* The client is gone and the write goes nowhere.                          *)
ReplyLost(h) ==
    /\ pc[h] = "reply"
    /\ lost' = IF Granted(h) THEN lost \cup {KeyOf(h)} ELSE lost
    /\ Exit(h)
    /\ UNCHANGED <<kernel, disk, client, owner, raced, disturbed>>

(* A handler is killed (naskill) or crashes; its client gets no answer.    *)
(* IPC_NOWAIT without SEM_UNDO: the kernel does not undo its semop.        *)
Die(h) ==
    /\ Busy(h)
    /\ lost' = IF Carries(h) THEN lost \cup {KeyOf(h)} ELSE lost
    /\ disturbed' = TRUE
    /\ Exit(h)
    /\ UNCHANGED <<kernel, disk, client, owner, raced>>

Step(h) ==
    \/ SemGet(h) \/ InitIpcFails(h) \/ SetVal(h)
    \/ ScanInitFile(h) \/ SeekEnd(h) \/ AppendRecord(h)
    \/ SetLockSemaphore(h) \/ SetUnLockSemaphore(h) \/ BadFlag(h)
    \/ MarkFind(h) \/ MarkWrite(h)
    \/ Reply(h) \/ ReplyLost(h)

Next == \E h \in Conns :
    \/ Accept(h) \/ ReadFails(h)
    \/ \E c \in Clients, n \in Names, f \in Flags : Request(h, c, n, f)
    \/ Step(h)
    \/ Die(h)

Spec == Init /\ [][Next]_vars

-----------------------------------------------------------------------------
(* Type invariant.                                                         *)
TypeOK ==
    /\ sem \in [Keys -> NoSem .. SEMVMX]
    /\ file \in Seq(Records)
    /\ garbled \in BOOLEAN
    /\ pc \in [Conns -> PCs]
    /\ req \in [Conns -> Requests \cup {NoRequest}]
    /\ pos \in [Conns -> Nat]
    /\ res \in [Conns -> Answers]
    /\ has \in [Clients -> SUBSET Keys]
    /\ owes \in [Clients -> SUBSET Keys]
    /\ owner \in [Keys -> Clients \cup {None}]
    /\ lost \in SUBSET Keys
    /\ raced \in BOOLEAN
    /\ disturbed \in BOOLEAN

(* Mutual exclusion (setLockSemaphore, ipc.c 86): no two clients have been *)
(* told "[OK] succeed Locking" for one key without an unlock in between,   *)
(* whatever the interleaving of their handlers with the creation of the    *)
(* semaphore, lost answers and killed handlers.                            *)
MutualExclusion ==
    \A c, d \in Clients : c # d => has[c] \cap has[d] = {}

(* A semaphore that is taken is accounted for: a client knows it holds the *)
(* key, or a live handler is creating it, has taken it and not answered    *)
(* yet, or is about to give it back.  A key nobody can ever lock again     *)
(* exists only when a handler or an answer was lost on the way, or its     *)
(* init_ipc failed.                                                        *)
NoLockLeaked ==
    \A k \in Keys :
        (sem[k] = 0 /\ k \notin lost) =>
            \/ \E c \in Clients : k \in has[c]
            \/ \E h \in Conns : Carries(h) /\ KeyOf(h) = k

(* markInitFile never writes its status into the head of initialize.ini    *)
(* unless two first requests for different keys were being recorded at the *)
(* same time, when one record replaces the other.                          *)
HeadIntact == garbled => raced

(* When requests come one after the other and no handler was killed or     *)
(* failed in init_ipc, the file tells the truth between requests: a        *)
(* recorded key has status 1 exactly when its semaphore is taken, and      *)
(* every semaphore is recorded.                                            *)
StatusTruthful ==
    (~disturbed /\ \A h \in Conns : ~Busy(h)) =>
        \A k \in Keys : sem[k] # NoSem =>
            \E i \in RecordsOf(k) : (file[i].status = 1) <=> (sem[k] = 0)

Service == INSTANCE LockService WITH
    Clients <- Clients, Keys <- Keys, None <- None, owner <- owner, has <- has

(* The server is a lock service: a key is granted only when it is free,    *)
(* only its owner is told so, and it becomes free only after its holder    *)
(* sent an unlock.                                                         *)
ImplementsLockService == Service!Spec
=============================================================================
