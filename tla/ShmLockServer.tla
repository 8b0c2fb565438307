--------------------------- MODULE ShmLockServer ---------------------------
(***************************************************************************)
(* The shared-memory lock server.  A key is a byte in a shared-memory      *)
(* segment: '1' locked, '0' or NUL free.  A request names a segment and a  *)
(* semaphore; every access to the byte is made between sem_lock and        *)
(* sem_unlock on that semaphore, but reading the byte and setting it are   *)
(* two accesses (getShmSegData, then setShmSegData).                       *)
(*                                                                         *)
(* The semaphores are used with SEM_UNDO: the kernel keeps, for every      *)
(* process, the sum of what it has to give back (semadj) and adds it when  *)
(* the process ends, but never lets the value go below 0.  sem_lock fails  *)
(* when a signal (SIG_DEBUG) arrives while it waits; the code logs that    *)
(* and goes on as if it had the lock.                                      *)
(*                                                                         *)
(* A handler is one of the slots in Conns; its pc names its next step:     *)
(*    idle, read       as in SysVSemServer                                 *)
(*    glock, gread, gunlock    getShmSegData                               *)
(*    decide           server_main tests what it returned                  *)
(*    slock, swrite, sunlock   setShmSegData                               *)
(*    file             writeInitFile                                       *)
(*    reply            write to the client                                 *)
(***************************************************************************)
EXTENDS Integers, Sequences, FiniteSetsExt, KeyNames

CONSTANTS
    Clients,     \* the client programs
    Conns,       \* slots for connections that are served at the same time
    SemNames,    \* what clients send as "semKey"
    ShmNames,    \* what clients send as "shmKey"
    sem_key,     \* the keys that stand for semaphores ('A' .. 'J')
    shm_key,     \* the keys that stand for segments ('K' .. 'T')
    None         \* no client

ASSUME KeyAssumption ==
    /\ sem_key \subseteq Capitals
    /\ shm_key \subseteq Capitals
    /\ sem_key \cap shm_key = {}
ASSUME ConnsAssumption == IsFiniteSet(Conns)

VARIABLES
    sem,         \* sem[s]: the value of semaphore s
    shm,         \* shm[m]: the byte of segment m
    status,      \* status[m]: the status in the first record of m in initialize.ini
    pc,          \* pc[h]: the next step of handler h
    req,         \* req[h]: who asked h for what
    semadj,      \* semadj[h]: what the kernel adds to h's semaphore when h ends
    isShared,    \* isShared[h]: what h read from the segment, 0 or 1
    res,         \* res[h]: the answer h will give
    has,         \* has[c]: the segments client c was told it locked
    stale,       \* history: segments locked on the strength of an old value
    interrupted, \* history: a sem_lock was interrupted
    clamped,     \* history: undoing a handler's semops stopped at 0
    disturbed    \* history: two requests overlapped, a handler died, a restart

ipc == <<sem, shm>>
ghost == <<stale, interrupted, clamped, disturbed>>
vars == <<sem, shm, status, pc, req, semadj, isShared, res, has, stale,
          interrupted, clamped, disturbed>>

NUL == 0
Zero == 48       \* '0'
One == 49        \* '1'

Flags == {"1", "0", "?"}
PCs == {"idle", "read", "glock", "gread", "gunlock", "decide", "slock", "swrite",
        "sunlock", "file", "reply"}
Answers == {"", "ok", "fail", "nokey", "bad"}
NoRequest == [client |-> None, sem |-> 0, shm |-> 0, flag |-> "?"]
Requests == [client : Clients, sem : sem_key, shm : shm_key, flag : Flags]

S(h) == req[h].sem
M(h) == req[h].shm
Busy(h) == pc[h] \notin {"idle", "read"}
Locked(m) == shm[m] = One

Init ==
    /\ sem = [s \in sem_key |-> 1]
    /\ shm = [m \in shm_key |-> NUL]
    /\ status = [m \in shm_key |-> 0]
    /\ pc = [h \in Conns |-> "idle"]
    /\ req = [h \in Conns |-> NoRequest]
    /\ semadj = [h \in Conns |-> 0]
    /\ isShared = [h \in Conns |-> 0]
    /\ res = [h \in Conns |-> ""]
    /\ has = [c \in Clients |-> {}]
    /\ stale = {}
    /\ interrupted = FALSE
    /\ clamped = FALSE
    /\ disturbed = FALSE

Goto(h, l) == pc' = [pc EXCEPT ![h] = l]
Answer(h, a) == res' = [res EXCEPT ![h] = a]

-----------------------------------------------------------------------------
(* server_daemon: accept, and a handler is forked.                         *)
Accept(h) ==
    /\ pc[h] = "idle"
    /\ Goto(h, "read")
    /\ UNCHANGED <<ipc, status, req, semadj, isShared, res, has, ghost>>

(* readSocket returns 0, -1 or -2: the handler closes and exits.           *)
ReadFails(h) ==
    /\ pc[h] = "read"
    /\ Goto(h, "idle")
    /\ UNCHANGED <<ipc, status, req, semadj, isShared, res, has, ghost>>

(* A client unlocks only what it was told it locked (external).            *)
ClientSends(c, m, f) ==
    IF f = "0" THEN m \in has[c] /\ has' = [has EXCEPT ![c] = @ \ {m}]
               ELSE UNCHANGED has

(* checkSemShmKey: one of the names is not a key of the server's tables.   *)
UnknownKey(h, sn, mn) ==
    /\ pc[h] = "read"
    /\ \/ ~(changeCharToNumber(sn, Capitals) \subseteq sem_key)
       \/ ~(changeCharToNumber(mn, Capitals) \subseteq shm_key)
    /\ Goto(h, "reply")
    /\ Answer(h, "nokey")
    /\ UNCHANGED <<ipc, status, req, semadj, isShared, has, ghost>>

(* The request arrives and is dispatched on its flag.  data is not cleared *)
(* before parseRecvData copies the flag without its terminator, so any     *)
(* flag may be read as neither "1" nor "0".                                *)
Request(h, c, sn, mn, f) ==
    /\ pc[h] = "read"
    /\ \E s \in changeCharToNumber(sn, sem_key), m \in changeCharToNumber(mn, shm_key),
          read \in {f, "?"} :
         /\ s \in sem_key
         /\ m \in shm_key
         /\ ClientSends(c, m, f)
         /\ req' = [req EXCEPT ![h] =
                      [client |-> c, sem |-> s, shm |-> m, flag |-> read]]
         /\ Goto(h, CASE read = "1" -> "glock" [] read = "0" -> "slock"
                      [] OTHER -> "reply")
         /\ Answer(h, IF read = "?" THEN "bad" ELSE "")
    /\ disturbed' = (disturbed \/ \E g \in Conns \ {h} : Busy(g))
    /\ UNCHANGED <<ipc, status, semadj, isShared, stale, interrupted, clamped>>

(* Mutants of sem_lock: IPC_NOWAIT instead of waiting, or no SEM_UNDO.     *)
sem_lockNoWait(h) ==
    /\ pc[h] \in {"glock", "slock"}
    /\ sem' = [sem EXCEPT ![S(h)] = IF @ > 0 THEN @ - 1 ELSE @]
    /\ semadj' = [semadj EXCEPT ![h] = IF sem[S(h)] > 0 THEN @ + 1 ELSE @]
    /\ Goto(h, IF pc[h] = "glock" THEN "gread" ELSE "swrite")
    /\ UNCHANGED <<shm, status, req, isShared, res, has, ghost>>

sem_lockNoUndo(h) ==
    /\ pc[h] \in {"glock", "slock"}
    /\ sem[S(h)] > 0
    /\ sem' = [sem EXCEPT ![S(h)] = @ - 1]
    /\ Goto(h, IF pc[h] = "glock" THEN "gread" ELSE "swrite")
    /\ UNCHANGED <<shm, status, req, semadj, isShared, res, has, ghost>>

(* sem_lock: semop -1 with SEM_UNDO waits for a unit.                      *)
sem_lock(h) ==
    /\ pc[h] \in {"glock", "slock"}
    /\ sem[S(h)] > 0
    /\ sem' = [sem EXCEPT ![S(h)] = @ - 1]
    /\ semadj' = [semadj EXCEPT ![h] = @ + 1]
    /\ Goto(h, IF pc[h] = "glock" THEN "gread" ELSE "swrite")
    /\ UNCHANGED <<shm, status, req, isShared, res, has, ghost>>

(* The signal handler ran while sem_lock waited: semop returns EINTR.      *)
sem_lockInterrupted(h) ==
    /\ pc[h] \in {"glock", "slock"}
    /\ sem[S(h)] = 0
    /\ interrupted' = TRUE
    /\ Goto(h, IF pc[h] = "glock" THEN "gread" ELSE "swrite")
    /\ UNCHANGED <<ipc, status, req, semadj, isShared, res, has, stale, clamped,
                   disturbed>>

(* Mutant of sem_unlock: no SEM_UNDO.                                      *)
sem_unlockNoUndo(h) ==
    /\ pc[h] \in {"gunlock", "sunlock"}
    /\ sem' = [sem EXCEPT ![S(h)] = @ + 1]
    /\ Goto(h, IF pc[h] = "gunlock" THEN "decide" ELSE "file")
    /\ UNCHANGED <<shm, status, req, semadj, isShared, res, has, ghost>>

(* sem_unlock: semop +1 with SEM_UNDO.                                     *)
sem_unlock(h) ==
    /\ pc[h] \in {"gunlock", "sunlock"}
    /\ sem' = [sem EXCEPT ![S(h)] = @ + 1]
    /\ semadj' = [semadj EXCEPT ![h] = @ - 1]
    /\ Goto(h, IF pc[h] = "gunlock" THEN "decide" ELSE "file")
    /\ UNCHANGED <<shm, status, req, isShared, res, has, ghost>>

(* getShmSegData reads the byte: '1' is 1, '0' and NUL are 0.              *)
getShmSegData(h) ==
    /\ pc[h] = "gread"
    /\ isShared' = [isShared EXCEPT ![h] = IF Locked(M(h)) THEN 1 ELSE 0]
    /\ Goto(h, "gunlock")
    /\ UNCHANGED <<ipc, status, req, semadj, res, has, ghost>>

(* Mutant of LockIfFree: the test is missing.                              *)
LockUntested(h) ==
    /\ pc[h] = "decide"
    /\ Goto(h, "slock")
    /\ UNCHANGED <<ipc, status, req, semadj, isShared, res, has, ghost>>

(* server_main goes on to set the byte if what it read was free.           *)
LockIfFree(h) ==
    /\ pc[h] = "decide"
    /\ IF isShared[h] = 0
       THEN Goto(h, "slock") /\ UNCHANGED res
       ELSE Goto(h, "reply") /\ Answer(h, "fail")
    /\ UNCHANGED <<ipc, status, req, semadj, isShared, has, ghost>>

(* setShmSegData writes it, to lock as well as to unlock.                  *)
setShmSegData(h) ==
    /\ pc[h] = "swrite"
    /\ shm' = [shm EXCEPT ![M(h)] = IF req[h].flag = "1" THEN One ELSE Zero]
    /\ stale' = IF req[h].flag = "1" /\ isShared[h] = 0 /\ Locked(M(h))
                THEN stale \cup {M(h)} ELSE stale
    /\ Answer(h, "ok")
    /\ Goto(h, "sunlock")
    /\ UNCHANGED <<sem, status, req, semadj, isShared, has, interrupted, clamped,
                   disturbed>>

(* Mutant of writeInitFile: isShared is not reset for an unlock.           *)
writeInitFileLocked(h) ==
    /\ pc[h] = "file"
    /\ status' = [status EXCEPT ![M(h)] = 1]
    /\ Goto(h, "reply")
    /\ UNCHANGED <<ipc, req, semadj, isShared, res, has, ghost>>

(* writeInitFile marks the first record of the segment.  The records are   *)
(* where init_ipc put them, so it always finds the same one.               *)
writeInitFile(h) ==
    /\ pc[h] = "file"
    /\ status' = [status EXCEPT ![M(h)] = IF req[h].flag = "1" THEN 1 ELSE 0]
    /\ Goto(h, "reply")
    /\ UNCHANGED <<ipc, req, semadj, isShared, res, has, ghost>>

(* A handler ends and the kernel undoes its semops.                        *)
Exit(h) ==
    /\ Goto(h, "idle")
    /\ req' = [req EXCEPT ![h] = NoRequest]
    /\ semadj' = [semadj EXCEPT ![h] = 0]
    /\ isShared' = [isShared EXCEPT ![h] = 0]
    /\ Answer(h, "")
    /\ IF req[h] = NoRequest
       THEN UNCHANGED <<sem, clamped>>
       ELSE /\ sem' = [sem EXCEPT ![S(h)] = Max({0, @ + semadj[h]})]
            /\ clamped' = (clamped \/ sem[S(h)] + semadj[h] < 0)
    /\ UNCHANGED shm

(* The answer reaches the client, or the client is gone.                   *)
Reply(h) ==
    /\ pc[h] = "reply"
    /\ Exit(h)
    /\ \/ /\ res[h] = "ok" /\ req[h].flag = "1"
          /\ has' = [has EXCEPT ![req[h].client] = @ \cup {M(h)}]
       \/ UNCHANGED has
    /\ UNCHANGED <<status, stale, interrupted, disturbed>>

(* A handler is killed or crashes.                                         *)
Die(h) ==
    /\ Busy(h)
    /\ Exit(h)
    /\ disturbed' = TRUE
    /\ UNCHANGED <<status, has, stale, interrupted>>

(* naskill kills every process of the server; main runs init_ipc again:    *)
(* every semaphore is set to 1 and every segment cleared, and              *)
(* initializeInitFile, which looks for a line "SHARED_INFO" that the file  *)
(* has only in brackets, adds new records behind the old ones.  What the   *)
(* clients hold is forgotten, what the first records say is not.           *)
Restart ==
    /\ sem' = [s \in sem_key |-> 1]
    /\ shm' = [m \in shm_key |-> NUL]
    /\ pc' = [h \in Conns |-> "idle"]
    /\ req' = [h \in Conns |-> NoRequest]
    /\ semadj' = [h \in Conns |-> 0]
    /\ isShared' = [h \in Conns |-> 0]
    /\ res' = [h \in Conns |-> ""]
    /\ stale' = stale \cup {m \in shm_key : \E c \in Clients : m \in has[c]}
    /\ clamped' = FALSE
    /\ interrupted' = FALSE
    /\ disturbed' = TRUE
    /\ UNCHANGED <<status, has>>

Step(h) ==
    \/ sem_unlock(h) \/ getShmSegData(h) \/ LockIfFree(h) \/ setShmSegData(h)
    \/ writeInitFile(h) \/ Reply(h)

Next ==
    \/ \E h \in Conns :
          \/ Accept(h) \/ ReadFails(h)
          \/ \E sn \in SemNames, mn \in ShmNames :
                \/ UnknownKey(h, sn, mn)
                \/ \E c \in Clients, f \in Flags : Request(h, c, sn, mn, f)
          \/ sem_lock(h) \/ sem_lockInterrupted(h)
          \/ Step(h)
          \/ Die(h)
    \/ Restart

Spec == Init /\ [][Next]_vars

(* A handler that can run does, and the kernel serves the processes that   *)
(* wait for a semaphore in the order in which they came.                   *)
Fairness == \A h \in Conns : WF_vars(Step(h)) /\ SF_vars(sem_lock(h))

FairSpec == Spec /\ Fairness

-----------------------------------------------------------------------------
(* Type invariant.                                                         *)
TypeOK ==
    /\ sem \in [sem_key -> 0 .. 1 + Cardinality(Conns)]
    /\ shm \in [shm_key -> {NUL, Zero, One}]
    /\ status \in [shm_key -> {0, 1}]
    /\ pc \in [Conns -> PCs]
    /\ req \in [Conns -> Requests \cup {NoRequest}]
    /\ semadj \in [Conns -> -2 .. 1]
    /\ isShared \in [Conns -> {0, 1}]
    /\ res \in [Conns -> Answers]
    /\ has \in [Clients -> SUBSET shm_key]
    /\ stale \in SUBSET shm_key
    /\ interrupted \in BOOLEAN /\ clamped \in BOOLEAN /\ disturbed \in BOOLEAN

SumOver(f, T) == FoldFunctionOnSet(+, 0, f, T)
Inside(h) == pc[h] \in {"gread", "gunlock", "swrite", "sunlock"}

(* The semaphore protects the segment (ipc.c 107, 126): as long as no      *)
(* signal interrupted a sem_lock since the server started, no two handlers *)
(* are between sem_lock and sem_unlock on one semaphore, however handlers  *)
(* are killed.                                                             *)
CriticalSection ==
    ~interrupted =>
        \A g, h \in Conns : (g # h /\ Inside(g) /\ Inside(h)) => S(g) # S(h)

(* SEM_UNDO keeps the semaphores' units: even with interrupted sem_locks   *)
(* and killed handlers, a semaphore and what the kernel owes it add up to  *)
(* one, unless an undo was cut off at 0.  So when the handlers are gone it *)
(* is 1 again.                                                             *)
UnitsConserved ==
    ~clamped =>
        \A s \in sem_key : sem[s] + SumOver(semadj, {h \in Conns : S(h) = s}) = 1

(* ipc.c 10-11, 115-135: the kernel gives back what killed handlers took,  *)
(* and not more: the units of a semaphore are conserved.                   *)
UndoRight == TypeOK /\ UnitsConserved

(* Two clients are told that they locked one segment only if the byte was  *)
(* set between one handler's check and its setting it, or a restart        *)
(* cleared a lock: nothing else breaks the lock, neither two semaphores    *)
(* used for one segment, nor interrupted waits, nor killed handlers.       *)
DoubleGrantOnlyByStaleCheck ==
    \A c, d \in Clients : c # d => has[c] \cap has[d] \subseteq stale

(* Between requests that came one after the other, with no handler killed  *)
(* and no restart, the file says what the segments say.                    *)
StatusTruthful ==
    (~disturbed /\ \A h \in Conns : ~Busy(h)) =>
        \A m \in shm_key : status[m] = 1 <=> Locked(m)

(* Mutual exclusion, as the comments on getShmSegData and setShmSegData    *)
(* have it: no two clients are told that they locked one segment, as long  *)
(* as every sem_lock did get the semaphore.                                *)
NoDoubleGrant ==
    ~interrupted => \A c, d \in Clients : c # d => has[c] \cap has[d] = {}

(* No handler waits for ever for a semaphore: SEM_UNDO gives back what a   *)
(* killed handler took.                                                    *)
NeverStuck ==
    \A h \in Conns : pc[h] \in {"glock", "slock"} ~> pc[h] \notin {"glock", "slock"}
=============================================================================
