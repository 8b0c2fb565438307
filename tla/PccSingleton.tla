---------------------------- MODULE PccSingleton ----------------------------
(***************************************************************************)
(* How src/test_signal/PCC/pcc.c keeps a second process control centre     *)
(* from running: IsExist_PCC, the pool segment and the port on the way up, *)
(* and KILL_ALL on the way down.  PCC describes what one of them does in   *)
(* between.                                                                *)
(*                                                                         *)
(* pc: off      not running              init   Init_Shm comes next        *)
(*     get      the exclusive semget     bind   trying to bind the port    *)
(*     get2     the second semget        serve  in select                  *)
(*     set      SETVAL comes next        rmsem  KILL_ALL removed the pool  *)
(*     p        sem_p comes next         reply  a reply is due             *)
(* A semaphore or a segment has a fresh id each time it is created: the    *)
(* kernel does not reuse ids soon.  sem_p is not in the repository; from   *)
(* its use it returns -2 when the semaphore is taken, another error when   *)
(* there is none, and the kernel undoes it when its caller ends.           *)
(***************************************************************************)
EXTENDS Naturals

CONSTANTS Pccs,         \* processes that run pcc
          MaxStarts     \* bound: times any of them is started

ASSUME MaxStartsAssumption == MaxStarts \in Nat

NoId == 0               \* a call that returned -1

VARIABLES
    pc,
    semid,      \* pcc_semid of each process
    shmid,      \* processpool_shmid of each process
    held,       \* it took the semaphore
    flag,       \* loop(): KILL_ALL was served
    sem, val,   \* the semaphore under Pcc_SemKey, and its value
    pool,       \* the segment under ProcessPool_ShmKey
    ids,        \* ids given out so far
    port,       \* the processes with the listening socket: <<"pcc", p>>, <<"kid", p>>
    kid,        \* kid[p]: a program forked by p since it listens: "none", "run", "told"
    starts,
    blind,      \* history: a PCC went on without the semaphore
    orphan      \* history: a PCC died between its semget and SETVAL

mine == <<semid, shmid, held, flag>>
ipc == <<sem, val, pool, ids>>
net == <<port, kid>>
hist == <<starts, blind, orphan>>
vars == <<pc, mine, ipc, net, hist>>

Init ==
    /\ pc = [p \in Pccs |-> "off"]
    /\ semid = [p \in Pccs |-> NoId] /\ shmid = [p \in Pccs |-> NoId]
    /\ held = [p \in Pccs |-> FALSE] /\ flag = [p \in Pccs |-> FALSE]
    /\ sem = NoId /\ val = 0 /\ pool = NoId /\ ids = 0
    /\ port = {} /\ kid = [p \in Pccs |-> "none"]
    /\ starts = 0 /\ blind = FALSE /\ orphan = FALSE

Goto(p, from, to) == pc[p] = from /\ pc' = [pc EXCEPT ![p] = to]

-----------------------------------------------------------------------------
(* main without options: the forked child goes on.  A process that runs    *)
(* pcc again is another one as long as a program of its last run is left.  *)
Start(p) ==
    /\ starts < MaxStarts
    /\ starts' = starts + 1
    /\ kid[p] = "none"
    /\ Goto(p, "off", "get")
    /\ UNCHANGED <<mine, ipc, net, blind, orphan>>

(* IsExist_PCC: semget with IPC_EXCL creates the semaphore, its value 0,   *)
(* or fails.                                                               *)
SemCreate(p) ==
    /\ IF sem = NoId
       THEN /\ Goto(p, "get", "set")
            /\ ids' = ids + 1 /\ sem' = ids' /\ val' = 0
            /\ semid' = [semid EXCEPT ![p] = ids']
       ELSE Goto(p, "get", "get2") /\ UNCHANGED <<ids, sem, val, semid>>
    /\ UNCHANGED <<shmid, held, flag, pool, net, hist>>

(* Mutant of SemFind: SETVAL for a semaphore that was there before, too.   *)
SemFindSets(p) ==
    /\ Goto(p, "get2", "set")
    /\ semid' = [semid EXCEPT ![p] = sem]
    /\ UNCHANGED <<shmid, held, flag, ipc, net, hist>>

(* The second semget; the semaphore may be gone by now.                    *)
SemFind(p) ==
    /\ Goto(p, "get2", "p")
    /\ semid' = [semid EXCEPT ![p] = sem]
    /\ UNCHANGED <<shmid, held, flag, ipc, net, hist>>

(* SETVAL: the semaphore is there for one.  The set may be gone already.   *)
SetVal(p) ==
    /\ Goto(p, "set", "p")
    /\ val' = IF semid[p] = sem THEN 1 ELSE val
    /\ UNCHANGED <<mine, sem, pool, ids, net, hist>>

(* sem_p: only -2 stops main; any other failure counts as success.         *)
SemP(p) ==
    /\ \/ /\ semid[p] = sem /\ sem # NoId /\ val > 0
          /\ Goto(p, "p", "init")
          /\ val' = val - 1
          /\ held' = [held EXCEPT ![p] = TRUE]
          /\ UNCHANGED <<semid, blind>>
       \/ /\ semid[p] = sem /\ sem # NoId /\ val = 0
          /\ Goto(p, "p", "off")
          /\ semid' = [semid EXCEPT ![p] = NoId]
          /\ UNCHANGED <<val, held, blind>>
       \/ /\ semid[p] # sem \/ sem = NoId
          /\ Goto(p, "p", "init")
          /\ blind' = TRUE
          /\ UNCHANGED <<val, held, semid>>
    /\ UNCHANGED <<shmid, flag, sem, pool, ids, net, starts, orphan>>

(* Init_Shm: attach the segment, or create one.                            *)
Init_Shm(p) ==
    /\ Goto(p, "init", "bind")
    /\ IF pool = NoId THEN ids' = ids + 1 /\ pool' = ids' ELSE UNCHANGED <<ids, pool>>
    /\ shmid' = [shmid EXCEPT ![p] = pool']
    /\ UNCHANGED <<semid, held, flag, sem, val, net, hist>>

(* Open_Server_Socket: bind is repeated every second until it succeeds,    *)
(* that is until nobody has the socket of an earlier PCC; listen follows.  *)
Bind(p) ==
    /\ port = {}
    /\ Goto(p, "bind", "serve")
    /\ port' = {<<"pcc", p>>}
    /\ UNCHANGED <<mine, ipc, kid, hist>>

-----------------------------------------------------------------------------
(* RUN_PROCESS or AGAIN_RUN_PROCESS while p listens: the program inherits  *)
(* the socket.  One program stands for all of them.                        *)
ForkProgram(p) ==
    /\ pc[p] = "serve" /\ kid[p] = "none"
    /\ kid' = [kid EXCEPT ![p] = "run"]
    /\ port' = port \cup {<<"kid", p>>}
    /\ UNCHANGED <<pc, mine, ipc, hist>>

ProgramEnds(p) ==
    /\ kid[p] # "none"
    /\ kid' = [kid EXCEPT ![p] = "none"]
    /\ port' = port \ {<<"kid", p>>}
    /\ UNCHANGED <<pc, mine, ipc, hist>>

(* Any request but kill-all.                                               *)
Request(p) ==
    /\ Goto(p, "serve", "reply")
    /\ UNCHANGED <<mine, ipc, net, hist>>

(* KILL_ALL: SIGTERM to the programs that are registered, then the segment *)
(* and the semaphores are removed, each by its id.                         *)
KillPool(p) ==
    /\ Goto(p, "serve", "rmsem")
    /\ \/ kid' = [kid EXCEPT ![p] = IF @ = "run" THEN "told" ELSE @]
       \/ UNCHANGED kid
    /\ pool' = IF shmid[p] = pool THEN NoId ELSE pool
    /\ UNCHANGED <<mine, sem, val, ids, port, hist>>

KillSem(p) ==
    /\ Goto(p, "rmsem", "reply")
    /\ sem' = IF semid[p] = sem THEN NoId ELSE sem
    /\ flag' = [flag EXCEPT ![p] = TRUE]
    /\ UNCHANGED <<semid, shmid, held, val, pool, ids, net, hist>>

(* Mutant of KillAll: the semaphore is removed first, the segment last.    *)
KillAllSwapped(p) ==
    \/ /\ Goto(p, "serve", "rmsem")
       /\ sem' = IF semid[p] = sem THEN NoId ELSE sem
       /\ UNCHANGED <<mine, val, pool, ids, net, hist>>
    \/ /\ Goto(p, "rmsem", "reply")
       /\ pool' = IF shmid[p] = pool THEN NoId ELSE pool
       /\ flag' = [flag EXCEPT ![p] = TRUE]
       /\ UNCHANGED <<semid, shmid, held, sem, val, ids, net, hist>>

KillAll(p) == KillPool(p) \/ KillSem(p)

-----------------------------------------------------------------------------
(* The process ends and the kernel undoes its sem_p.                       *)
Gone(p) ==
    /\ pc' = [pc EXCEPT ![p] = "off"]
    /\ val' = IF held[p] /\ semid[p] = sem THEN val + 1 ELSE val
    /\ semid' = [semid EXCEPT ![p] = NoId]
    /\ shmid' = [shmid EXCEPT ![p] = NoId]
    /\ held' = [held EXCEPT ![p] = FALSE]
    /\ flag' = [flag EXCEPT ![p] = FALSE]
    /\ port' = port \ {<<"pcc", p>>}
    /\ UNCHANGED <<sem, pool, ids, kid>>

(* The reply was sent: after KILL_ALL this ends the daemon.                *)
SendOk(p) ==
    /\ pc[p] = "reply"
    /\ IF flag[p]
       THEN Gone(p) /\ UNCHANGED hist
       ELSE Goto(p, "reply", "serve") /\ UNCHANGED <<mine, ipc, net, hist>>

(* It could not be sent: continue, without a look at flag.                 *)
SendFails(p) ==
    /\ Goto(p, "reply", "serve")
    /\ UNCHANGED <<mine, ipc, net, hist>>

Crash(p) ==
    /\ pc[p] # "off"
    /\ Gone(p)
    /\ orphan' = (orphan \/ pc[p] = "set")
    /\ UNCHANGED <<starts, blind>>

Boot(p) == SemCreate(p) \/ SemFind(p) \/ SetVal(p) \/ SemP(p) \/ Init_Shm(p) \/ Bind(p)

Reply(p) == SendOk(p) \/ SendFails(p)

Next == \E p \in Pccs :
    \/ Start(p) \/ Boot(p)
    \/ Request(p) \/ KillAll(p) \/ Reply(p)
    \/ ForkProgram(p) \/ ProgramEnds(p)
    \/ Crash(p)

Spec == Init /\ [][Next]_vars

(* The processes are scheduled, a program that got SIGTERM ends, operators *)
(* go on sending requests, and their connections do not always break.      *)
FairSpec == Spec /\ \A p \in Pccs :
    /\ WF_vars(Boot(p)) /\ WF_vars(KillSem(p)) /\ WF_vars(Reply(p))
    /\ WF_vars(kid[p] = "told" /\ ProgramEnds(p))
    /\ WF_vars(Request(p)) /\ SF_vars(SendOk(p))

-----------------------------------------------------------------------------
(* Type invariant.                                                         *)
Ids == 0 .. ids

TypeOK ==
    /\ pc \in [Pccs -> {"off", "get", "get2", "set", "p", "init", "bind",
                        "serve", "rmsem", "reply"}]
    /\ semid \in [Pccs -> Ids] /\ shmid \in [Pccs -> Ids]
    /\ held \in [Pccs -> BOOLEAN] /\ flag \in [Pccs -> BOOLEAN]
    /\ sem \in Ids /\ val \in {0, 1} /\ pool \in Ids /\ ids \in Nat
    /\ port \subseteq {"pcc", "kid"} \X Pccs
    /\ kid \in [Pccs -> {"none", "run", "told"}]
    /\ starts \in 0 .. MaxStarts /\ blind \in BOOLEAN /\ orphan \in BOOLEAN

(* The processes that act as the process control centre.                   *)
Active(p) == pc[p] \in {"init", "bind", "serve", "rmsem", "reply"} /\ ~flag[p]

(* pcc.c 511-525: of the PCCs that took the semaphore at most one is       *)
(* active, until its KILL_ALL is done; two of them run side by side only   *)
(* if one went on after a sem_p that failed.                               *)
OneActive ==
    /\ \A p, q \in Pccs : Active(p) /\ held[p] /\ Active(q) /\ held[q] => p = q
    /\ (\E p, q \in Pccs : p # q /\ Active(p) /\ Active(q)) => blind

(* A start is turned away as "already running" (pcc.c 579-582) only        *)
(* because some PCC has the semaphore or is about to set it, or because    *)
(* one died in between: otherwise the value is never left at 0.            *)
TakenBySomebody ==
    sem # NoId /\ val = 0 /\ ~orphan =>
        \E p \in Pccs : semid[p] = sem /\ (held[p] \/ pc[p] = "set")

(* KILL_ALL removes the segment before the semaphore (pcc.c 250-262): a    *)
(* PCC that starts meanwhile never works on a segment that the old one     *)
(* still removes under it.                                                 *)
PoolNotPulled ==
    \A p \in Pccs :
        pc[p] \in {"bind", "serve"} /\ Active(p) /\ ~blind => shmid[p] = pool

(* A start is turned away only by a semaphore that somebody has, and a     *)
(* segment is not removed under the next PCC (pcc.c 250-262, 511-523).     *)
StartsSafely == TakenBySomebody /\ PoolNotPulled

(* After kill-all the PCC ends (pcc.c 829-846): a reply that fails leaves  *)
(* it running with flag set, and the next one that is sent ends it.        *)
KillAllHeeded == \A p \in Pccs : flag[p] ~> pc[p] = "off"
=============================================================================
