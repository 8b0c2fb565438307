-------------------------------- MODULE PCC --------------------------------
(***************************************************************************)
(* The process control centre of src/test_signal/PCC/pcc.c: a daemon that  *)
(* starts the programs named in ./process_info, restarts the ones that die *)
(* (SIGCHLD handler) and obeys start/down/kill-all/restart requests that   *)
(* arrive on its TCP port.  The supervised programs are not in the         *)
(* repository; they enter their name and pid in a slot of the shared       *)
(* PROCESSPOOL segment themselves.                                         *)
(*                                                                         *)
(* The main program advances one statement that touches shared state at a  *)
(* time; the SIGCHLD handler may run between any two of its steps, and the *)
(* supervised processes run concurrently with both: a program may enter    *)
(* the pool between any two statements of the handler.  The pid of a       *)
(* process is the number of its fork: the kernel does not reuse pids.  Of  *)
(* PROCESSPOOL the fields that PCC only writes (Id, Status, tlflog_Seqno)  *)
(* are left out, and with Status the difference of single and VAN slots.   *)
(***************************************************************************)
EXTENDS Integers, Sequences, FiniteSets

CONSTANTS
  Names,            \* program names
  NoName,           \* the empty string (a cleared Name[i])
  MaxProcessPool,   \* MAX_PROCESSPOOL_CNT
  Info,             \* ./process_info: sequence of [name, cnt, gubun]
  VangrpAttached,   \* FALSE in pcc.c: nothing attaches the vangrp segment
  MaxForks,         \* bound: processes forked in one behaviour
  MaxStarts         \* bound: times PCC is started

NoPid == -1
NoGubun == 9        \* a section with no P_GUBUN line before the next '['
Slots == 1..MaxProcessPool
Pids  == 1..MaxForks
AnyName == Names \cup {NoName}
Section == [name : Names, cnt : Nat, gubun : 0..9]

ASSUME ConstantsOK ==
  /\ NoName \notin Names
  /\ MaxProcessPool \in Nat \ {0}
  /\ MaxForks \in Nat
  /\ MaxStarts \in Nat
  /\ VangrpAttached \in BOOLEAN
  /\ Info \in Seq(Section)

VARIABLES
  pc,           \* where the main program is ("off": no PCC process)
  op, arg,      \* option served ("boot": none), process_name
  i, pid,       \* loop index and local pid of the KILL_* loops
  result,       \* 0 or -1: the reply code is FSTX0 or FSTX9
  flag,         \* loop(): set by KILL_ALL, ends the daemon after the reply
  sec, left,    \* next section to read, forks RUN_PROCESS still has to do
  handler,      \* SIGCHLD handler installed
  inHandler,    \* sig_chld is running
  sigPending,   \* a SIGCHLD is pending (signals coalesce)
  hpc,          \* where it is: "wait" (at waitpid), "clear", "wipe", "again"
  chld, slot, processname,  \* the child it reaped, p_pool_id, the copied name
  shm,          \* the PROCESSPOOL segment exists under its key
  Name, Pid, UpDown,    \* the PROCESSPOOL arrays that are read back
  st,           \* "free" (not forked), "run", "reg", "zombie", "gone"
  pname,        \* program a pid runs
  own,          \* child of the running PCC (not adopted by init)
  nextPid,
  starts,
  asked,        \* history: sent SIGTERM by a KILL_* loop, not yet dealt with
  targets,      \* history: pids in the pool when the KILL_* loop began
  early         \* history: zombies that died before signal() was called

mainVars == <<pc, op, arg, i, pid, result, flag, sec, left>>
reapVars == <<hpc, chld, slot, processname>>
sigVars  == <<handler, inHandler, sigPending, reapVars>>
poolVars == <<shm, Name, Pid, UpDown>>
procVars == <<st, pname, own, nextPid>>
ghosts   == <<asked, targets, early>>
vars == <<mainVars, sigVars, poolVars, procVars, starts, ghosts>>

---------------------------------------------------------------------------
(* RUN_PROCESS is called once per complete section: cnt copies for P_GUBUN *)
(* 1 and 2, one for 0, none for another value.                             *)
Copies(sn) == CASE sn.gubun = 0       -> 1
                 [] sn.gubun \in {1,2} -> sn.cnt
                 [] OTHER               -> 0

---------------------------------------------------------------------------
Init ==
  /\ pc = "off" /\ op = "boot" /\ arg = NoName
  /\ i = 1 /\ pid = NoPid /\ result = 0 /\ flag = FALSE
  /\ sec = 1 /\ left = 0
  /\ handler = FALSE /\ inHandler = FALSE /\ sigPending = FALSE
  /\ hpc = "wait" /\ chld = NoPid /\ slot = 1 /\ processname = NoName
  /\ shm = FALSE
  /\ Name   = [k \in Slots |-> NoName]
  /\ Pid    = [k \in Slots |-> NoPid]
  /\ UpDown = [k \in Slots |-> "UP"]
  /\ st     = [p \in Pids |-> "free"]
  /\ pname  = [p \in Pids |-> NoName]
  /\ own    = [p \in Pids |-> FALSE]
  /\ nextPid = 1 /\ starts = 0
  /\ asked = {} /\ targets = {} /\ early = {}

Init_PROCESSPOOL ==
  /\ Name'   = [k \in Slots |-> NoName]
  /\ Pid'    = [k \in Slots |-> NoPid]
  /\ UpDown' = [k \in Slots |-> "UP"]

(* fork(): the new child runs program n (and exits if n is no program) *)
Fork(n) ==
  /\ nextPid <= MaxForks
  /\ st'    = [st EXCEPT ![nextPid] = "run"]
  /\ pname' = [pname EXCEPT ![nextPid] = n]
  /\ own'   = [own EXCEPT ![nextPid] = TRUE]
  /\ nextPid' = nextPid + 1

(* fork() returns -1: neither RUN_PROCESS nor AGAIN_RUN_* looks at it *)
ForkFails == UNCHANGED procVars

Main(from) == pc = from /\ ~inHandler

(* main(): Init_Shm keeps the contents of a segment that already exists, a *)
(* new one is initialised; then every program of process_info is started.  *)
Start ==
  /\ pc = "off" /\ starts < MaxStarts
  /\ starts' = starts + 1
  /\ shm' = TRUE
  /\ IF shm THEN UNCHANGED <<Name, Pid, UpDown>> ELSE Init_PROCESSPOOL
  /\ pc' = "spawn" /\ op' = "boot" /\ sec' = 1 /\ left' = 0
  /\ UNCHANGED <<arg, i, pid, result, flag, sigVars, procVars, ghosts>>

(* Read_Process_Info takes the next section; one with a '[' where P_GUBUN  *)
(* is expected ends the reading (return -1)                                *)
Read_Process_Info ==
  /\ Main("spawn") /\ left = 0 /\ sec <= Len(Info)
  /\ IF Info[sec].gubun = NoGubun
     THEN sec' = Len(Info) + 1 /\ UNCHANGED <<arg, left>>
     ELSE sec' = sec + 1 /\ arg' = Info[sec].name /\ left' = Copies(Info[sec])
  /\ UNCHANGED <<pc, op, i, pid, result, flag, sigVars, poolVars, procVars,
                 starts, ghosts>>

(* RUN_PROCESS: one fork per iteration, the return value is always 0 *)
RUN_PROCESS ==
  /\ Main("spawn") /\ left > 0
  /\ left' = left - 1
  /\ Fork(arg) \/ ForkFails
  /\ UNCHANGED <<pc, op, arg, i, pid, result, flag, sec, sigVars, poolVars,
                 starts, ghosts>>

(* the end of RUN_PROCESS / Read_Process_Info: at boot the handler is      *)
(* installed and the listening socket opened, otherwise a reply is due     *)
SpawnDone ==
  /\ Main("spawn") /\ left = 0 /\ sec > Len(Info)
  /\ pc' = IF op = "boot" THEN "serve" ELSE "reply"
  /\ arg' = NoName
  /\ handler' = TRUE
  /\ UNCHANGED <<op, i, pid, result, flag, sec, left, inHandler, sigPending,
                 reapVars, poolVars, procVars, starts, ghosts>>

(* main() returns: socket or listen failed, or select failed in loop();    *)
(* also any fatal signal.  The children are adopted by init.               *)
Exit ==
  /\ pc' = "off" /\ op' = "boot" /\ arg' = NoName
  /\ i' = 1 /\ pid' = NoPid /\ result' = 0 /\ flag' = FALSE
  /\ sec' = 1 /\ left' = 0
  /\ handler' = FALSE /\ inHandler' = FALSE /\ sigPending' = FALSE
  /\ hpc' = "wait" /\ chld' = NoPid /\ slot' = 1 /\ processname' = NoName
  /\ own' = [p \in Pids |-> FALSE]
  /\ st' = [p \in Pids |-> IF st[p] = "zombie" THEN "gone" ELSE st[p]]
  /\ asked' = {p \in asked : st[p] # "zombie"}
  /\ targets' = {} /\ early' = {}
  /\ UNCHANGED <<pname, nextPid, starts>>

Crash ==
  /\ pc # "off"
  /\ Exit
  /\ UNCHANGED poolVars

---------------------------------------------------------------------------
(* loop() and Run_UpDown_Process: one request at a time *)

Registered == {Pid[k] : k \in Slots} \ {NoPid}

(* the pids a KILL_* loop for option o and name n must signal *)
Wanted(o, n) ==
  IF o = "D" THEN {Pid[k] : k \in {j \in Slots : Name[j] = n}} \ {NoPid}
             ELSE Registered

(* A connection from a blacklisted address or a failed accept is closed    *)
(* and changes nothing: only the others appear here.                       *)
Accept(o, n) ==
  /\ Main("serve")
  /\ op' = o /\ arg' = n
  /\ i' = 1 /\ pid' = NoPid
  /\ result' = IF o = "bad" THEN -1 ELSE 0
  /\ pc' = CASE o = "S"             -> "spawn"
             [] o \in {"D","A","R"} -> "scan"
             [] OTHER               -> "reply"
  /\ left' = IF o = "S" THEN 1 ELSE 0
  /\ sec' = Len(Info) + 1
  /\ targets' = IF o \in {"D","A","R"} THEN Wanted(o, n) ELSE {}
  /\ UNCHANGED <<flag, sigVars, poolVars, procVars, starts, asked, early>>

(* the three KILL loops: for (i...) { test the slot; pid = Pid[i];         *)
(* UpDown[i] = DOWN; kill(pid) }.  KILL_PROCESS compares the name first    *)
(* and reads the pid afterwards; KILL_ALL and RESTART_PROCESS read the pid *)
(* and skip a negative one.                                                *)
ScanSkip ==
  /\ Main("scan") /\ i <= MaxProcessPool
  /\ IF op = "D" THEN Name[i] # arg ELSE Pid[i] < 0
  /\ i' = i + 1
  /\ UNCHANGED <<pc, op, arg, pid, result, flag, sec, left, sigVars, poolVars,
                 procVars, starts, ghosts>>

(* mutant: KILL_ALL and RESTART_PROCESS without the test for pid < 0 *)
ScanHitUnchecked ==
  /\ Main("scan") /\ i <= MaxProcessPool
  /\ IF op = "D"
     THEN Name[i] = arg /\ pc' = "read" /\ UNCHANGED pid
     ELSE pc' = "mark" /\ pid' = Pid[i]
  /\ UNCHANGED <<op, arg, i, result, flag, sec, left, sigVars, poolVars, procVars,
                 starts, ghosts>>

ScanHit ==
  /\ Main("scan") /\ i <= MaxProcessPool
  /\ IF op = "D"
     THEN Name[i] = arg /\ pc' = "read" /\ UNCHANGED pid
     ELSE Pid[i] >= 0 /\ pc' = "mark" /\ pid' = Pid[i]
  /\ UNCHANGED <<op, arg, i, result, flag, sec, left, sigVars, poolVars, procVars,
                 starts, ghosts>>

KillRead ==
  /\ Main("read")
  /\ pid' = Pid[i]
  /\ pc' = "mark"
  /\ UNCHANGED <<op, arg, i, result, flag, sec, left, sigVars, poolVars, procVars,
                 starts, ghosts>>

(* mutant: UpDown[i] = DOWN is missing *)
KillUnmarked ==
  /\ Main("mark")
  /\ pc' = "sig"
  /\ UNCHANGED <<op, arg, i, pid, result, flag, sec, left, sigVars, poolVars,
                 procVars, starts, ghosts>>

KillMark ==
  /\ Main("mark")
  /\ UpDown' = [UpDown EXCEPT ![i] = "DOWN"]
  /\ pc' = "sig"
  /\ UNCHANGED <<op, arg, i, pid, result, flag, sec, left, sigVars, shm, Name, Pid,
                 procVars, starts, ghosts>>

Live == {p \in Pids : st[p] \in {"run", "reg"}}

(* kill(pid, SIGTERM): ESRCH when the pid is gone; pid -1 addresses every  *)
(* process the daemon may signal.  The signal ends a process by Die.  The  *)
(* local pid is assigned anew before it is used again.                     *)
KillSig ==
  /\ Main("sig")
  /\ asked' = IF pid = NoPid \/ st[pid] = "gone" THEN asked ELSE asked \cup {pid}
  /\ result' = IF \/ pid = NoPid /\ Live = {}
                  \/ pid # NoPid /\ st[pid] = "gone"
               THEN -1 ELSE result
  /\ i' = i + 1 /\ pid' = NoPid
  /\ pc' = "scan"
  /\ UNCHANGED <<op, arg, flag, sec, left, sigVars, poolVars, procVars,
                 starts, targets, early>>

(* mutant: the loop leaves out the last slot *)
KillProcessDoneEarly ==
  /\ Main("scan") /\ i >= MaxProcessPool /\ op = "D"
  /\ pc' = "reply"
  /\ UNCHANGED <<op, arg, i, pid, result, flag, sec, left, sigVars, poolVars,
                 procVars, starts, ghosts>>

KillProcessDone ==
  /\ Main("scan") /\ i > MaxProcessPool /\ op = "D"
  /\ pc' = "reply"
  /\ UNCHANGED <<op, arg, i, pid, result, flag, sec, left, sigVars, poolVars,
                 procVars, starts, ghosts>>

(* KILL_ALL removes the segment and both semaphores; a second KILL_ALL     *)
(* finds them gone and reports -1                                          *)
KillAllDone ==
  /\ Main("scan") /\ i > MaxProcessPool /\ op = "A"
  /\ result' = IF shm THEN result ELSE -1
  /\ shm' = FALSE
  /\ flag' = TRUE
  /\ pc' = "reply"
  /\ UNCHANGED <<op, arg, i, pid, sec, left, sigVars, Name, Pid, UpDown,
                 procVars, starts, ghosts>>

(* RESTART_PROCESS: Init_VANGRP writes through vangrp, which pcc.c leaves  *)
(* NULL (the process dies of SIGSEGV); with the segment attached the pool  *)
(* is cleared, without waiting for the signalled children, and every       *)
(* program of process_info is started again                                *)
RestartDone ==
  /\ Main("scan") /\ i > MaxProcessPool /\ op = "R"
  /\ IF VangrpAttached
     THEN /\ Init_PROCESSPOOL
          /\ sec' = 1 /\ left' = 0
          /\ pc' = "spawn"
          /\ UNCHANGED <<op, arg, i, pid, result, flag, sigVars, shm,
                         procVars, starts, ghosts>>
     ELSE Exit /\ UNCHANGED poolVars

(* send(): on failure the connection is closed and the loop continues,     *)
(* flag or not; after a sent reply KILL_ALL ends the daemon                *)
SendOk ==
  /\ Main("reply")
  /\ IF flag THEN Exit
     ELSE /\ pc' = "serve" /\ op' = "boot" /\ arg' = NoName
          /\ i' = 1 /\ pid' = NoPid /\ result' = 0 /\ targets' = {}
          /\ UNCHANGED <<flag, sec, left, sigVars, procVars, starts, asked,
                         early>>
  /\ UNCHANGED poolVars

SendFails ==
  /\ Main("reply")
  /\ pc' = "serve" /\ op' = "boot" /\ arg' = NoName
  /\ i' = 1 /\ pid' = NoPid /\ result' = 0 /\ targets' = {}
  /\ UNCHANGED <<flag, sec, left, sigVars, poolVars, procVars, starts, asked,
                 early>>

---------------------------------------------------------------------------
(* sig_chld *)

EnterHandler ==
  /\ pc # "off" /\ handler /\ sigPending /\ ~inHandler
  /\ inHandler' = TRUE /\ sigPending' = FALSE
  /\ UNCHANGED <<mainVars, handler, reapVars, poolVars, procVars, starts, ghosts>>

Zombies == {p \in Pids : st[p] = "zombie" /\ own[p]}

At(where) == inHandler /\ hpc = where

(* the first slot whose Pid is p *)
SlotOf(p) == CHOOSE k \in Slots : /\ Pid[k] = p
                                  /\ \A j \in Slots : Pid[j] = p => k <= j

(* mutant: a pid that is in no slot falls through to slot 1 *)
ReapFallThrough(p) ==
  /\ At("wait") /\ p \in Zombies
  /\ st' = [st EXCEPT ![p] = "gone"]
  /\ early' = early \ {p}
  /\ hpc' = "clear" /\ chld' = p
  /\ slot' = IF p \in Registered THEN SlotOf(p) ELSE 1
  /\ processname' = Name[slot']
  /\ UNCHANGED <<mainVars, handler, inHandler, sigPending, poolVars, pname, own,
                 nextPid, starts, asked, targets>>

(* waitpid returns a child; its slot is looked for, and AGAIN_RUN_PROCESS  *)
(* or AGAIN_RUN_VAN copies the name.  The slot of a dead child is nobody   *)
(* else's before it is cleared.  A child in no slot is done with.          *)
Reap(p) ==
  /\ At("wait") /\ p \in Zombies
  /\ st' = [st EXCEPT ![p] = "gone"]
  /\ early' = early \ {p}
  /\ \/ /\ p \in Registered
        /\ hpc' = "clear" /\ chld' = p
        /\ slot' = SlotOf(p) /\ processname' = Name[slot']
        /\ UNCHANGED asked
     \/ /\ p \notin Registered
        /\ asked' = asked \ {p}
        /\ UNCHANGED reapVars
  /\ UNCHANGED <<mainVars, handler, inHandler, sigPending, poolVars, pname, own,
                 nextPid, starts, targets>>

(* mutant: Pid[p_pool_id] = -1 is missing *)
KeepPid ==
  /\ At("clear")
  /\ hpc' = "wipe"
  /\ UNCHANGED <<mainVars, handler, inHandler, sigPending, chld, slot, processname,
                 poolVars, procVars, starts, ghosts>>

(* Pid[p_pool_id] = -1: from here on the slot is free for a program that   *)
(* enters itself                                                           *)
ClearPid ==
  /\ At("clear")
  /\ Pid' = [Pid EXCEPT ![slot] = NoPid]
  /\ hpc' = "wipe"
  /\ UNCHANGED <<mainVars, handler, inHandler, sigPending, chld, slot, processname,
                 shm, Name, UpDown, procVars, starts, ghosts>>

(* the memset of Name[p_pool_id], whoever is in the slot by now *)
WipeName ==
  /\ At("wipe")
  /\ Name' = [Name EXCEPT ![slot] = NoName]
  /\ hpc' = "again"
  /\ UNCHANGED <<mainVars, handler, inHandler, sigPending, chld, slot, processname,
                 shm, Pid, UpDown, procVars, starts, ghosts>>

(* if the slot is UP the program of the dead child is started again; a     *)
(* failed fork goes unnoticed                                              *)
AGAIN_RUN ==
  /\ At("again")
  /\ \/ UpDown[slot] = "UP" /\ Fork(processname)
     \/ ForkFails
  /\ hpc' = "wait" /\ chld' = NoPid /\ slot' = 1 /\ processname' = NoName
  /\ asked' = asked \ {chld}
  /\ UNCHANGED <<mainVars, handler, inHandler, sigPending, poolVars, starts,
                 targets, early>>

(* mutant: one waitpid per signal *)
LeaveAfterOne ==
  /\ At("wait")
  /\ inHandler' = FALSE
  /\ UNCHANGED <<mainVars, handler, sigPending, reapVars, poolVars, procVars,
                 starts, ghosts>>

(* mutant: waitpid without WNOHANG waits for the living children too *)
LeaveBlocking ==
  /\ At("wait") /\ Zombies = {} /\ \A p \in Live : ~own[p]
  /\ inHandler' = FALSE
  /\ UNCHANGED <<mainVars, handler, sigPending, reapVars, poolVars, procVars,
                 starts, ghosts>>

LeaveHandler ==
  /\ At("wait") /\ Zombies = {}
  /\ inHandler' = FALSE
  /\ UNCHANGED <<mainVars, handler, sigPending, reapVars, poolVars, procVars,
                 starts, ghosts>>

---------------------------------------------------------------------------
(* The supervised programs *)

(* A started program enters itself in a free slot of the pool, also while  *)
(* the handler is at work on that slot.  Whether it also sets UpDown is    *)
(* not known: both are allowed.                                            *)
Register(p, k) ==
  /\ shm /\ st[p] = "run" /\ pname[p] # NoName /\ Pid[k] = NoPid
  /\ st'   = [st EXCEPT ![p] = "reg"]
  /\ Name' = [Name EXCEPT ![k] = pname[p]]
  /\ Pid'  = [Pid EXCEPT ![k] = p]
  /\ \/ UpDown' = [UpDown EXCEPT ![k] = "UP"]
     \/ UNCHANGED UpDown
  /\ UNCHANGED <<mainVars, sigVars, shm, pname, own, nextPid, starts,
                 ghosts>>

(* A process ends, by itself (a missing program file included) or by a     *)
(* signal.  A child of PCC becomes a zombie and raises SIGCHLD, which is   *)
(* discarded while no handler is installed.                                *)
Die(p) ==
  /\ p \in Live
  /\ st' = [st EXCEPT ![p] = IF own[p] THEN "zombie" ELSE "gone"]
  /\ sigPending' = (sigPending \/ (own[p] /\ handler))
  /\ early' = IF own[p] /\ ~handler THEN early \cup {p} ELSE early
  /\ asked' = IF own[p] THEN asked ELSE asked \ {p}
  /\ UNCHANGED <<mainVars, handler, inHandler, reapVars, poolVars, pname, own,
                 nextPid, starts, targets>>

---------------------------------------------------------------------------
MainStep ==
  \/ Read_Process_Info \/ RUN_PROCESS \/ SpawnDone
  \/ ScanSkip \/ ScanHit \/ KillRead \/ KillMark \/ KillSig
  \/ KillProcessDone \/ KillAllDone \/ RestartDone
  \/ SendOk \/ SendFails

HandlerStep ==
  \/ EnterHandler \/ LeaveHandler
  \/ \E p \in Pids : Reap(p)
  \/ ClearPid \/ WipeName \/ AGAIN_RUN

Request ==
  \/ \E n \in Names : Accept("S", n)
  \/ \E n \in AnyName : Accept("D", n)
  \/ \E o \in {"A", "R", "bad"} : Accept(o, NoName)

Next ==
  \/ Start \/ Crash
  \/ Request \/ MainStep
  \/ HandlerStep
  \/ \E p \in Pids, k \in Slots : Register(p, k)
  \/ \E p \in Pids : Die(p)

(* The main program and the handler are never descheduled for ever; the    *)
(* operator, the programs and crashes are not obliged to do anything.      *)
Fairness == WF_vars(MainStep) /\ WF_vars(HandlerStep)

Spec == Init /\ [][Next]_vars /\ Fairness

---------------------------------------------------------------------------
(* Properties *)

MainStates == {"off", "spawn", "serve", "scan", "read", "mark", "sig", "reply"}
Options == {"boot", "S", "D", "A", "R", "bad"}

TypeMain ==
  /\ pc \in MainStates /\ op \in Options /\ arg \in AnyName
  /\ i \in 1..(MaxProcessPool + 1)
  /\ pc \in {"read", "mark", "sig"} => i \in Slots
  /\ pc = "spawn" /\ left > 0 => arg \in Names
  /\ pid \in Pids \cup {NoPid}
  /\ result \in {0, -1} /\ flag \in BOOLEAN
  /\ sec \in 1..(Len(Info) + 1) /\ left \in Nat
TypeSig == /\ handler \in BOOLEAN /\ inHandler \in BOOLEAN
           /\ sigPending \in BOOLEAN /\ shm \in BOOLEAN
           /\ hpc \in {"wait", "clear", "wipe", "again"}
           /\ chld \in Pids \cup {NoPid} /\ slot \in Slots
           /\ processname \in AnyName
           /\ hpc # "wait" => inHandler
           /\ hpc = "wait" <=> chld = NoPid
TypePool == /\ Name \in [Slots -> AnyName]
            /\ Pid \in [Slots -> Pids \cup {NoPid}]
            /\ UpDown \in [Slots -> {"UP", "DOWN"}]
TypeProc ==
  /\ st \in [Pids -> {"free", "run", "reg", "zombie", "gone"}]
  /\ pname \in [Pids -> AnyName]
  /\ own \in [Pids -> BOOLEAN]
  /\ nextPid \in 1..(MaxForks + 1)
  /\ starts \in 0..MaxStarts
  /\ asked \subseteq Pids /\ targets \subseteq Pids /\ early \subseteq Pids

(* Every variable keeps its type; in particular a loop index that is used  *)
(* to read the PROCESSPOOL arrays stays inside them, and RUN_PROCESS is    *)
(* only called with a program name.                                        *)
TypeOK == TypeMain /\ TypeSig /\ TypePool /\ TypeProc

(* A child that a KILL_* loop sent SIGTERM to is restarted in one case      *)
(* only: another program has entered the slot since sig_chld cleared its    *)
(* Pid, and set UpDown back.  Otherwise UpDown[i] = DOWN, stored before     *)
(* kill(), is what AGAIN_RUN_* finds, whatever the handler interrupts.      *)
KilledRestartedOnlyByRace ==
  [][inHandler /\ chld \in asked /\ nextPid' # nextPid => Pid[slot] # NoPid]_vars

(* A slot that holds a pid holds the name of the program this pid runs, or *)
(* no name when the handler wiped a newcomer's, and no pid is in two slots: *)
(* what AGAIN_RUN_* starts is what died, and the first slot sig_chld finds  *)
(* is the only one.                                                         *)
PoolConsistent ==
  /\ \A k \in Slots : Pid[k] # NoPid => Name[k] \in {pname[Pid[k]], NoName}
  /\ \A j, k \in Slots : Pid[j] = Pid[k] /\ Pid[j] # NoPid => j = k

(* When a KILL_* loop has ended, every process that was in the pool (under *)
(* the name, for KILL_PROCESS) when the request arrived was signalled or   *)
(* has died, although the handler rewrites the slots during the loop.      *)
KillCoversTargets ==
  \/ pc = "reply" /\ op \in {"D", "A"}
  \/ pc = "spawn" /\ op = "R"
  => \A p \in targets : p \in asked \/ st[p] \in {"zombie", "gone"}

(* SIGTERM goes to pid -1, that is to every process, in one case only:     *)
(* KILL_PROCESS found a free slot, because the request names the empty     *)
(* string, because the handler cleared the slot after the comparison, or   *)
(* because a PCC died between clearing the Pid and wiping the Name.        *)
BroadcastOnlyByRace ==
  pc = "sig" /\ pid = NoPid =>
    /\ op = "D"
    /\ arg = NoName \/ \E p \in Pids : pname[p] = arg /\ st[p] = "gone"

(* No SIGCHLD is lost to coalescing: with the handler installed and no     *)
(* signal pending, the only zombies left are children that died before     *)
(* signal() was called.                                                    *)
NoLostSigchld ==
  pc # "off" /\ handler /\ ~inHandler /\ ~sigPending => Zombies \subseteq early

(* Restarting is one for one: while sig_chld runs no program gets more      *)
(* processes than it had, the child in its hands counted: it starts at most *)
(* one process for each that died, and of the same program.                 *)
Instances(n) ==
  {p \in Pids : pname[p] = n /\ (st[p] \notin {"free", "gone"} \/ p = chld)}
OneForOne ==
  [][inHandler => \A n \in Names :
                    Cardinality(Instances(n)') <= Cardinality(Instances(n))]_vars

(* A slot holds the pid of a dead and reaped process in two cases only: the *)
(* handler is about to clear it, or the process was left behind by a PCC    *)
(* that died, however often PCC was started on the old segment since.       *)
StaleSlotsAreOrphans ==
  \A k \in Slots : Pid[k] # NoPid /\ st[Pid[k]] = "gone" =>
                      \/ ~own[Pid[k]]
                      \/ hpc = "clear" /\ slot = k

(* A child that dies while the handler is installed is reaped (by PCC, or  *)
(* by init after PCC ends).                                                *)
ZombiesReaped ==
  \A p \in Pids : (st[p] = "zombie" /\ p \notin early) ~> (st[p] = "gone")

(* Every request is answered, or PCC ends: no KILL_* loop or spawn loop is *)
(* kept from finishing by the signals its own kills provoke.               *)
RequestAnswered ==
  (pc \notin {"off", "serve"}) ~> (pc \in {"off", "serve"})
=============================================================================
