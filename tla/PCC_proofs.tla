----------------------------- MODULE PCC_proofs -----------------------------
(***************************************************************************)
(* Proofs about the process control centre, for every process_info, every  *)
(* pool size and every number of processes and restarts: who is restarted, *)
(* who is signalled, what is left in the pool.                             *)
(***************************************************************************)
EXTENDS PCC, TLAPS, FiniteSetTheorems

(* Pids are handed out in order: the ones not yet forked are "free".       *)
FreshPids == \A p \in Pids : st[p] = "free" <=> p >= nextPid

(* A pid in the pool belongs to a process that has registered.             *)
PoolHoldsRegistered ==
  \A k \in Slots : Pid[k] # NoPid => st[Pid[k]] \in {"reg", "zombie", "gone"}

(* A process that was signalled has registered, and its slot is down.      *)
KilledSlotsDown ==
  /\ \A p \in asked : st[p] \in {"reg", "zombie", "gone"}
  /\ \A k \in Slots : Pid[k] \in asked => UpDown[k] = "DOWN"

(* The local pid of a KILL loop is in no slot but slot i, and once         *)
(* UpDown[i] is stored that slot is down as long as it holds the pid.      *)
LocalPid ==
  /\ pc \in {"mark", "sig"} /\ pid # NoPid =>
        /\ st[pid] \in {"reg", "zombie", "gone"}
        /\ \A k \in Slots : Pid[k] = pid => k = i
  /\ pc = "sig" /\ pid # NoPid /\ Pid[i] = pid => UpDown[i] = "DOWN"

PoolInv == /\ TypeOK /\ FreshPids /\ PoolHoldsRegistered /\ PoolConsistent
           /\ KilledSlotsDown /\ LocalPid

(* The child in the hands of sig_chld is reaped, and its program's name is *)
(* the one that was copied.  Its slot holds it until it is cleared, and    *)
(* then no slot does; if the child was signalled, the slot stays down as   *)
(* long as nobody else has entered it.                                     *)
InHand ==
  /\ hpc # "wait" => st[chld] = "gone" /\ processname \in {pname[chld], NoName}
  /\ hpc = "clear" => Pid[slot] = chld
  /\ hpc \in {"wipe", "again"} =>
        /\ \A k \in Slots : Pid[k] # chld
        /\ chld \in asked /\ Pid[slot] = NoPid => UpDown[slot] = "DOWN"

(* Without a PCC process there is no handler at work.                      *)
OffIdle == pc = "off" => ~inHandler

IInv == PoolInv /\ InHand /\ OffIdle

(* A section of process_info has a program name and a number of copies.    *)
LEMMA CopiesType ==
  ASSUME NEW s \in 1..Len(Info)
  PROVE  Info[s].name \in Names /\ Copies(Info[s]) \in Nat
  <1>1. Info[s] \in Section
    BY ConstantsOK
  <1>. QED
    BY <1>1 DEF Copies, Section

(* sig_chld finds the one slot that holds a registered pid.                *)
LEMMA SlotOfRegistered ==
  ASSUME PoolConsistent, NEW p \in Registered
  PROVE  SlotOf(p) \in Slots /\ Pid[SlotOf(p)] = p
  <1>1. PICK k \in Slots : Pid[k] = p /\ p # NoPid
    BY DEF Registered
  <1>2. \A j \in Slots : Pid[j] = p => k <= j
    BY <1>1 DEF PoolConsistent, Slots
  <1>. QED
    BY <1>1, <1>2 DEF SlotOf

(* The bounds are natural numbers.                                         *)
LEMMA Bounds == /\ Len(Info) \in Nat /\ MaxProcessPool \in Nat \ {0}
                /\ MaxForks \in Nat /\ MaxStarts \in Nat
  BY ConstantsOK

(* The invariant holds before PCC is started for the first time.           *)
LEMMA InitIInv == Init => IInv
  <1>. SUFFICES ASSUME Init PROVE IInv
    OBVIOUS
  <1>1. TypeMain
    <2>1. i \in 1..(MaxProcessPool + 1) /\ sec \in 1..(Len(Info) + 1)
      BY Bounds DEF Init
    <2>. QED
      BY <2>1 DEF Init, TypeMain, MainStates, Options, AnyName
  <1>2. TypeSig
    <2>1. 1 \in Slots /\ NoPid \notin Pids
      BY Bounds DEF Slots, Pids, NoPid
    <2>. QED
      BY <2>1 DEF Init, TypeSig, AnyName
  <1>3. TypePool
    BY DEF Init, TypePool, AnyName
  <1>4. TypeProc
    BY Bounds DEF Init, TypeProc, AnyName
  <1>5. FreshPids /\ PoolHoldsRegistered /\ PoolConsistent
    BY DEF Init, FreshPids, PoolHoldsRegistered, PoolConsistent, Pids, NoPid
  <1>6. KilledSlotsDown /\ LocalPid /\ InHand /\ OffIdle
    BY DEF Init, KilledSlotsDown, LocalPid, InHand, OffIdle
  <1>. QED
    BY <1>1, <1>2, <1>3, <1>4, <1>5, <1>6 DEF IInv, PoolInv, TypeOK

USE DEF mainVars, sigVars, reapVars, poolVars, procVars, ghosts, NoPid, Main, At

(* Steps that touch neither the pool, nor a process, nor the local pid.    *)
LEMMA QuietSteps ==
  ASSUME PoolInv,
         Read_Process_Info \/ SpawnDone \/ ScanSkip \/ KillProcessDone
           \/ KillAllDone \/ SendFails \/ EnterHandler \/ LeaveHandler
  PROVE  PoolInv'
  <1>. USE DEF MainStates, Options, AnyName, Slots
  <1>0. TypeMain /\ TypeSig
    BY DEF PoolInv, TypeOK
  <1>a. ASSUME Read_Process_Info PROVE TypeMain'
    <2>1. sec \in 1..Len(Info)
      BY <1>0, <1>a, Bounds DEF TypeMain, Read_Process_Info
    <2>. QED
      BY <1>0, <1>a, <2>1, Bounds, CopiesType DEF TypeMain, Read_Process_Info
  <1>b. ASSUME SpawnDone PROVE TypeMain'
    BY <1>0, <1>b DEF TypeMain, SpawnDone
  <1>c. ASSUME ScanSkip PROVE TypeMain'
    BY <1>0, <1>c, Bounds DEF TypeMain, ScanSkip
  <1>d. ASSUME KillProcessDone \/ KillAllDone PROVE TypeMain'
    BY <1>0, <1>d DEF TypeMain, KillProcessDone, KillAllDone
  <1>e. ASSUME SendFails PROVE TypeMain'
    BY <1>0, <1>e, Bounds DEF TypeMain, SendFails
  <1>f. ASSUME EnterHandler \/ LeaveHandler PROVE TypeMain'
    BY <1>0, <1>f DEF TypeMain, EnterHandler, LeaveHandler
  <1>1. TypeMain'
    BY <1>a, <1>b, <1>c, <1>d, <1>e, <1>f
  <1>2. TypeSig'
    BY <1>0 DEF TypeSig, Read_Process_Info, SpawnDone, ScanSkip,
       KillProcessDone, KillAllDone, SendFails, EnterHandler, LeaveHandler
  <1>3. /\ UNCHANGED <<Name, Pid, UpDown, procVars, starts, asked, early>>
        /\ targets' \in {targets, {}}
        /\ pc' \in {"mark", "sig"} => UNCHANGED <<pc, pid, i>>
    BY DEF Read_Process_Info, SpawnDone, ScanSkip, KillProcessDone,
       KillAllDone, SendFails, EnterHandler, LeaveHandler
  <1>4. TypePool' /\ TypeProc'
    BY <1>3 DEF PoolInv, TypeOK, TypePool, TypeProc
  <1>5. (FreshPids /\ PoolHoldsRegistered /\ PoolConsistent)'
    BY <1>3 DEF PoolInv, FreshPids, PoolHoldsRegistered, PoolConsistent
  <1>6. KilledSlotsDown' /\ LocalPid'
    BY <1>3 DEF PoolInv, KilledSlotsDown, LocalPid
  <1>. QED
    BY <1>1, <1>2, <1>4, <1>5, <1>6 DEF PoolInv, TypeOK

(* PCC starts on a surviving or on a fresh segment.                        *)
LEMMA StartStep == ASSUME PoolInv, Start PROVE PoolInv'
  <1>1. TypeMain'
    BY Bounds DEF PoolInv, TypeOK, TypeMain, Start, MainStates, Options
  <1>2. TypeSig' /\ TypeProc'
    BY Bounds DEF PoolInv, TypeOK, TypeSig, TypeProc, Start
  <1>3. CASE shm
    <2>1. UNCHANGED <<Name, Pid, UpDown, procVars, asked>> /\ pc' = "spawn"
      BY <1>3 DEF Start
    <2>. QED
      BY <2>1, <1>1, <1>2 DEF PoolInv, TypeOK, TypePool, FreshPids,
         PoolHoldsRegistered, PoolConsistent, KilledSlotsDown, LocalPid
  <1>4. CASE ~shm
    <2>1. Init_PROCESSPOOL /\ UNCHANGED <<procVars, asked>> /\ pc' = "spawn"
      BY <1>4 DEF Start
    <2>2. TypePool'
      BY <2>1 DEF Init_PROCESSPOOL, TypePool, AnyName
    <2>3. \A k \in Slots : Pid'[k] = -1
      BY <2>1 DEF Init_PROCESSPOOL
    <2>4. -1 \notin asked
      BY DEF PoolInv, TypeOK, TypeProc, Pids
    <2>5. (FreshPids /\ PoolHoldsRegistered /\ PoolConsistent)'
      BY <2>1, <2>3 DEF PoolInv, FreshPids, PoolHoldsRegistered, PoolConsistent
    <2>6. KilledSlotsDown' /\ LocalPid'
      BY <2>1, <2>3, <2>4 DEF PoolInv, KilledSlotsDown, LocalPid
    <2>. QED
      BY <1>1, <1>2, <2>2, <2>5, <2>6 DEF PoolInv, TypeOK
  <1>. QED
    BY <1>3, <1>4

(* PCC ends; the segment keeps its contents.                               *)
LEMMA ExitStep == ASSUME PoolInv, Exit, UNCHANGED poolVars PROVE PoolInv'
  <1>1. TypeMain'
    <2>1. i' \in 1..(MaxProcessPool + 1) /\ sec' \in 1..(Len(Info) + 1)
      BY Bounds DEF Exit
    <2>. QED
      BY <2>1 DEF Exit, TypeMain, MainStates, Options, AnyName
  <1>2. TypeSig' /\ TypePool'
    <2>1. 1 \in Slots /\ NoPid \notin Pids
      BY Bounds DEF Slots, Pids
    <2>. QED
      BY <2>1 DEF PoolInv, TypeOK, TypeSig, TypePool, Exit, AnyName
  <1>3. TypeProc'
    BY DEF PoolInv, TypeOK, TypeProc, Exit
  <1>4. /\ \A p \in Pids : /\ st'[p] = "free" <=> st[p] = "free"
                           /\ st[p] \in {"reg", "zombie", "gone"} =>
                                st'[p] \in {"reg", "gone"}
        /\ asked' \subseteq asked /\ nextPid' = nextPid /\ pname' = pname
        /\ pc' = "off"
    BY DEF PoolInv, TypeOK, TypeProc, Exit
  <1>5. FreshPids' /\ PoolConsistent'
    BY <1>4 DEF PoolInv, FreshPids, PoolConsistent
  <1>6. PoolHoldsRegistered'
    BY <1>4 DEF PoolInv, TypeOK, TypePool, PoolHoldsRegistered
  <1>7. KilledSlotsDown' /\ LocalPid'
    BY <1>4 DEF PoolInv, TypeOK, TypeProc, KilledSlotsDown, LocalPid
  <1>. QED
    BY <1>1, <1>2, <1>3, <1>5, <1>6, <1>7 DEF PoolInv, TypeOK

(* A request arrives: a KILL loop starts at the first slot.                *)
LEMMA AcceptStep ==
  ASSUME PoolInv, NEW o \in {"S", "D", "A", "R", "bad"}, NEW n \in AnyName,
         o = "S" => n \in Names, Accept(o, n)
  PROVE  PoolInv'
  <1>1. TypeMain'
    <2>1. i' \in 1..(MaxProcessPool + 1) /\ sec' \in 1..(Len(Info) + 1)
      BY Bounds DEF Accept
    <2>2. pc' \in {"spawn", "scan", "reply"} /\ (pc' = "spawn" => o = "S")
      BY DEF Accept
    <2>. QED
      BY <2>1, <2>2 DEF PoolInv, TypeOK, TypeMain, Accept, MainStates, Options
  <1>2. UNCHANGED <<sigVars, poolVars, procVars, starts, asked, early>>
    BY DEF Accept
  <1>3. targets' \subseteq Pids
    BY DEF PoolInv, TypeOK, TypePool, TypeProc, Accept, Wanted, Registered
  <1>4. TypeSig' /\ TypePool' /\ TypeProc'
    BY <1>2, <1>3 DEF PoolInv, TypeOK, TypeSig, TypePool, TypeProc
  <1>5. (FreshPids /\ PoolHoldsRegistered /\ PoolConsistent /\ KilledSlotsDown)'
    BY <1>2 DEF PoolInv, FreshPids, PoolHoldsRegistered, PoolConsistent,
       KilledSlotsDown
  <1>6. LocalPid'
    BY DEF Accept, LocalPid
  <1>. QED
    BY <1>1, <1>4, <1>5, <1>6 DEF PoolInv, TypeOK

(* The steps of the KILL loops.                                            *)
LEMMA KillSteps ==
  ASSUME PoolInv, ScanHit \/ KillRead \/ KillMark \/ KillSig
  PROVE  PoolInv'
  <1>. USE DEF PoolInv, TypeOK
  <1>1. TypeMain'
    <2>1. ASSUME ScanHit PROVE TypeMain'
      BY <2>1, Bounds DEF TypeMain, TypePool, ScanHit, MainStates, Slots
    <2>2. ASSUME KillRead PROVE TypeMain'
      BY <2>2 DEF TypeMain, TypePool, KillRead, MainStates
    <2>3. ASSUME KillMark PROVE TypeMain'
      BY <2>3 DEF TypeMain, KillMark, MainStates
    <2>4. ASSUME KillSig PROVE TypeMain'
      BY <2>4, Bounds DEF TypeMain, KillSig, MainStates, Slots
    <2>. QED
      BY <2>1, <2>2, <2>3, <2>4
  <1>2. TypeSig' /\ TypePool'
    BY DEF TypeSig, TypePool, TypeMain, ScanHit, KillRead, KillMark, KillSig
  <1>3. TypeProc'
    BY DEF TypeMain, TypeProc, ScanHit, KillRead, KillMark, KillSig
  <1>4. FreshPids' /\ PoolHoldsRegistered' /\ PoolConsistent'
    BY DEF FreshPids, PoolHoldsRegistered, PoolConsistent, ScanHit, KillRead,
       KillMark, KillSig
  <1>5. KilledSlotsDown'
    <2>1. ASSUME ScanHit \/ KillRead PROVE KilledSlotsDown'
      BY <2>1 DEF KilledSlotsDown, ScanHit, KillRead
    <2>2. ASSUME KillMark PROVE KilledSlotsDown'
      BY <2>2 DEF KilledSlotsDown, KillMark, TypePool
    <2>3. ASSUME KillSig PROVE KilledSlotsDown'
      BY <2>3 DEF KilledSlotsDown, KillSig, LocalPid, TypeMain, TypePool
    <2>. QED
      BY <2>1, <2>2, <2>3
  <1>6. LocalPid'
    <2>1. ASSUME ScanHit \/ KillRead PROVE LocalPid'
      <3>1. /\ i \in Slots /\ i' = i /\ Pid' = Pid /\ st' = st
            /\ pc' = "mark" => pid' = Pid[i]
            /\ pc' # "sig"
        BY <2>1, Bounds DEF ScanHit, KillRead, TypeMain, Slots
      <3>. QED
        BY <3>1 DEF LocalPid, PoolHoldsRegistered, PoolConsistent
    <2>2. ASSUME KillMark PROVE LocalPid'
      BY <2>2 DEF LocalPid, KillMark, TypeMain, TypePool
    <2>3. ASSUME KillSig PROVE LocalPid'
      BY <2>3 DEF LocalPid, KillSig
    <2>. QED
      BY <2>1, <2>2, <2>3
  <1>. QED
    BY <1>1, <1>2, <1>3, <1>4, <1>5, <1>6

(* RESTART_PROCESS clears the pool, or dies of the NULL pointer.           *)
LEMMA RestartStep == ASSUME PoolInv, RestartDone PROVE PoolInv'
  <1>1. CASE ~VangrpAttached
    BY <1>1, ExitStep DEF RestartDone
  <1>2. CASE VangrpAttached
    <2>1. /\ Init_PROCESSPOOL /\ pc' = "spawn" /\ sec' = 1 /\ left' = 0
          /\ UNCHANGED <<op, arg, i, pid, result, flag, sigVars, shm,
                         procVars, starts, ghosts>>
      BY <1>2 DEF RestartDone
    <2>2. TypeMain'
      BY <2>1, Bounds DEF PoolInv, TypeOK, TypeMain, MainStates
    <2>3. TypeSig' /\ TypeProc'
      BY <2>1 DEF PoolInv, TypeOK, TypeSig, TypeProc
    <2>4. TypePool' /\ \A k \in Slots : Pid'[k] = -1
      BY <2>1 DEF Init_PROCESSPOOL, TypePool, AnyName
    <2>5. -1 \notin asked
      BY DEF PoolInv, TypeOK, TypeProc, Pids
    <2>6. (FreshPids /\ PoolHoldsRegistered /\ PoolConsistent)'
      BY <2>1, <2>4 DEF PoolInv, FreshPids, PoolHoldsRegistered, PoolConsistent
    <2>7. KilledSlotsDown' /\ LocalPid'
      BY <2>1, <2>4, <2>5 DEF PoolInv, KilledSlotsDown, LocalPid
    <2>. QED
      BY <2>2, <2>3, <2>4, <2>6, <2>7 DEF PoolInv, TypeOK
  <1>. QED
    BY <1>1, <1>2

(* The reply is sent, and after KILL_ALL PCC ends.                         *)
LEMMA SendOkStep == ASSUME PoolInv, SendOk PROVE PoolInv'
  <1>1. CASE flag
    BY <1>1, ExitStep DEF SendOk
  <1>2. CASE ~flag
    BY <1>2, QuietSteps DEF SendOk, SendFails
  <1>. QED
    BY <1>1, <1>2

(* A fork changes only the process it creates, which is in no slot.        *)
LEMMA RunStep == ASSUME PoolInv, RUN_PROCESS PROVE PoolInv'
  <1>. USE DEF PoolInv, TypeOK
  <1>1. TypeMain'
    BY DEF TypeMain, RUN_PROCESS
  <1>2. TypeSig' /\ TypePool'
    BY DEF TypeSig, TypePool, RUN_PROCESS
  <1>3. CASE ForkFails
    <2>1. UNCHANGED <<poolVars, procVars, starts, ghosts, pc, i, pid>>
      BY <1>3 DEF RUN_PROCESS, ForkFails
    <2>. QED
      BY <1>1, <1>2, <2>1 DEF TypeProc, FreshPids, PoolHoldsRegistered,
         PoolConsistent, KilledSlotsDown, LocalPid
  <1>4. CASE Fork(arg)
    <2>1. /\ nextPid \in Pids /\ pc' = "spawn"
          /\ UNCHANGED <<poolVars, starts, ghosts>>
      BY <1>4, Bounds DEF RUN_PROCESS, Fork, TypeProc, Pids
    <2>2. TypeProc'
      BY <1>4, <2>1, Bounds DEF Fork, TypeMain, TypeProc, Pids
    <2>3. FreshPids'
      BY <1>4, <2>1 DEF Fork, TypeProc, FreshPids, Pids
    <2>4. \A k \in Slots : Pid[k] # nextPid
      BY <2>1 DEF FreshPids, PoolHoldsRegistered, Pids
    <2>5. PoolHoldsRegistered' /\ PoolConsistent'
      BY <1>4, <2>1, <2>4 DEF Fork, TypePool, TypeProc, PoolHoldsRegistered,
         PoolConsistent
    <2>6. KilledSlotsDown' /\ LocalPid'
      BY <1>4, <2>1 DEF Fork, TypeProc, FreshPids, KilledSlotsDown, LocalPid, Pids
    <2>. QED
      BY <1>1, <1>2, <2>2, <2>3, <2>5, <2>6
  <1>. QED
    BY <1>3, <1>4 DEF RUN_PROCESS

(* A started program enters itself in a free slot.                         *)
LEMMA RegisterStep ==
  ASSUME PoolInv, NEW p \in Pids, NEW k \in Slots, Register(p, k)
  PROVE  PoolInv'
  <1>. USE DEF PoolInv, TypeOK
  <1>1. TypeMain' /\ TypeSig'
    BY DEF TypeMain, TypeSig, Register
  <1>2. TypePool' /\ TypeProc'
    BY DEF TypePool, TypeProc, Register
  <1>3. /\ st[p] = "run" /\ \A j \in Slots : Pid[j] # p
        /\ p # -1
    BY DEF Register, PoolHoldsRegistered, Pids
  <1>4. FreshPids'
    BY DEF Register, TypeProc, FreshPids
  <1>5. PoolHoldsRegistered' /\ PoolConsistent'
    BY <1>3 DEF Register, TypePool, TypeProc, PoolHoldsRegistered,
       PoolConsistent
  <1>6. LocalPid'
    BY <1>3 DEF Register, TypePool, TypeProc, TypeMain, LocalPid
  <1>7. KilledSlotsDown'
    BY <1>3 DEF Register, TypePool, TypeProc, KilledSlotsDown
  <1>. QED
    BY <1>1, <1>2, <1>4, <1>5, <1>6, <1>7

(* A process ends; its slot keeps the pid until it is reaped.              *)
LEMMA DieStep == ASSUME PoolInv, NEW p \in Pids, Die(p) PROVE PoolInv'
  <1>. USE DEF PoolInv, TypeOK
  <1>1. TypeMain' /\ TypePool'
    BY DEF TypeMain, TypePool, Die
  <1>2. TypeSig'
    BY DEF TypeSig, Die
  <1>3. TypeProc'
    BY DEF TypeProc, Die
  <1>4. /\ \A q \in Pids : /\ st'[q] = "free" <=> st[q] = "free"
                           /\ st[q] \in {"reg", "zombie", "gone"} =>
                                st'[q] \in {"reg", "zombie", "gone"}
        /\ asked' \subseteq asked
        /\ UNCHANGED <<nextPid, pname, poolVars, pc, i, pid>>
    BY DEF TypeProc, Die, Live
  <1>5. FreshPids' /\ PoolConsistent'
    BY <1>4 DEF FreshPids, PoolConsistent
  <1>6. PoolHoldsRegistered' /\ KilledSlotsDown'
    BY <1>4 DEF TypePool, TypeProc, PoolHoldsRegistered, KilledSlotsDown
  <1>7. LocalPid'
    BY <1>4 DEF TypeMain, LocalPid
  <1>. QED
    BY <1>1, <1>2, <1>3, <1>5, <1>6, <1>7

(* waitpid returns a child; a registered one is in the handler's hands     *)
(* from now on.                                                            *)
LEMMA ReapStep == ASSUME IInv, NEW p \in Pids, Reap(p) PROVE PoolInv' /\ InHand'
  <1>. USE DEF IInv, PoolInv, TypeOK
  <1>1. /\ st[p] = "zombie" /\ st' = [st EXCEPT ![p] = "gone"]
        /\ asked' \in {asked, asked \ {p}} /\ early' = early \ {p}
        /\ hpc = "wait" /\ inHandler
        /\ UNCHANGED <<mainVars, handler, inHandler, sigPending, starts, targets,
                       poolVars, pname, own, nextPid>>
    BY DEF Reap, Zombies
  <1>2. TypeMain' /\ TypePool'
    BY <1>1 DEF TypeMain, TypePool
  <1>3. TypeProc'
    BY <1>1 DEF TypeProc
  <1>4. FreshPids' /\ PoolConsistent' /\ PoolHoldsRegistered'
    BY <1>1 DEF TypeProc, TypePool, FreshPids, PoolConsistent,
       PoolHoldsRegistered
  <1>5. KilledSlotsDown' /\ LocalPid'
    BY <1>1 DEF TypeProc, TypeMain, KilledSlotsDown, LocalPid
  <1>6. TypeSig' /\ InHand'
    <2>1. CASE p \in Registered
      <3>1. SlotOf(p) \in Slots /\ Pid[SlotOf(p)] = p
        BY <2>1, SlotOfRegistered
      <3>2. /\ hpc' = "clear" /\ chld' = p /\ slot' \in Slots /\ Pid[slot'] = p
            /\ processname' = Name[slot']
        BY <2>1, <3>1 DEF Reap
      <3>3. Name[slot'] \in AnyName /\ Name[slot'] \in {pname[p], NoName} /\ p # -1
        BY <3>2 DEF TypePool, PoolConsistent, Pids
      <3>4. st'[chld'] = "gone"
        BY <1>1, <3>2 DEF TypeProc
      <3>. QED
        BY <1>1, <3>2, <3>3, <3>4 DEF TypeSig, InHand
    <2>2. CASE p \notin Registered
      <3>1. UNCHANGED reapVars
        BY <2>2 DEF Reap
      <3>. QED
        BY <1>1, <3>1 DEF TypeSig, InHand
    <2>. QED
      BY <2>1, <2>2
  <1>. QED
    BY <1>2, <1>3, <1>4, <1>5, <1>6

(* Pid[p_pool_id] = -1: the child is in no slot any more.                  *)
LEMMA ClearStep == ASSUME IInv, ClearPid PROVE PoolInv' /\ InHand'
  <1>. USE DEF IInv, PoolInv, TypeOK
  <1>1. /\ hpc = "clear" /\ hpc' = "wipe" /\ inHandler
        /\ Pid' = [Pid EXCEPT ![slot] = -1]
        /\ UNCHANGED <<mainVars, handler, inHandler, sigPending, chld, slot,
                       processname, shm, Name, UpDown, procVars, starts, ghosts>>
    BY DEF ClearPid
  <1>2. slot \in Slots /\ chld \in Pids /\ -1 \notin Pids /\ Pid[slot] = chld
    BY <1>1 DEF TypeSig, InHand, Pids
  <1>3. TypeMain' /\ TypeSig' /\ TypeProc'
    BY <1>1 DEF TypeMain, TypeSig, TypeProc
  <1>4. TypePool' /\ \A k \in Slots : Pid'[k] \in {Pid[k], -1} /\ Pid'[k] # chld
    BY <1>1, <1>2 DEF TypePool, PoolConsistent
  <1>5. FreshPids' /\ PoolHoldsRegistered' /\ PoolConsistent'
    BY <1>1, <1>4 DEF FreshPids, PoolHoldsRegistered, PoolConsistent
  <1>6. -1 \notin asked
    BY <1>2 DEF TypeProc
  <1>7. KilledSlotsDown' /\ LocalPid'
    BY <1>1, <1>4, <1>6 DEF KilledSlotsDown, LocalPid
  <1>8. InHand'
    BY <1>1, <1>2, <1>4 DEF InHand, KilledSlotsDown
  <1>. QED
    BY <1>3, <1>4, <1>5, <1>7, <1>8

(* The memset takes a name away, from nobody or from a newcomer.           *)
LEMMA WipeStep == ASSUME IInv, WipeName PROVE PoolInv' /\ InHand'
  <1>. USE DEF IInv, PoolInv, TypeOK
  <1>1. /\ hpc = "wipe" /\ hpc' = "again" /\ inHandler
        /\ Name' = [Name EXCEPT ![slot] = NoName]
        /\ UNCHANGED <<mainVars, handler, inHandler, sigPending, chld, slot,
                       processname, shm, Pid, UpDown, procVars, starts, ghosts>>
    BY DEF WipeName
  <1>2. TypeMain' /\ TypeSig' /\ TypeProc'
    BY <1>1 DEF TypeMain, TypeSig, TypeProc
  <1>3. TypePool' /\ \A k \in Slots : Name'[k] \in {Name[k], NoName}
    BY <1>1 DEF TypePool, TypeSig, AnyName
  <1>4. FreshPids' /\ PoolHoldsRegistered' /\ PoolConsistent'
    BY <1>1, <1>3 DEF FreshPids, PoolHoldsRegistered, PoolConsistent
  <1>5. KilledSlotsDown' /\ LocalPid' /\ InHand'
    BY <1>1 DEF KilledSlotsDown, LocalPid, InHand
  <1>. QED
    BY <1>2, <1>3, <1>4, <1>5

(* A fork changes only the process it creates, which was free.             *)
LEMMA ForkEffect ==
  ASSUME PoolInv, NEW n \in AnyName, Fork(n)
  PROVE  /\ nextPid \in Pids /\ st[nextPid] = "free"
         /\ st' \in [Pids -> {"free", "run", "reg", "zombie", "gone"}]
         /\ pname' \in [Pids -> AnyName] /\ own' \in [Pids -> BOOLEAN]
         /\ nextPid' \in 1..(MaxForks + 1)
         /\ FreshPids'
         /\ st'[nextPid] = "run" /\ own'[nextPid] /\ pname'[nextPid] = n
         /\ \A p \in Pids : p # nextPid =>
               st'[p] = st[p] /\ own'[p] = own[p] /\ pname'[p] = pname[p]
  <1>1. nextPid \in Pids /\ st[nextPid] = "free"
    BY Bounds DEF PoolInv, TypeOK, TypeProc, Fork, FreshPids, Pids
  <1>2. /\ st' \in [Pids -> {"free", "run", "reg", "zombie", "gone"}]
        /\ pname' \in [Pids -> AnyName] /\ own' \in [Pids -> BOOLEAN]
        /\ st'[nextPid] = "run" /\ own'[nextPid] /\ pname'[nextPid] = n
        /\ \A p \in Pids : p # nextPid =>
               st'[p] = st[p] /\ own'[p] = own[p] /\ pname'[p] = pname[p]
    BY <1>1 DEF PoolInv, TypeOK, TypeProc, Fork
  <1>3. nextPid' \in 1..(MaxForks + 1)
    BY <1>1, Bounds DEF Fork, Pids
  <1>4. FreshPids'
    BY <1>1, <1>2 DEF PoolInv, FreshPids, Fork, Pids
  <1>. QED
    BY <1>1, <1>2, <1>3, <1>4

(* The child is forgotten, and at most one process is new.                 *)
LEMMA AgainStep == ASSUME IInv, AGAIN_RUN PROVE PoolInv' /\ InHand'
  <1>. USE DEF IInv, PoolInv, TypeOK
  <1>1. /\ hpc = "again" /\ hpc' = "wait" /\ chld' = -1 /\ slot' = 1
        /\ processname' = NoName /\ inHandler /\ asked' = asked \ {chld}
        /\ UNCHANGED <<mainVars, handler, inHandler, sigPending, poolVars, starts,
                       targets, early>>
    BY DEF AGAIN_RUN
  <1>2. TypeMain' /\ TypePool'
    BY <1>1 DEF TypeMain, TypePool
  <1>3. TypeSig' /\ InHand'
    BY <1>1, Bounds DEF TypeSig, InHand, AnyName, Slots
  <1>4. CASE ForkFails
    <2>1. UNCHANGED procVars
      BY <1>4 DEF ForkFails
    <2>2. TypeProc' /\ FreshPids' /\ PoolHoldsRegistered' /\ PoolConsistent'
      BY <1>1, <2>1 DEF TypeProc, FreshPids, PoolHoldsRegistered, PoolConsistent
    <2>3. KilledSlotsDown' /\ LocalPid'
      BY <1>1, <2>1 DEF KilledSlotsDown, LocalPid
    <2>. QED
      BY <1>2, <1>3, <2>2, <2>3
  <1>5. CASE Fork(processname)
    <2>1. processname \in AnyName
      BY DEF TypeSig
    <2>2. /\ nextPid \in Pids /\ st[nextPid] = "free"
          /\ st' \in [Pids -> {"free", "run", "reg", "zombie", "gone"}]
          /\ pname' \in [Pids -> AnyName] /\ own' \in [Pids -> BOOLEAN]
          /\ nextPid' \in 1..(MaxForks + 1)
          /\ FreshPids'
          /\ \A p \in Pids : p # nextPid => st'[p] = st[p] /\ pname'[p] = pname[p]
      BY <1>5, <2>1, ForkEffect
    <2>3. TypeProc'
      BY <1>1, <2>2 DEF TypeProc
    <2>4. \A k \in Slots : Pid[k] # nextPid
      BY <2>2 DEF PoolHoldsRegistered, Pids
    <2>5. PoolHoldsRegistered' /\ PoolConsistent'
      BY <1>1, <2>2, <2>4 DEF TypePool, PoolHoldsRegistered, PoolConsistent
    <2>6. KilledSlotsDown'
      BY <1>1, <2>2 DEF TypeProc, KilledSlotsDown
    <2>7. LocalPid'
      BY <1>1, <2>2 DEF TypeMain, LocalPid
    <2>. QED
      BY <1>2, <1>3, <2>2, <2>3, <2>5, <2>6, <2>7
  <1>. QED
    BY <1>4, <1>5 DEF AGAIN_RUN

(* What is in the hands of the handler stays so while the programs go on,  *)
(* and outside the handler nothing is.                                     *)
LEMMA InHandStays ==
  ASSUME IInv, \/ UNCHANGED reapVars /\ ~inHandler
               \/ LeaveHandler
               \/ Exit
               \/ \E p \in Pids, k \in Slots : Register(p, k)
               \/ \E p \in Pids : Die(p)
               \/ UNCHANGED vars
  PROVE  InHand'
  <1>. USE DEF IInv, PoolInv, TypeOK
  <1>1. CASE hpc' = "wait"
    BY <1>1 DEF InHand
  <1>2. CASE hpc' # "wait"
    <2>1. UNCHANGED reapVars /\ inHandler
      BY <1>2 DEF TypeSig, LeaveHandler, Exit, Register, Die, vars
    <2>2. chld \in Pids /\ slot \in Slots /\ st[chld] = "gone" /\ chld # -1
      BY <1>2, <2>1 DEF TypeSig, InHand, Pids
    <2>3. ASSUME NEW p \in Pids, NEW k \in Slots, Register(p, k) PROVE InHand'
      <3>1. /\ st[p] = "run" /\ Pid[k] = -1 /\ st' = [st EXCEPT ![p] = "reg"]
            /\ Pid' = [Pid EXCEPT ![k] = p]
            /\ UNCHANGED <<pname, asked>>
            /\ \A j \in Slots : j # k => UpDown'[j] = UpDown[j]
        BY <2>3 DEF Register, TypePool
      <3>2. p # chld /\ st'[chld] = "gone" /\ p # -1
        BY <2>2, <3>1 DEF TypeProc, Pids
      <3>3. \A j \in Slots : Pid'[j] = IF j = k THEN p ELSE Pid[j]
        BY <3>1 DEF TypePool
      <3>4. hpc = "clear" => slot # k
        BY <2>2, <3>1 DEF InHand
      <3>. QED
        BY <2>1, <2>2, <3>1, <3>2, <3>3, <3>4 DEF InHand
    <2>4. ASSUME NEW p \in Pids, Die(p) PROVE InHand'
      <3>1. /\ st'[chld] = "gone" /\ asked' \subseteq asked
            /\ UNCHANGED <<poolVars, pname>>
        BY <2>2, <2>4 DEF Die, Live, TypeProc
      <3>. QED
        BY <2>1, <2>2, <3>1 DEF InHand
    <2>5. CASE UNCHANGED vars
      BY <2>5 DEF vars, InHand
    <2>6. ~LeaveHandler /\ ~Exit
      BY <1>2, <2>1 DEF LeaveHandler, Exit
    <2>. QED
      BY <2>1, <2>3, <2>4, <2>5, <2>6
  <1>. QED
    BY <1>1, <1>2

(* The handler only runs in a PCC process, and ends with it.               *)
LEMMA OffIdleStep == ASSUME IInv, [Next]_vars PROVE OffIdle'
  <1>1. CASE Exit
    BY <1>1 DEF Exit, OffIdle
  <1>2. CASE EnterHandler \/ LeaveHandler
    BY <1>2 DEF EnterHandler, LeaveHandler, OffIdle, IInv
  <1>3. ASSUME ~Exit, ~EnterHandler, ~LeaveHandler PROVE OffIdle'
    <2>1. ASSUME MainStep \/ Start \/ Request PROVE inHandler' = inHandler /\ pc' # "off"
      BY <1>3, <2>1 DEF MainStep, Read_Process_Info, RUN_PROCESS, SpawnDone, ScanSkip,
         ScanHit, KillRead, KillMark, KillSig, KillProcessDone, KillAllDone,
         RestartDone, SendOk, SendFails, Start, Request, Accept
    <2>2. ASSUME \/ \E p \in Pids : Reap(p) \/ Die(p)
                 \/ \E p \in Pids, k \in Slots : Register(p, k)
                 \/ ClearPid \/ WipeName \/ AGAIN_RUN \/ UNCHANGED vars
          PROVE  inHandler' = inHandler /\ pc' = pc
      BY <2>2 DEF Reap, Die, Register, ClearPid, WipeName, AGAIN_RUN, vars
    <2>. QED
      BY <1>3, <2>1, <2>2 DEF Next, HandlerStep, Crash, OffIdle, IInv
  <1>. QED
    BY <1>1, <1>2, <1>3

(* Every step preserves the invariant, one case per action.                *)
LEMMA IInvStep == IInv /\ [Next]_vars => IInv'
  <1>. SUFFICES ASSUME IInv, [Next]_vars PROVE IInv'
    OBVIOUS
  <1>0. PoolInv
    BY DEF IInv
  <1>1. ASSUME Start \/ Crash PROVE IInv'
    <2>1. PoolInv'
      BY <1>0, <1>1, StartStep, ExitStep DEF Crash
    <2>2. \/ UNCHANGED reapVars /\ ~inHandler
          \/ Exit
      BY <1>1 DEF Start, Crash, IInv, OffIdle
    <2>. QED
      BY <2>1, <2>2, InHandStays, OffIdleStep DEF IInv
  <1>2. ASSUME Request PROVE IInv'
    <2>1. PoolInv'
      BY <1>0, <1>2, AcceptStep DEF Request, AnyName
    <2>2. UNCHANGED reapVars /\ ~inHandler
      BY <1>2 DEF Request, Accept
    <2>. QED
      BY <2>1, <2>2, InHandStays, OffIdleStep DEF IInv
  <1>3. ASSUME MainStep PROVE IInv'
    <2>1. PoolInv'
      BY <1>0, <1>3, QuietSteps, KillSteps, RestartStep, SendOkStep, RunStep
         DEF MainStep
    <2>2. (UNCHANGED reapVars /\ ~inHandler) \/ Exit
      BY <1>3 DEF MainStep, Read_Process_Info, RUN_PROCESS, SpawnDone, ScanSkip,
         ScanHit, KillRead, KillMark, KillSig, KillProcessDone, KillAllDone,
         RestartDone, SendOk, SendFails
    <2>. QED
      BY <2>1, <2>2, InHandStays, OffIdleStep DEF IInv
  <1>4. ASSUME EnterHandler \/ LeaveHandler PROVE IInv'
    <2>1. PoolInv'
      BY <1>0, <1>4, QuietSteps
    <2>2. (UNCHANGED reapVars /\ ~inHandler) \/ LeaveHandler
      BY <1>4 DEF EnterHandler
    <2>. QED
      BY <2>1, <2>2, InHandStays, OffIdleStep DEF IInv
  <1>5. ASSUME NEW p \in Pids, Reap(p) PROVE IInv'
    BY <1>5, ReapStep, OffIdleStep DEF IInv
  <1>6. ASSUME ClearPid \/ WipeName \/ AGAIN_RUN PROVE IInv'
    BY <1>6, ClearStep, WipeStep, AgainStep, OffIdleStep DEF IInv
  <1>7. ASSUME NEW p \in Pids, NEW k \in Slots, Register(p, k) PROVE IInv'
    <2>1. PoolInv'
      BY <1>0, <1>7, RegisterStep
    <2>. QED
      BY <1>7, <2>1, InHandStays, OffIdleStep DEF IInv
  <1>8. ASSUME NEW p \in Pids, Die(p) PROVE IInv'
    <2>1. PoolInv'
      BY <1>0, <1>8, DieStep
    <2>. QED
      BY <1>8, <2>1, InHandStays, OffIdleStep DEF IInv
  <1>9. ASSUME UNCHANGED vars PROVE IInv'
    <2>1. PoolInv'
      BY <1>0, <1>9 DEF vars, PoolInv, TypeOK, TypeMain, TypeSig, TypePool, TypeProc,
         FreshPids, PoolHoldsRegistered, PoolConsistent, KilledSlotsDown, LocalPid
    <2>. QED
      BY <1>9, <2>1, InHandStays, OffIdleStep DEF IInv
  <1>. QED
    BY <1>1, <1>2, <1>3, <1>4, <1>5, <1>6, <1>7, <1>8, <1>9 DEF Next, HandlerStep

(* The variables of pcc.c keep their types in every behaviour: the KILL    *)
(* loops index the pool inside its bounds whatever sig_chld interrupts.    *)
THEOREM PccTypeCorrect == Spec => []TypeOK
  <1>1. IInv => TypeOK
    BY DEF IInv, PoolInv
  <1>. QED
    BY <1>1, InitIInv, IInvStep, PTL DEF Spec

(* Across crashes, restarts and races with sig_chld every pid is in at     *)
(* most one slot of the process pool, under the name of its program or,    *)
(* when the handler wiped the name of a newcomer, under none.              *)
THEOREM PccPoolConsistent == Spec => []PoolConsistent
  <1>1. IInv => PoolConsistent
    BY DEF IInv, PoolInv
  <1>. QED
    BY <1>1, InitIInv, IInvStep, PTL DEF Spec

(* sig_chld starts a process that a KILL loop signalled again only if      *)
(* another program took the slot between the two.                          *)
THEOREM PccKilledRestartedOnlyByRace == Spec => KilledRestartedOnlyByRace
  <1>. DEFINE A == inHandler /\ chld \in asked /\ nextPid' # nextPid => Pid[slot] # NoPid
  <1>1. ASSUME IInv, [Next]_vars PROVE [A]_vars
    <2>. SUFFICES ASSUME Next, inHandler, chld \in asked, nextPid' # nextPid
                  PROVE  Pid[slot] # -1
      BY <1>1
    <2>1. CASE AGAIN_RUN
      <3>1. hpc = "again" /\ UpDown[slot] = "UP"
        BY <2>1 DEF AGAIN_RUN, ForkFails
      <3>. QED
        BY <1>1, <3>1 DEF IInv, InHand
    <2>2. ASSUME \/ Start \/ Crash \/ Request \/ EnterHandler \/ LeaveHandler
                 \/ (\E p \in Pids : Reap(p)) \/ ClearPid \/ WipeName
                 \/ \E p \in Pids, k \in Slots : Register(p, k)
                 \/ \E p \in Pids : Die(p)
          PROVE  nextPid' = nextPid
      BY <2>2 DEF Start, Crash, Exit, Request, Accept, EnterHandler, LeaveHandler,
         Reap, ClearPid, WipeName, Register, Die
    <2>3. ~MainStep
      BY DEF MainStep, Read_Process_Info, RUN_PROCESS, SpawnDone, ScanSkip, ScanHit,
         KillRead, KillMark, KillSig, KillProcessDone, KillAllDone, RestartDone,
         SendOk, SendFails
    <2>. QED
      BY <2>1, <2>2, <2>3 DEF Next, HandlerStep
  <1>. QED
    BY <1>1, InitIInv, IInvStep, PTL DEF Spec, KilledRestartedOnlyByRace
-----------------------------------------------------------------------------
(* What waitpid does to the processes.                                     *)
LEMMA ReapEffect ==
  ASSUME NEW q \in Pids, Reap(q)
  PROVE  /\ inHandler /\ hpc = "wait" /\ st[q] = "zombie" /\ own[q]
         /\ st' = [st EXCEPT ![q] = "gone"] /\ early' = early \ {q}
         /\ \A p \in asked : p # q => p \in asked'
         /\ UNCHANGED <<mainVars, handler, inHandler, sigPending, poolVars, starts,
                        targets, pname, own, nextPid>>
  BY DEF Reap, Zombies

(* What AGAIN_RUN_* does to the processes once the slot is cleared.        *)
LEMMA AgainEffect ==
  ASSUME IInv, AGAIN_RUN
  PROVE  /\ inHandler /\ hpc = "again" /\ st[chld] = "gone" /\ hpc' = "wait"
         /\ UNCHANGED <<mainVars, handler, inHandler, sigPending, poolVars, starts,
                        targets, early>>
         /\ \A p \in asked : st[p] # "gone" => p \in asked'
         /\ \A p \in Pids :
              \/ st'[p] = st[p] /\ own'[p] = own[p] /\ pname'[p] = pname[p]
              \/ st[p] = "free" /\ st'[p] = "run" /\ own'[p]
  <1>1. /\ inHandler /\ hpc = "again" /\ st[chld] = "gone" /\ hpc' = "wait"
        /\ UNCHANGED <<mainVars, handler, inHandler, sigPending, poolVars, starts,
                       targets, early>>
        /\ \A p \in asked : st[p] # "gone" => p \in asked'
    BY DEF IInv, InHand, AGAIN_RUN
  <1>2. CASE ForkFails
    BY <1>1, <1>2 DEF ForkFails
  <1>3. CASE Fork(processname)
    <2>1. processname \in AnyName
      BY DEF IInv, PoolInv, TypeOK, TypeSig
    <2>. QED
      BY <1>1, <1>3, <2>1, ForkEffect DEF IInv
  <1>. QED
    BY <1>2, <1>3 DEF AGAIN_RUN

(* What a fork of RUN_PROCESS does to the processes.                       *)
LEMMA RunEffect ==
  ASSUME IInv, RUN_PROCESS
  PROVE  /\ pc = "spawn" /\ ~inHandler
         /\ UNCHANGED <<pc, op, arg, i, pid, sec, sigVars, poolVars, starts, ghosts>>
         /\ \A p \in Pids :
              \/ st'[p] = st[p] /\ own'[p] = own[p] /\ pname'[p] = pname[p]
              \/ st[p] = "free" /\ st'[p] = "run" /\ own'[p]
  <1>1. /\ st \in [Pids -> {"free", "run", "reg", "zombie", "gone"}]
        /\ own \in [Pids -> BOOLEAN] /\ pname \in [Pids -> AnyName]
    BY DEF IInv, PoolInv, TypeOK, TypeProc
  <1>2. nextPid <= MaxForks => nextPid \in Pids /\ st[nextPid] = "free"
    BY Bounds DEF IInv, PoolInv, TypeOK, TypeProc, Pids, FreshPids
  <1>3. CASE ForkFails
    BY <1>3 DEF RUN_PROCESS, ForkFails
  <1>4. CASE Fork(arg)
    BY <1>1, <1>2, <1>4 DEF RUN_PROCESS, Fork
  <1>. QED
    BY <1>3, <1>4 DEF RUN_PROCESS

(* The handler is only there while PCC is, all children are PCC's while it *)
(* is, and with the handler at rest and no signal to come the zombies are  *)
(* the ones it was installed too late for.                                 *)
SigInv ==
  /\ ~handler => ~inHandler /\ ~sigPending
  /\ pc = "off" => ~handler /\ \A p \in Pids : ~own[p]
  /\ ~inHandler /\ ~sigPending => \A p \in Pids : st[p] = "zombie" /\ own[p] => p \in early

(* Every step preserves SigInv.                                            *)
LEMMA SigInvStep == IInv /\ SigInv /\ [Next]_vars => SigInv'
  <1>. SUFFICES ASSUME IInv, SigInv, [Next]_vars PROVE SigInv'
    OBVIOUS
  <1>0. /\ st \in [Pids -> {"free", "run", "reg", "zombie", "gone"}]
        /\ own \in [Pids -> BOOLEAN]
        /\ handler \in BOOLEAN /\ inHandler \in BOOLEAN /\ sigPending \in BOOLEAN
    BY DEF IInv, PoolInv, TypeOK, TypeProc, TypeSig
  <1>1. ASSUME Start PROVE SigInv'
    BY <1>1 DEF SigInv, Start
  <1>2. ASSUME Exit PROVE SigInv'
    BY <1>0, <1>2 DEF SigInv, Exit
  <1>3. ASSUME Request PROVE SigInv'
    <2>1. /\ pc = "serve" /\ pc' # "off"
          /\ UNCHANGED <<sigVars, procVars, early>>
      BY <1>3 DEF Request, Accept
    <2>. QED
      BY <2>1 DEF SigInv
  <1>4. ASSUME RUN_PROCESS PROVE SigInv'
    BY <1>4, RunEffect DEF SigInv
  <1>5. ASSUME SpawnDone PROVE SigInv'
    BY <1>5 DEF SigInv, SpawnDone
  <1>6. ASSUME \/ Read_Process_Info \/ ScanSkip \/ ScanHit \/ KillRead \/ KillMark
               \/ KillSig \/ KillProcessDone \/ KillAllDone \/ SendFails
        PROVE  SigInv'
    <2>1. pc' # "off" /\ UNCHANGED <<sigVars, procVars, early>>
      BY <1>6 DEF Read_Process_Info, ScanSkip, ScanHit, KillRead, KillMark, KillSig,
         KillProcessDone, KillAllDone, SendFails
    <2>. QED
      BY <2>1 DEF SigInv
  <1>7. ASSUME RestartDone \/ SendOk PROVE SigInv'
    <2>1. Exit \/ (pc' # "off" /\ UNCHANGED <<sigVars, procVars, early>>)
      BY <1>7 DEF RestartDone, SendOk
    <2>. QED
      BY <1>2, <2>1 DEF SigInv
  <1>8. ASSUME EnterHandler \/ LeaveHandler PROVE SigInv'
    BY <1>8 DEF SigInv, EnterHandler, LeaveHandler, Zombies
  <1>9. ASSUME \/ \E q \in Pids : Reap(q)
               \/ ClearPid \/ WipeName \/ AGAIN_RUN
        PROVE  SigInv'
    <2>1. ASSUME NEW q \in Pids, Reap(q) PROVE SigInv'
      BY <1>0, <2>1, ReapEffect DEF SigInv
    <2>2. ASSUME ClearPid \/ WipeName PROVE SigInv'
      BY <2>2 DEF SigInv, ClearPid, WipeName
    <2>3. ASSUME AGAIN_RUN PROVE SigInv'
      BY <2>3, AgainEffect DEF SigInv
    <2>. QED
      BY <1>9, <2>1, <2>2, <2>3
  <1>10. ASSUME NEW p \in Pids, NEW k \in Slots, Register(p, k) PROVE SigInv'
    BY <1>0, <1>10 DEF SigInv, Register
  <1>11. ASSUME NEW p \in Pids, Die(p) PROVE SigInv'
    BY <1>0, <1>11 DEF SigInv, Die
  <1>12. ASSUME UNCHANGED vars PROVE SigInv'
    BY <1>12 DEF vars, SigInv
  <1>. QED
    BY <1>1, <1>2, <1>3, <1>4, <1>5, <1>6, <1>7, <1>8, <1>9, <1>10, <1>11, <1>12
       DEF Next, Crash, MainStep, HandlerStep

(* With the handler installed and at rest, and no SIGCHLD pending, every   *)
(* zombie of PCC died before signal() was called.                          *)
THEOREM PccNoLostSigchld == Spec => []NoLostSigchld
  <1>1. Init => SigInv
    BY DEF Init, SigInv
  <1>2. SigInv => NoLostSigchld
    BY DEF SigInv, NoLostSigchld, Zombies
  <1>. QED
    BY <1>1, <1>2, InitIInv, IInvStep, SigInvStep, PTL DEF Spec

(* Every step keeps the pids of processes that are gone out of the pool,   *)
(* but for the child the handler is about to clear and those of a PCC that *)
(* died.                                                                   *)
LEMMA StaleStep ==
  IInv /\ StaleSlotsAreOrphans /\ [Next]_vars => StaleSlotsAreOrphans'
  <1>. SUFFICES ASSUME IInv, StaleSlotsAreOrphans, [Next]_vars
                PROVE  StaleSlotsAreOrphans'
    OBVIOUS
  <1>. DEFINE Same == \A p \in Pids : st[p] \in {"reg", "zombie", "gone"} =>
                                       st'[p] = st[p] /\ own'[p] = own[p]
  <1>0. /\ st \in [Pids -> {"free", "run", "reg", "zombie", "gone"}]
        /\ own \in [Pids -> BOOLEAN]
        /\ Pid \in [Slots -> Pids \cup {-1}] /\ -1 \notin Pids
        /\ \A k \in Slots : Pid[k] # -1 => st[Pid[k]] \in {"reg", "zombie", "gone"}
    BY DEF IInv, PoolInv, TypeOK, TypeProc, TypePool, PoolHoldsRegistered, Pids
  <1>1. ASSUME Same, \A k \in Slots : Pid'[k] \in {Pid[k], -1},
               \/ hpc # "clear"
               \/ UNCHANGED <<hpc, slot>>
               \/ Pid'[slot] = -1
        PROVE  StaleSlotsAreOrphans'
    BY <1>0, <1>1 DEF StaleSlotsAreOrphans
  <1>. HIDE DEF Same
  <1>2. ASSUME ~inHandler PROVE hpc # "clear"
    BY <1>2 DEF IInv, PoolInv, TypeOK, TypeSig
  <1>3. ASSUME Start PROVE StaleSlotsAreOrphans'
    <2>1. UNCHANGED <<procVars, hpc, slot>> /\ (UNCHANGED Pid \/ Init_PROCESSPOOL)
      BY <1>3 DEF Start
    <2>. QED
      BY <1>1, <2>1 DEF Init_PROCESSPOOL, Same
  <1>4. ASSUME Exit PROVE StaleSlotsAreOrphans'
    <2>1. \A k \in Slots : Pid'[k] \in Pids \cup {-1}
      BY IInvStep DEF IInv, PoolInv, TypeOK, TypePool
    <2>. QED
      BY <1>4, <2>1 DEF Exit, StaleSlotsAreOrphans
  <1>5. ASSUME Request PROVE StaleSlotsAreOrphans'
    <2>1. UNCHANGED <<procVars, hpc, slot, Pid>>
      BY <1>5 DEF Request, Accept
    <2>. QED
      BY <1>1, <2>1 DEF Same
  <1>6. ASSUME RUN_PROCESS PROVE StaleSlotsAreOrphans'
    <2>1. UNCHANGED <<hpc, slot, Pid>> /\ Same
      BY <1>6, RunEffect DEF IInv, Same
    <2>. QED
      BY <1>1, <2>1
  <1>7. ASSUME \/ Read_Process_Info \/ SpawnDone \/ ScanSkip \/ ScanHit \/ KillRead
               \/ KillMark \/ KillSig \/ KillProcessDone \/ KillAllDone \/ SendFails
               \/ EnterHandler \/ LeaveHandler \/ UNCHANGED vars
        PROVE  StaleSlotsAreOrphans'
    <2>1. UNCHANGED <<Pid, procVars, hpc, slot>>
      BY <1>7 DEF Read_Process_Info, SpawnDone, ScanSkip, ScanHit, KillRead, KillMark,
         KillSig, KillProcessDone, KillAllDone, SendFails, EnterHandler, LeaveHandler, vars
    <2>. QED
      BY <1>1, <2>1 DEF Same
  <1>8. ASSUME RestartDone \/ SendOk PROVE StaleSlotsAreOrphans'
    <2>1. \/ Exit
          \/ /\ UNCHANGED <<procVars, hpc, slot>>
             /\ UNCHANGED Pid \/ Init_PROCESSPOOL
      BY <1>8 DEF RestartDone, SendOk
    <2>. QED
      BY <1>1, <1>4, <2>1 DEF Init_PROCESSPOOL, Same
  <1>9. ASSUME NEW q \in Pids, Reap(q) PROVE StaleSlotsAreOrphans'
    <2>1. /\ hpc = "wait" /\ UNCHANGED <<Pid, own>>
          /\ \A p \in Pids : p # q => st'[p] = st[p]
      BY <1>0, <1>9, ReapEffect
    <2>2. CASE q \in Registered
      <3>1. Pid[SlotOf(q)] = q /\ SlotOf(q) \in Slots
        BY <2>2, SlotOfRegistered DEF IInv, PoolInv
      <3>2. hpc' = "clear" /\ slot' = SlotOf(q)
        BY <1>9, <2>2 DEF Reap
      <3>3. \A k \in Slots : Pid[k] = q => k = slot'
        BY <1>0, <3>1, <3>2 DEF IInv, PoolInv, PoolConsistent
      <3>. QED
        BY <1>0, <2>1, <3>2, <3>3 DEF StaleSlotsAreOrphans
    <2>3. CASE q \notin Registered
      <3>1. \A k \in Slots : Pid[k] # q
        BY <1>0, <2>3 DEF Registered
      <3>. QED
        BY <1>0, <2>1, <3>1 DEF StaleSlotsAreOrphans
    <2>. QED
      BY <2>2, <2>3
  <1>10. ASSUME ClearPid \/ WipeName PROVE StaleSlotsAreOrphans'
    <2>1. slot \in Slots
      BY DEF IInv, PoolInv, TypeOK, TypeSig
    <2>2. CASE ClearPid
      <3>1. UNCHANGED procVars /\ Pid' = [Pid EXCEPT ![slot] = -1]
        BY <2>2 DEF ClearPid
      <3>. QED
        BY <1>0, <1>1, <2>1, <3>1 DEF Same
    <2>3. CASE WipeName
      <3>1. UNCHANGED <<procVars, Pid>> /\ hpc # "clear"
        BY <2>3 DEF WipeName
      <3>. QED
        BY <1>1, <3>1 DEF Same
    <2>. QED
      BY <1>10, <2>2, <2>3
  <1>11. ASSUME AGAIN_RUN PROVE StaleSlotsAreOrphans'
    <2>1. UNCHANGED Pid /\ hpc # "clear" /\ Same
      BY <1>11, AgainEffect DEF Same
    <2>. QED
      BY <1>1, <2>1
  <1>12. ASSUME NEW p \in Pids, NEW k \in Slots, Register(p, k)
         PROVE  StaleSlotsAreOrphans'
    <2>1. /\ UNCHANGED <<own, hpc, slot>> /\ st[p] = "run" /\ Pid[k] = -1
          /\ st' = [st EXCEPT ![p] = "reg"] /\ Pid' = [Pid EXCEPT ![k] = p]
      BY <1>12 DEF Register
    <2>. QED
      BY <1>0, <2>1 DEF StaleSlotsAreOrphans
  <1>13. ASSUME NEW p \in Pids, Die(p) PROVE StaleSlotsAreOrphans'
    <2>1. /\ UNCHANGED <<own, Pid, hpc, slot>>
          /\ st' = [st EXCEPT ![p] = IF own[p] THEN "zombie" ELSE "gone"]
      BY <1>13 DEF Die
    <2>. QED
      BY <1>0, <2>1 DEF StaleSlotsAreOrphans
  <1>. QED
    BY <1>3, <1>4, <1>5, <1>6, <1>7, <1>8, <1>9, <1>10, <1>11, <1>12, <1>13
       DEF Next, Crash, MainStep, HandlerStep

(* However often PCC dies and is started again on the old segment: the     *)
(* only reaped processes in the pool are those of a PCC that died, and the *)
(* one the handler is just dealing with.                                   *)
THEOREM PccStaleSlotsAreOrphans == Spec => []StaleSlotsAreOrphans
  <1>1. Init => StaleSlotsAreOrphans
    BY DEF Init, StaleSlotsAreOrphans
  <1>. QED
    BY <1>1, InitIInv, IInvStep, StaleStep, PTL DEF Spec

(* A free slot has no name, or still that of a process that was reaped.    *)
FreeSlotsReaped ==
  \A k \in Slots : Pid[k] = -1 /\ Name[k] # NoName =>
                      \E p \in Pids : st[p] = "gone" /\ pname[p] = Name[k]

(* The name of the request is the empty string, or that of a process that  *)
(* was reaped.                                                             *)
ArgReaped == arg = NoName \/ \E p \in Pids : st[p] = "gone" /\ pname[p] = arg

(* A KILL loop is about to read a slot, or has read it, without a pid only *)
(* for KILL_PROCESS and such a name; the handler cannot take a name away   *)
(* from the slot that was compared before it took the process.             *)
BroadcastInv ==
  /\ FreeSlotsReaped
  /\ pc = "read" => op = "D" /\ (ArgReaped \/ (Pid[i] # -1 /\ Name[i] = arg))
  /\ pc = "read" /\ hpc = "wipe" /\ slot = i => ArgReaped
  /\ pc \in {"mark", "sig"} /\ pid = -1 => op = "D" /\ ArgReaped

(* A process that is gone keeps its name and stays gone.                   *)
LEMMA GoneStays ==
  ASSUME IInv, [Next]_vars, NEW p \in Pids, st[p] = "gone"
  PROVE  st'[p] = "gone" /\ pname'[p] = pname[p]
  <1>0. /\ st \in [Pids -> {"free", "run", "reg", "zombie", "gone"}]
        /\ pname \in [Pids -> AnyName]
    BY DEF IInv, PoolInv, TypeOK, TypeProc
  <1>1. ASSUME Start \/ Crash \/ Request \/ EnterHandler \/ LeaveHandler
        PROVE  st'[p] = "gone" /\ pname'[p] = pname[p]
    BY <1>0, <1>1 DEF Start, Crash, Exit, Request, Accept, EnterHandler, LeaveHandler
  <1>2. ASSUME RUN_PROCESS PROVE st'[p] = "gone" /\ pname'[p] = pname[p]
    BY <1>2, RunEffect
  <1>3. ASSUME MainStep, ~RUN_PROCESS PROVE st'[p] = "gone" /\ pname'[p] = pname[p]
    BY <1>0, <1>3 DEF MainStep, Read_Process_Info, SpawnDone, ScanSkip, ScanHit,
       KillRead, KillMark, KillSig, KillProcessDone, KillAllDone, RestartDone,
       SendOk, SendFails, Exit
  <1>4. ASSUME \/ \E q \in Pids : Reap(q)
               \/ ClearPid \/ WipeName \/ AGAIN_RUN
        PROVE  st'[p] = "gone" /\ pname'[p] = pname[p]
    <2>1. ASSUME NEW q \in Pids, Reap(q) PROVE st'[p] = "gone" /\ pname'[p] = pname[p]
      BY <1>0, <2>1, ReapEffect
    <2>2. ASSUME ClearPid \/ WipeName PROVE st'[p] = "gone" /\ pname'[p] = pname[p]
      BY <2>2 DEF ClearPid, WipeName
    <2>3. ASSUME AGAIN_RUN PROVE st'[p] = "gone" /\ pname'[p] = pname[p]
      BY <2>3, AgainEffect
    <2>. QED
      BY <1>4, <2>1, <2>2, <2>3
  <1>5. ASSUME NEW q \in Pids, Die(q) \/ \E k \in Slots : Register(q, k)
        PROVE  st'[p] = "gone" /\ pname'[p] = pname[p]
    BY <1>0, <1>5 DEF Register, Die, Live
  <1>6. ASSUME UNCHANGED vars PROVE st'[p] = "gone" /\ pname'[p] = pname[p]
    BY <1>6 DEF vars
  <1>. QED
    BY <1>1, <1>2, <1>3, <1>4, <1>5, <1>6 DEF Next, HandlerStep

(* A name that was reaped stays one as long as the request is served.      *)
LEMMA ArgReapedStays ==
  ASSUME IInv, [Next]_vars, arg' = arg, ArgReaped
  PROVE  ArgReaped'
  BY GoneStays DEF ArgReaped

(* Every step preserves BroadcastInv.                                      *)
LEMMA BroadcastInvStep == IInv /\ BroadcastInv /\ [Next]_vars => BroadcastInv'
  <1>. SUFFICES ASSUME IInv, BroadcastInv, [Next]_vars PROVE BroadcastInv'
    OBVIOUS
  <1>0. /\ st \in [Pids -> {"free", "run", "reg", "zombie", "gone"}]
        /\ Pid \in [Slots -> Pids \cup {-1}] /\ Name \in [Slots -> AnyName]
        /\ -1 \notin Pids
        /\ pc \in {"read", "mark", "sig"} => i \in Slots
        /\ slot \in Slots /\ (hpc # "wait" => chld \in Pids)
        /\ ~inHandler => hpc # "wipe"
    BY DEF IInv, PoolInv, TypeOK, TypeMain, TypeSig, TypeProc, TypePool, Pids
  <1>a. FreeSlotsReaped
    BY DEF BroadcastInv
  <1>b. ArgReaped /\ arg' = arg => ArgReaped'
    BY ArgReapedStays
  <1>c. ASSUME \A k \in Slots : Pid'[k] = -1 =>
                  \/ Pid[k] = -1 /\ Name'[k] = Name[k]
                  \/ Name'[k] = NoName
        PROVE  FreeSlotsReaped'
    <2>. SUFFICES ASSUME NEW k \in Slots, Pid'[k] = -1, Name'[k] # NoName
                  PROVE  \E p \in Pids : st'[p] = "gone" /\ pname'[p] = Name'[k]
      BY DEF FreeSlotsReaped
    <2>1. Pid[k] = -1 /\ Name'[k] = Name[k] /\ Name[k] # NoName
      BY <1>c
    <2>2. PICK p \in Pids : st[p] = "gone" /\ pname[p] = Name[k]
      BY <1>a, <2>1 DEF FreeSlotsReaped
    <2>3. st'[p] = "gone" /\ pname'[p] = pname[p]
      BY <2>2, GoneStays
    <2>. QED
      BY <2>1, <2>2, <2>3
  <1>d. ASSUME UNCHANGED <<Pid, Name>> PROVE FreeSlotsReaped'
    BY <1>c, <1>d
  <1>1. ASSUME FreeSlotsReaped', pc' \notin {"read", "mark", "sig"}
        PROVE  BroadcastInv'
    BY <1>1 DEF BroadcastInv
  <1>2. ASSUME UNCHANGED <<pc, op, arg, i, pid, Pid, Name>>, hpc' # "wipe"
        PROVE  BroadcastInv'
    BY <1>2, <1>b, <1>d DEF BroadcastInv
  <1>3. ASSUME Start PROVE BroadcastInv'
    <2>1. pc' = "spawn" /\ (UNCHANGED <<Pid, Name>> \/ Init_PROCESSPOOL)
      BY <1>3 DEF Start
    <2>2. FreeSlotsReaped'
      BY <1>c, <2>1 DEF Init_PROCESSPOOL
    <2>. QED
      BY <1>1, <2>1, <2>2
  <1>4. ASSUME Exit, UNCHANGED poolVars PROVE BroadcastInv'
    BY <1>1, <1>4, <1>d DEF Exit
  <1>5. ASSUME \/ Request \/ Read_Process_Info \/ RUN_PROCESS \/ SpawnDone \/ ScanSkip
               \/ KillSig \/ KillProcessDone \/ KillAllDone \/ SendFails
        PROVE  BroadcastInv'
    <2>1. pc' \notin {"read", "mark", "sig"} /\ UNCHANGED <<Pid, Name>>
      BY <1>5 DEF Request, Accept, Read_Process_Info, RUN_PROCESS, SpawnDone, ScanSkip,
         KillSig, KillProcessDone, KillAllDone, SendFails
    <2>. QED
      BY <1>1, <1>d, <2>1
  <1>6. ASSUME RestartDone PROVE BroadcastInv'
    <2>1. CASE VangrpAttached
      <3>1. pc' = "spawn" /\ Init_PROCESSPOOL
        BY <1>6, <2>1 DEF RestartDone
      <3>. QED
        BY <1>1, <1>c, <3>1 DEF Init_PROCESSPOOL
    <2>2. CASE ~VangrpAttached
      BY <1>4, <1>6, <2>2 DEF RestartDone
    <2>. QED
      BY <2>1, <2>2
  <1>7. ASSUME SendOk PROVE BroadcastInv'
    <2>1. UNCHANGED poolVars /\ (Exit \/ pc' = "serve")
      BY <1>7 DEF SendOk
    <2>. QED
      BY <1>1, <1>4, <1>d, <2>1
  <1>8. ASSUME ScanHit PROVE BroadcastInv'
    <2>1. /\ UNCHANGED <<op, arg, i, Pid, Name, st, pname, hpc>> /\ i \in Slots
          /\ ~inHandler
          /\ \/ op = "D" /\ Name[i] = arg /\ pc' = "read"
             \/ Pid[i] >= 0 /\ pc' = "mark" /\ pid' = Pid[i]
      BY <1>8, Bounds DEF ScanHit, IInv, PoolInv, TypeOK, TypeMain, Slots
    <2>2. pc' = "read" /\ Pid[i] = -1 => ArgReaped'
      BY <1>a, <2>1 DEF FreeSlotsReaped, ArgReaped
    <2>. QED
      BY <1>0, <1>d, <2>1, <2>2 DEF BroadcastInv
  <1>9. ASSUME KillRead PROVE BroadcastInv'
    <2>1. /\ UNCHANGED <<op, arg, i, Pid, Name>> /\ pc = "read" /\ pc' = "mark"
          /\ pid' = Pid[i]
      BY <1>9 DEF KillRead
    <2>. QED
      BY <1>b, <1>d, <2>1 DEF BroadcastInv
  <1>10. ASSUME KillMark PROVE BroadcastInv'
    <2>1. /\ UNCHANGED <<op, arg, i, pid, Pid, Name>> /\ pc = "mark" /\ pc' = "sig"
      BY <1>10 DEF KillMark
    <2>. QED
      BY <1>b, <1>d, <2>1 DEF BroadcastInv
  <1>11. ASSUME \/ EnterHandler \/ LeaveHandler \/ AGAIN_RUN
                \/ \E q \in Pids : Reap(q)
         PROVE  BroadcastInv'
    <2>1. UNCHANGED <<pc, op, arg, i, pid, Pid, Name>>
      BY <1>11 DEF EnterHandler, LeaveHandler, AGAIN_RUN, Reap
    <2>2. hpc' # "wipe"
      BY <1>0, <1>11 DEF EnterHandler, LeaveHandler, AGAIN_RUN, Reap
    <2>. QED
      BY <1>2, <2>1, <2>2
  <1>12. ASSUME ClearPid PROVE BroadcastInv'
    <2>1. /\ UNCHANGED <<pc, op, arg, i, pid, Name, st, pname, slot, chld>>
          /\ Pid' = [Pid EXCEPT ![slot] = -1] /\ hpc = "clear"
      BY <1>12 DEF ClearPid
    <2>2. Pid[slot] = chld /\ st[chld] = "gone" /\ chld \in Pids
          /\ Name[slot] \in {pname[chld], NoName}
      BY <1>0, <2>1 DEF IInv, PoolInv, PoolConsistent, InHand
    <2>3. FreeSlotsReaped'
      BY <1>0, <1>a, <2>1, <2>2 DEF FreeSlotsReaped
    <2>4. pc = "read" /\ slot = i => ArgReaped
      BY <1>0, <2>2 DEF BroadcastInv, ArgReaped
    <2>5. pc' = "read" => op' = "D" /\ (ArgReaped' \/ (Pid'[i'] # -1 /\ Name'[i'] = arg'))
      BY <1>0, <1>b, <2>1, <2>4 DEF BroadcastInv
    <2>6. pc' \in {"mark", "sig"} /\ pid' = -1 => op' = "D" /\ ArgReaped'
      BY <1>b, <2>1 DEF BroadcastInv
    <2>7. pc' = "read" /\ slot' = i' => ArgReaped'
      BY <1>b, <2>1, <2>4
    <2>. QED
      BY <2>3, <2>5, <2>6, <2>7 DEF BroadcastInv
  <1>13. ASSUME WipeName PROVE BroadcastInv'
    <2>1. /\ UNCHANGED <<pc, op, arg, i, pid, Pid>> /\ hpc = "wipe" /\ hpc' = "again"
          /\ Name' = [Name EXCEPT ![slot] = NoName]
      BY <1>13 DEF WipeName
    <2>2. FreeSlotsReaped'
      BY <1>0, <1>c, <2>1
    <2>3. pc' = "read" => op' = "D" /\ (ArgReaped' \/ (Pid'[i'] # -1 /\ Name'[i'] = arg'))
      BY <1>0, <1>b, <2>1 DEF BroadcastInv
    <2>4. pc' \in {"mark", "sig"} /\ pid' = -1 => op' = "D" /\ ArgReaped'
      BY <1>b, <2>1 DEF BroadcastInv
    <2>. QED
      BY <2>1, <2>2, <2>3, <2>4 DEF BroadcastInv
  <1>14. ASSUME NEW p \in Pids, NEW k \in Slots, Register(p, k) PROVE BroadcastInv'
    <2>1. /\ UNCHANGED <<pc, op, arg, i, pid, hpc, slot>> /\ Pid[k] = -1
          /\ Pid' = [Pid EXCEPT ![k] = p] /\ Name' = [Name EXCEPT ![k] = pname[p]]
      BY <1>14 DEF Register
    <2>2. FreeSlotsReaped'
      BY <1>0, <1>c, <2>1
    <2>3. pc = "read" /\ Pid[i] # -1 => Pid'[i] = Pid[i] /\ Name'[i] = Name[i]
      BY <1>0, <2>1
    <2>4. pc' = "read" => op' = "D" /\ (ArgReaped' \/ (Pid'[i'] # -1 /\ Name'[i'] = arg'))
      BY <1>b, <2>1, <2>3 DEF BroadcastInv
    <2>5. pc' \in {"mark", "sig"} /\ pid' = -1 => op' = "D" /\ ArgReaped'
      BY <1>b, <2>1 DEF BroadcastInv
    <2>. QED
      BY <1>b, <2>1, <2>2, <2>4, <2>5 DEF BroadcastInv
  <1>15. ASSUME UNCHANGED vars \/ \E p \in Pids : Die(p) PROVE BroadcastInv'
    <2>1. UNCHANGED <<pc, op, arg, i, pid, Pid, Name, hpc, slot>>
      BY <1>15 DEF vars, Die
    <2>. QED
      BY <1>b, <1>d, <2>1 DEF BroadcastInv
  <1>. QED
    BY <1>3, <1>4, <1>5, <1>6, <1>7, <1>8, <1>9, <1>10, <1>11, <1>12, <1>13, <1>14,
       <1>15 DEF Next, Crash, MainStep, HandlerStep

(* SIGTERM goes to every process only for KILL_PROCESS with the empty name *)
(* or of a reaped process: sig_chld cleared the slot between the           *)
(* comparison and the read, or a PCC died before it wiped the name.        *)
THEOREM PccBroadcastOnlyByRace == Spec => []BroadcastOnlyByRace
  <1>1. Init => BroadcastInv
    BY DEF Init, BroadcastInv, FreeSlotsReaped
  <1>2. BroadcastInv => BroadcastOnlyByRace
    BY DEF BroadcastInv, BroadcastOnlyByRace, ArgReaped
  <1>. QED
    BY <1>1, <1>2, InitIInv, IInvStep, BroadcastInvStep, PTL DEF Spec

(* A target of the request has been signalled or has died.                 *)
Covered(p) == p \in asked \/ st[p] \in {"zombie", "gone"}

(* A target that is not covered is in a slot the KILL loop has not passed, *)
(* and in the slot it is at the loop has seen it.                          *)
Ahead(p) ==
  \E k \in Slots :
    /\ Pid[k] = p /\ k >= i
    /\ op = "D" => Name[k] = arg
    /\ pc \in {"mark", "sig"} /\ k = i => pid = p

(* KILL_PROCESS, KILL_ALL and RESTART_PROCESS have the targets before      *)
(* them in the loop, and none uncovered behind it.                         *)
CoverInv ==
  /\ pc \in {"scan", "read", "mark", "sig"} =>
       /\ op \in {"D", "A", "R"} /\ (pc = "read" => op = "D")
       /\ \A p \in targets : Covered(p) \/ Ahead(p)
  /\ pc = "spawn" => op \in {"boot", "S", "R"}
  /\ (pc = "reply" /\ op \in {"D", "A"}) \/ (pc = "spawn" /\ op = "R")
       => \A p \in targets : Covered(p)

(* The targets have all entered the pool; whoever takes the slot that the   *)
(* handler has cleared and not wiped yet came later and is none of them.    *)
TargetInv ==
  /\ \A p \in targets : p \in Pids /\ st[p] \in {"reg", "zombie", "gone"}
  /\ hpc = "wipe" => Pid[slot] \notin targets

(* Every step preserves TargetInv.                                         *)
LEMMA TargetInvStep == IInv /\ TargetInv /\ [Next]_vars => TargetInv'
  <1>. SUFFICES ASSUME IInv, TargetInv, [Next]_vars PROVE TargetInv'
    OBVIOUS
  <1>0. /\ st \in [Pids -> {"free", "run", "reg", "zombie", "gone"}]
        /\ own \in [Pids -> BOOLEAN]
        /\ Pid \in [Slots -> Pids \cup {-1}] /\ -1 \notin Pids
        /\ slot \in Slots /\ (~inHandler => hpc = "wait")
    BY DEF IInv, PoolInv, TypeOK, TypeProc, TypePool, TypeSig, Pids
  <1>a. pc = "off" => ~inHandler
    BY DEF IInv, OffIdle
  <1>1. ASSUME Exit PROVE TargetInv'
    BY <1>1 DEF Exit, TargetInv
  <1>2. ASSUME Request PROVE TargetInv'
    <2>1. /\ targets' \subseteq Registered /\ UNCHANGED <<st, hpc>> /\ ~inHandler
      BY <1>2 DEF Request, Accept, Wanted, Registered
    <2>. QED
      BY <1>0, <2>1 DEF TargetInv, Registered, IInv, PoolInv, PoolHoldsRegistered
  <1>3. ASSUME RUN_PROCESS PROVE TargetInv'
    BY <1>3, RunEffect DEF TargetInv
  <1>4. ASSUME AGAIN_RUN PROVE TargetInv'
    BY <1>4, AgainEffect DEF TargetInv
  <1>5. ASSUME \/ Start \/ Read_Process_Info \/ SpawnDone \/ ScanSkip \/ ScanHit
               \/ KillRead \/ KillMark \/ KillSig \/ KillProcessDone \/ KillAllDone
               \/ RestartDone \/ SendOk \/ SendFails \/ EnterHandler \/ LeaveHandler
               \/ WipeName \/ UNCHANGED vars
        PROVE  TargetInv'
    <2>1. \/ Exit
          \/ /\ UNCHANGED st /\ targets' \in {targets, {}}
             /\ hpc' # "wipe" \/ UNCHANGED <<Pid, hpc, slot>>
      BY <1>0, <1>a, <1>5 DEF Start, Read_Process_Info, SpawnDone, ScanSkip, ScanHit, KillRead,
         KillMark, KillSig, KillProcessDone, KillAllDone, RestartDone, SendOk, SendFails,
         EnterHandler, LeaveHandler, WipeName, vars
    <2>. QED
      BY <1>1, <2>1 DEF TargetInv
  <1>6. ASSUME NEW q \in Pids, Reap(q) PROVE TargetInv'
    <2>1. hpc' # "wipe" /\ UNCHANGED targets /\ st' = [st EXCEPT ![q] = "gone"]
      BY <1>6, ReapEffect DEF Reap
    <2>. QED
      BY <1>0, <2>1 DEF TargetInv
  <1>7. ASSUME ClearPid PROVE TargetInv'
    BY <1>0, <1>7 DEF TargetInv, ClearPid
  <1>8. ASSUME NEW p \in Pids, NEW k \in Slots, Register(p, k) PROVE TargetInv'
    <2>1. /\ UNCHANGED <<targets, hpc, slot>> /\ st[p] = "run"
          /\ st' = [st EXCEPT ![p] = "reg"] /\ Pid' = [Pid EXCEPT ![k] = p]
      BY <1>8 DEF Register
    <2>. QED
      BY <1>0, <2>1 DEF TargetInv
  <1>9. ASSUME NEW p \in Pids, Die(p) PROVE TargetInv'
    <2>1. /\ UNCHANGED <<targets, hpc, slot, Pid>>
          /\ st' = [st EXCEPT ![p] = IF own[p] THEN "zombie" ELSE "gone"]
      BY <1>9 DEF Die
    <2>. QED
      BY <1>0, <2>1 DEF TargetInv
  <1>. QED
    BY <1>1, <1>2, <1>3, <1>4, <1>5, <1>6, <1>7, <1>8, <1>9
       DEF Next, Crash, MainStep, HandlerStep

(* A target that is covered stays so.                                      *)
LEMMA CoveredStays ==
  ASSUME IInv, [Next]_vars, NEW p \in Pids, Covered(p), ~Exit
  PROVE  Covered(p)'
  <1>0. /\ st \in [Pids -> {"free", "run", "reg", "zombie", "gone"}]
        /\ own \in [Pids -> BOOLEAN]
    BY DEF IInv, PoolInv, TypeOK, TypeProc
  <1>1. p \in asked => st[p] # "free"
    BY DEF IInv, PoolInv, KilledSlotsDown
  <1>2. CASE st[p] = "gone"
    BY <1>2, GoneStays DEF Covered
  <1>3. CASE st[p] # "gone"
    <2>. USE <1>0, <1>1, <1>3 DEF Covered
    <2>1. ASSUME Start \/ Request \/ EnterHandler \/ LeaveHandler PROVE Covered(p)'
      BY <2>1 DEF Start, Request, Accept, EnterHandler, LeaveHandler
    <2>2. ASSUME RUN_PROCESS PROVE Covered(p)'
      BY <2>2, RunEffect
    <2>3. ASSUME MainStep, ~RUN_PROCESS PROVE Covered(p)'
      BY <2>3 DEF MainStep, Read_Process_Info, SpawnDone, ScanSkip, ScanHit, KillRead,
         KillMark, KillSig, KillProcessDone, KillAllDone, RestartDone, SendOk, SendFails
    <2>4. ASSUME \/ \E q \in Pids : Reap(q)
                 \/ ClearPid \/ WipeName \/ AGAIN_RUN
          PROVE  Covered(p)'
      <3>1. ASSUME NEW q \in Pids, Reap(q) PROVE Covered(p)'
        BY <3>1, ReapEffect
      <3>2. ASSUME ClearPid \/ WipeName PROVE Covered(p)'
        BY <3>2 DEF ClearPid, WipeName
      <3>3. ASSUME AGAIN_RUN PROVE Covered(p)'
        BY <3>3, AgainEffect
      <3>. QED
        BY <2>4, <3>1, <3>2, <3>3
    <2>5. ASSUME NEW q \in Pids, Die(q) PROVE Covered(p)'
      BY <2>5 DEF Die, Live
    <2>6. ASSUME NEW q \in Pids, NEW k \in Slots, Register(q, k) PROVE Covered(p)'
      BY <2>6 DEF Register
    <2>7. ASSUME UNCHANGED vars PROVE Covered(p)'
      BY <2>7 DEF vars
    <2>. QED
      BY <2>1, <2>2, <2>3, <2>4, <2>5, <2>6, <2>7 DEF Next, HandlerStep, Crash
  <1>. QED
    BY <1>2, <1>3

(* Every step preserves CoverInv.                                          *)
LEMMA CoverInvStep == IInv /\ TargetInv /\ CoverInv /\ [Next]_vars => CoverInv'
  <1>. SUFFICES ASSUME IInv, TargetInv, CoverInv, [Next]_vars PROVE CoverInv'
    OBVIOUS
  <1>0. /\ st \in [Pids -> {"free", "run", "reg", "zombie", "gone"}]
        /\ Pid \in [Slots -> Pids \cup {-1}] /\ Name \in [Slots -> AnyName]
        /\ targets \subseteq Pids /\ i \in 1 .. MaxProcessPool + 1
        /\ \A p \in Pids : p # -1 /\ p >= 1
        /\ pc \in {"read", "mark", "sig"} => i \in Slots
    BY DEF IInv, PoolInv, TypeOK, TypeMain, TypeProc, TypePool, Pids
  <1>1. ASSUME targets' = targets, ~Exit, NEW p \in targets', Covered(p)
        PROVE  Covered(p)'
    BY <1>0, <1>1, CoveredStays
  <1>2. ASSUME Exit PROVE CoverInv'
    BY <1>2 DEF Exit, CoverInv
  <1>3. ASSUME Start PROVE CoverInv'
    BY <1>3 DEF Start, CoverInv
  <1>4. ASSUME NEW o \in {"S", "D", "A", "R", "bad"}, NEW n \in AnyName, Accept(o, n)
        PROVE  CoverInv'
    <2>1. /\ op' = o /\ arg' = n /\ i' = 1 /\ UNCHANGED <<Name, Pid>>
          /\ pc' = CASE o = "S" -> "spawn" [] o \in {"D","A","R"} -> "scan"
                     [] OTHER -> "reply"
          /\ targets' = IF o \in {"D","A","R"} THEN Wanted(o, n) ELSE {}
      BY <1>4 DEF Accept
    <2>2. CASE o \in {"D", "A", "R"}
      <3>1. pc' = "scan" /\ targets' = Wanted(o, n)
        BY <2>1, <2>2
      <3>2. ASSUME NEW p \in targets' PROVE Ahead(p)'
        <4>1. PICK k \in Slots : Pid[k] = p /\ (o = "D" => Name[k] = n)
          BY <3>1, <3>2 DEF Wanted, Registered
        <4>. QED
          BY <2>1, <3>1, <4>1 DEF Ahead, Slots
      <3>. QED
        BY <2>1, <2>2, <3>1, <3>2 DEF CoverInv
    <2>3. CASE o = "S"
      BY <2>1, <2>3 DEF CoverInv
    <2>4. CASE o = "bad"
      BY <2>1, <2>4 DEF CoverInv
    <2>. QED
      BY <2>2, <2>3, <2>4
  <1>5. ASSUME Read_Process_Info \/ RUN_PROCESS PROVE CoverInv'
    <2>1. pc = "spawn" /\ UNCHANGED <<pc, op, targets>>
      BY <1>5 DEF Read_Process_Info, RUN_PROCESS
    <2>2. ~Exit
      BY <2>1 DEF Exit
    <2>. QED
      BY <1>1, <2>1, <2>2 DEF CoverInv
  <1>6. ASSUME SpawnDone PROVE CoverInv'
    <2>1. pc = "spawn" /\ pc' \in {"serve", "reply"} /\ op' = op
      BY <1>6 DEF SpawnDone
    <2>. QED
      BY <2>1 DEF CoverInv
  <1>7. ASSUME SendOk \/ SendFails PROVE CoverInv'
    <2>1. Exit \/ pc' = "serve"
      BY <1>7 DEF SendOk, SendFails
    <2>. QED
      BY <1>2, <2>1 DEF CoverInv
  <1>8. ASSUME \/ KillProcessDone \/ KillAllDone
               \/ RestartDone /\ VangrpAttached
        PROVE  CoverInv'
    <2>1. /\ pc = "scan" /\ i > MaxProcessPool /\ UNCHANGED <<op, targets>>
          /\ pc' \in {"reply", "spawn"} /\ (pc' = "spawn" => op = "R")
      BY <1>8 DEF KillProcessDone, KillAllDone, RestartDone
    <2>2. ~Exit
      BY <2>1 DEF Exit
    <2>3. \A p \in targets : ~Ahead(p)
      BY <2>1, <1>0, Bounds DEF Ahead, Slots
    <2>. QED
      BY <1>1, <2>1, <2>2, <2>3 DEF CoverInv
  <1>9. ASSUME RestartDone /\ ~VangrpAttached PROVE CoverInv'
    BY <1>2, <1>9 DEF RestartDone
  <1>10. ASSUME ScanSkip PROVE CoverInv'
    <2>1. /\ pc = "scan" /\ i' = i + 1
          /\ IF op = "D" THEN Name[i] # arg ELSE Pid[i] < 0
          /\ UNCHANGED <<pc, op, arg, Pid, Name, targets>>
      BY <1>10 DEF ScanSkip
    <2>2. ~Exit
      BY <2>1 DEF Exit
    <2>3. ASSUME NEW p \in targets, Ahead(p) PROVE Ahead(p)'
      <3>1. PICK k \in Slots : Pid[k] = p /\ k >= i /\ (op = "D" => Name[k] = arg)
        BY <2>3 DEF Ahead
      <3>2. p \in Nat /\ p >= 1
        BY <1>0, Bounds DEF Pids
      <3>3. k # i
        <4>1. CASE op = "D"
          BY <2>1, <3>1, <4>1
        <4>2. CASE op # "D"
          BY <2>1, <3>1, <3>2, <4>2
        <4>. QED
          BY <4>1, <4>2
      <3>. QED
        BY <1>0, <2>1, <3>1, <3>3 DEF Ahead, Slots
    <2>. QED
      BY <1>1, <2>1, <2>2, <2>3 DEF CoverInv
  <1>11. ASSUME ScanHit PROVE CoverInv'
    <2>1. /\ pc = "scan" /\ UNCHANGED <<op, arg, i, Pid, Name, targets>>
          /\ \/ op = "D" /\ pc' = "read"
             \/ op # "D" /\ pc' = "mark" /\ pid' = Pid[i]
      BY <1>11 DEF ScanHit
    <2>2. ~Exit
      BY <2>1 DEF Exit
    <2>3. ASSUME NEW p \in targets, Ahead(p) PROVE Ahead(p)'
      <3>1. PICK k \in Slots : Pid[k] = p /\ k >= i /\ (op = "D" => Name[k] = arg)
        BY <2>3 DEF Ahead
      <3>. QED
        BY <2>1, <3>1 DEF Ahead
    <2>. QED
      BY <1>1, <2>1, <2>2, <2>3 DEF CoverInv
  <1>12. ASSUME KillRead PROVE CoverInv'
    <2>1. /\ pc = "read" /\ pc' = "mark" /\ pid' = Pid[i]
          /\ UNCHANGED <<op, arg, i, Pid, Name, targets>>
      BY <1>12 DEF KillRead
    <2>2. ~Exit
      BY <2>1 DEF Exit
    <2>3. ASSUME NEW p \in targets, Ahead(p) PROVE Ahead(p)'
      <3>1. PICK k \in Slots : Pid[k] = p /\ k >= i /\ (op = "D" => Name[k] = arg)
        BY <2>3 DEF Ahead
      <3>. QED
        BY <2>1, <3>1 DEF Ahead
    <2>. QED
      BY <1>1, <2>1, <2>2, <2>3 DEF CoverInv
  <1>13. ASSUME KillMark PROVE CoverInv'
    <2>1. /\ pc = "mark" /\ pc' = "sig"
          /\ UNCHANGED <<op, arg, i, pid, Pid, Name, targets>>
      BY <1>13 DEF KillMark
    <2>2. ~Exit
      BY <2>1 DEF Exit
    <2>3. ASSUME NEW p \in targets, Ahead(p) PROVE Ahead(p)'
      <3>1. PICK k \in Slots : /\ Pid[k] = p /\ k >= i /\ (op = "D" => Name[k] = arg)
                               /\ k = i => pid = p
        BY <2>1, <2>3 DEF Ahead
      <3>. QED
        BY <2>1, <3>1 DEF Ahead
    <2>. QED
      BY <1>1, <2>1, <2>2, <2>3 DEF CoverInv
  <1>14. ASSUME KillSig PROVE CoverInv'
    <2>1. /\ pc = "sig" /\ pc' = "scan" /\ i' = i + 1
          /\ UNCHANGED <<op, arg, Pid, Name, targets, st>>
          /\ pid # -1 => pid \in asked' \/ st[pid] = "gone"
      BY <1>14 DEF KillSig
    <2>2. ~Exit
      BY <2>1 DEF Exit
    <2>3. ASSUME NEW p \in targets, Ahead(p) PROVE Covered(p)' \/ Ahead(p)'
      <3>1. PICK k \in Slots : /\ Pid[k] = p /\ k >= i /\ (op = "D" => Name[k] = arg)
                               /\ k = i => pid = p
        BY <2>1, <2>3 DEF Ahead
      <3>2. CASE k = i
        BY <1>0, <2>1, <3>1, <3>2 DEF Covered
      <3>3. CASE k # i
        BY <1>0, <2>1, <3>1, <3>3 DEF Ahead, Slots
      <3>. QED
        BY <3>2, <3>3
    <2>. QED
      BY <1>1, <2>1, <2>2, <2>3 DEF CoverInv
  <1>15. ASSUME UNCHANGED <<pc, op, arg, i, pid, targets>>, ~Exit,
                \A p \in targets : Ahead(p) => Covered(p)' \/ Ahead(p)'
         PROVE  CoverInv'
    BY <1>1, <1>15 DEF CoverInv
  <1>16. ASSUME UNCHANGED <<pc, op, arg, i, pid, targets, Pid, Name>> PROVE CoverInv'
    <2>1. CASE Exit
      BY <1>2, <2>1
    <2>2. CASE ~Exit
      <3>1. \A p \in targets : Ahead(p) => Ahead(p)'
        BY <1>16 DEF Ahead
      <3>. QED
        BY <1>15, <1>16, <2>2, <3>1
    <2>. QED
      BY <2>1, <2>2
  <1>17. ASSUME EnterHandler \/ LeaveHandler \/ UNCHANGED vars \/ \E p \in Pids : Die(p)
         PROVE  CoverInv'
    BY <1>16, <1>17 DEF EnterHandler, LeaveHandler, vars, Die
  <1>18. ASSUME \/ (\E q \in Pids : Reap(q)) \/ AGAIN_RUN
                \/ ClearPid \/ WipeName
         PROVE  CoverInv'
    <2>1. CASE (\E q \in Pids : Reap(q)) \/ AGAIN_RUN
      BY <1>16, <2>1 DEF Reap, AGAIN_RUN
    <2>2. CASE ClearPid
      <3>1. /\ UNCHANGED <<pc, op, arg, i, pid, targets, Name, st>>
            /\ Pid' = [Pid EXCEPT ![slot] = -1] /\ hpc = "clear"
            /\ inHandler' = inHandler /\ inHandler
        BY <2>2 DEF ClearPid
      <3>2. ~Exit
        BY <3>1 DEF Exit
      <3>3. Pid[slot] = chld /\ st[chld] = "gone" /\ slot \in Slots
        BY <3>1 DEF IInv, PoolInv, TypeOK, TypeSig, InHand
      <3>4. ASSUME NEW p \in targets, Ahead(p) PROVE Covered(p)' \/ Ahead(p)'
        <4>1. PICK k \in Slots :
                 /\ Pid[k] = p /\ k >= i /\ (op = "D" => Name[k] = arg)
                 /\ pc \in {"mark", "sig"} /\ k = i => pid = p
          BY <3>4 DEF Ahead
        <4>2. CASE k = slot
          BY <3>1, <3>3, <4>1, <4>2 DEF Covered
        <4>3. CASE k # slot
          <5>1. Pid'[k] = p
            BY <1>0, <3>1, <4>1, <4>3
          <5>. QED
            BY <3>1, <4>1, <5>1 DEF Ahead
        <4>. QED
          BY <4>2, <4>3
      <3>. QED
        BY <1>15, <3>1, <3>2, <3>4
    <2>3. CASE WipeName
      <3>1. /\ UNCHANGED <<pc, op, arg, i, pid, targets, Pid>> /\ hpc = "wipe"
            /\ Name' = [Name EXCEPT ![slot] = NoName]
            /\ inHandler' = inHandler /\ inHandler
        BY <2>3 DEF WipeName
      <3>2. ~Exit
        BY <3>1 DEF Exit
      <3>3. ASSUME NEW p \in targets, Ahead(p) PROVE Ahead(p)'
        <4>1. PICK k \in Slots :
                 /\ Pid[k] = p /\ k >= i /\ (op = "D" => Name[k] = arg)
                 /\ pc \in {"mark", "sig"} /\ k = i => pid = p
          BY <3>3 DEF Ahead
        <4>2. k # slot
          BY <3>1, <3>3, <4>1 DEF TargetInv
        <4>3. Name'[k] = Name[k]
          BY <1>0, <3>1, <4>2
        <4>. QED
          BY <3>1, <4>1, <4>3 DEF Ahead
      <3>. QED
        BY <1>15, <3>1, <3>2, <3>3
    <2>. QED
      BY <1>18, <2>1, <2>2, <2>3
  <1>19. ASSUME NEW q \in Pids, NEW k0 \in Slots, Register(q, k0) PROVE CoverInv'
    <2>1. /\ UNCHANGED <<pc, op, arg, i, pid, targets>> /\ Pid[k0] = -1
          /\ st[q] = "run" /\ st'[q] = "reg"
          /\ Pid' = [Pid EXCEPT ![k0] = q] /\ Name' = [Name EXCEPT ![k0] = pname[q]]
      BY <1>0, <1>19 DEF Register
    <2>2. CASE Exit
      BY <1>2, <2>2
    <2>3. CASE ~Exit
      <3>1. ASSUME NEW p \in targets, Ahead(p) PROVE Ahead(p)'
        <4>1. PICK k \in Slots :
                 /\ Pid[k] = p /\ k >= i /\ (op = "D" => Name[k] = arg)
                 /\ pc \in {"mark", "sig"} /\ k = i => pid = p
          BY <3>1 DEF Ahead
        <4>2. Pid'[k] = Pid[k] /\ Name'[k] = Name[k]
          BY <1>0, <2>1, <4>1
        <4>. QED
          BY <2>1, <4>1, <4>2 DEF Ahead
      <3>. QED
        BY <1>15, <2>1, <2>3, <3>1
    <2>. QED
      BY <2>2, <2>3
  <1>20. ASSUME Request PROVE CoverInv'
    BY <1>4, <1>20 DEF Request, AnyName
  <1>. QED
    BY <1>2, <1>3, <1>5, <1>6, <1>7, <1>8, <1>9, <1>10, <1>11, <1>12, <1>13, <1>14,
       <1>17, <1>18, <1>19, <1>20 DEF Next, Crash, MainStep, HandlerStep

(* When a KILL loop has ended, every process that was in the pool when the *)
(* request arrived was sent SIGTERM or has died.                           *)
THEOREM PccKillCoversTargets == Spec => []KillCoversTargets
  <1>1. Init => CoverInv /\ TargetInv
    BY DEF Init, CoverInv, TargetInv
  <1>2. CoverInv => KillCoversTargets
    BY DEF CoverInv, KillCoversTargets, Covered
  <1>. QED
    BY <1>1, <1>2, InitIInv, IInvStep, TargetInvStep, CoverInvStep, PTL DEF Spec
-----------------------------------------------------------------------------
(* The processes of a program are finitely many, and of fewer there are    *)
(* not more.                                                               *)
LEMMA InstancesCount ==
  ASSUME NEW n
  PROVE  /\ IsFiniteSet(Instances(n))
         /\ Cardinality(Instances(n)) \in Nat
         /\ \A T \in SUBSET Instances(n) : IsFiniteSet(T) /\ Cardinality(T) \in Nat
                                 /\ Cardinality(T) <= Cardinality(Instances(n))
  <1>1. IsFiniteSet(Pids)
    BY Bounds, FS_Interval DEF Pids
  <1>2. Instances(n) \in SUBSET Pids
    BY DEF Instances
  <1>3. IsFiniteSet(Instances(n))
    BY <1>1, <1>2, FS_Subset
  <1>. QED
    BY <1>3, FS_Subset, FS_CardinalityType

(* A step after which the processes of every program are some of those     *)
(* there were, or those without the one that was reaped and with one that  *)
(* is new, leaves no program with more of them.                            *)
LEMMA ReplacedOne ==
  ASSUME NEW n, NEW p \in Instances(n), NEW x, NEW T,
         T = (Instances(n) \ {p}) \cup {x}
  PROVE  Cardinality(T) <= Cardinality(Instances(n))
  <1>. DEFINE S == Instances(n) \ {p}
  <1>1. IsFiniteSet(S) /\ Cardinality(S) = Cardinality(Instances(n)) - 1
    BY InstancesCount, FS_RemoveElement
  <1>2. Cardinality(S) \in Nat /\ Cardinality(Instances(n)) \in Nat
    BY <1>1, InstancesCount, FS_CardinalityType
  <1>3. Cardinality(S \cup {x}) = IF x \in S THEN Cardinality(S) ELSE Cardinality(S) + 1
    BY <1>1, FS_AddElement
  <1>. QED
    BY <1>1, <1>2, <1>3

(* AGAIN_RUN_* puts one new process in the place of the child, or none.    *)
LEMMA AgainOneForOne ==
  ASSUME IInv, AGAIN_RUN, NEW n \in Names
  PROVE  Cardinality(Instances(n)') <= Cardinality(Instances(n))
  <1>1. /\ st \in [Pids -> {"free", "run", "reg", "zombie", "gone"}]
        /\ pname \in [Pids -> AnyName] /\ chld \in Pids /\ chld' \notin Pids
        /\ st[chld] = "gone" /\ processname \in {pname[chld], NoName}
        /\ processname \in AnyName /\ n # NoName
    BY ConstantsOK DEF IInv, PoolInv, TypeOK, TypeSig, TypeProc, InHand, AGAIN_RUN, Pids
  <1>2. CASE ForkFails
    <2>1. Instances(n)' \in SUBSET Instances(n)
      BY <1>1, <1>2 DEF Instances, ForkFails
    <2>. QED
      BY <2>1, InstancesCount
  <1>3. CASE Fork(processname)
    <2>1. /\ nextPid \in Pids /\ st[nextPid] = "free"
          /\ st'[nextPid] = "run" /\ pname'[nextPid] = processname
          /\ \A p \in Pids : p # nextPid => st'[p] = st[p] /\ pname'[p] = pname[p]
      BY <1>1, <1>3, ForkEffect DEF IInv
    <2>2. CASE processname = n
      <3>1. chld \in Instances(n) /\ pname[chld] = n
        BY <1>1, <2>2 DEF Instances
      <3>2. Instances(n)' = (Instances(n) \ {chld}) \cup {nextPid}
        BY <1>1, <2>1, <2>2 DEF Instances
      <3>. QED
        BY <3>1, <3>2, ReplacedOne
    <2>3. CASE processname # n
      <3>1. Instances(n)' \in SUBSET Instances(n)
        BY <1>1, <2>1, <2>3 DEF Instances
      <3>. QED
        BY <3>1, InstancesCount
    <2>. QED
      BY <2>2, <2>3
  <1>. QED
    BY <1>2, <1>3 DEF AGAIN_RUN

(* Restarting is one for one: while the handler runs no program gets more  *)
(* processes than it had, whatever process_info says, and whether the      *)
(* child was in the pool or not.                                           *)
THEOREM PccOneForOne == Spec => OneForOne
  <1>. DEFINE A == inHandler => \A n \in Names :
                     Cardinality(Instances(n)') <= Cardinality(Instances(n))
  <1>1. ASSUME IInv, [Next]_vars PROVE [A]_vars
    <2>. SUFFICES ASSUME inHandler, Next, NEW n \in Names
                  PROVE  Cardinality(Instances(n)') <= Cardinality(Instances(n))
      BY <1>1
    <2>0. /\ st \in [Pids -> {"free", "run", "reg", "zombie", "gone"}]
          /\ pname \in [Pids -> AnyName] /\ -1 \notin Pids
      BY <1>1 DEF IInv, PoolInv, TypeOK, TypeProc, Pids
    <2>1. ASSUME Instances(n)' \in SUBSET Instances(n)
          PROVE  Cardinality(Instances(n)') <= Cardinality(Instances(n))
      BY <2>1, InstancesCount
    <2>2. ASSUME Exit PROVE Instances(n)' \in SUBSET Instances(n)
      BY <2>0, <2>2 DEF Exit, Instances
    <2>3. ASSUME NEW q \in Pids, Reap(q) PROVE Instances(n)' \in SUBSET Instances(n)
      <3>1. st[q] = "zombie" /\ st' = [st EXCEPT ![q] = "gone"] /\ UNCHANGED pname
            /\ chld' \in {chld, q}
        BY <2>3, ReapEffect DEF Reap
      <3>. QED
        BY <2>0, <3>1 DEF Instances
    <2>4. ASSUME NEW p \in Pids, Die(p) \/ \E k \in Slots : Register(p, k)
          PROVE  Instances(n)' \in SUBSET Instances(n)
      <3>1. /\ st[p] \notin {"free", "gone"} /\ UNCHANGED <<pname, chld>>
            /\ \A q \in Pids : q # p => st'[q] = st[q]
        BY <2>0, <2>4 DEF Die, Live, Register
      <3>. QED
        BY <2>0, <3>1 DEF Instances
    <2>5. ASSUME Start \/ LeaveHandler \/ ClearPid \/ WipeName
          PROVE  Instances(n)' \in SUBSET Instances(n)
      <3>1. UNCHANGED <<st, pname, chld>>
        BY <2>5 DEF Start, LeaveHandler, ClearPid, WipeName
      <3>. QED
        BY <3>1 DEF Instances
    <2>6. ASSUME AGAIN_RUN PROVE Cardinality(Instances(n)') <= Cardinality(Instances(n))
      BY <1>1, <2>6, AgainOneForOne
    <2>7. ~Request /\ ~MainStep /\ ~EnterHandler
      BY DEF Request, Accept, MainStep, Read_Process_Info, RUN_PROCESS, SpawnDone,
         ScanSkip, ScanHit, KillRead, KillMark, KillSig, KillProcessDone, KillAllDone,
         RestartDone, SendOk, SendFails, EnterHandler
    <2>. QED
      BY <2>1, <2>2, <2>3, <2>4, <2>5, <2>6, <2>7 DEF Next, HandlerStep, Crash
  <1>. QED
    BY <1>1, InitIInv, IInvStep, PTL DEF Spec, OneForOne
=============================================================================
