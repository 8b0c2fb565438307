----------------------------- MODULE MC_PccLive -----------------------------
(***************************************************************************)
(* PCC for TLC: one process control centre that serves requests, and       *)
(* several that are started side by side.  The first state says which of   *)
(* the two runs, the other stays as it starts.  The definitions of         *)
(* PccSingleton have their own names here.                                 *)
(***************************************************************************)
EXTENDS PccSingleton, Sequences

CONSTANTS Names, NoName

VARIABLES
    scene,
    main_pc, op, arg, i, pid, result, loop_flag, sec, left, handler, inHandler,
    sigPending, hpc, chld, slot, processname, shm, Name, Pid, UpDown, st, pname,
    own, nextPid, main_starts, asked, targets, early

controlVars == <<main_pc, op, arg, i, pid, result, loop_flag, sec, left, handler,
                 inHandler, sigPending, hpc, chld, slot, processname, shm, Name, Pid,
                 UpDown, st, pname, own, nextPid, main_starts, asked, targets, early>>
allVars == <<scene, vars, controlVars>>

(* One program, started once at boot.                                      *)
Info1 == << [name |-> CHOOSE n \in Names : TRUE, cnt |-> 1, gubun |-> 2] >>

Control == INSTANCE PCC WITH
    MaxProcessPool <- 2, Info <- Info1, VangrpAttached <- TRUE, MaxForks <- 2,
    MaxStarts <- 1, pc <- main_pc, flag <- loop_flag, starts <- main_starts

LiveInit ==
    /\ scene \in {"control", "singleton"}
    /\ Init
    /\ Control!Init

LiveNext ==
    /\ UNCHANGED scene
    /\ \/ scene = "control" /\ Control!Next /\ UNCHANGED vars
       \/ scene = "singleton" /\ Next /\ UNCHANGED controlVars

(* The fairness of the one that runs.                                      *)
Centre(A) == scene = "control" /\ A /\ UNCHANGED <<scene, vars>>
Side(A) == scene = "singleton" /\ A /\ UNCHANGED <<scene, controlVars>>

LiveSpec ==
    /\ LiveInit /\ [][LiveNext]_allVars
    /\ WF_allVars(Centre(Control!MainStep)) /\ WF_allVars(Centre(Control!HandlerStep))
    /\ \A p \in Pccs :
         /\ WF_allVars(Side(Boot(p))) /\ WF_allVars(Side(KillSem(p)))
         /\ WF_allVars(Side(Reply(p)))
         /\ WF_allVars(Side(kid[p] = "told" /\ ProgramEnds(p)))
         /\ WF_allVars(Side(Request(p))) /\ SF_allVars(Side(SendOk(p)))

-----------------------------------------------------------------------------
(* sig_chld: every child that dies is reaped.                              *)
ZombiesReaped == Control!ZombiesReaped

(* loop: every request is answered although the kills provoke signals, and *)
(* kill-all ends a PCC (pcc.c 829-846).                                    *)
RequestAnswered == Control!RequestAnswered /\ KillAllHeeded
=============================================================================
