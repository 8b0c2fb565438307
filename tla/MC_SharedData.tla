---------------------------- MODULE MC_SharedData ----------------------------
(***************************************************************************)
(* What the processes of the System V server share without a lock, for     *)
(* TLC: initialize.ini, and the run count of the bypass daemon.  The first *)
(* state says which of the two is at work, the other stays as it starts.   *)
(* Names are byte sequences: "A" and "aA" stand for the same key, "B" for  *)
(* another one, "a" has no capital letter.                                 *)
(***************************************************************************)
EXTENDS SysVSemServer, FiniteSets, TLC

CONSTANTS Handlers,        \* of the bypass daemon
          max_process_cnt, max_server_cnt,     \* of the ini file
          ByteMax,         \* 255
          ForkWrap,        \* 100000
          MaxKills         \* bound: bypass daemons and handlers that are killed

(* Counts and bounds are numbers; a list of servers is not empty.          *)
ASSUME BypassAssumption ==
    /\ IsFiniteSet(Handlers)
    /\ max_process_cnt \in Nat /\ MaxKills \in Nat /\ ByteMax \in Nat
    /\ max_server_cnt \in Nat \ {0} /\ ForkWrap \in Nat \ {0}

MCKeys == {65, 66}
MCAllNames == {<<65>>, <<97, 65>>, <<66>>, <<97>>}

VARIABLES
    shared,
    daemon, dbg_fork_cnt, runCnt, up, bypass_pc, bypass_v, bypass_r, fork_cnt,
    bypass_i, comm, kills, refused, leaked, why

bypassVars == <<daemon, dbg_fork_cnt, runCnt, up, bypass_pc, bypass_v, bypass_r,
                fork_cnt, bypass_i, comm, kills, refused, leaked, why>>

Bypass == INSTANCE BypassDaemon WITH
    pc <- bypass_pc, v <- bypass_v, r <- bypass_r, i <- bypass_i

SharedInit ==
    /\ shared \in {"initialize.ini", "runCnt"}
    /\ (shared # "runCnt" => runCnt = 0 /\ up = {})
    /\ Init
    /\ Bypass!Init

SharedNext ==
    /\ UNCHANGED shared
    /\ \/ shared = "initialize.ini" /\ Next /\ UNCHANGED bypassVars
       \/ shared = "runCnt" /\ Bypass!Next /\ UNCHANGED vars

SharedSpec == SharedInit /\ [][SharedNext]_<<shared, vars, bypassVars>>

(* Clients and connection slots are interchangeable.                       *)
Symmetry == Permutations(Clients) \cup Permutations(Conns)

-----------------------------------------------------------------------------
(* line_check.c 76-93, main_thread.c 77: the count is right as long as     *)
(* nothing disturbed it, and only a wrong one lets too many handlers in.   *)
CountKept == Bypass!TypeOK /\ Bypass!CountExact /\ Bypass!OverloadOnlyByWrongCount
=============================================================================
