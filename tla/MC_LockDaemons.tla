---------------------------- MODULE MC_LockDaemons ----------------------------
(***************************************************************************)
(* The daemons around the lock servers, for TLC: the POSIX lock server in  *)
(* both versions, the supervisor with the listening socket, and the bypass *)
(* daemon with a handler that looks for a server.  The first state says    *)
(* which one runs, the others stay as they start.  The definitions of      *)
(* NamedSemServer have their own names here.                               *)
(***************************************************************************)
EXTENDS NamedSemServer, Naturals, FiniteSets

CONSTANTS Starts,        \* the times a supervised server is started
          OneHandler,    \* a slot for its handler, and the bypass daemon's
          MaxTry,        \* binds that may fail before the last but one: 10
          SupKills,      \* bound: supervisors and daemons that are killed
          max_process_cnt, max_server_cnt,     \* of the ini file
          ByteMax,       \* 255
          ForkWrap,      \* 100000
          BypassKills    \* bound: bypass daemons and handlers that are killed

(* Counts and bounds are numbers; a list of servers is not empty.          *)
ASSUME SupervisorAssumption == MaxTry \in Nat /\ SupKills \in Nat
ASSUME FailoverAssumption ==
    /\ max_process_cnt \in Nat /\ BypassKills \in Nat /\ ByteMax \in Nat
    /\ max_server_cnt \in Nat \ {0} /\ ForkWrap \in Nat \ {0}

VARIABLES
    system,
    sup, sup_daemon, sup_handler, try_cnt, status, sup_kills, started, excused,
    daemon, dbg_fork_cnt, runCnt, up, bypass_pc, bypass_v, bypass_r, fork_cnt,
    bypass_i, comm, kills, refused, leaked, why

supVars == <<sup, sup_daemon, sup_handler, try_cnt, status, sup_kills, started, excused>>
bypassVars == <<daemon, dbg_fork_cnt, runCnt, up, bypass_pc, bypass_v, bypass_r,
                fork_cnt, bypass_i, comm, kills, refused, leaked, why>>
allVars == <<system, vars, supVars, bypassVars>>

Committed == INSTANCE NamedSemServer WITH UnlockServed <- FALSE

Supervisor == INSTANCE ServerDaemon WITH
    Servers <- Starts, Handlers <- OneHandler, MaxKills <- SupKills,
    daemon <- sup_daemon, handler <- sup_handler, kills <- sup_kills

Failover == INSTANCE BypassDaemon WITH
    Handlers <- OneHandler, MaxKills <- BypassKills,
    pc <- bypass_pc, v <- bypass_v, r <- bypass_r, i <- bypass_i

DaemonsInit ==
    /\ system \in {"served", "committed", "supervisor", "failover"}
    /\ (system # "failover" => runCnt = 0 /\ up = {})
    /\ Init
    /\ Supervisor!Init
    /\ Failover!Init

DaemonsNext ==
    /\ UNCHANGED system
    /\ \/ system = "served" /\ Next /\ UNCHANGED <<supVars, bypassVars>>
       \/ system = "committed" /\ Committed!Next /\ UNCHANGED <<supVars, bypassVars>>
       \/ system = "supervisor" /\ Supervisor!Next /\ UNCHANGED <<vars, bypassVars>>
       \/ system = "failover" /\ Failover!Next /\ UNCHANGED <<vars, supVars>>

(* The fairness of the system that runs.  The clients of the POSIX server  *)
(* give back what they hold, and keep trying.                              *)
Of(s, A) == system = s /\ A /\ UNCHANGED system

DaemonsSpec ==
    /\ DaemonsInit /\ [][DaemonsNext]_allVars
    /\ \A h \in Conns :
         /\ WF_allVars(Of("served", Accept(h) /\ UNCHANGED <<supVars, bypassVars>>))
         /\ WF_allVars(Of("served", Step(h) /\ UNCHANGED <<supVars, bypassVars>>))
         /\ SF_allVars(Of("served", Wait(h) /\ UNCHANGED <<supVars, bypassVars>>))
    /\ \A c \in Clients, k \in Keys :
         SF_allVars(Of("served", (\E h \in Conns : SendUnlock(h, c, k))
                                 /\ UNCHANGED <<supVars, bypassVars>>))
    /\ \A s \in Starts :
         WF_allVars(Of("supervisor", Supervisor!Run(s) /\ UNCHANGED <<vars, bypassVars>>))
    /\ \A h \in OneHandler :
         /\ WF_allVars(Of("supervisor", Supervisor!CloseListen(h)
                                        /\ UNCHANGED <<vars, bypassVars>>))
         /\ WF_allVars(Of("failover", Failover!Run(h) /\ UNCHANGED <<vars, supVars>>))

-----------------------------------------------------------------------------
(* The POSIX server: lock requests are answered where unlocks are served.  *)
AnsweredWhereServed == system = "served" => LockAnsweredUnlessLost

(* main.c 48, tcp_lib.c 303-319: one supervisor stays.                     *)
OneSurvives == Supervisor!TypeOK /\ Supervisor!OneSurvives

(* svr_main.c 41-50: a handler gives up only after every server.           *)
EveryServerTried == Failover!TypeOK /\ Failover!EveryServerTried

(* S/Main.c 119-121, main.c 48: a supervisor stops only when its daemon    *)
(* asked for it, some server accepts connections again, and a handler of   *)
(* the bypass daemon comes to its end.                                     *)
ServiceRestored ==
    /\ Supervisor!StopsOnlyWhenAsked
    /\ Supervisor!ServiceRestored
    /\ Failover!HandlerEnds
=============================================================================
