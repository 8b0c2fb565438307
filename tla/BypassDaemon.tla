---------------------------- MODULE BypassDaemon ----------------------------
(***************************************************************************)
(* The bypass daemon (system_semaphore/Semaphore_Server/S/temp): it takes  *)
(* a connection, forks a handler, and the handler passes one request on to *)
(* the first of several servers that can be reached.  The handlers count   *)
(* themselves in a byte of shared memory, without a lock, and turn their   *)
(* client away when there are too many.  One action is one access to that  *)
(* byte, or one call that waits.                                           *)
(***************************************************************************)
EXTENDS Naturals, Integers, FiniteSets

CONSTANTS Handlers,          \* handlers alive at a time
          max_process_cnt,   \* MAX_SVR_CNT of the ini file
          max_server_cnt,    \* servers, BYPASS_INFO of the ini file
          ByteMax,           \* 255
          ForkWrap,          \* 100000, where dbg_fork_cnt begins again
          MaxKills           \* bound: handlers and daemons that are killed

Servers == 0 .. max_server_cnt - 1

VARIABLES
    daemon,        \* "forked", "initialised", "listening", "killed" or "exited"
    dbg_fork_cnt,
    runCnt,        \* the byte behind those of the servers
    up,            \* the servers that can be reached
    pc,            \* of a handler; "free" when there is none
    v,             \* what a handler has loaded of runCnt, 0 when not needed
    r,             \* what incRunCnt returned, 0 when not needed
    fork_cnt, i,   \* Server_Main: where it starts, and how far it is
    comm,          \* whether TCP_Svr_Comm has reached a server
    kills,
    refused,       \* history: the servers a handler could not reach
    leaked,        \* history: handlers killed between their inc and their dec
    why            \* history: what has made the count wrong

locals == <<v, r, fork_cnt, i, comm, refused>>
handler == <<pc, locals>>
history == <<leaked, why>>
vars == <<daemon, dbg_fork_cnt, runCnt, up, handler, kills, history>>

Init ==
    /\ daemon = "forked"
    /\ dbg_fork_cnt = 0
    /\ runCnt \in 0 .. ByteMax
    /\ up \in SUBSET Servers
    /\ pc = [h \in Handlers |-> "free"]
    /\ v = [h \in Handlers |-> 0]
    /\ r = [h \in Handlers |-> 0]
    /\ fork_cnt = [h \in Handlers |-> 0]
    /\ i = [h \in Handlers |-> 0]
    /\ comm = [h \in Handlers |-> FALSE]
    /\ kills = 0
    /\ refused = [h \in Handlers |-> {}]
    /\ leaked = 0
    /\ why = {"start"}

(* The handlers that have counted themselves and not yet taken it back.    *)
counted == {h \in Handlers :
    pc[h] \in {"incResult", "admit", "read", "try", "send",
               "decTest", "decLoad", "decStore"}}
serving == {h \in Handlers : pc[h] \in {"read", "try", "send"}}

(* h has v[h], and the byte becomes x: somebody else's change is lost.     *)
Store(h, x) ==
    /\ runCnt' = x % (ByteMax + 1)
    /\ why' = IF runCnt # v[h] \/ x \notin 0 .. ByteMax
              THEN why \cup {"race"} ELSE why

Goto(h, to) == pc' = [pc EXCEPT ![h] = to]

(* A handler that is gone leaves nothing behind in its process.            *)
Ended(h) ==
    /\ Goto(h, "free")
    /\ v' = [v EXCEPT ![h] = 0]
    /\ r' = [r EXCEPT ![h] = 0]
    /\ fork_cnt' = [fork_cnt EXCEPT ![h] = 0]
    /\ i' = [i EXCEPT ![h] = 0]
    /\ comm' = [comm EXCEPT ![h] = FALSE]
    /\ refused' = [refused EXCEPT ![h] = {}]

-----------------------------------------------------------------------------
(* The new count is right when nobody is counted.                          *)
Reset ==
    /\ runCnt' = 0
    /\ leaked' = 0
    /\ why' = IF counted = {} THEN {} ELSE why \cup {"reset"}

(* Init_Daemon: initShmFile sets every byte of the segment to 0.           *)
Init_Daemon ==
    /\ daemon = "forked"
    /\ Reset
    /\ daemon' = "initialised"
    /\ dbg_fork_cnt' = 0
    /\ UNCHANGED <<up, handler, kills>>

(* Server_Daemon: setRunCnt, then the listening socket; without it exit(9),*)
(* and the parent ends too.                                                *)
Server_Daemon ==
    /\ daemon = "initialised"
    /\ Reset
    /\ daemon' \in {"listening", "exited"}
    /\ UNCHANGED <<dbg_fork_cnt, up, handler, kills>>

(* The daemon is killed; its handlers go on.                               *)
KillDaemon ==
    /\ kills < MaxKills
    /\ daemon \in {"initialised", "listening"}
    /\ kills' = kills + 1
    /\ daemon' = "killed"
    /\ UNCHANGED <<dbg_fork_cnt, runCnt, up, handler, history>>

(* The parent waits and forks again.                                       *)
Respawn ==
    /\ daemon = "killed"
    /\ daemon' = "forked"
    /\ UNCHANGED <<dbg_fork_cnt, runCnt, up, handler, kills, history>>

(* A connection and its handler, or a fork that fails.                     *)
Accept ==
    /\ daemon = "listening"
    /\ dbg_fork_cnt' = (dbg_fork_cnt + 1) % ForkWrap
    /\ \/ \E h \in Handlers :
             /\ pc[h] = "free"
             /\ Goto(h, "incTest")
             /\ fork_cnt' = [fork_cnt EXCEPT ![h] = dbg_fork_cnt']
       \/ UNCHANGED <<pc, fork_cnt>>
    /\ UNCHANGED <<daemon, runCnt, up, v, r, i, comm, refused, kills, history>>

-----------------------------------------------------------------------------
(* incRunCnt: a full byte is left alone, and -1 returned.                  *)
IncTest(h) ==
    /\ pc[h] = "incTest"
    /\ IF runCnt = ByteMax
       THEN /\ r' = [r EXCEPT ![h] = -1]
            /\ Goto(h, "admit")
            /\ why' = why \cup {"full"}
       ELSE /\ Goto(h, "incLoad")
            /\ UNCHANGED <<r, why>>
    /\ UNCHANGED <<daemon, dbg_fork_cnt, runCnt, up, v, fork_cnt, i, comm, refused, kills,
                   leaked>>

IncLoad(h) ==
    /\ pc[h] = "incLoad"
    /\ v' = [v EXCEPT ![h] = runCnt]
    /\ Goto(h, "incStore")
    /\ UNCHANGED <<daemon, dbg_fork_cnt, runCnt, up, r, fork_cnt, i, comm, refused, kills,
                   history>>

(* The count plus one is written, kept to a byte.                          *)
IncStore(h) ==
    /\ pc[h] = "incStore"
    /\ Store(h, v[h] + 1)
    /\ Goto(h, "incResult")
    /\ UNCHANGED <<daemon, dbg_fork_cnt, up, locals, kills, leaked>>

(* What ++ returns is the value stored, or what is there when it is read   *)
(* again.                                                                  *)
IncResult(h) ==
    /\ pc[h] = "incResult"
    /\ r' \in {[r EXCEPT ![h] = x] : x \in {(v[h] + 1) % (ByteMax + 1), runCnt}}
    /\ why' = IF r'[h] # v[h] + 1 THEN why \cup {"race"} ELSE why
    /\ v' = [v EXCEPT ![h] = 0]
    /\ Goto(h, "admit")
    /\ UNCHANGED <<daemon, dbg_fork_cnt, runCnt, up, fork_cnt, i, comm, refused, kills,
                   leaked>>

(* Mutant of Admit: a client that is turned away stays in the count.       *)
AdmitForgets(h) ==
    /\ pc[h] = "admit"
    /\ Goto(h, IF r[h] <= max_process_cnt THEN "read" ELSE "exit")
    /\ UNCHANGED <<daemon, dbg_fork_cnt, runCnt, up, locals, kills, history>>

(* Server_Daemon: -1 is let in like any small count.                       *)
Admit(h) ==
    /\ pc[h] = "admit"
    /\ Goto(h, IF r[h] <= max_process_cnt THEN "read" ELSE "decTest")
    /\ UNCHANGED <<daemon, dbg_fork_cnt, runCnt, up, locals, kills, history>>

-----------------------------------------------------------------------------
(* Server_Main: a request comes, or the client closes or is too late.      *)
Read(h) ==
    /\ pc[h] = "read"
    /\ \/ Goto(h, "try")
       \/ Goto(h, "decTest")
    /\ r' = [r EXCEPT ![h] = 0]
    /\ i' = [i EXCEPT ![h] = 0]
    /\ refused' = [refused EXCEPT ![h] = {}]
    /\ UNCHANGED <<daemon, dbg_fork_cnt, runCnt, up, v, fork_cnt, comm, kills, history>>

conn_idx(h) == (fork_cnt[h] + i[h]) % max_server_cnt

(* Mutant of Try: the loop ends one server too early.                      *)
TryFewer(h) ==
    /\ pc[h] = "try"
    /\ IF conn_idx(h) \in up
       THEN /\ Goto(h, "send")
            /\ comm' = [comm EXCEPT ![h] = TRUE]
            /\ UNCHANGED <<i, refused>>
       ELSE /\ UNCHANGED comm
            /\ i' = [i EXCEPT ![h] = @ + 1]
            /\ refused' = [refused EXCEPT ![h] = @ \cup {conn_idx(h)}]
            /\ Goto(h, IF i'[h] < max_server_cnt - 1 THEN "try" ELSE "send")
    /\ UNCHANGED <<daemon, dbg_fork_cnt, runCnt, up, v, r, fork_cnt, kills, history>>

(* TCP_Svr_Comm: a server that cannot be connected to (-100) makes way for *)
(* the next; with any other result, an error too, the loop ends.           *)
Try(h) ==
    /\ pc[h] = "try"
    /\ IF conn_idx(h) \in up
       THEN /\ Goto(h, "send")
            /\ comm' = [comm EXCEPT ![h] = TRUE]
            /\ UNCHANGED <<i, refused>>
       ELSE /\ UNCHANGED comm
            /\ i' = [i EXCEPT ![h] = @ + 1]
            /\ refused' = [refused EXCEPT ![h] = @ \cup {conn_idx(h)}]
            /\ Goto(h, IF i'[h] <= max_server_cnt THEN "try" ELSE "send")
    /\ UNCHANGED <<daemon, dbg_fork_cnt, runCnt, up, v, r, fork_cnt, kills, history>>

(* The answer, whatever came of it, goes to the client.                    *)
Send(h) ==
    /\ pc[h] = "send"
    /\ Goto(h, "decTest")
    /\ UNCHANGED <<daemon, dbg_fork_cnt, runCnt, up, locals, kills, history>>

-----------------------------------------------------------------------------
(* decRunCnt: 0 is left alone.                                             *)
DecTest(h) ==
    /\ pc[h] = "decTest"
    /\ Goto(h, IF runCnt = 0 THEN "exit" ELSE "decLoad")
    /\ UNCHANGED <<daemon, dbg_fork_cnt, runCnt, up, locals, kills, history>>

DecLoad(h) ==
    /\ pc[h] = "decLoad"
    /\ v' = [v EXCEPT ![h] = runCnt]
    /\ Goto(h, "decStore")
    /\ UNCHANGED <<daemon, dbg_fork_cnt, runCnt, up, r, fork_cnt, i, comm, refused, kills,
                   history>>

DecStore(h) ==
    /\ pc[h] = "decStore"
    /\ Store(h, v[h] - 1)
    /\ Goto(h, "exit")
    /\ UNCHANGED <<daemon, dbg_fork_cnt, up, locals, kills, leaked>>

Exit(h) ==
    /\ pc[h] = "exit"
    /\ Ended(h)
    /\ UNCHANGED <<daemon, dbg_fork_cnt, runCnt, up, kills, history>>

(* A handler is killed: its count stays.                                   *)
KillHandler(h) ==
    /\ kills < MaxKills
    /\ pc[h] # "free"
    /\ kills' = kills + 1
    /\ leaked' = IF h \in counted THEN leaked + 1 ELSE leaked
    /\ Ended(h)
    /\ UNCHANGED <<daemon, dbg_fork_cnt, runCnt, up, why>>

(* Servers come and go.                                                    *)
ServerChanges ==
    /\ \E s \in Servers : up' = IF s \in up THEN up \ {s} ELSE up \cup {s}
    /\ UNCHANGED <<daemon, dbg_fork_cnt, runCnt, handler, kills, history>>

-----------------------------------------------------------------------------
Run(h) ==
    \/ IncTest(h) \/ IncLoad(h) \/ IncStore(h) \/ IncResult(h) \/ Admit(h)
    \/ Read(h) \/ Try(h) \/ Send(h)
    \/ DecTest(h) \/ DecLoad(h) \/ DecStore(h) \/ Exit(h)

Next ==
    \/ Init_Daemon \/ Server_Daemon \/ KillDaemon \/ Respawn \/ Accept
    \/ \E h \in Handlers : Run(h) \/ KillHandler(h)
    \/ ServerChanges

(* A handler waits nowhere for ever: its reads and its connections have    *)
(* the time limit tmout.                                                   *)
Spec == Init /\ [][Next]_vars /\ \A h \in Handlers : WF_vars(Run(h))

-----------------------------------------------------------------------------
(* Type invariant: the count is a byte, the place in the list of servers   *)
(* stays within the loop.                                                  *)
TypeOK ==
    /\ daemon \in {"forked", "initialised", "listening", "killed", "exited"}
    /\ dbg_fork_cnt \in 0 .. ForkWrap - 1
    /\ runCnt \in 0 .. ByteMax
    /\ up \subseteq Servers
    /\ \A h \in Handlers :
          /\ v[h] \in 0 .. ByteMax
          /\ r[h] \in -1 .. ByteMax
          /\ fork_cnt[h] \in 0 .. ForkWrap - 1
          /\ i[h] \in 0 .. max_server_cnt + 1
          /\ comm[h] \in BOOLEAN
          /\ refused[h] \subseteq Servers
    /\ kills \in 0 .. MaxKills
    /\ leaked \in 0 .. MaxKills
    /\ why \subseteq {"start", "race", "reset", "full"}

(* line_check.c 76-93: as long as no two handlers change the count at      *)
(* once, it has not been full, and no daemon was started with handlers     *)
(* still there, the count is the number of handlers between their inc and  *)
(* their dec, and of those that were killed there.                         *)
CountExact == why = {} => runCnt = Cardinality(counted) + leaked

(* main_thread.c 77: more handlers serve at a time than the ini file       *)
(* allows only after one of these three.                                   *)
OverloadOnlyByWrongCount ==
    Cardinality(serving) > max_process_cnt => why # {}

(* svr_main.c 41-50: a handler gives up only after every server was out of *)
(* reach when its turn came.                                               *)
EveryServerTried ==
    \A h \in Handlers :
        pc[h] = "send" /\ ~comm[h] => refused[h] = Servers

(* A handler comes to its end, and its client gets an answer or is closed. *)
HandlerEnds == \A h \in Handlers : pc[h] # "free" ~> pc[h] = "free"
=============================================================================
