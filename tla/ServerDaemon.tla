---------------------------- MODULE ServerDaemon ----------------------------
(***************************************************************************)
(* How a lock server stays up.  main forks a daemon and waits for it; a    *)
(* daemon that ends is forked again, unless it ended with exit(9).  The    *)
(* daemon opens the port, retrying bind, and forks a handler for each      *)
(* connection; the handler inherits the listening socket and closes it     *)
(* before it serves.  A server may be started although another one runs.   *)
(*                                                                         *)
(* sup[s], where supervisor s is:    daemon[s], its child:                 *)
(*    fork    about to fork             none    not forked, or reaped      *)
(*    wait    in wait                   bind    in Open_Server_Socket      *)
(*    off     not started, or over      listen  bound, about to listen     *)
(*                                      accept  in the accept loop         *)
(*                                      exit9   ended by exit(9)           *)
(*                                      killed  ended in another way       *)
(* handler[h]: "none", "open" (it still has the listening socket), "serve". *)
(***************************************************************************)
EXTENDS Naturals

CONSTANTS Servers,      \* the times the program is started
          Handlers,     \* slots for connections that are served at a time
          MaxTry,       \* binds that may fail before the last but one: 10
          MaxKills      \* bound: daemons that are killed

VARIABLES sup, daemon, handler,
          try_cnt,      \* try_cnt[s]: local variable of Open_Server_Socket
          status,       \* status[s]: what wait left: "unset", "nine", "other"
          kills,        \* daemons killed so far
          started,      \* history: the servers that were started
          excused       \* history: a supervisor was killed or could not fork,
                        \* or a daemon gave up the port for another reason
                        \* than a running server

vars == <<sup, daemon, handler, try_cnt, status, kills, started, excused>>

Listening(s) == daemon[s] = "accept"

(* A socket that listens on the port makes bind and listen fail, also when *)
(* only a handler still has it open; one that is merely bound does not,    *)
(* because of SO_REUSEADDR.                                                *)
PortTaken == (\E s \in Servers : Listening(s)) \/ (\E h \in Handlers : handler[h] = "open")

Init ==
    /\ sup = [s \in Servers |-> "off"]
    /\ daemon = [s \in Servers |-> "none"]
    /\ handler = [h \in Handlers |-> "none"]
    /\ try_cnt = [s \in Servers |-> 0]
    /\ status = [s \in Servers |-> "unset"]
    /\ kills = 0
    /\ started = {}
    /\ excused = FALSE

-----------------------------------------------------------------------------
(* main: the program is started, its first process exits at once.          *)
Start(s) ==
    /\ s \notin started
    /\ started' = started \cup {s}
    /\ sup' = [sup EXCEPT ![s] = "fork"]
    /\ UNCHANGED <<daemon, handler, try_cnt, status, kills, excused>>

(* main 38-41: fork; the child leaves the loop and opens the port.         *)
ForkDaemon(s) ==
    /\ sup[s] = "fork"
    /\ sup' = [sup EXCEPT ![s] = "wait"]
    /\ daemon' = [daemon EXCEPT ![s] = "bind"]
    /\ try_cnt' = [try_cnt EXCEPT ![s] = 0]
    /\ UNCHANGED <<handler, status, kills, started, excused>>

(* fork returns -1, which is not 0: the supervisor goes on to wait.        *)
ForkFails(s) ==
    /\ sup[s] = "fork"
    /\ sup' = [sup EXCEPT ![s] = "wait"]
    /\ excused' = TRUE
    /\ UNCHANGED <<daemon, handler, try_cnt, status, kills, started>>

(* Mutant of Decide: whatever ended the daemon ends the supervisor.        *)
DecideOff(s, st) ==
    sup' = [sup EXCEPT ![s] = "off"]

(* What is done with the status: 0x900 ends the supervisor.  A status that *)
(* was never written may hold any value.                                   *)
Decide(s, st) ==
    \/ /\ st \in {"nine", "unset"}
       /\ sup' = [sup EXCEPT ![s] = "off"]
    \/ /\ st # "nine"
       /\ sup' = [sup EXCEPT ![s] = "fork"]

(* wait returns the status of the daemon, or fails at once without a child *)
(* and leaves status as it is.                                             *)
Wait(s) ==
    /\ sup[s] = "wait"
    /\ daemon[s] \in {"none", "exit9", "killed"}
    /\ daemon' = [daemon EXCEPT ![s] = "none"]
    /\ status' = [status EXCEPT ![s] =
                     IF daemon[s] = "exit9" THEN "nine"
                     ELSE IF daemon[s] = "killed" THEN "other" ELSE @]
    /\ Decide(s, status'[s])
    /\ UNCHANGED <<handler, try_cnt, kills, started, excused>>

-----------------------------------------------------------------------------
(* server_daemon: exit(9).  It is excused when no server has the port.     *)
Exit9(s) ==
    /\ daemon' = [daemon EXCEPT ![s] = "exit9"]
    /\ excused' = (excused \/ ~\E t \in Servers : Listening(t))

(* Open_Server_Socket: socket or setsockopt fails.                         *)
SocketFails(s) ==
    /\ daemon[s] = "bind"
    /\ try_cnt[s] = 0
    /\ Exit9(s)
    /\ UNCHANGED <<sup, handler, try_cnt, status, kills, started>>

(* bind fails while a socket listens on the port.  The test is             *)
(* try_cnt++ > MaxTry: the daemon gives up at the (MaxTry + 2)nd failure.  *)
Bind(s) ==
    /\ daemon[s] = "bind"
    /\ IF ~PortTaken
       THEN /\ daemon' = [daemon EXCEPT ![s] = "listen"]
            /\ UNCHANGED <<try_cnt, excused>>
       ELSE /\ try_cnt' = [try_cnt EXCEPT ![s] = @ + 1]
            /\ IF try_cnt[s] > MaxTry
               THEN Exit9(s)
               ELSE UNCHANGED <<daemon, excused>>
    /\ UNCHANGED <<sup, handler, status, kills, started>>

(* listen fails (-3) if another server bound the port at the same time and *)
(* was the first to listen.                                                *)
Listen(s) ==
    /\ daemon[s] = "listen"
    /\ IF ~PortTaken
       THEN daemon' = [daemon EXCEPT ![s] = "accept"] /\ UNCHANGED excused
       ELSE Exit9(s)
    /\ UNCHANGED <<sup, handler, try_cnt, status, kills, started>>

(* accept and fork: the handler has the listening socket open.             *)
ForkHandler(s, h) ==
    /\ Listening(s)
    /\ handler[h] = "none"
    /\ handler' = [handler EXCEPT ![h] = "open"]
    /\ UNCHANGED <<sup, daemon, try_cnt, status, kills, started, excused>>

(* The handler closes the listening socket.                                *)
CloseListen(h) ==
    /\ handler[h] = "open"
    /\ handler' = [handler EXCEPT ![h] = "serve"]
    /\ UNCHANGED <<sup, daemon, try_cnt, status, kills, started, excused>>

(* The handler has served its client, or is killed.                        *)
HandlerEnds(h) ==
    /\ handler[h] # "none"
    /\ handler' = [handler EXCEPT ![h] = "none"]
    /\ UNCHANGED <<sup, daemon, try_cnt, status, kills, started, excused>>

(* A daemon is killed or crashes; its handlers live on.                    *)
KillDaemon(s) ==
    /\ kills < MaxKills
    /\ daemon[s] \in {"bind", "listen", "accept"}
    /\ kills' = kills + 1
    /\ daemon' = [daemon EXCEPT ![s] = "killed"]
    /\ UNCHANGED <<sup, handler, try_cnt, status, started, excused>>

(* A supervisor is killed; its daemon lives on, and nobody waits for it.   *)
KillSupervisor(s) ==
    /\ kills < MaxKills
    /\ sup[s] # "off"
    /\ kills' = kills + 1
    /\ sup' = [sup EXCEPT ![s] = "off"]
    /\ excused' = TRUE
    /\ UNCHANGED <<daemon, handler, try_cnt, status, started>>

Run(s) == ForkDaemon(s) \/ Wait(s) \/ Bind(s) \/ Listen(s)

Next ==
    \/ \E s \in Servers :
         \/ Start(s) \/ Run(s)
         \/ ForkFails(s) \/ SocketFails(s)
         \/ KillDaemon(s) \/ KillSupervisor(s)
         \/ \E h \in Handlers : ForkHandler(s, h)
    \/ \E h \in Handlers : CloseListen(h) \/ HandlerEnds(h)

Spec == Init /\ [][Next]_vars

(* Supervisors, daemons and handlers are scheduled.                        *)
FairSpec ==
    /\ Spec
    /\ \A s \in Servers : WF_vars(Run(s))
    /\ \A h \in Handlers : WF_vars(CloseListen(h))

-----------------------------------------------------------------------------
(* Type invariant.                                                         *)
TypeOK ==
    /\ sup \in [Servers -> {"off", "fork", "wait"}]
    /\ daemon \in [Servers -> {"none", "bind", "listen", "accept", "exit9", "killed"}]
    /\ handler \in [Handlers -> {"none", "open", "serve"}]
    /\ try_cnt \in [Servers -> 0 .. MaxTry + 2]
    /\ status \in [Servers -> {"unset", "nine", "other"}]
    /\ kills \in 0 .. MaxKills
    /\ started \subseteq Servers
    /\ excused \in BOOLEAN

(* However many servers are started at once, and whichever daemons are     *)
(* killed, one supervisor stays (main.c 48, tcp_lib.c 303-319): the exits  *)
(* by 9 never take the last one away, unless a supervisor was killed, a    *)
(* call failed, or a daemon gave up a port that only a handler held.       *)
OneSurvives ==
    (started # {} /\ ~excused) => \E s \in Servers : sup[s] # "off"

(* main.c 48: a supervisor that was not killed stops only when its daemon  *)
(* asked for it by exit(9), or when its very first fork failed and the     *)
(* status it tests was never written.                                      *)
StopsOnlyWhenAsked == [][
    \A s \in Servers :
        (sup[s] = "wait" /\ sup'[s] = "off" /\ kills' = kills) =>
            daemon[s] = "exit9" \/ (daemon[s] = "none" /\ status[s] = "unset")]_vars

(* "If the child ends it is run again" (S/Main.c 119-121): while there is  *)
(* a supervisor, some server will accept connections again, with the same  *)
(* exceptions as in OneSurvives.                                           *)
ServiceRestored == \A s \in Servers :
    (sup[s] # "off") ~> ((\E t \in Servers : Listening(t)) \/ excused)
=============================================================================
