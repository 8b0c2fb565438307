---------------------------- MODULE MC_EchoServers ----------------------------
(***************************************************************************)
(* The TCP servers of test_tcpip for TLC: select, edge-triggered epoll, and *)
(* the two that block, with and without the timeout.  They share nothing;  *)
(* the first state says which one runs, the others stay as they start.     *)
(* The definitions of SelectServer have their own names here.              *)
(***************************************************************************)
EXTENDS SelectServer, Integers, Sequences

CONSTANTS
    Clients,             \* of the blocking servers
    EpollFds, MaxEvents, RecvMax, EpollConns, EpollSends    \* of EpollServer

ASSUME EpollAssumption ==
    /\ {EpollFds, MaxEvents, RecvMax} \subseteq Nat \ {0}
    /\ {EpollConns, EpollSends} \subseteq Nat

VARIABLES
    server_c,
    epoll_pc, events, clifd, fd, watched, ready, epoll_peer, epoll_inq,
    epoll_backlog, epoll_conns, epoll_sends, merged, left,
    oio_pc, queue, cur, oio_peer, data, out, prompt

epollVars == <<epoll_pc, events, clifd, fd, watched, ready, epoll_peer, epoll_inq,
               epoll_backlog, epoll_conns, epoll_sends, merged, left>>
oioVars == <<oio_pc, queue, cur, oio_peer, data, out, prompt>>
allVars == <<server_c, vars, epollVars, oioVars>>

Epoll == INSTANCE EpollServer WITH
    MaxFd <- EpollFds, MaxConns <- EpollConns, MaxSends <- EpollSends,
    pc <- epoll_pc, peer <- epoll_peer, inq <- epoll_inq,
    backlog <- epoll_backlog, conns <- epoll_conns, sends <- epoll_sends

OioTimeout == INSTANCE OioServer WITH
    HasTimeout <- TRUE, pc <- oio_pc, peer <- oio_peer

OioNormal == INSTANCE OioServer WITH
    HasTimeout <- FALSE, pc <- oio_pc, peer <- oio_peer

EchoInit ==
    /\ server_c \in {"select", "epoll", "oio_timeout", "normal_oio"}
    /\ (server_c \in {"select", "epoll"} => cur = CHOOSE c \in Clients : TRUE)
    /\ Init
    /\ Epoll!Init
    /\ OioTimeout!Init

(* The step of the server that runs, and any step of its system.           *)
Serve ==
    /\ UNCHANGED server_c
    /\ \/ server_c = "select" /\ Server /\ UNCHANGED <<epollVars, oioVars>>
       \/ server_c = "epoll" /\ Epoll!Server /\ UNCHANGED <<vars, oioVars>>
       \/ server_c = "oio_timeout" /\ OioTimeout!Server /\ UNCHANGED <<vars, epollVars>>
       \/ server_c = "normal_oio" /\ OioNormal!Server /\ UNCHANGED <<vars, epollVars>>

EchoNext ==
    /\ UNCHANGED server_c
    /\ \/ server_c = "select" /\ Next /\ UNCHANGED <<epollVars, oioVars>>
       \/ server_c = "epoll" /\ Epoll!Next /\ UNCHANGED <<vars, oioVars>>
       \/ server_c = "oio_timeout" /\ OioTimeout!Next /\ UNCHANGED <<vars, epollVars>>
       \/ server_c = "normal_oio" /\ OioNormal!Next /\ UNCHANGED <<vars, epollVars>>

(* The fairness of all of them is weak fairness of Server; one runs.       *)
EchoSpec == EchoInit /\ [][EchoNext]_allVars /\ WF_allVars(Serve)

-----------------------------------------------------------------------------
(* Nothing that arrived is overlooked.  test_select/server.c 98-144: what  *)
(* is watched is what is open.  test_epoll/server.c 92-113: what is left   *)
(* of the backlog and of the data is announced, or was left by one accept  *)
(* or a short recv, and accept never waits.  test_oio_timeout/server.c     *)
(* 58-81: what was there at accept is answered.                            *)
NothingOverlooked ==
    /\ WatchedAreOpen
    /\ Epoll!TypeOK /\ Epoll!OneAcceptPerEvent /\ Epoll!AcceptNeverWaits
    /\ Epoll!SilentOnlyAfterShortRecv
    /\ OioTimeout!TypeOK /\ OioTimeout!PromptIsAnswered

(* Everybody's turn comes.  test_select/server.c 135: of dead connections  *)
(* only one is spared, unless a client that keeps sending holds the server *)
(* (line 122); test_epoll/server.c 93-137: every event is handled;         *)
(* test_oio_timeout/server.c 54: the timeout frees the server, and without *)
(* it (test_normal_oio/server.c 43) only a silent client holds it.         *)
TurnComes ==
    /\ server_c = "select" => DeadDoNotPileUp
    /\ server_c = "epoll" => Epoll!EventsHandled
    /\ server_c = "oio_timeout" => OioTimeout!EverybodyHasTurn
    /\ server_c = "normal_oio" => OioNormal!OnlySilentBlock
=============================================================================
