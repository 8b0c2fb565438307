---------------------------- MODULE SelectServer ----------------------------
(***************************************************************************)
(* The echo server around select (test_nio/test_select/server.c): one      *)
(* process, non-blocking connections.  Each round it copies the watched    *)
(* set, waits in select, and either accepts one connection or walks        *)
(* through the descriptors that are ready.                                 *)
(*                                                                         *)
(* pc: select   waiting in select        read    about to read descriptor i *)
(*     accept   about to accept          write   about to echo what it read *)
(*     scan     at the top of the loop   count   after the read loop       *)
(*     exit     the process is gone                                        *)
(* Descriptor 0 stands for listen_fd; connections get the lowest free one. *)
(* Clients come and send for ever; only the kernel's queues hold them up.  *)
(***************************************************************************)
EXTENDS Naturals, FiniteSets

CONSTANTS MaxFd,        \* connections a process may have open
          Backlog,      \* connections that may wait to be accepted: listen(..., 5)
          RecvBuf       \* chunks that the receive buffer of a connection holds

ASSUME BoundsAssumption == MaxFd \in Nat \ {0} /\ Backlog \in Nat /\ RecvBuf \in Nat

Fds == 1 .. MaxFd

VARIABLES
    pc,
    readfds,    \* the descriptors that are watched
    allfds,     \* those that the last select found ready
    fd_num,     \* how many of them are left
    maxfd,      \* the highest descriptor that is watched
    i,          \* the descriptor being looked at
    readn,      \* how the read loop ended: "eof", "again", "error"
    peer,       \* peer[f]: "free", or what the client did: "open", "eof", "reset"
    inq,        \* inq[f]: chunks that wait to be read
    backlog     \* connections that wait to be accepted

server == <<pc, readfds, allfds, fd_num, maxfd, i, readn>>
sockets == <<peer, inq, backlog>>
vars == <<server, sockets>>

Init ==
    /\ pc = "select"
    /\ readfds = {0}
    /\ allfds = {}
    /\ fd_num = 0
    /\ maxfd = 0
    /\ i = 0
    /\ readn = "again"
    /\ peer = [f \in Fds |-> "free"]
    /\ inq = [f \in Fds |-> 0]
    /\ backlog = 0

Readable(f) ==
    IF f = 0 THEN backlog > 0 ELSE inq[f] > 0 \/ peer[f] \in {"eof", "reset"}

-----------------------------------------------------------------------------
(* The clients and the network.                                            *)
Connect ==
    /\ backlog < Backlog
    /\ backlog' = backlog + 1
    /\ UNCHANGED <<server, peer, inq>>

Send(f) ==
    /\ peer[f] = "open" /\ inq[f] < RecvBuf
    /\ inq' = [inq EXCEPT ![f] = @ + 1]
    /\ UNCHANGED <<server, peer, backlog>>

Close(f) ==
    /\ peer[f] = "open"
    /\ peer' = [peer EXCEPT ![f] = "eof"]
    /\ UNCHANGED <<server, inq, backlog>>

(* A reset; what was not read yet may be lost with it.                     *)
Abort(f) ==
    /\ peer' = [peer EXCEPT ![f] = "reset"]
    /\ inq' \in {inq, [inq EXCEPT ![f] = 0]}

Reset(f) ==
    /\ peer[f] \in {"open", "eof"}
    /\ Abort(f)
    /\ UNCHANGED <<server, backlog>>

-----------------------------------------------------------------------------
(* select returns: a new connection goes before everything else.           *)
Select ==
    /\ pc = "select"
    /\ LET ready == {f \in readfds : f <= maxfd /\ Readable(f)}
       IN  /\ ready # {}
           /\ allfds' = ready
           /\ fd_num' = Cardinality(ready)
           /\ pc' = IF 0 \in ready THEN "accept" ELSE "scan"
    /\ i' = 0
    /\ UNCHANGED <<readfds, maxfd, readn, sockets>>

(* Mutant of Accept: maxfd follows the last descriptor.                    *)
AcceptMaxLast ==
    /\ pc = "accept"
    /\ backlog' = backlog - 1
    /\ \E f \in Fds :
         /\ peer[f] = "free"
         /\ \A g \in Fds : g < f => peer[g] # "free"
         /\ peer' = [peer EXCEPT ![f] = "open"]
         /\ readfds' = readfds \cup {f}
         /\ maxfd' = f
         /\ pc' = "select"
    /\ UNCHANGED <<allfds, fd_num, i, readn, inq>>

(* accept; the new descriptor is watched from the next select on.  Without *)
(* a free descriptor accept returns -1 and nonblock ends the program.      *)
Accept ==
    /\ pc = "accept"
    /\ backlog' = backlog - 1
    /\ \/ \E f \in Fds :
            /\ peer[f] = "free"
            /\ \A g \in Fds : g < f => peer[g] # "free"
            /\ peer' = [peer EXCEPT ![f] = "open"]
            /\ readfds' = readfds \cup {f}
            /\ maxfd' = IF f > maxfd THEN f ELSE maxfd
            /\ pc' = "select"
       \/ /\ \A f \in Fds : peer[f] # "free"
          /\ pc' = "exit"
          /\ UNCHANGED <<peer, readfds, maxfd>>
    /\ UNCHANGED <<allfds, fd_num, i, readn, inq>>

(* The for loop goes on to the next descriptor that is ready.              *)
Scan ==
    /\ pc = "scan"
    /\ LET rest == {f \in allfds : i <= f /\ f <= maxfd}
       IN  IF rest = {}
           THEN pc' = "select" /\ UNCHANGED i
           ELSE /\ i' \in rest
                /\ \A f \in rest : i' <= f
                /\ pc' = "read"
    /\ UNCHANGED <<readfds, allfds, fd_num, maxfd, readn, sockets>>

(* read: a chunk, the end of the data, nothing yet, or an error.           *)
Read ==
    /\ pc = "read"
    /\ IF inq[i] > 0
       THEN /\ inq' = [inq EXCEPT ![i] = @ - 1]
            /\ pc' = "write"
            /\ UNCHANGED readn
       ELSE /\ pc' = "count"
            /\ readn' = IF peer[i] = "reset" THEN "error"
                        ELSE IF peer[i] = "eof" THEN "eof" ELSE "again"
            /\ UNCHANGED inq
    /\ UNCHANGED <<readfds, allfds, fd_num, maxfd, i, peer, backlog>>

(* write: to a connection that was reset it may raise SIGPIPE, which ends  *)
(* the program; a client that closed may answer it with a reset.           *)
Write ==
    /\ pc = "write"
    /\ \/ /\ pc' = "read"
          /\ UNCHANGED <<peer, inq>>
       \/ /\ peer[i] = "reset"
          /\ pc' = "exit"
          /\ UNCHANGED <<peer, inq>>
       \/ /\ peer[i] = "eof"
          /\ pc' = "read"
          /\ Abort(i)
    /\ UNCHANGED <<readfds, allfds, fd_num, maxfd, i, readn, backlog>>

(* close and FD_CLR.                                                       *)
CloseFd(f) ==
    /\ peer' = [peer EXCEPT ![f] = "free"]
    /\ inq' = [inq EXCEPT ![f] = 0]
    /\ readfds' = readfds \ {f}

(* Mutant of Count: the loop stops one descriptor early.                   *)
CountStopsEarly ==
    /\ pc = "count"
    /\ fd_num' = fd_num - 1
    /\ UNCHANGED i
    /\ pc' = IF fd_num' = 0 THEN "select" ELSE "scan"
    /\ IF readn = "error" THEN CloseFd(i) ELSE UNCHANGED <<peer, inq, readfds>>
    /\ UNCHANGED <<allfds, maxfd, readn, backlog>>

(* After the read loop: an error closes the connection, the end of the     *)
(* data closes it only if this was not the last ready descriptor, for      *)
(* then the loop has been left.                                            *)
Count ==
    /\ pc = "count"
    /\ fd_num' = fd_num - 1
    /\ i' = i + 1
    /\ pc' = IF fd_num' = 0 THEN "select" ELSE "scan"
    /\ IF readn = "error" \/ (readn = "eof" /\ fd_num' > 0)
       THEN CloseFd(i)
       ELSE UNCHANGED <<peer, inq, readfds>>
    /\ UNCHANGED <<allfds, maxfd, readn, backlog>>

Server == Select \/ Accept \/ Scan \/ Read \/ Write \/ Count

Next ==
    \/ Connect
    \/ \E f \in Fds : Send(f) \/ Close(f) \/ Reset(f)
    \/ Server

Spec == Init /\ [][Next]_vars

(* The server is a process that the kernel schedules.                      *)
FairSpec == Spec /\ WF_vars(Server)

-----------------------------------------------------------------------------
(* Type invariant.                                                         *)
TypeOK ==
    /\ pc \in {"select", "accept", "scan", "read", "write", "count", "exit"}
    /\ readfds \subseteq 0 .. MaxFd
    /\ allfds \subseteq 0 .. MaxFd
    /\ fd_num \in 0 .. MaxFd + 1
    /\ maxfd \in 0 .. MaxFd
    /\ i \in 0 .. MaxFd + 1
    /\ readn \in {"eof", "again", "error"}
    /\ peer \in [Fds -> {"free", "open", "eof", "reset"}]
    /\ inq \in [Fds -> 0 .. RecvBuf]
    /\ backlog \in 0 .. Backlog

(* server.c 91-98, 129-131, 144-145: the descriptors that are watched are  *)
(* the listener and exactly those that are open, all of them within        *)
(* maxfd, so that no reused descriptor is forgotten or watched twice.      *)
WatchedAreOpen ==
    /\ readfds = {0} \cup {f \in Fds : peer[f] # "free"}
    /\ \A f \in readfds : f <= maxfd

(* server.c 134-137: while the loop runs, fd_num counts the ready          *)
(* descriptors that it has not come to; it stops neither early nor late,   *)
(* and what it reads is still open although the loop closes descriptors.   *)
CountsTheRest ==
    /\ pc = "scan" =>
         fd_num > 0 /\ fd_num = Cardinality({f \in allfds : f >= i})
    /\ pc \in {"read", "write", "count"} =>
         /\ fd_num = Cardinality({f \in allfds : f >= i})
         /\ peer[i] # "free"

(* server.c 122: the loop reads as long as there is something to read, and *)
(* nobody else is served meanwhile; a client that keeps sending may hold   *)
(* the only process for ever.  This says that no client does.              *)
ReadLoopEnds == []<>(pc \notin {"read", "write"})

(* Of two connections that their clients have closed the lower one is      *)
(* closed in the end (server.c 134-145), unless a client that keeps        *)
(* sending holds the server: at most the highest ready descriptor is       *)
(* spared for ever, and dead connections do not pile up.                   *)
DeadDoNotPileUp == ReadLoopEnds => \A f, g \in Fds :
    (f < g /\ peer[f] = "eof" /\ peer[g] = "eof")
        ~> (peer[f] # "eof" \/ peer[g] # "eof" \/ pc = "exit")

(* Data on an open connection is read to the end (server.c 85-99, 121),    *)
(* unless another client that keeps sending holds the server: although     *)
(* every new connection goes first and dead ones keep select busy.         *)
DataServed == ReadLoopEnds =>
    \A f \in Fds : (inq[f] > 0) ~> (inq[f] = 0 \/ pc = "exit")
=============================================================================
