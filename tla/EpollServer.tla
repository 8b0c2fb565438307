---------------------------- MODULE EpollServer ----------------------------
(***************************************************************************)
(* The server around an edge-triggered epoll                               *)
(* (test_tcpip/test_nio/test_epoll/server.c): one process, non-blocking    *)
(* connections behind a blocking listening socket.  An event announces     *)
(* that something arrived, once; the server makes one accept or one recv   *)
(* for it, whatever is left behind.                                        *)
(*                                                                         *)
(* pc: wait     before epoll_wait          add    before epoll_ctl ADD     *)
(*     event    at the top of the for loop send   before the echo          *)
(*     accept   in accept, which blocks    exit   the process is gone      *)
(* Descriptor 0 stands for listenfd; connections get the lowest free one,  *)
(* and none is ever closed.                                                *)
(***************************************************************************)
EXTENDS Integers, Sequences

CONSTANTS MaxFd,        \* connections a process may have open
          MaxEvents,    \* MAX_CLIENT: events that one epoll_wait returns
          RecvMax,      \* MAX_LINE - 1: what one recv can take
          MaxConns,     \* bound: connections that are ever made
          MaxSends      \* bound: pieces of data that are ever sent

Fds == 1 .. MaxFd

VARIABLES
    pc,
    events,     \* the events that the for loop has not come to
    clifd,      \* what accept returned
    fd,         \* the descriptor that is being read
    watched,    \* the descriptors epoll has
    ready,      \* those with an event to report, in the order of their events
    peer,       \* peer[f]: "free", what the client did ("open", "eof", "reset"),
                \* or "dead": a recv has reported the reset
    inq,        \* inq[f]: data that waits to be read
    backlog,    \* connections that wait to be accepted
    conns,      \* connections made so far
    sends,      \* pieces sent so far
    merged,     \* history: connections that no event of their own announces
    left        \* history: left[f]: the last recv on f did not take everything

server == <<pc, events, clifd, fd>>
sockets == <<peer, inq, backlog>>
bounds == <<conns, sends>>
ghost == <<merged, left>>
vars == <<server, watched, ready, sockets, bounds, ghost>>

Among(f, q) == \E k \in DOMAIN q : q[k] = f

(* The elements of q that are in S, in their order.                        *)
Only(q, S) ==
    LET upTo[k \in 0 .. Len(q)] ==
            IF k = 0 THEN <<>>
            ELSE IF q[k] \in S THEN Append(upTo[k - 1], q[k]) ELSE upTo[k - 1]
    IN  upTo[Len(q)]

Readable(f) ==
    IF f = 0 THEN backlog > 0 ELSE inq[f] > 0 \/ peer[f] \in {"eof", "reset", "dead"}

Init ==
    /\ pc = "wait"
    /\ events = <<>>
    /\ clifd = 0
    /\ fd = 0
    /\ watched = {0}
    /\ ready = <<>>
    /\ peer = [f \in Fds |-> "free"]
    /\ inq = [f \in Fds |-> 0]
    /\ backlog = 0
    /\ conns = 0
    /\ sends = 0
    /\ merged = 0
    /\ left = [f \in Fds |-> FALSE]

-----------------------------------------------------------------------------
(* Something arrived on a descriptor: epoll has an event to report.        *)
Edge(f) ==
    ready' = IF f \in watched /\ ~Among(f, ready) THEN Append(ready, f) ELSE ready

(* The clients and the network.                                            *)
Connect ==
    /\ conns < MaxConns
    /\ conns' = conns + 1
    /\ backlog' = backlog + 1
    /\ merged' = IF Among(0, ready) THEN merged + 1 ELSE merged
    /\ Edge(0)
    /\ UNCHANGED <<server, watched, peer, inq, sends, left>>

Send(f) ==
    /\ peer[f] = "open"
    /\ sends < MaxSends
    /\ sends' = sends + 1
    /\ inq' = [inq EXCEPT ![f] = @ + 1]
    /\ Edge(f)
    /\ UNCHANGED <<server, watched, peer, backlog, conns, ghost>>

Close(f) ==
    /\ peer[f] = "open"
    /\ peer' = [peer EXCEPT ![f] = "eof"]
    /\ Edge(f)
    /\ UNCHANGED <<server, watched, inq, backlog, bounds, ghost>>

(* A reset; what was not read yet may be lost with it.                     *)
Reset(f) ==
    /\ peer[f] \in {"open", "eof"}
    /\ peer' = [peer EXCEPT ![f] = "reset"]
    /\ inq' \in {inq, [inq EXCEPT ![f] = 0]}
    /\ Edge(f)
    /\ UNCHANGED <<server, watched, backlog, bounds, ghost>>

-----------------------------------------------------------------------------
(* epoll_wait reports what is still true of the events, oldest first, and  *)
(* forgets what it reports.  It returns at once when there is none; the    *)
(* loop then calls it again.                                               *)
Wait ==
    /\ pc = "wait"
    /\ ready # <<>>
    /\ LET true == Only(ready, {f \in watched : Readable(f)})
           n == IF Len(true) > MaxEvents THEN MaxEvents ELSE Len(true)
       IN  /\ events' = SubSeq(true, 1, n)
           /\ ready' = SubSeq(true, n + 1, Len(true))
           /\ pc' = IF n = 0 THEN "wait" ELSE "event"
    /\ UNCHANGED <<clifd, fd, watched, sockets, bounds, ghost>>

(* The for loop: the listener, or a connection.                            *)
Event ==
    /\ pc = "event"
    /\ IF events = <<>>
       THEN pc' = "wait" /\ UNCHANGED <<events, fd>>
       ELSE /\ events' = Tail(events)
            /\ fd' = Head(events)
            /\ pc' = IF fd' = 0 THEN "accept" ELSE "recv"
    /\ UNCHANGED <<clifd, watched, ready, sockets, bounds, ghost>>

(* The descriptor a new connection gets.                                   *)
Lowest(f) == peer[f] = "free" /\ \A g \in Fds : g < f => peer[g] # "free"

(* Mutant of Accept: it starts over with epoll_wait.                       *)
AcceptRestarts ==
    /\ pc = "accept"
    /\ backlog > 0
    /\ \E f \in Fds :
         /\ Lowest(f)
         /\ peer' = [peer EXCEPT ![f] = "open"]
         /\ clifd' = f
         /\ pc' = "add"
         /\ backlog' = backlog - 1
         /\ events' = <<>>
    /\ UNCHANGED <<fd, watched, ready, inq, bounds, ghost>>

(* accept, which waits when there is nobody.  Without a free descriptor it *)
(* fails; the connection stays, its event does not.                        *)
Accept ==
    /\ pc = "accept"
    /\ backlog > 0
    /\ \/ \E f \in Fds :
            /\ Lowest(f)
            /\ peer' = [peer EXCEPT ![f] = "open"]
            /\ clifd' = f
            /\ pc' = "add"
            /\ backlog' = backlog - 1
            /\ UNCHANGED merged
       \/ /\ \A f \in Fds : peer[f] # "free"
          /\ clifd' = -1
          /\ pc' = "event"
          /\ merged' = merged + 1
          /\ UNCHANGED <<peer, backlog>>
    /\ UNCHANGED <<events, fd, watched, ready, inq, bounds, left>>

(* epoll_ctl ADD; what arrived before it is an event too.                  *)
Add ==
    /\ pc = "add"
    /\ watched' = watched \cup {clifd}
    /\ ready' = IF Readable(clifd) THEN Append(ready, clifd) ELSE ready
    /\ pc' = "event"
    /\ UNCHANGED <<events, clifd, fd, sockets, bounds, ghost>>

(* One recv: data, the end of the data, a reset, or nothing yet.  A        *)
(* connection that ended is taken out of epoll but not closed; after an    *)
(* error nothing is done at all.                                           *)
Recv ==
    /\ pc = "recv"
    /\ IF inq[fd] > 0
       THEN LET n == IF inq[fd] > RecvMax THEN RecvMax ELSE inq[fd]
            IN  /\ inq' = [inq EXCEPT ![fd] = @ - n]
                /\ left' = [left EXCEPT ![fd] = inq[fd] > n \/ peer[fd] # "open"]
                /\ pc' = "send"
                /\ UNCHANGED <<watched, ready, peer>>
       ELSE /\ left' = [left EXCEPT ![fd] = FALSE]
            /\ pc' = "event"
            /\ IF peer[fd] \in {"eof", "dead"}
               THEN /\ watched' = watched \ {fd}
                    /\ ready' = Only(ready, watched')
                    /\ UNCHANGED peer
               ELSE /\ peer' = [peer EXCEPT ![fd] = IF @ = "reset" THEN "dead" ELSE @]
                    /\ UNCHANGED <<watched, ready>>
            /\ UNCHANGED inq
    /\ UNCHANGED <<events, clifd, fd, backlog, bounds, merged>>

(* send: the buffer has just been cleared, so it sends nothing; on a       *)
(* connection that was reset even that may raise SIGPIPE.                  *)
SendBack ==
    /\ pc = "send"
    /\ \/ pc' = "event"
       \/ peer[fd] = "reset" /\ pc' = "exit"
    /\ UNCHANGED <<events, clifd, fd, watched, ready, sockets, bounds, ghost>>

Server == Wait \/ Event \/ Accept \/ Add \/ Recv \/ SendBack

Next ==
    \/ Connect
    \/ \E f \in Fds : Send(f) \/ Close(f) \/ Reset(f)
    \/ Server

Spec == Init /\ [][Next]_vars

(* The server is a process that the kernel schedules.                      *)
FairSpec == Spec /\ WF_vars(Server)

-----------------------------------------------------------------------------
(* Type invariant.                                                         *)
TypeOK ==
    /\ pc \in {"wait", "event", "accept", "add", "recv", "send", "exit"}
    /\ events \in Seq(0 .. MaxFd) /\ Len(events) <= MaxEvents
    /\ clifd \in -1 .. MaxFd
    /\ fd \in 0 .. MaxFd
    /\ watched \subseteq 0 .. MaxFd /\ 0 \in watched
    /\ ready \in Seq(watched) /\ Len(ready) <= MaxFd + 1
    /\ peer \in [Fds -> {"free", "open", "eof", "reset", "dead"}]
    /\ inq \in [Fds -> 0 .. MaxSends]
    /\ backlog \in 0 .. MaxConns
    /\ conns \in 0 .. MaxConns
    /\ sends \in 0 .. MaxSends
    /\ merged \in 0 .. MaxConns
    /\ left \in [Fds -> BOOLEAN]

One(b) == IF b THEN 1 ELSE 0

(* server.c 92-97: there is one accept for an event, so the connections    *)
(* that wait are those whose event is still to come or is being handled,   *)
(* and those that arrived while an event was waiting or met a failed       *)
(* accept: nothing will announce the latter again.                         *)
OneAcceptPerEvent ==
    backlog = merged + One(Among(0, ready)) + One(Among(0, events)) + One(pc = "accept")

(* server.c 97: listenfd blocks, yet accept never waits: an event is only  *)
(* reported while somebody is there, and nobody else takes the connection. *)
AcceptNeverWaits == pc = "accept" => backlog > 0

(* What there is to read on f.                                             *)
Unread(f) == inq[f] > 0 \/ peer[f] \in {"eof", "reset"}

Announced(f) == Among(f, ready) \/ Among(f, events) \/ (pc = "recv" /\ fd = f)

(* server.c 102-113: data that came before epoll_ctl, during the for loop  *)
(* or between the report and the recv is announced: only a recv that did   *)
(* not take everything leaves data that nobody is told of.                 *)
SilentOnlyAfterShortRecv ==
    \A f \in watched \ {0} : Unread(f) /\ ~Announced(f) => left[f]

(* Every event is handled in the end (server.c 93-137), however many       *)
(* there are and although accept could wait for ever.                      *)
EventsHandled ==
    \A f \in 0 .. MaxFd :
        LET Pending == Among(f, ready) \/ Among(f, events)
        IN  Pending ~> (~Pending \/ pc = "exit")
=============================================================================
