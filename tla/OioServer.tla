----------------------------- MODULE OioServer -----------------------------
(***************************************************************************)
(* The two blocking echo servers (test_tcpip/test_oio): one process that   *)
(* serves one connection at a time, from accept to close.  One of them     *)
(* gives a client five seconds, with select (test_oio_timeout/server.c);   *)
(* the other waits in read (test_normal_oio/server.c).                     *)
(*                                                                         *)
(* pc: accept   in accept             write  about to echo                 *)
(*     select   waiting in select     close  about to close                *)
(*     read     in read               exit   the process is gone           *)
(***************************************************************************)
EXTENDS Sequences

CONSTANTS Clients,
          HasTimeout    \* TRUE: test_oio_timeout, FALSE: test_normal_oio

VARIABLES
    pc,
    queue,     \* the clients that wait to be accepted, in their order
    cur,       \* the client that is served (meaningful after accept)
    peer,      \* peer[c]: what c did: "new", "open", "eof", "reset"
    data,      \* data[c]: what c sent waits to be read
    out,       \* out[c]: "none", "echo": it was answered, "closed": it was not
    prompt     \* history: prompt[c]: c's data was there before its accept

net == <<peer, data, prompt>>
vars == <<pc, queue, cur, peer, data, out, prompt>>

Among(c, q) == \E k \in DOMAIN q : q[k] = c

(* read would return: there is data, the end of it or an error.            *)
Readable(c) == data[c] \/ peer[c] \in {"eof", "reset"}

Init ==
    /\ pc = "accept"
    /\ queue = <<>>
    /\ cur \in Clients
    /\ peer = [c \in Clients |-> "new"]
    /\ data = [c \in Clients |-> FALSE]
    /\ out = [c \in Clients |-> "none"]
    /\ prompt = [c \in Clients |-> FALSE]

-----------------------------------------------------------------------------
(* The clients and the network: each connects once and sends once.         *)
Connect(c) ==
    /\ peer[c] = "new"
    /\ pc # "exit"
    /\ peer' = [peer EXCEPT ![c] = "open"]
    /\ queue' = Append(queue, c)
    /\ UNCHANGED <<pc, cur, data, out, prompt>>

Send(c) ==
    /\ peer[c] = "open"
    /\ ~data[c]
    /\ out[c] = "none"
    /\ data' = [data EXCEPT ![c] = TRUE]
    /\ prompt' = [prompt EXCEPT ![c] = Among(c, queue)]
    /\ UNCHANGED <<pc, queue, cur, peer, out>>

Close(c) ==
    /\ peer[c] = "open"
    /\ peer' = [peer EXCEPT ![c] = "eof"]
    /\ UNCHANGED <<pc, queue, cur, data, out, prompt>>

(* A reset; what was not read yet may be lost with it.                     *)
Reset(c) ==
    /\ peer[c] \in {"open", "eof"}
    /\ peer' = [peer EXCEPT ![c] = "reset"]
    /\ data' \in {data, [data EXCEPT ![c] = FALSE]}
    /\ UNCHANGED <<pc, queue, cur, out, prompt>>

-----------------------------------------------------------------------------
(* accept: the client that has waited longest.                             *)
Accept ==
    /\ pc = "accept"
    /\ queue # <<>>
    /\ cur' = Head(queue)
    /\ queue' = Tail(queue)
    /\ pc' = IF HasTimeout THEN "select" ELSE "read"
    /\ UNCHANGED <<net, out>>

(* select returns because of something to read, or after five seconds      *)
(* without.                                                                *)
Select ==
    /\ pc = "select"
    /\ pc' = IF Readable(cur) THEN "read" ELSE "close"
    /\ UNCHANGED <<queue, cur, net, out>>

(* Mutant of Read: a client that sends nothing more is waited for, not in  *)
(* select alone but in read too.                                           *)
ReadTwice ==
    /\ pc = "read"
    /\ Readable(cur)
    /\ pc' = IF data[cur] THEN "read" ELSE "close"
    /\ data' = [data EXCEPT ![cur] = FALSE]
    /\ UNCHANGED <<queue, cur, peer, out, prompt>>

(* read waits for something; 0 and -1 end the connection.                  *)
Read ==
    /\ pc = "read"
    /\ Readable(cur)
    /\ pc' = IF data[cur] THEN "write" ELSE "close"
    /\ data' = [data EXCEPT ![cur] = FALSE]
    /\ UNCHANGED <<queue, cur, peer, out, prompt>>

(* write; to a connection that was reset it fails or raises SIGPIPE.       *)
Write ==
    /\ pc = "write"
    /\ \/ pc' = "close" /\ out' = [out EXCEPT ![cur] = "echo"]
       \/ peer[cur] = "reset" /\ pc' \in {"close", "exit"} /\ UNCHANGED out
    /\ UNCHANGED <<queue, cur, net>>

(* close; the next client has its turn.                                    *)
CloseIt ==
    /\ pc = "close"
    /\ pc' = "accept"
    /\ out' = [out EXCEPT ![cur] = IF @ = "none" THEN "closed" ELSE @]
    /\ UNCHANGED <<queue, cur, net>>

Server == Accept \/ Select \/ Read \/ Write \/ CloseIt

Next == Server \/ \E c \in Clients : Connect(c) \/ Send(c) \/ Close(c) \/ Reset(c)

Spec == Init /\ [][Next]_vars

(* The server is a process that the kernel schedules, and five seconds     *)
(* pass.                                                                   *)
FairSpec == Spec /\ WF_vars(Server)

-----------------------------------------------------------------------------
(* Type invariant.                                                         *)
TypeOK ==
    /\ pc \in {"accept", "select", "read", "write", "close", "exit"}
    /\ queue \in Seq(Clients)
    /\ cur \in Clients
    /\ peer \in [Clients -> {"new", "open", "eof", "reset"}]
    /\ data \in [Clients -> BOOLEAN]
    /\ out \in [Clients -> {"none", "echo", "closed"}]
    /\ prompt \in [Clients -> BOOLEAN]
    /\ \A c \in Clients : Among(c, queue) => out[c] = "none"

(* test_oio_timeout/server.c 58-81: the five seconds cost nobody its       *)
(* answer whose data was there when it was accepted, however long it had   *)
(* waited for its turn, unless it was reset.                               *)
PromptIsAnswered ==
    \A c \in Clients : prompt[c] /\ out[c] = "closed" => peer[c] = "reset"

(* test_oio_timeout/server.c 12, 54: with the timeout everybody has a turn *)
(* although others connect and send nothing.                               *)
EverybodyHasTurn ==
    \A c \in Clients : Among(c, queue) ~> (~Among(c, queue) \/ pc = "exit")

(* test_normal_oio/server.c 43: without it only a client that sends        *)
(* nothing keeps the others waiting.                                       *)
OnlySilentBlock ==
    \A c \in Clients :
        Among(c, queue) ~> (~Among(c, queue) \/ pc = "exit"
                                \/ (pc = "read" /\ ~Readable(cur)))
=============================================================================
