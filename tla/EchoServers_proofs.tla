------------------------- MODULE EchoServers_proofs -------------------------
(***************************************************************************)
(* Proofs about the echo servers, for any number of descriptors, clients,  *)
(* connections and chunks.  The invariant of the server around select says *)
(* how the loop over the ready descriptors goes with fd_num, the count     *)
(* that ends it; that of the server around epoll, where each connection    *)
(* and each piece of data is announced; that of the blocking ones, what    *)
(* has become of the data that was there at accept.                        *)
(***************************************************************************)
EXTENDS MC_EchoServers, TLAPS, FiniteSetTheorems, SequenceTheorems,
        WellFoundedInduction

Looking == {"read", "write", "count"}
Scanning == Looking \cup {"scan"}

(* The ready descriptors that the loop has not come to.                    *)
Rest == {f \in allfds : f >= i}

(* The parts of TypeOK; accept has a connection to take.                   *)
TypeServer ==
    /\ pc \in Scanning \cup {"select", "accept", "exit"}
    /\ allfds \subseteq 0 .. MaxFd
    /\ fd_num \in 0 .. MaxFd + 1
    /\ maxfd \in 0 .. MaxFd
    /\ i \in 0 .. MaxFd + 1
    /\ readn \in {"eof", "again", "error"}

TypeSockets ==
    /\ peer \in [Fds -> {"free", "open", "eof", "reset"}]
    /\ inq \in [Fds -> 0 .. RecvBuf] /\ backlog \in 0 .. Backlog
    /\ pc = "accept" => backlog > 0

(* What the loop walks through is open, ahead of it, and counted.          *)
Loop ==
    /\ pc \in Scanning =>
         /\ 0 \notin allfds
         /\ \A f \in allfds : f <= maxfd
         /\ \A f \in Rest : peer[f] # "free"
         /\ fd_num = Cardinality(Rest)
    /\ pc \in Looking => i \in allfds
    /\ pc = "scan" => fd_num > 0

IInv == TypeServer /\ TypeSockets /\ WatchedAreOpen /\ Loop

-----------------------------------------------------------------------------
(* Sets of descriptors are finite and have at most MaxFd + 1 members.      *)
LEMMA FdSets ==
    ASSUME NEW S, S \subseteq 0 .. MaxFd
    PROVE  IsFiniteSet(S) /\ Cardinality(S) \in 0 .. MaxFd + 1
<1>1. IsFiniteSet(0 .. MaxFd) /\ Cardinality(0 .. MaxFd) = MaxFd + 1
  <2>1. MaxFd \in Int /\ 0 \in Int /\ 0 <= MaxFd
    BY BoundsAssumption
  <2>2. QED
    BY <2>1, FS_Interval
<1>2. IsFiniteSet(S) /\ Cardinality(S) <= Cardinality(0 .. MaxFd)
  BY <1>1, FS_Subset
<1>3. Cardinality(S) \in Nat
  BY <1>2, FS_CardinalityType
<1>4. QED
  BY <1>1, <1>2, <1>3, BoundsAssumption

(* Taking the descriptor that the loop is at out of those ahead of it.     *)
LEMMA CountedOff ==
    ASSUME NEW S, S \subseteq 0 .. MaxFd, NEW n \in S
    PROVE  Cardinality({f \in S : f >= n + 1}) = Cardinality({f \in S : f >= n}) - 1
<1> DEFINE T == {f \in S : f >= n}
<1>1. {f \in S : f >= n + 1} = T \ {n}
  <2>1. \A f \in S : f \in Nat
    BY BoundsAssumption
  <2>2. \A f \in S : f >= n + 1 <=> f >= n /\ f # n
    BY <2>1
  <2>3. QED
    BY <2>2
<1>2. n \in T
  BY BoundsAssumption
<1>3. IsFiniteSet(T)
  BY FdSets
<1>4. Cardinality(T \ {n}) = Cardinality(T) - 1
  BY <1>2, <1>3, FS_RemoveElement
<1>5. QED
  BY <1>1, <1>4

(* It holds at the start.                                                  *)
LEMMA InitIInv == Init => IInv
<1> SUFFICES ASSUME Init PROVE IInv
  OBVIOUS
<1> USE BoundsAssumption DEF Init
<1>1. TypeServer
  BY DEF TypeServer, Scanning, Looking
<1>2. TypeSockets
  BY DEF TypeSockets
<1>3. WatchedAreOpen
  BY DEF WatchedAreOpen
<1>4. Loop
  BY DEF Loop, Scanning, Looking
<1>5. QED
  BY <1>1, <1>2, <1>3, <1>4 DEF IInv

(* What a client does leaves the loop alone: no descriptor becomes free.   *)
LEMMA ClientStep ==
    ASSUME IInv, UNCHANGED server, TypeSockets',
           \A f \in Fds : peer'[f] = "free" <=> peer[f] = "free"
    PROVE  IInv'
<1> USE DEF IInv, server
<1>1. TypeServer'
  BY DEF TypeServer
<1>2. WatchedAreOpen'
  BY DEF WatchedAreOpen
<1>3. Loop'
  <2>1. \A f \in allfds : f # 0 => f \in Fds
    BY BoundsAssumption DEF TypeServer, Fds
  <2>2. QED
    BY <2>1 DEF Loop, Rest, Scanning
<1>4. QED
  BY <1>1, <1>2, <1>3

(* Connect, Send, Close and Reset.                                         *)
LEMMA ConnectStep ==
    ASSUME IInv, Connect
    PROVE  IInv'
<1>1. TypeSockets'
  BY BoundsAssumption DEF IInv, TypeSockets, Connect, server
<1>2. QED
  BY <1>1, ClientStep DEF Connect, server

LEMMA SendStep ==
    ASSUME IInv, NEW f \in Fds, Send(f)
    PROVE  IInv'
<1>1. TypeSockets'
  BY BoundsAssumption DEF IInv, TypeSockets, Send, server
<1>2. QED
  BY <1>1, ClientStep DEF Send, server

LEMMA CloseStep ==
    ASSUME IInv, NEW f \in Fds, Close(f)
    PROVE  IInv'
<1>1. TypeSockets'
  BY DEF IInv, TypeSockets, Close, server
<1>2. \A g \in Fds : peer'[g] = "free" <=> peer[g] = "free"
  BY DEF IInv, TypeSockets, Close
<1>3. QED
  BY <1>1, <1>2, ClientStep DEF Close, server

(* An abort changes what is in the sockets, and nothing that is free.      *)
LEMMA AbortTyped ==
    ASSUME TypeSockets, NEW f \in Fds, Abort(f), UNCHANGED backlog,
           pc' = "accept" => pc = "accept", peer[f] # "free"
    PROVE  /\ TypeSockets'
           /\ \A g \in Fds : peer'[g] = "free" <=> peer[g] = "free"
<1> USE DEF TypeSockets, Abort
<1>1. inq' \in [Fds -> 0 .. RecvBuf]
  <2>1. CASE inq' = inq
    BY <2>1
  <2>2. CASE inq' = [inq EXCEPT ![f] = 0]
    BY <2>2, BoundsAssumption
  <2>3. QED
    BY <2>1, <2>2
<1>2. peer' \in [Fds -> {"free", "open", "eof", "reset"}]
  OBVIOUS
<1>3. \A g \in Fds : peer'[g] = "free" <=> peer[g] = "free"
  OBVIOUS
<1>4. QED
  BY <1>1, <1>2, <1>3

LEMMA ResetStep ==
    ASSUME IInv, NEW f \in Fds, Reset(f)
    PROVE  IInv'
<1>1. TypeSockets' /\ \A g \in Fds : peer'[g] = "free" <=> peer[g] = "free"
  BY AbortTyped DEF IInv, Reset, server
<1>2. QED
  BY <1>1, ClientStep DEF Reset, server

-----------------------------------------------------------------------------
(* select fills the loop with watched descriptors, all of them open.       *)
LEMMA SelectStep ==
    ASSUME IInv, Select
    PROVE  IInv'
<1> DEFINE found == {f \in readfds : f <= maxfd /\ Readable(f)}
<1> USE DEF IInv
<1>1. found \subseteq 0 .. MaxFd
  BY BoundsAssumption DEF WatchedAreOpen, Fds
<1>2. /\ allfds' = found /\ found # {} /\ fd_num' = Cardinality(found) /\ i' = 0
      /\ pc' = IF 0 \in found THEN "accept" ELSE "scan"
      /\ UNCHANGED <<readfds, maxfd, readn, sockets>>
  BY DEF Select
<1>3. IsFiniteSet(found) /\ Cardinality(found) \in 0 .. MaxFd + 1 /\ Cardinality(found) # 0
  <2>1. IsFiniteSet(found) /\ Cardinality(found) \in 0 .. MaxFd + 1
    BY <1>1, FdSets
  <2>2. QED
    BY <1>2, <2>1, FS_EmptySet
<1> HIDE DEF found
<1>4. TypeServer'
  BY <1>1, <1>2, <1>3, BoundsAssumption DEF TypeServer, Scanning
<1>5. TypeSockets'
  <2>1. 0 \in found => backlog > 0
    BY DEF found, Readable
  <2>2. QED
    BY <1>2, <2>1 DEF TypeSockets, sockets
<1>6. WatchedAreOpen'
  BY <1>2 DEF WatchedAreOpen, sockets
<1>7. Loop'
  <2>1. Rest' = found
    <3>1. \A f \in found : f >= 0
      BY <1>1, BoundsAssumption
    <3>2. QED
      BY <1>2, <3>1 DEF Rest
  <2>2. \A f \in found : f <= maxfd
    BY DEF found
  <2>3. \A f \in found : f # 0 => peer[f] # "free"
    BY DEF found, WatchedAreOpen
  <2>4. pc' \in Scanning => 0 \notin found
    BY <1>2 DEF Scanning, Looking
  <2>5. fd_num' > 0
    BY <1>2, <1>3, BoundsAssumption
  <2>6. pc' \notin Looking
    BY <1>2 DEF Looking
  <2>7. QED
    BY <1>2, <2>1, <2>2, <2>3, <2>4, <2>5, <2>6 DEF Loop, sockets
<1>8. QED
  BY <1>4, <1>5, <1>6, <1>7

LEMMA AcceptStep ==
    ASSUME IInv, Accept
    PROVE  IInv'
<1> USE BoundsAssumption DEF IInv, Accept
<1>1. pc' \in {"select", "exit"}
  OBVIOUS
<1>2. TypeServer'
  BY <1>1 DEF TypeServer, Fds
<1>3. TypeSockets'
  BY <1>1 DEF TypeSockets
<1>4. WatchedAreOpen'
  <2>1. CASE UNCHANGED <<peer, readfds, maxfd>>
    BY <2>1 DEF WatchedAreOpen
  <2>2. ASSUME NEW f \in Fds, peer[f] = "free", peer' = [peer EXCEPT ![f] = "open"],
               readfds' = readfds \cup {f}, maxfd' = IF f > maxfd THEN f ELSE maxfd
        PROVE  WatchedAreOpen'
    <3>1. readfds' = {0} \cup {g \in Fds : peer'[g] # "free"}
      BY <2>2 DEF WatchedAreOpen, TypeSockets
    <3>2. \A g \in readfds' : g <= maxfd'
      BY <2>2 DEF WatchedAreOpen, TypeServer, Fds
    <3>3. QED
      BY <3>1, <3>2 DEF WatchedAreOpen
  <2>3. QED
    BY <2>1, <2>2
<1>5. Loop'
  BY <1>1 DEF Loop, Scanning, Looking
<1>6. QED
  BY <1>2, <1>3, <1>4, <1>5

(* The next descriptor is the lowest of those ahead: none is skipped.      *)
LEMMA ScanStep ==
    ASSUME IInv, Scan
    PROVE  IInv'
<1> DEFINE rest == {f \in allfds : i <= f /\ f <= maxfd}
<1> USE BoundsAssumption DEF IInv
<1>1. UNCHANGED <<readfds, allfds, fd_num, maxfd, readn, sockets>> /\ pc = "scan"
  BY DEF Scan
<1>2. \/ pc' = "select" /\ i' = i
      \/ pc' = "read" /\ i' \in rest /\ \A f \in rest : i' <= f
  BY DEF Scan
<1>3. TypeServer'
  <2>1. i' \in 0 .. MaxFd + 1
    <3>1. \A f \in rest : f \in 0 .. MaxFd + 1
      BY DEF TypeServer
    <3>2. i' = i \/ i' \in rest
      BY <1>2
    <3>3. QED
      BY <3>1, <3>2 DEF TypeServer
  <2>2. QED
    BY <1>1, <1>2, <2>1 DEF TypeServer, Scanning, Looking
<1>4. TypeSockets'
  BY <1>1, <1>2 DEF TypeSockets, sockets
<1>5. WatchedAreOpen'
  BY <1>1 DEF WatchedAreOpen, sockets
<1>6. Loop'
  <2>1. CASE pc' = "select"
    BY <2>1 DEF Loop, Scanning, Looking
  <2>2. CASE pc' = "read" /\ i' \in rest /\ \A f \in rest : i' <= f
    <3>1. rest = Rest
      BY <1>1 DEF Loop, Rest, Scanning
    <3>2. Rest' = Rest
      <4>1. \A f \in Rest : f >= i'
        <5>1. \A f \in allfds : f \in Nat
          BY DEF TypeServer
        <5>2. i' \in Nat
          BY <2>2, <5>1
        <5>3. QED
          BY <2>2, <3>1, <5>1, <5>2 DEF Rest
      <4>2. \A f \in allfds : f >= i' => f >= i
        <5>1. \A f \in allfds : f \in Nat
          BY DEF TypeServer
        <5>2. i \in Nat /\ i' \in Nat /\ i <= i'
          BY <2>2, <5>1 DEF TypeServer
        <5>3. QED
          BY <5>1, <5>2
      <4>3. QED
        BY <1>1, <4>1, <4>2 DEF Rest
    <3>3. QED
      BY <1>1, <2>2, <3>2 DEF Loop, Scanning, Looking, sockets
  <2>3. QED
    BY <1>2, <2>1, <2>2
<1>7. QED
  BY <1>3, <1>4, <1>5, <1>6

LEMMA ReadStep ==
    ASSUME IInv, Read
    PROVE  IInv'
<1> USE BoundsAssumption DEF IInv
<1>1. /\ UNCHANGED <<readfds, allfds, fd_num, maxfd, i, peer, backlog>>
      /\ pc = "read" /\ pc' \in {"write", "count"} /\ readn' \in {"eof", "again", "error"}
  BY DEF Read, TypeServer
<1>2. i \in Fds
  BY <1>1 DEF Loop, Looking, Scanning, TypeServer, Fds
<1>3. TypeServer'
  BY <1>1 DEF TypeServer, Scanning, Looking
<1>4. TypeSockets'
  BY <1>1, <1>2 DEF TypeSockets, Read
<1>5. WatchedAreOpen'
  BY <1>1 DEF WatchedAreOpen
<1>6. Loop'
  BY <1>1 DEF Loop, Rest, Scanning, Looking
<1>7. QED
  BY <1>3, <1>4, <1>5, <1>6

LEMMA WriteStep ==
    ASSUME IInv, Write
    PROVE  IInv'
<1> USE BoundsAssumption DEF IInv
<1>1. /\ UNCHANGED <<readfds, allfds, fd_num, maxfd, i, readn, backlog>>
      /\ pc = "write" /\ pc' \in {"read", "exit"}
  BY DEF Write
<1>2. i \in Fds
  BY <1>1 DEF Loop, Looking, Scanning, TypeServer, Fds
<1>3. TypeServer'
  BY <1>1 DEF TypeServer, Scanning, Looking
<1>4. TypeSockets' /\ \A g \in Fds : peer'[g] = "free" <=> peer[g] = "free"
  <2>1. CASE UNCHANGED <<peer, inq>>
    BY <1>1, <2>1 DEF TypeSockets
  <2>2. CASE peer[i] = "eof" /\ Abort(i)
    BY <1>1, <1>2, <2>2, AbortTyped
  <2>3. QED
    BY <2>1, <2>2 DEF Write
<1>5. WatchedAreOpen'
  BY <1>1, <1>4 DEF WatchedAreOpen
<1>6. Loop'
  <2>1. \A f \in allfds : f \in Fds
    BY <1>1 DEF Loop, Scanning, Looking, TypeServer, Fds
  <2>2. QED
    BY <1>1, <1>4, <2>1 DEF Loop, Rest, Scanning, Looking
<1>7. QED
  BY <1>3, <1>4, <1>5, <1>6

(* One descriptor less is ahead, and the one that is closed is behind.     *)
LEMMA CountStep ==
    ASSUME IInv, Count
    PROVE  IInv'
<1> USE BoundsAssumption DEF IInv
<1>1. /\ UNCHANGED <<allfds, maxfd, readn, backlog>>
      /\ pc = "count" /\ fd_num' = fd_num - 1 /\ i' = i + 1
      /\ pc' = IF fd_num' = 0 THEN "select" ELSE "scan"
      /\ CloseFd(i) \/ UNCHANGED <<peer, inq, readfds>>
  BY DEF Count
<1>2. i \in Fds /\ i \in allfds /\ allfds \subseteq Fds
  BY <1>1 DEF Loop, Looking, Scanning, TypeServer, Fds
<1>3. Cardinality(Rest') = Cardinality(Rest) - 1
  BY <1>1, <1>2, CountedOff DEF Rest, TypeServer
<1>4. fd_num = Cardinality(Rest)
  BY <1>1 DEF Loop, Scanning, Looking
<1>5. fd_num' \in 0 .. MaxFd + 1 /\ fd_num' = Cardinality(Rest')
  <2>1. Rest' \subseteq 0 .. MaxFd
    BY <1>1 DEF Rest, TypeServer
  <2>2. Cardinality(Rest') \in 0 .. MaxFd + 1
    BY <2>1, FdSets
  <2>3. QED
    BY <1>1, <1>3, <1>4, <2>2
<1>6. TypeServer'
  BY <1>1, <1>2, <1>5 DEF TypeServer, Scanning, Fds
<1>7. TypeSockets'
  BY <1>1 DEF TypeSockets, CloseFd
<1>8. WatchedAreOpen'
  <2>1. CASE UNCHANGED <<peer, inq, readfds>>
    BY <1>1, <2>1 DEF WatchedAreOpen
  <2>2. CASE CloseFd(i)
    BY <1>1, <1>2, <2>2 DEF WatchedAreOpen, CloseFd, TypeSockets, Fds
  <2>3. QED
    BY <1>1, <2>1, <2>2
<1>9. Loop'
  <2>1. \A f \in Rest' : f \in Rest /\ f # i
    BY <1>1, <1>2 DEF Rest, Fds
  <2>2. \A f \in Rest' : peer'[f] = peer[f]
    BY <1>1, <1>2, <2>1 DEF CloseFd, TypeSockets, Rest
  <2>3. pc' \notin Looking /\ (pc' = "scan" => fd_num' > 0)
    <3>1. fd_num' \in Nat
      BY <1>5
    <3>2. pc' = IF fd_num' = 0 THEN "select" ELSE "scan"
      BY <1>1
    <3>3. QED
      BY <3>1, <3>2 DEF Looking
  <2>4. QED
    BY <1>1, <1>5, <2>1, <2>2, <2>3 DEF Loop, Scanning, Looking
<1>10. QED
  BY <1>6, <1>7, <1>8, <1>9

-----------------------------------------------------------------------------
(* What is proved above, for every reachable state.                        *)
LEMMA IInvStep == IInv /\ [Next]_vars => IInv'
<1> SUFFICES ASSUME IInv, [Next]_vars PROVE IInv'
  OBVIOUS
<1>1. CASE UNCHANGED vars
  BY <1>1 DEF vars, server, sockets, IInv, TypeServer, TypeSockets,
              WatchedAreOpen, Loop, Rest
<1>2. QED
  BY <1>1, ConnectStep, SendStep, CloseStep, ResetStep, SelectStep, AcceptStep,
     ScanStep, ReadStep, WriteStep, CountStep DEF Next, Server

LEMMA Inductive == Spec => []IInv
BY InitIInv, IInvStep, PTL DEF Spec

(* The type invariant, for any number of descriptors and clients.          *)
THEOREM TypeCorrect == Spec => []TypeOK
<1>1. IInv => TypeOK
  <2> SUFFICES ASSUME IInv PROVE TypeOK
    OBVIOUS
  <2> USE BoundsAssumption DEF IInv
  <2>1. readfds \subseteq 0 .. MaxFd
    BY DEF WatchedAreOpen, Fds
  <2>2. QED
    BY <2>1 DEF TypeOK, TypeServer, TypeSockets, Scanning, Looking
<1>2. QED
  BY <1>1, Inductive, PTL

(* The watched set of server.c 91-98, 129-131 and 144-145 is that of the   *)
(* open descriptors, whatever is accepted, closed and reused.              *)
THEOREM WatchedAreOpenAlways == Spec => []WatchedAreOpen
<1>1. IInv => WatchedAreOpen
  BY DEF IInv
<1>2. QED
  BY <1>1, Inductive, PTL

(* fd_num ends the loop of server.c 106-151 at the right descriptor, and   *)
(* the loop reads no descriptor that it has closed.                        *)
THEOREM CountsTheRestAlways == Spec => []CountsTheRest
<1>1. IInv => CountsTheRest
  <2> SUFFICES ASSUME IInv PROVE CountsTheRest
    OBVIOUS
  <2>1. pc \in Looking => i \in Rest
    BY BoundsAssumption DEF IInv, Loop, Rest, TypeServer
  <2>2. QED
    BY <2>1 DEF IInv, Loop, CountsTheRest, Looking, Scanning, Rest
<1>2. QED
  BY <1>1, Inductive, PTL

-----------------------------------------------------------------------------
(* Queues.  Induction over a set of numbers, which the well-founded order  *)
(* on Nat gives, says what the recursive function inside Only computes.    *)
Smaller == {ss \in Nat \X Nat : ss[1] < ss[2]}

LEMMA SmallerWF == IsWellFoundedOn(Smaller, Nat)
<1>1. Smaller = OpToRel(<, Nat)
  BY Zenon DEF Smaller, OpToRel
<1>2. QED
  BY <1>1, NatLessThanWellFounded, Zenon

LEMMA NatSetInduction ==
    ASSUME NEW Z, 0 \in Z, \A n \in Nat : n \in Z => n + 1 \in Z
    PROVE  Nat \subseteq Z
<1>1. SUFFICES ASSUME Nat \ Z # {} PROVE FALSE
  OBVIOUS
<1>2. PICK x \in Nat \ Z : \A y \in Nat \ Z : ~(<<y, x>> \in Smaller)
  <2>1. Nat \ Z \subseteq Nat
    OBVIOUS
  <2>2. QED
    BY <1>1, <2>1, SmallerWF, WFMin, Zenon
<1>3. x - 1 \in Nat /\ x - 1 < x
  BY <1>2
<1>4. x - 1 \in Z
  <2>1. <<x - 1, x>> \in Smaller
    BY <1>2, <1>3 DEF Smaller
  <2>2. QED
    BY <2>1, <1>2, <1>3
<1>5. QED
  BY <1>2, <1>3, <1>4

In(x, q) == \E k \in DOMAIN q : q[k] = x

Distinct(q) == \A j, k \in DOMAIN q : q[j] = q[k] => j = k

LEMMA EmptyIn ==
    /\ \A X : <<>> \in Seq(X)
    /\ Len(<<>>) = 0
    /\ \A x : ~In(x, <<>>)
    /\ Distinct(<<>>)
BY DEF In, Distinct

LEMMA InType ==
    ASSUME NEW X, NEW q \in Seq(X), NEW x, In(x, q)
    PROVE  x \in X
BY DEF In

(* A queue is one of the elements it has.                                  *)
LEMMA SeqOfElements ==
    ASSUME NEW X, NEW q \in Seq(X), NEW Y, \A x \in X : In(x, q) => x \in Y
    PROVE  q \in Seq(Y)
<1>1. \A k \in 1 .. Len(q) : q[k] \in X /\ q[k] \in Y
  BY DEF In
<1>2. q = [k \in 1 .. Len(q) |-> q[k]]
  OBVIOUS
<1>3. QED
  BY <1>1, <1>2

LEMMA AppendIn ==
    ASSUME NEW X, NEW q \in Seq(X), NEW x \in X
    PROVE  /\ Append(q, x) \in Seq(X)
           /\ Len(Append(q, x)) = Len(q) + 1
           /\ \A y : In(y, Append(q, x)) <=> In(y, q) \/ y = x
           /\ Distinct(q) /\ ~In(x, q) => Distinct(Append(q, x))
<1> DEFINE a == Append(q, x)
<1>1. a \in Seq(X) /\ Len(a) = Len(q) + 1
  OBVIOUS
<1>2. \A k \in 1 .. Len(q) : a[k] = q[k]
  OBVIOUS
<1>3. a[Len(q) + 1] = x
  OBVIOUS
<1>4. DOMAIN a = 1 .. Len(q) + 1 /\ DOMAIN q = 1 .. Len(q) /\ Len(q) \in Nat
  OBVIOUS
<1> HIDE DEF a
<1>5. \A y : In(y, a) <=> In(y, q) \/ y = x
  BY <1>2, <1>3, <1>4 DEF In
<1>6. Distinct(q) /\ ~In(x, q) => Distinct(a)
  BY <1>2, <1>3, <1>4 DEF In, Distinct
<1>7. QED
  BY <1>1, <1>5, <1>6 DEF a

LEMMA TailIn ==
    ASSUME NEW X, NEW q \in Seq(X), q # <<>>
    PROVE  /\ Head(q) \in X
           /\ Tail(q) \in Seq(X)
           /\ Len(Tail(q)) = Len(q) - 1
           /\ \A y : In(y, q) <=> In(y, Tail(q)) \/ y = Head(q)
           /\ Distinct(q) => Distinct(Tail(q)) /\ ~In(Head(q), Tail(q))
<1> DEFINE t == Tail(q)
<1>1. t \in Seq(X) /\ Len(t) = Len(q) - 1 /\ Len(q) \in Nat \ {0}
  OBVIOUS
<1>2. \A k \in 1 .. Len(q) - 1 : t[k] = q[k + 1]
  OBVIOUS
<1>3. Head(q) = q[1] /\ Head(q) \in X
  OBVIOUS
<1>4. DOMAIN t = 1 .. Len(q) - 1 /\ DOMAIN q = 1 .. Len(q)
  BY <1>1
<1> HIDE DEF t
<1>5. ASSUME NEW k \in 1 .. Len(q), k # 1 PROVE k - 1 \in DOMAIN t /\ t[k - 1] = q[k]
  <2>1. k - 1 \in 1 .. Len(q) - 1 /\ k - 1 + 1 = k
    BY <1>1, <1>5
  <2>2. QED
    BY <1>2, <1>4, <2>1
<1>6. \A y : In(y, q) <=> In(y, t) \/ y = Head(q)
  <2>1. ASSUME NEW k \in DOMAIN t PROVE k + 1 \in DOMAIN q /\ q[k + 1] = t[k]
    BY <1>1, <1>2, <1>4
  <2>2. 1 \in DOMAIN q /\ q[1] = Head(q)
    BY <1>1, <1>3, <1>4
  <2>3. ASSUME NEW y, In(y, q) PROVE In(y, t) \/ y = Head(q)
    BY <1>3, <1>4, <1>5, <2>3 DEF In
  <2>4. ASSUME NEW y, In(y, t) \/ y = Head(q) PROVE In(y, q)
    BY <2>1, <2>2, <2>4 DEF In
  <2>5. QED
    BY <2>3, <2>4
<1>7. ASSUME Distinct(q) PROVE Distinct(t) /\ ~In(Head(q), t)
  <2>1. ASSUME NEW j \in 1 .. Len(q) - 1
        PROVE  j + 1 \in DOMAIN q /\ 1 \in DOMAIN q /\ j + 1 # 1 /\ t[j] = q[j + 1]
    BY <1>1, <1>2, <1>4
  <2>2. \A j \in DOMAIN t : t[j] # Head(q)
    BY <1>3, <1>4, <1>7, <2>1 DEF Distinct
  <2>3. ASSUME NEW j \in DOMAIN t, NEW k \in DOMAIN t, t[j] = t[k] PROVE j = k
    <3>1. j + 1 = k + 1
      BY <1>4, <1>7, <2>1, <2>3 DEF Distinct
    <3>2. QED
      BY <1>1, <1>4, <3>1
  <2>4. QED
    BY <2>2, <2>3 DEF In, Distinct
<1>8. QED
  BY <1>1, <1>3, <1>6, <1>7 DEF t

(* Cutting a queue in two after its element n.                             *)
LEMMA CutIn ==
    ASSUME NEW X, NEW q \in Seq(X), NEW n \in 0 .. Len(q)
    PROVE  /\ SubSeq(q, 1, n) \in Seq(X) /\ Len(SubSeq(q, 1, n)) = n
           /\ SubSeq(q, n + 1, Len(q)) \in Seq(X)
           /\ Len(SubSeq(q, n + 1, Len(q))) = Len(q) - n
           /\ \A y : In(y, q) <=> In(y, SubSeq(q, 1, n)) \/ In(y, SubSeq(q, n + 1, Len(q)))
           /\ Distinct(q) =>
                /\ Distinct(SubSeq(q, 1, n)) /\ Distinct(SubSeq(q, n + 1, Len(q)))
                /\ \A y : ~(In(y, SubSeq(q, 1, n)) /\ In(y, SubSeq(q, n + 1, Len(q))))
<1> DEFINE a == SubSeq(q, 1, n)
           b == SubSeq(q, n + 1, Len(q))
<1>1. n \in Nat /\ Len(q) \in Nat /\ n <= Len(q) /\ DOMAIN q = 1 .. Len(q)
  OBVIOUS
<1>2. a \in Seq(X) /\ Len(a) = n /\ \A k \in 1 .. n : a[k] = q[k]
  BY <1>1, SubSeqProperties
<1>3. /\ b \in Seq(X) /\ Len(b) = Len(q) - n
      /\ \A k \in 1 .. Len(q) - n : b[k] = q[n + k]
  OBVIOUS
<1>4. DOMAIN a = 1 .. n /\ DOMAIN b = 1 .. Len(q) - n
  BY <1>2, <1>3
<1> HIDE DEF a, b
<1>5. \A y : In(y, q) <=> In(y, a) \/ In(y, b)
  <2>1. ASSUME NEW k \in 1 .. Len(q), ~(k <= n)
        PROVE  k - n \in 1 .. Len(q) - n /\ b[k - n] = q[k]
    BY <1>1, <1>3, <2>1
  <2>2. ASSUME NEW k \in 1 .. Len(q) - n PROVE n + k \in 1 .. Len(q)
    BY <1>1
  <2>3. ASSUME NEW y, In(y, q) PROVE In(y, a) \/ In(y, b)
    BY <1>1, <1>2, <1>4, <2>1, <2>3 DEF In
  <2>4. ASSUME NEW y, In(y, a) PROVE In(y, q)
    BY <1>1, <1>2, <1>4, <2>4 DEF In
  <2>5. ASSUME NEW y, In(y, b) PROVE In(y, q)
    BY <1>1, <1>3, <1>4, <2>2, <2>5 DEF In
  <2>6. QED
    BY <2>3, <2>4, <2>5
<1>6. ASSUME Distinct(q)
      PROVE  Distinct(a) /\ Distinct(b) /\ \A y : ~(In(y, a) /\ In(y, b))
  <2>1. Distinct(a)
    BY <1>1, <1>2, <1>4, <1>6 DEF Distinct
  <2>2. ASSUME NEW j \in DOMAIN b, NEW k \in DOMAIN b, b[j] = b[k] PROVE j = k
    <3>1. n + j \in 1 .. Len(q) /\ n + k \in 1 .. Len(q)
      BY <1>1, <1>4
    <3>2. q[n + j] = q[n + k]
      BY <1>3, <1>4, <2>2
    <3>3. n + j = n + k
      BY <1>1, <1>6, <3>1, <3>2 DEF Distinct
    <3>4. QED
      BY <1>1, <1>4, <3>3
  <2>3. ASSUME NEW j \in 1 .. n, NEW k \in 1 .. Len(q) - n PROVE a[j] # b[k]
    <3>1. j \in 1 .. Len(q) /\ n + k \in 1 .. Len(q) /\ j # n + k
      BY <1>1
    <3>2. q[j] # q[n + k]
      BY <1>1, <1>6, <3>1 DEF Distinct
    <3>3. QED
      BY <1>2, <1>3, <3>2
  <2>4. QED
    BY <1>4, <2>1, <2>2, <2>3 DEF In, Distinct
<1>7. QED
  BY <1>2, <1>3, <1>5, <1>6 DEF a, b

(* A queue of different numbers from 0 .. m is at most m + 1 long.         *)
LEMMA DistinctLen ==
    ASSUME NEW m \in Nat, NEW q \in Seq(0 .. m), Distinct(q)
    PROVE  Len(q) <= m + 1
<1>1. Len(q) \in Nat /\ DOMAIN q = 1 .. Len(q) /\ q \in [1 .. Len(q) -> 0 .. m]
  OBVIOUS
<1>2. q \in Injection(1 .. Len(q), 0 .. m)
  BY <1>1 DEF Distinct, Injection, IsInjective
<1>3. IsFiniteSet(0 .. m) /\ Cardinality(0 .. m) = m + 1
  BY FS_Interval
<1>4. Cardinality(1 .. Len(q)) = Len(q)
  <2>1. ASSUME NEW l \in Nat PROVE Cardinality(1 .. l) = l
    BY FS_Interval
  <2>2. QED
    BY <1>1, <2>1
<1>5. Cardinality(1 .. Len(q)) <= Cardinality(0 .. m)
  BY <1>2, <1>3, FS_Injection
<1>6. QED
  BY <1>3, <1>4, <1>5

-----------------------------------------------------------------------------
(* What Only returns.  g is the function inside it as far as n.            *)
Picks(g, q, S, n) ==
    g = [k \in 0 .. n |-> IF k = 0 THEN <<>>
                          ELSE IF q[k] \in S THEN Append(g[k - 1], q[k]) ELSE g[k - 1]]

LEMMA OnlyByPicks ==
    ASSUME NEW q, NEW S
    PROVE  Epoll!Only(q, S) = (CHOOSE g : Picks(g, q, S, Len(q)))[Len(q)]
BY DEF Epoll!Only, Picks

LEMMA PicksExist ==
    ASSUME NEW X, NEW q \in Seq(X), NEW S
    PROVE  \E g : Picks(g, q, S, Len(q))
<1> DEFINE N == {n \in Nat : \E g : Picks(g, q, S, n)}
<1>1. 0 \in N
  <2> DEFINE g == [k \in 0 .. 0 |-> <<>>]
  <2>1. \A k \in 0 .. 0 : k = 0
    OBVIOUS
  <2>2. Picks(g, q, S, 0)
    BY <2>1 DEF Picks
  <2>3. QED
    BY <2>2
<1>2. ASSUME NEW n \in Nat, n \in N PROVE n + 1 \in N
  <2>1. PICK g : Picks(g, q, S, n)
    BY <1>2
  <2> DEFINE value(k) == IF k = 0 THEN <<>>
                         ELSE IF q[k] \in S THEN Append(g[k - 1], q[k]) ELSE g[k - 1]
             h == [k \in 0 .. n + 1 |-> value(k)]
             next(k) == IF k = 0 THEN <<>>
                        ELSE IF q[k] \in S THEN Append(h[k - 1], q[k]) ELSE h[k - 1]
  <2>2. \A k \in 0 .. n : h[k] = g[k]
    <3>1. \A k \in 0 .. n : h[k] = value(k)
      OBVIOUS
    <3>2. \A k \in 0 .. n : g[k] = value(k)
      BY <2>1 DEF Picks
    <3>3. QED
      BY <3>1, <3>2
  <2>3. \A k \in 0 .. n + 1 : k # 0 => k - 1 \in 0 .. n
    OBVIOUS
  <2>4. \A k \in 0 .. n + 1 : value(k) = next(k)
    <3> HIDE DEF h
    <3>1. QED
      BY <2>2, <2>3
  <2>5. h = [k \in 0 .. n + 1 |-> next(k)]
    <3> HIDE DEF next
    <3>1. QED
      BY <2>4
  <2> HIDE DEF h
  <2>6. Picks(h, q, S, n + 1)
    BY <2>5 DEF Picks
  <2>7. QED
    BY <2>6
<1> HIDE DEF N
<1>3. Nat \subseteq N
  BY <1>1, <1>2, NatSetInduction
<1>4. Len(q) \in N
  BY <1>3
<1>5. QED
  BY <1>4 DEF N

(* The first n elements of q that are in S.                                *)
LEMMA PicksIn ==
    ASSUME NEW X, NEW q \in Seq(X), NEW S, NEW g, Picks(g, q, S, Len(q)),
           NEW n \in 0 .. Len(q)
    PROVE  /\ g[n] \in Seq(X)
           /\ \A y : In(y, g[n]) <=> y \in S /\ \E k \in 1 .. n : q[k] = y
           /\ Distinct(q) => Distinct(g[n])
<1> DEFINE Good(m) ==
             /\ g[m] \in Seq(X)
             /\ \A y : In(y, g[m]) <=> y \in S /\ \E k \in 1 .. m : q[k] = y
             /\ Distinct(q) => Distinct(g[m])
           N == {m \in Nat : m <= Len(q) => Good(m)}
<1>1. Len(q) \in Nat /\ DOMAIN q = 1 .. Len(q) /\ \A k \in 1 .. Len(q) : q[k] \in X
  OBVIOUS
<1>2. \A m \in 0 .. Len(q) :
         g[m] = IF m = 0 THEN <<>>
                ELSE IF q[m] \in S THEN Append(g[m - 1], q[m]) ELSE g[m - 1]
  BY Zenon DEF Picks
<1>3. 0 \in N
  <2>1. g[0] = <<>>
    BY <1>1, <1>2
  <2>2. \A k \in 1 .. 0 : FALSE
    OBVIOUS
  <2>3. Good(0)
    BY <2>1, <2>2, EmptyIn
  <2>4. QED
    BY <2>3
<1>4. ASSUME NEW m \in Nat, m \in N PROVE m + 1 \in N
  <2>1. SUFFICES ASSUME m + 1 <= Len(q) PROVE Good(m + 1)
    OBVIOUS
  <2>2. Good(m)
    BY <1>1, <1>4, <2>1
  <2>3. m + 1 \in 1 .. Len(q) /\ m + 1 \in 0 .. Len(q) /\ m + 1 # 0 /\ m + 1 - 1 = m
    BY <1>1, <2>1
  <2>4. g[m + 1] = IF q[m + 1] \in S THEN Append(g[m], q[m + 1]) ELSE g[m]
    BY <1>2, <2>3
  <2>5. \A y : (\E k \in 1 .. m + 1 : q[k] = y)
                 <=> (\E k \in 1 .. m : q[k] = y) \/ q[m + 1] = y
    <3>1. \A k : k \in 1 .. m + 1 <=> k \in 1 .. m \/ k = m + 1
      OBVIOUS
    <3>2. QED
      BY <3>1
  <2>6. Distinct(q) => \A k \in 1 .. m : q[k] # q[m + 1]
    BY <1>1, <2>3 DEF Distinct
  <2>7. q[m + 1] \in X
    BY <1>1, <2>3
  <2> DEFINE a == g[m]
             b == g[m + 1]
             x == q[m + 1]
             Before(y) == \E k \in 1 .. m : q[k] = y
             Upto(y) == \E k \in 1 .. m + 1 : q[k] = y
  <2>8. /\ a \in Seq(X)
        /\ \A y : In(y, a) <=> y \in S /\ Before(y)
        /\ Distinct(q) => Distinct(a)
    BY <2>2
  <2>9. /\ b = IF x \in S THEN Append(a, x) ELSE a
        /\ x \in X
        /\ \A y : Upto(y) <=> Before(y) \/ x = y
        /\ Distinct(q) => ~Before(x)
    BY <2>4, <2>5, <2>6, <2>7
  <2> HIDE DEF a, b, x, Before, Upto, N
  <2>10. CASE x \in S
    <3>1. b = Append(a, x)
      BY <2>9, <2>10
    <3>2. /\ b \in Seq(X)
          /\ \A y : In(y, b) <=> In(y, a) \/ y = x
          /\ Distinct(a) /\ ~In(x, a) => Distinct(b)
      BY <2>8, <2>9, <3>1, AppendIn
    <3>3. \A y : In(y, b) <=> y \in S /\ Upto(y)
      BY <2>8, <2>9, <2>10, <3>2
    <3>4. Distinct(q) => Distinct(b)
      BY <2>8, <2>9, <3>2
    <3>5. QED
      BY <3>2, <3>3, <3>4 DEF b, Upto
  <2>11. CASE x \notin S
    <3>1. b = a
      BY <2>9, <2>11
    <3>2. \A y : In(y, b) <=> y \in S /\ Upto(y)
      BY <2>8, <2>9, <2>11, <3>1
    <3>3. b \in Seq(X) /\ (Distinct(q) => Distinct(b))
      BY <2>8, <3>1
    <3>4. QED
      BY <3>2, <3>3 DEF b, Upto
  <2>12. QED
    BY <2>10, <2>11
<1>5. Nat \subseteq N
  <2> HIDE DEF N
  <2>1. QED
    BY <1>3, <1>4, NatSetInduction
<1>6. n \in Nat /\ n <= Len(q)
  BY <1>1
<1>7. QED
  BY <1>5, <1>6

LEMMA OnlyIn ==
    ASSUME NEW X, NEW q \in Seq(X), NEW S
    PROVE  /\ Epoll!Only(q, S) \in Seq(X)
           /\ \A y : In(y, Epoll!Only(q, S)) <=> y \in S /\ In(y, q)
           /\ Distinct(q) => Distinct(Epoll!Only(q, S))
<1> DEFINE g == CHOOSE h : Picks(h, q, S, Len(q))
<1>1. Picks(g, q, S, Len(q))
  BY PicksExist
<1>2. Epoll!Only(q, S) = g[Len(q)]
  BY OnlyByPicks
<1>3. Len(q) \in 0 .. Len(q) /\ DOMAIN q = 1 .. Len(q)
  OBVIOUS
<1> HIDE DEF g
<1>4. /\ g[Len(q)] \in Seq(X)
      /\ \A y : In(y, g[Len(q)]) <=> y \in S /\ \E k \in 1 .. Len(q) : q[k] = y
      /\ Distinct(q) => Distinct(g[Len(q)])
  BY <1>1, <1>3, PicksIn
<1>5. QED
  BY <1>2, <1>3, <1>4 DEF In

-----------------------------------------------------------------------------
(* The server around epoll.  The parts of its TypeOK, with the counters    *)
(* bounded by what was ever made or sent.                                  *)
EpollTypes ==
    /\ epoll_pc \in {"wait", "event", "accept", "add", "recv", "send", "exit"}
    /\ events \in Seq(0 .. EpollFds) /\ Len(events) <= MaxEvents
    /\ clifd \in -1 .. EpollFds
    /\ fd \in 0 .. EpollFds
    /\ watched \subseteq 0 .. EpollFds /\ 0 \in watched
    /\ ready \in Seq(0 .. EpollFds)
    /\ left \in [Epoll!Fds -> BOOLEAN]

EpollSockets ==
    /\ epoll_peer \in [Epoll!Fds -> {"free", "open", "eof", "reset", "dead"}]
    /\ epoll_inq \in [Epoll!Fds -> Nat]
    /\ \A f \in Epoll!Fds : epoll_inq[f] <= epoll_sends
    /\ epoll_backlog \in Nat /\ epoll_backlog <= epoll_conns
    /\ epoll_conns \in 0 .. EpollConns
    /\ epoll_sends \in 0 .. EpollSends
    /\ merged \in Nat

(* An event is reported once, of a descriptor that is watched, and what is *)
(* watched is open.                                                        *)
EpollQueues ==
    /\ Distinct(ready) /\ Distinct(events)
    /\ \A f : In(f, ready) => f \in watched
    /\ epoll_pc = "wait" => events = <<>>

EpollOpen ==
    /\ \A f \in watched \ {0} : epoll_peer[f] # "free"
    /\ epoll_pc = "add" =>
         clifd \in Epoll!Fds /\ clifd \notin watched /\ epoll_peer[clifd] # "free"
    /\ epoll_pc \in {"recv", "send"} => fd \in Epoll!Fds

EpollInv ==
    /\ EpollTypes /\ EpollSockets /\ EpollQueues /\ EpollOpen
    /\ Epoll!OneAcceptPerEvent /\ Epoll!SilentOnlyAfterShortRecv

LEMMA EpollConstants ==
    /\ EpollFds \in Nat \ {0} /\ MaxEvents \in Nat \ {0} /\ RecvMax \in Nat \ {0}
    /\ EpollConns \in Nat /\ EpollSends \in Nat
BY EpollAssumption

LEMMA AmongIsIn == \A x, q : Epoll!Among(x, q) <=> In(x, q)
BY DEF Epoll!Among, In

LEMMA EpollInit == Epoll!Init => EpollInv
<1> SUFFICES ASSUME Epoll!Init PROVE EpollInv
  OBVIOUS
<1> USE EpollConstants DEF Epoll!Init
<1>1. \A X : ready \in Seq(X) /\ events \in Seq(X)
  BY EmptyIn
<1>2. /\ Len(events) = 0
      /\ \A x : ~In(x, ready) /\ ~In(x, events)
      /\ Distinct(ready) /\ Distinct(events)
  BY EmptyIn
<1>3. EpollTypes
  BY <1>1, <1>2 DEF EpollTypes
<1>4. EpollSockets
  BY DEF EpollSockets
<1>5. EpollQueues
  BY <1>2 DEF EpollQueues
<1>6. EpollOpen
  BY DEF EpollOpen
<1>7. Epoll!OneAcceptPerEvent
  BY <1>2, AmongIsIn DEF Epoll!OneAcceptPerEvent, Epoll!One
<1>8. Epoll!SilentOnlyAfterShortRecv
  BY DEF Epoll!SilentOnlyAfterShortRecv
<1>9. QED
  BY <1>3, <1>4, <1>5, <1>6, <1>7, <1>8 DEF EpollInv

(* An event of f, if f is watched, is to be reported.                      *)
LEMMA EdgeIn ==
    ASSUME EpollInv, NEW f \in 0 .. EpollFds, Epoll!Edge(f)
    PROVE  /\ ready' \in Seq(0 .. EpollFds)
           /\ Distinct(ready')
           /\ \A g : In(g, ready') <=> In(g, ready) \/ (g = f /\ f \in watched)
<1>1. ready \in Seq(0 .. EpollFds) /\ Distinct(ready)
  BY DEF EpollInv, EpollTypes, EpollQueues
<1>2. CASE f \in watched /\ ~In(f, ready)
  <2>1. ready' = Append(ready, f)
    BY <1>2, AmongIsIn DEF Epoll!Edge
  <2> DEFINE X == 0 .. EpollFds
  <2>2. ready \in Seq(X) /\ f \in X
    BY <1>1
  <2> HIDE DEF X
  <2>3. /\ ready' \in Seq(X) /\ Distinct(ready')
        /\ \A g : In(g, ready') <=> In(g, ready) \/ g = f
    BY <1>1, <1>2, <2>1, <2>2, AppendIn
  <2>4. QED
    BY <1>2, <2>3 DEF X
<1>3. CASE ~(f \in watched /\ ~In(f, ready))
  <2>1. ready' = ready
    BY <1>3, AmongIsIn DEF Epoll!Edge
  <2>2. QED
    BY <1>1, <1>3, <2>1
<1>4. QED
  BY <1>2, <1>3

LEMMA EpollConnect == EpollInv /\ Epoll!Connect => EpollInv'
<1> SUFFICES ASSUME EpollInv, Epoll!Connect PROVE EpollInv'
  OBVIOUS
<1> USE EpollConstants DEF EpollInv
<1>1. /\ UNCHANGED <<epoll_pc, events, clifd, fd, watched, epoll_peer, epoll_inq,
                     epoll_sends, left>>
      /\ epoll_conns' = epoll_conns + 1 /\ epoll_conns < EpollConns
      /\ epoll_backlog' = epoll_backlog + 1
      /\ merged' = IF In(0, ready) THEN merged + 1 ELSE merged
      /\ Epoll!Edge(0)
  BY AmongIsIn DEF Epoll!Connect, Epoll!server
<1>2. 0 \in 0 .. EpollFds /\ 0 \in watched
  BY DEF EpollTypes
<1>3. /\ ready' \in Seq(0 .. EpollFds)
      /\ Distinct(ready')
      /\ \A g : In(g, ready') <=> In(g, ready) \/ g = 0
  BY <1>1, <1>2, EdgeIn
<1>4. EpollTypes'
  BY <1>1, <1>3 DEF EpollTypes
<1>5. EpollSockets'
  BY <1>1 DEF EpollSockets
<1>6. EpollQueues'
  BY <1>1, <1>2, <1>3 DEF EpollQueues
<1>7. EpollOpen'
  BY <1>1 DEF EpollOpen
<1>8. Epoll!OneAcceptPerEvent'
  BY <1>1, <1>3, AmongIsIn DEF Epoll!OneAcceptPerEvent, Epoll!One, EpollSockets
<1>9. Epoll!SilentOnlyAfterShortRecv'
  BY <1>1, <1>3, AmongIsIn
     DEF Epoll!SilentOnlyAfterShortRecv, Epoll!Unread, Epoll!Announced
<1>10. QED
  BY <1>4, <1>5, <1>6, <1>7, <1>8, <1>9

(* What a client does to its connection announces itself.                  *)
LEMMA EpollArrival ==
    ASSUME EpollInv, NEW f \in Epoll!Fds, Epoll!Edge(f), EpollSockets',
           epoll_peer[f] # "free",
           \A g \in Epoll!Fds \ {f} :
              epoll_peer'[g] = epoll_peer[g] /\ epoll_inq'[g] = epoll_inq[g],
           epoll_peer'[f] # "free",
           UNCHANGED <<epoll_pc, events, clifd, fd, watched, epoll_backlog, merged, left>>
    PROVE  EpollInv'
<1> USE EpollConstants DEF EpollInv
<1>1. f \in 0 .. EpollFds /\ f # 0
  BY DEF Epoll!Fds
<1>2. /\ ready' \in Seq(0 .. EpollFds)
      /\ Distinct(ready')
      /\ \A g : In(g, ready') <=> In(g, ready) \/ (g = f /\ f \in watched)
  BY <1>1, EdgeIn
<1>3. EpollTypes'
  BY <1>2 DEF EpollTypes
<1>4. EpollQueues'
  BY <1>2 DEF EpollQueues
<1>5. \A g \in watched \ {0} : g \in Epoll!Fds
  BY DEF EpollTypes, Epoll!Fds
<1>6. EpollOpen'
  BY <1>5 DEF EpollOpen
<1>7. Epoll!OneAcceptPerEvent'
  BY <1>1, <1>2, AmongIsIn DEF Epoll!OneAcceptPerEvent, Epoll!One
<1>8. Epoll!SilentOnlyAfterShortRecv'
  <2> SUFFICES ASSUME NEW g \in watched \ {0}, Epoll!Unread(g)', ~Epoll!Announced(g)'
               PROVE  left[g]
    BY DEF Epoll!SilentOnlyAfterShortRecv
  <2>1. g # f
    BY <1>2, AmongIsIn DEF Epoll!Announced
  <2>2. Epoll!Unread(g)
    BY <1>5, <2>1 DEF Epoll!Unread
  <2>3. ~Epoll!Announced(g)
    BY <1>2, AmongIsIn DEF Epoll!Announced
  <2>4. QED
    BY <2>2, <2>3 DEF Epoll!SilentOnlyAfterShortRecv
<1>9. QED
  BY <1>3, <1>4, <1>6, <1>7, <1>8

LEMMA EpollClient ==
    ASSUME EpollInv, NEW f \in Epoll!Fds, Epoll!Send(f) \/ Epoll!Close(f) \/ Epoll!Reset(f)
    PROVE  EpollInv'
<1> USE EpollConstants DEF EpollInv
<1>1. CASE Epoll!Send(f)
  <2>1. EpollSockets'
    BY <1>1 DEF Epoll!Send, Epoll!server, Epoll!ghost, EpollSockets
  <2>2. QED
    BY <1>1, <2>1, EpollArrival DEF Epoll!Send, Epoll!server, Epoll!ghost, EpollSockets
<1>2. CASE Epoll!Close(f)
  <2>1. EpollSockets'
    BY <1>2 DEF Epoll!Close, Epoll!server, Epoll!bounds, Epoll!ghost, EpollSockets
  <2>2. QED
    BY <1>2, <2>1, EpollArrival
       DEF Epoll!Close, Epoll!server, Epoll!bounds, Epoll!ghost, EpollSockets
<1>3. CASE Epoll!Reset(f)
  <2>1. EpollSockets'
    BY <1>3 DEF Epoll!Reset, Epoll!server, Epoll!bounds, Epoll!ghost, EpollSockets
  <2>2. QED
    BY <1>3, <2>1, EpollArrival
       DEF Epoll!Reset, Epoll!server, Epoll!bounds, Epoll!ghost, EpollSockets
<1>4. QED
  BY <1>1, <1>2, <1>3

LEMMA EpollWait == EpollInv /\ Epoll!Wait => EpollInv'
<1> SUFFICES ASSUME EpollInv, Epoll!Wait PROVE EpollInv'
  OBVIOUS
<1> USE EpollConstants DEF EpollInv
<1> DEFINE open == {f \in watched : Epoll!Readable(f)}
           told == Epoll!Only(ready, open)
           n == IF Len(told) > MaxEvents THEN MaxEvents ELSE Len(told)
<1>1. /\ epoll_pc = "wait"
      /\ events' = SubSeq(told, 1, n)
      /\ ready' = SubSeq(told, n + 1, Len(told))
      /\ epoll_pc' = IF n = 0 THEN "wait" ELSE "event"
      /\ UNCHANGED <<clifd, fd, watched, epoll_peer, epoll_inq, epoll_backlog,
                     epoll_conns, epoll_sends, merged, left>>
  BY DEF Epoll!Wait, Epoll!sockets, Epoll!bounds, Epoll!ghost
<1>2. events = <<>> /\ \A f : ~In(f, events)
  BY <1>1, EmptyIn DEF EpollQueues
<1>3. /\ told \in Seq(0 .. EpollFds)
      /\ \A f : In(f, told) <=> f \in open /\ In(f, ready)
      /\ Distinct(told)
  <2>1. ready \in Seq(0 .. EpollFds) /\ Distinct(ready)
    BY DEF EpollTypes, EpollQueues
  <2> HIDE DEF open
  <2>2. QED
    BY <2>1, OnlyIn
<1>4. n \in 0 .. Len(told) /\ n <= MaxEvents
  <2>1. Len(told) \in Nat
    BY <1>3
  <2> HIDE DEF told
  <2>2. QED
    BY <2>1
<1> HIDE DEF told, n
<1>5. /\ events' \in Seq(0 .. EpollFds) /\ Len(events') = n
      /\ ready' \in Seq(0 .. EpollFds)
      /\ Distinct(events') /\ Distinct(ready')
      /\ \A f : In(f, told) <=> In(f, events') \/ In(f, ready')
      /\ \A f : ~(In(f, events') /\ In(f, ready'))
  BY <1>1, <1>3, <1>4, CutIn
<1>6. EpollTypes'
  BY <1>1, <1>4, <1>5 DEF EpollTypes
<1>7. EpollSockets'
  BY <1>1 DEF EpollSockets
<1>8. EpollQueues'
  BY <1>1, <1>3, <1>5 DEF EpollQueues
<1>9. EpollOpen'
  BY <1>1 DEF EpollOpen
<1>10. Epoll!OneAcceptPerEvent'
  <2>1. epoll_backlog = merged + (IF In(0, ready) THEN 1 ELSE 0)
    BY <1>1, <1>2, AmongIsIn DEF Epoll!OneAcceptPerEvent, Epoll!One, EpollSockets
  <2>2. In(0, ready) => In(0, told)
    BY <1>3, <2>1 DEF Epoll!Readable, EpollTypes, EpollSockets
  <2>3. In(0, ready) <=> In(0, events') \/ In(0, ready')
    BY <1>3, <1>5, <2>2
  <2>4. QED
    BY <1>1, <1>5, <2>1, <2>3, AmongIsIn
       DEF Epoll!OneAcceptPerEvent, Epoll!One, EpollSockets
<1>11. Epoll!SilentOnlyAfterShortRecv'
  <2> SUFFICES ASSUME NEW f \in watched \ {0}, Epoll!Unread(f), ~Epoll!Announced(f)'
               PROVE  left[f]
    BY <1>1 DEF Epoll!SilentOnlyAfterShortRecv, Epoll!Unread
  <2>1. f \in open
    BY DEF Epoll!Unread, Epoll!Readable
  <2>2. ~Epoll!Announced(f)
    BY <1>1, <1>2, <1>3, <1>5, <2>1, AmongIsIn DEF Epoll!Announced
  <2>3. QED
    BY <2>2 DEF Epoll!SilentOnlyAfterShortRecv
<1>12. QED
  BY <1>6, <1>7, <1>8, <1>9, <1>10, <1>11

LEMMA EpollEvent == EpollInv /\ Epoll!Event => EpollInv'
<1> SUFFICES ASSUME EpollInv, Epoll!Event PROVE EpollInv'
  OBVIOUS
<1> USE EpollConstants DEF EpollInv
<1>1. /\ epoll_pc = "event"
      /\ UNCHANGED <<clifd, watched, ready, epoll_peer, epoll_inq, epoll_backlog,
                     epoll_conns, epoll_sends, merged, left>>
  BY DEF Epoll!Event, Epoll!sockets, Epoll!bounds, Epoll!ghost
<1>2. EpollSockets'
  BY <1>1 DEF EpollSockets
<1>3. CASE events = <<>>
  <2>1. epoll_pc' = "wait" /\ events' = events /\ fd' = fd
    BY <1>3 DEF Epoll!Event
  <2>2. EpollTypes' /\ EpollQueues' /\ EpollOpen'
    BY <1>1, <1>3, <2>1 DEF EpollTypes, EpollQueues, EpollOpen
  <2>3. Epoll!OneAcceptPerEvent'
    BY <1>1, <2>1 DEF Epoll!OneAcceptPerEvent, Epoll!One
  <2>4. Epoll!SilentOnlyAfterShortRecv'
    BY <1>1, <2>1 DEF Epoll!SilentOnlyAfterShortRecv, Epoll!Unread, Epoll!Announced
  <2>5. QED
    BY <1>2, <2>2, <2>3, <2>4
<1>4. CASE events # <<>>
  <2>1. /\ events' = Tail(events) /\ fd' = Head(events)
        /\ epoll_pc' = IF fd' = 0 THEN "accept" ELSE "recv"
    BY <1>4 DEF Epoll!Event
  <2>2. events \in Seq(0 .. EpollFds) /\ Distinct(events) /\ Len(events) <= MaxEvents
    BY DEF EpollTypes, EpollQueues
  <2>3. /\ fd' \in 0 .. EpollFds
        /\ events' \in Seq(0 .. EpollFds) /\ Len(events') = Len(events) - 1
        /\ \A f : In(f, events) <=> In(f, events') \/ f = fd'
        /\ Distinct(events') /\ ~In(fd', events')
    BY <1>4, <2>1, <2>2, TailIn
  <2>4. Len(events') <= MaxEvents
    <3>1. Len(events) \in Nat
      BY <2>2
    <3>2. QED
      BY <2>2, <2>3, <3>1
  <2>5. EpollTypes'
    BY <1>1, <2>1, <2>3, <2>4 DEF EpollTypes
  <2>6. EpollQueues' /\ EpollOpen'
    BY <1>1, <2>1, <2>3 DEF EpollQueues, EpollOpen, Epoll!Fds
  <2>7. Epoll!OneAcceptPerEvent'
    BY <1>1, <2>1, <2>3, AmongIsIn DEF Epoll!OneAcceptPerEvent, Epoll!One, EpollSockets
  <2>8. Epoll!SilentOnlyAfterShortRecv'
    <3> SUFFICES ASSUME NEW f \in watched \ {0}, Epoll!Unread(f), ~Epoll!Announced(f)'
                 PROVE  left[f]
      BY <1>1 DEF Epoll!SilentOnlyAfterShortRecv, Epoll!Unread
    <3>1. ~Epoll!Announced(f)
      BY <1>1, <2>1, <2>3, AmongIsIn DEF Epoll!Announced
    <3>2. QED
      BY <3>1 DEF Epoll!SilentOnlyAfterShortRecv
  <2>9. QED
    BY <1>2, <2>5, <2>6, <2>7, <2>8
<1>5. QED
  BY <1>3, <1>4

LEMMA EpollAccept == EpollInv /\ Epoll!Accept => EpollInv'
<1> SUFFICES ASSUME EpollInv, Epoll!Accept PROVE EpollInv'
  OBVIOUS
<1> USE EpollConstants DEF EpollInv
<1>1. /\ epoll_pc = "accept" /\ epoll_backlog > 0
      /\ UNCHANGED <<events, fd, watched, ready, epoll_inq, epoll_conns, epoll_sends, left>>
  BY DEF Epoll!Accept, Epoll!bounds
<1>2. \A f \in watched \ {0} : f \in Epoll!Fds
  BY DEF EpollTypes, Epoll!Fds
<1>3. CASE \E f \in Epoll!Fds :
             /\ Epoll!Lowest(f)
             /\ epoll_peer' = [epoll_peer EXCEPT ![f] = "open"]
             /\ clifd' = f
             /\ epoll_pc' = "add"
             /\ epoll_backlog' = epoll_backlog - 1
             /\ merged' = merged
  <2>1. PICK f \in Epoll!Fds :
             /\ Epoll!Lowest(f)
             /\ epoll_peer' = [epoll_peer EXCEPT ![f] = "open"]
             /\ clifd' = f
             /\ epoll_pc' = "add"
             /\ epoll_backlog' = epoll_backlog - 1
             /\ merged' = merged
    BY <1>3
  <2>2. f \in 0 .. EpollFds /\ f # 0 /\ epoll_peer[f] = "free"
    BY <2>1 DEF Epoll!Fds, Epoll!Lowest
  <2>3. f \notin watched
    BY <2>2 DEF EpollOpen
  <2>4. /\ epoll_peer'[f] = "open"
        /\ \A g \in Epoll!Fds \ {f} : epoll_peer'[g] = epoll_peer[g]
    BY <2>1 DEF EpollSockets
  <2>5. EpollTypes' /\ EpollSockets' /\ EpollQueues'
    BY <1>1, <2>1, <2>2 DEF EpollTypes, EpollSockets, EpollQueues
  <2>6. EpollOpen'
    BY <1>1, <1>2, <2>1, <2>3, <2>4 DEF EpollOpen
  <2>7. Epoll!OneAcceptPerEvent'
    BY <1>1, <2>1, AmongIsIn DEF Epoll!OneAcceptPerEvent, Epoll!One, EpollSockets
  <2>8. Epoll!SilentOnlyAfterShortRecv'
    BY <1>1, <1>2, <2>1, <2>3, <2>4, AmongIsIn
       DEF Epoll!SilentOnlyAfterShortRecv, Epoll!Unread, Epoll!Announced
  <2>9. QED
    BY <2>5, <2>6, <2>7, <2>8
<1>4. CASE /\ clifd' = -1
           /\ epoll_pc' = "event"
           /\ merged' = merged + 1
           /\ UNCHANGED <<epoll_peer, epoll_backlog>>
  <2>1. EpollTypes' /\ EpollSockets' /\ EpollQueues' /\ EpollOpen'
    BY <1>1, <1>4 DEF EpollTypes, EpollSockets, EpollQueues, EpollOpen
  <2>2. Epoll!OneAcceptPerEvent'
    BY <1>1, <1>4, AmongIsIn DEF Epoll!OneAcceptPerEvent, Epoll!One, EpollSockets
  <2>3. Epoll!SilentOnlyAfterShortRecv'
    BY <1>1, <1>4, AmongIsIn
       DEF Epoll!SilentOnlyAfterShortRecv, Epoll!Unread, Epoll!Announced
  <2>4. QED
    BY <2>1, <2>2, <2>3
<1>5. QED
  BY <1>3, <1>4 DEF Epoll!Accept

LEMMA EpollAdd == EpollInv /\ Epoll!Add => EpollInv'
<1> SUFFICES ASSUME EpollInv, Epoll!Add PROVE EpollInv'
  OBVIOUS
<1> USE EpollConstants DEF EpollInv
<1>1. /\ epoll_pc = "add" /\ epoll_pc' = "event"
      /\ watched' = watched \cup {clifd}
      /\ ready' = IF Epoll!Readable(clifd) THEN Append(ready, clifd) ELSE ready
      /\ UNCHANGED <<events, clifd, fd, epoll_peer, epoll_inq, epoll_backlog,
                     epoll_conns, epoll_sends, merged, left>>
  BY DEF Epoll!Add, Epoll!sockets, Epoll!bounds, Epoll!ghost
<1>2. /\ clifd \in Epoll!Fds /\ clifd \in 0 .. EpollFds /\ clifd # 0
      /\ clifd \notin watched /\ ~In(clifd, ready) /\ epoll_peer[clifd] # "free"
  BY <1>1 DEF EpollOpen, EpollQueues, Epoll!Fds
<1>3. ready \in Seq(0 .. EpollFds) /\ Distinct(ready)
  BY DEF EpollTypes, EpollQueues
<1>4. /\ ready' \in Seq(0 .. EpollFds)
      /\ Distinct(ready')
      /\ \A g : In(g, ready') <=> In(g, ready) \/ (g = clifd /\ Epoll!Readable(clifd))
  <2>1. CASE Epoll!Readable(clifd)
    <3>1. ready' = Append(ready, clifd)
      BY <1>1, <2>1
    <3>2. QED
      BY <1>2, <1>3, <2>1, <3>1, AppendIn
  <2>2. CASE ~Epoll!Readable(clifd)
    <3>1. ready' = ready
      BY <1>1, <2>2
    <3>2. QED
      BY <1>3, <2>2, <3>1
  <2>3. QED
    BY <2>1, <2>2
<1>5. EpollTypes'
  BY <1>1, <1>2, <1>4 DEF EpollTypes
<1>6. EpollSockets'
  BY <1>1 DEF EpollSockets
<1>7. EpollQueues' /\ EpollOpen'
  BY <1>1, <1>2, <1>4 DEF EpollQueues, EpollOpen
<1>8. Epoll!OneAcceptPerEvent'
  BY <1>1, <1>2, <1>4, AmongIsIn DEF Epoll!OneAcceptPerEvent, Epoll!One, EpollSockets
<1>9. Epoll!SilentOnlyAfterShortRecv'
  <2> SUFFICES ASSUME NEW f \in watched' \ {0}, Epoll!Unread(f), ~Epoll!Announced(f)'
               PROVE  left[f]
    BY <1>1 DEF Epoll!SilentOnlyAfterShortRecv, Epoll!Unread
  <2>1. f # clifd
    BY <1>2, <1>4, AmongIsIn DEF Epoll!Unread, Epoll!Readable, Epoll!Announced
  <2>2. f \in watched \ {0}
    BY <1>1, <2>1
  <2>3. ~Epoll!Announced(f)
    BY <1>1, <1>4, AmongIsIn DEF Epoll!Announced
  <2>4. QED
    BY <2>2, <2>3 DEF Epoll!SilentOnlyAfterShortRecv
<1>10. QED
  BY <1>5, <1>6, <1>7, <1>8, <1>9

(* What recv takes leaves is marked, and what ended is not watched on.     *)
LEMMA EpollRecv == EpollInv /\ Epoll!Recv => EpollInv'
<1> SUFFICES ASSUME EpollInv, Epoll!Recv PROVE EpollInv'
  OBVIOUS
<1> USE EpollConstants DEF EpollInv
<1>1. /\ epoll_pc = "recv"
      /\ UNCHANGED <<events, clifd, fd, epoll_backlog, epoll_conns, epoll_sends, merged>>
  BY DEF Epoll!Recv, Epoll!bounds
<1>2. fd \in Epoll!Fds /\ fd # 0
  BY <1>1 DEF EpollOpen, Epoll!Fds
<1>3. \A f \in watched \ {0} : f \in Epoll!Fds
  BY DEF EpollTypes, Epoll!Fds
<1>4. CASE epoll_inq[fd] > 0
  <2> DEFINE n == IF epoll_inq[fd] > RecvMax THEN RecvMax ELSE epoll_inq[fd]
  <2>1. /\ epoll_inq' = [epoll_inq EXCEPT ![fd] = @ - n]
        /\ left' = [left EXCEPT ![fd] = epoll_inq[fd] > n \/ epoll_peer[fd] # "open"]
        /\ epoll_pc' = "send"
        /\ UNCHANGED <<watched, ready, epoll_peer>>
    BY <1>4 DEF Epoll!Recv
  <2>2. n \in 1 .. epoll_inq[fd] /\ epoll_inq[fd] \in Nat
    BY <1>2, <1>4 DEF EpollSockets
  <2> HIDE DEF n
  <2>3. /\ epoll_inq'[fd] = epoll_inq[fd] - n
        /\ \A f \in Epoll!Fds \ {fd} : epoll_inq'[f] = epoll_inq[f] /\ left'[f] = left[f]
        /\ left'[fd] = (epoll_inq[fd] > n \/ epoll_peer[fd] # "open")
    BY <1>2, <2>1 DEF EpollSockets, EpollTypes
  <2>4. EpollTypes' /\ EpollQueues' /\ EpollOpen'
    BY <1>1, <1>2, <2>1 DEF EpollTypes, EpollQueues, EpollOpen
  <2>5. EpollSockets'
    BY <1>1, <1>2, <2>1, <2>2, <2>3 DEF EpollSockets
  <2>6. Epoll!OneAcceptPerEvent'
    BY <1>1, <2>1 DEF Epoll!OneAcceptPerEvent, Epoll!One
  <2>7. Epoll!SilentOnlyAfterShortRecv'
    <3> SUFFICES ASSUME NEW f \in watched \ {0}, Epoll!Unread(f)', ~Epoll!Announced(f)'
                 PROVE  left'[f]
      BY <2>1 DEF Epoll!SilentOnlyAfterShortRecv
    <3>1. CASE f = fd
      <4>1. epoll_inq[fd] > n \/ epoll_peer[fd] # "open"
        <5>1. epoll_inq[fd] - n > 0 \/ epoll_peer[fd] \in {"eof", "reset"}
          BY <2>1, <2>3, <3>1 DEF Epoll!Unread
        <5>2. QED
          BY <2>2, <5>1
      <4>2. QED
        BY <2>3, <3>1, <4>1, Zenon
    <3>2. CASE f # fd
      <4>1. Epoll!Unread(f) /\ ~Epoll!Announced(f)
        BY <1>1, <1>3, <2>1, <2>3, <3>2 DEF Epoll!Unread, Epoll!Announced
      <4>2. QED
        BY <1>3, <2>3, <3>2, <4>1 DEF Epoll!SilentOnlyAfterShortRecv
    <3>3. QED
      BY <3>1, <3>2
  <2>8. QED
    BY <2>4, <2>5, <2>6, <2>7
<1>5. CASE ~(epoll_inq[fd] > 0)
  <2>1. /\ left' = [left EXCEPT ![fd] = FALSE] /\ epoll_pc' = "event" /\ epoll_inq' = epoll_inq
    BY <1>5 DEF Epoll!Recv
  <2>2. \A f \in Epoll!Fds \ {fd} : left'[f] = left[f]
    BY <1>2, <2>1 DEF EpollTypes
  <2>3. ASSUME NEW f \in watched \ {0}, f # fd, Epoll!Unread(f), ~Epoll!Announced(f)
        PROVE  left'[f]
    BY <1>3, <2>2, <2>3 DEF Epoll!SilentOnlyAfterShortRecv
  <2>4. CASE epoll_peer[fd] \in {"eof", "dead"}
    <3>1. /\ watched' = watched \ {fd} /\ ready' = Epoll!Only(ready, watched')
          /\ epoll_peer' = epoll_peer
      BY <1>5, <2>4 DEF Epoll!Recv
    <3>2. ready \in Seq(0 .. EpollFds) /\ Distinct(ready)
      BY DEF EpollTypes, EpollQueues
    <3>3. /\ ready' \in Seq(0 .. EpollFds) /\ Distinct(ready')
          /\ \A f : In(f, ready') <=> f \in watched' /\ In(f, ready)
      BY <3>1, <3>2, OnlyIn
    <3>4. \A f : In(f, ready) => f \in watched
      BY DEF EpollQueues
    <3>5. EpollTypes'
      BY <1>1, <1>2, <2>1, <3>1, <3>3 DEF EpollTypes
    <3>6. EpollSockets' /\ EpollQueues' /\ EpollOpen'
      BY <1>1, <2>1, <3>1, <3>3 DEF EpollSockets, EpollQueues, EpollOpen
    <3>7. In(0, ready') <=> In(0, ready)
      BY <1>2, <3>1, <3>3, <3>4
    <3>8. Epoll!OneAcceptPerEvent'
      BY <1>1, <2>1, <3>7, AmongIsIn DEF Epoll!OneAcceptPerEvent, Epoll!One
    <3>9. Epoll!SilentOnlyAfterShortRecv'
      <4> SUFFICES ASSUME NEW f \in watched' \ {0}, Epoll!Unread(f)', ~Epoll!Announced(f)'
                   PROVE  left'[f]
        BY DEF Epoll!SilentOnlyAfterShortRecv
      <4>1. f \in watched \ {0} /\ f # fd
        BY <3>1
      <4>2. Epoll!Unread(f) /\ ~Epoll!Announced(f)
        BY <1>1, <2>1, <3>1, <3>3, <4>1, AmongIsIn DEF Epoll!Unread, Epoll!Announced
      <4>3. QED
        BY <2>3, <4>1, <4>2
    <3>10. QED
      BY <3>5, <3>6, <3>8, <3>9
  <2>5. CASE epoll_peer[fd] \notin {"eof", "dead"}
    <3>1. /\ epoll_peer' = [epoll_peer EXCEPT ![fd] = IF @ = "reset" THEN "dead" ELSE @]
          /\ UNCHANGED <<watched, ready>>
      BY <1>5, <2>5 DEF Epoll!Recv
    <3>2. /\ epoll_peer'[fd] = IF epoll_peer[fd] = "reset" THEN "dead" ELSE epoll_peer[fd]
          /\ \A f \in Epoll!Fds \ {fd} : epoll_peer'[f] = epoll_peer[f]
      BY <1>2, <3>1 DEF EpollSockets
    <3>3. EpollTypes' /\ EpollQueues'
      BY <1>1, <1>2, <2>1, <3>1 DEF EpollTypes, EpollQueues
    <3>4. EpollSockets'
      BY <1>1, <1>2, <2>1, <3>1 DEF EpollSockets
    <3>5. EpollOpen'
      BY <1>1, <1>2, <1>3, <2>1, <3>1, <3>2 DEF EpollOpen
    <3>6. Epoll!OneAcceptPerEvent'
      BY <1>1, <2>1, <3>1 DEF Epoll!OneAcceptPerEvent, Epoll!One
    <3>7. Epoll!SilentOnlyAfterShortRecv'
      <4> SUFFICES ASSUME NEW f \in watched \ {0}, Epoll!Unread(f)', ~Epoll!Announced(f)'
                   PROVE  left'[f]
        BY <3>1 DEF Epoll!SilentOnlyAfterShortRecv
      <4>1. f # fd
        BY <1>5, <2>1, <2>5, <3>2 DEF Epoll!Unread
      <4>2. Epoll!Unread(f) /\ ~Epoll!Announced(f)
        BY <1>1, <1>3, <2>1, <3>1, <3>2, <4>1 DEF Epoll!Unread, Epoll!Announced
      <4>3. QED
        BY <2>3, <4>1, <4>2
    <3>8. QED
      BY <3>3, <3>4, <3>5, <3>6, <3>7
  <2>6. QED
    BY <2>4, <2>5
<1>6. QED
  BY <1>4, <1>5

LEMMA EpollSendBack == EpollInv /\ Epoll!SendBack => EpollInv'
<1> SUFFICES ASSUME EpollInv, Epoll!SendBack PROVE EpollInv'
  OBVIOUS
<1> USE DEF EpollInv
<1>1. /\ epoll_pc = "send" /\ epoll_pc' \in {"event", "exit"}
      /\ UNCHANGED <<events, clifd, fd, watched, ready, epoll_peer, epoll_inq,
                     epoll_backlog, epoll_conns, epoll_sends, merged, left>>
  BY DEF Epoll!SendBack, Epoll!sockets, Epoll!bounds, Epoll!ghost
<1>2. EpollTypes' /\ EpollSockets' /\ EpollQueues' /\ EpollOpen'
  BY <1>1 DEF EpollTypes, EpollSockets, EpollQueues, EpollOpen
<1>3. Epoll!OneAcceptPerEvent'
  BY <1>1 DEF Epoll!OneAcceptPerEvent, Epoll!One
<1>4. Epoll!SilentOnlyAfterShortRecv'
  BY <1>1 DEF Epoll!SilentOnlyAfterShortRecv, Epoll!Unread, Epoll!Announced
<1>5. QED
  BY <1>2, <1>3, <1>4

LEMMA EpollStep == EpollInv /\ [Epoll!Next]_epollVars => EpollInv'
<1> SUFFICES ASSUME EpollInv, [Epoll!Next]_epollVars PROVE EpollInv'
  OBVIOUS
<1>1. CASE UNCHANGED epollVars
  BY <1>1 DEF epollVars, EpollInv, EpollTypes, EpollSockets, EpollQueues, EpollOpen,
     Epoll!OneAcceptPerEvent, Epoll!One, Epoll!SilentOnlyAfterShortRecv, Epoll!Unread,
     Epoll!Announced
<1>2. QED
  BY <1>1, EpollConnect, EpollClient, EpollWait, EpollEvent, EpollAccept, EpollAdd,
     EpollRecv, EpollSendBack DEF Epoll!Next, Epoll!Server

LEMMA EpollShown ==
    EpollInv => /\ Epoll!TypeOK /\ Epoll!OneAcceptPerEvent /\ Epoll!AcceptNeverWaits
                /\ Epoll!SilentOnlyAfterShortRecv
<1> SUFFICES ASSUME EpollInv
             PROVE  Epoll!TypeOK /\ Epoll!AcceptNeverWaits
  BY DEF EpollInv
<1> USE EpollConstants DEF EpollInv
<1>1. /\ epoll_backlog \in Nat /\ merged \in Nat /\ merged <= epoll_backlog
      /\ epoll_pc = "accept" => epoll_backlog > 0
  BY DEF EpollSockets, Epoll!OneAcceptPerEvent, Epoll!One
<1>2. ready \in Seq(watched)
  <2>1. ready \in Seq(0 .. EpollFds) /\ \A f \in 0 .. EpollFds : In(f, ready) => f \in watched
    BY DEF EpollTypes, EpollQueues
  <2>2. QED
    BY <2>1, SeqOfElements
<1>3. Len(ready) <= EpollFds + 1
  BY DistinctLen DEF EpollTypes, EpollQueues
<1>4. epoll_inq \in [Epoll!Fds -> 0 .. EpollSends]
  BY DEF EpollSockets
<1>5. epoll_backlog \in 0 .. EpollConns /\ merged \in 0 .. EpollConns
  BY <1>1 DEF EpollSockets
<1>6. Epoll!TypeOK
  BY <1>2, <1>3, <1>4, <1>5 DEF Epoll!TypeOK, EpollTypes, EpollSockets
<1>7. QED
  BY <1>1, <1>6 DEF Epoll!AcceptNeverWaits

-----------------------------------------------------------------------------
(* The two blocking servers.  They differ in what accept goes on to.       *)
Serving == {"select", "read", "write", "close"}

OioTypes ==
    /\ oio_pc \in {"accept", "select", "read", "write", "close", "exit"}
    /\ queue \in Seq(Clients)
    /\ cur \in Clients
    /\ oio_peer \in [Clients -> {"new", "open", "eof", "reset"}]
    /\ data \in [Clients -> BOOLEAN]
    /\ out \in [Clients -> {"none", "echo", "closed"}]
    /\ prompt \in [Clients -> BOOLEAN]

(* A client waits once, and neither waits nor was answered while it is     *)
(* served; before it connects nothing is known of it.                      *)
OioOrder ==
    /\ Distinct(queue)
    /\ \A c \in Clients : In(c, queue) => out[c] = "none"
    /\ oio_pc \in Serving => ~In(cur, queue) /\ oio_peer[cur] # "new"
    /\ \A c \in Clients :
         oio_peer[c] = "new" => ~In(c, queue) /\ out[c] = "none" /\ ~prompt[c]

(* What was there at accept stays until it is read, and is answered then.  *)
OioPrompt ==
    \A c \in Clients : prompt[c] /\ oio_peer[c] # "reset" =>
        /\ In(c, queue) => data[c]
        /\ c = cur /\ oio_pc \in {"select", "read"} => data[c]
        /\ c = cur /\ oio_pc = "close" => out[c] = "echo"
        /\ out[c] # "closed"

OioInv == OioTypes /\ OioOrder /\ OioPrompt

LEMMA AmongIsInQueue == \A x, q : OioTimeout!Among(x, q) <=> In(x, q)
BY DEF OioTimeout!Among, In

LEMMA OioInit == OioTimeout!Init => OioInv
<1> SUFFICES ASSUME OioTimeout!Init PROVE OioInv
  OBVIOUS
<1>1. queue \in Seq(Clients) /\ Distinct(queue) /\ \A x : ~In(x, queue)
  BY EmptyIn DEF OioTimeout!Init
<1>2. OioTypes /\ OioOrder
  BY <1>1 DEF OioTimeout!Init, OioTypes, OioOrder, Serving
<1>3. \A c \in Clients : prompt[c] = FALSE
  BY DEF OioTimeout!Init
<1>4. OioPrompt
  BY <1>3 DEF OioPrompt
<1>5. QED
  BY <1>2, <1>4 DEF OioInv

LEMMA OioConnect ==
    ASSUME OioInv, NEW c \in Clients, OioTimeout!Connect(c)
    PROVE  OioInv'
<1> USE DEF OioInv
<1>1. /\ oio_peer[c] = "new" /\ oio_peer' = [oio_peer EXCEPT ![c] = "open"]
      /\ queue' = Append(queue, c)
      /\ UNCHANGED <<oio_pc, cur, data, out, prompt>>
  BY DEF OioTimeout!Connect
<1>2. ~In(c, queue) /\ out[c] = "none" /\ ~prompt[c] /\ (oio_pc \in Serving => c # cur)
  BY <1>1 DEF OioOrder
<1>3. queue \in Seq(Clients) /\ Distinct(queue)
  BY DEF OioTypes, OioOrder
<1>4. /\ queue' \in Seq(Clients) /\ Distinct(queue')
      /\ \A y : In(y, queue') <=> In(y, queue) \/ y = c
  BY <1>1, <1>2, <1>3, AppendIn
<1>5. OioTypes'
  BY <1>1, <1>4 DEF OioTypes
<1>6. \A k \in Clients : oio_peer'[k] = IF k = c THEN "open" ELSE oio_peer[k]
  BY <1>1 DEF OioTypes
<1>7. OioOrder'
  BY <1>1, <1>2, <1>4, <1>6 DEF OioOrder, OioTypes
<1>8. OioPrompt'
  BY <1>1, <1>2, <1>4, <1>6 DEF OioPrompt
<1>9. QED
  BY <1>5, <1>7, <1>8

LEMMA OioSend ==
    ASSUME OioInv, NEW c \in Clients, OioTimeout!Send(c)
    PROVE  OioInv'
<1> USE DEF OioInv
<1>1. /\ oio_peer[c] = "open" /\ ~data[c] /\ out[c] = "none"
      /\ data' = [data EXCEPT ![c] = TRUE]
      /\ prompt' = [prompt EXCEPT ![c] = OioTimeout!Among(c, queue)]
      /\ UNCHANGED <<oio_pc, queue, cur, oio_peer, out>>
  BY DEF OioTimeout!Send
<1>2. /\ \A k \in Clients \ {c} : data'[k] = data[k] /\ prompt'[k] = prompt[k]
      /\ data'[c] = TRUE
      /\ prompt'[c] <=> In(c, queue)
  BY <1>1, AmongIsInQueue DEF OioTypes
<1>3. OioTypes'
  <2>1. OioTimeout!Among(c, queue) \in BOOLEAN
    BY DEF OioTimeout!Among
  <2>2. QED
    BY <1>1, <2>1 DEF OioTypes
<1>4. OioOrder'
  BY <1>1, <1>2 DEF OioOrder
<1>5. OioPrompt'
  <2> SUFFICES ASSUME NEW k \in Clients, prompt'[k], oio_peer[k] # "reset"
               PROVE  /\ In(k, queue) => data'[k]
                      /\ k = cur /\ oio_pc \in {"select", "read"} => data'[k]
                      /\ k = cur /\ oio_pc = "close" => out[k] = "echo"
                      /\ out[k] # "closed"
    BY <1>1 DEF OioPrompt
  <2>1. CASE k = c
    BY <1>1, <1>2, <2>1 DEF OioOrder, Serving
  <2>2. CASE k # c
    BY <1>2, <2>2 DEF OioPrompt
  <2>3. QED
    BY <2>1, <2>2
<1>6. QED
  BY <1>3, <1>4, <1>5

LEMMA OioLeave ==
    ASSUME OioInv, NEW c \in Clients, OioTimeout!Close(c) \/ OioTimeout!Reset(c)
    PROVE  OioInv'
<1> USE DEF OioInv
<1>1. CASE OioTimeout!Close(c)
  <2>1. /\ oio_peer[c] = "open" /\ oio_peer' = [oio_peer EXCEPT ![c] = "eof"]
        /\ UNCHANGED <<oio_pc, queue, cur, data, out, prompt>>
    BY <1>1 DEF OioTimeout!Close
  <2>2. \A k \in Clients : oio_peer'[k] = IF k = c THEN "eof" ELSE oio_peer[k]
    BY <2>1 DEF OioTypes
  <2>3. OioTypes'
    BY <2>1 DEF OioTypes
  <2>4. OioOrder'
    BY <2>1, <2>2 DEF OioOrder, OioTypes
  <2>5. OioPrompt'
    BY <2>1, <2>2 DEF OioPrompt
  <2>6. QED
    BY <2>3, <2>4, <2>5
<1>2. CASE OioTimeout!Reset(c)
  <2>1. /\ oio_peer[c] \in {"open", "eof"} /\ oio_peer' = [oio_peer EXCEPT ![c] = "reset"]
        /\ data' \in {data, [data EXCEPT ![c] = FALSE]}
        /\ UNCHANGED <<oio_pc, queue, cur, out, prompt>>
    BY <1>2 DEF OioTimeout!Reset
  <2>2. \A k \in Clients : oio_peer'[k] = IF k = c THEN "reset" ELSE oio_peer[k]
    BY <2>1 DEF OioTypes
  <2>3. \A k \in Clients \ {c} : data'[k] = data[k]
    BY <2>1 DEF OioTypes
  <2>4. OioTypes'
    BY <2>1 DEF OioTypes
  <2>5. OioOrder'
    BY <2>1, <2>2 DEF OioOrder, OioTypes
  <2>6. OioPrompt'
    BY <2>1, <2>2, <2>3 DEF OioPrompt
  <2>7. QED
    BY <2>4, <2>5, <2>6
<1>3. QED
  BY <1>1, <1>2

LEMMA OioAccept ==
    ASSUME OioInv, OioTimeout!Accept \/ OioNormal!Accept
    PROVE  OioInv'
<1> USE DEF OioInv
<1>1. /\ oio_pc = "accept" /\ queue # <<>>
      /\ cur' = Head(queue) /\ queue' = Tail(queue)
      /\ oio_pc' \in {"select", "read"}
      /\ UNCHANGED <<oio_peer, data, prompt, out>>
  BY DEF OioTimeout!Accept, OioNormal!Accept, OioTimeout!net, OioNormal!net
<1>2. queue \in Seq(Clients) /\ Distinct(queue)
  BY DEF OioTypes, OioOrder
<1>3. /\ cur' \in Clients /\ queue' \in Seq(Clients) /\ Distinct(queue')
      /\ \A y : In(y, queue) <=> In(y, queue') \/ y = cur'
      /\ ~In(cur', queue')
  BY <1>1, <1>2, TailIn
<1>4. OioTypes'
  BY <1>1, <1>3 DEF OioTypes
<1>5. OioOrder'
  BY <1>1, <1>3 DEF OioOrder
<1>6. OioPrompt'
  BY <1>1, <1>3 DEF OioPrompt
<1>7. QED
  BY <1>4, <1>5, <1>6

LEMMA OioSelect == OioInv /\ OioTimeout!Select => OioInv'
<1> SUFFICES ASSUME OioInv, OioTimeout!Select PROVE OioInv'
  OBVIOUS
<1> USE DEF OioInv
<1>1. /\ oio_pc = "select"
      /\ oio_pc' = IF OioTimeout!Readable(cur) THEN "read" ELSE "close"
      /\ UNCHANGED <<queue, cur, oio_peer, data, prompt, out>>
  BY DEF OioTimeout!Select, OioTimeout!net
<1>2. OioTypes' /\ OioOrder'
  BY <1>1 DEF OioTypes, OioOrder, Serving
<1>3. OioPrompt'
  <2> SUFFICES ASSUME NEW k \in Clients, prompt[k], oio_peer[k] # "reset"
               PROVE  /\ In(k, queue) => data[k]
                      /\ k = cur /\ oio_pc' \in {"select", "read"} => data[k]
                      /\ k = cur /\ oio_pc' = "close" => out[k] = "echo"
                      /\ out[k] # "closed"
    BY <1>1 DEF OioPrompt
  <2>1. (In(k, queue) => data[k]) /\ (k = cur => data[k]) /\ out[k] # "closed"
    BY <1>1 DEF OioPrompt
  <2>2. k = cur => oio_pc' = "read"
    BY <1>1, <2>1 DEF OioTimeout!Readable
  <2>3. QED
    BY <2>1, <2>2
<1>4. QED
  BY <1>2, <1>3

LEMMA OioRead == OioInv /\ OioTimeout!Read => OioInv'
<1> SUFFICES ASSUME OioInv, OioTimeout!Read PROVE OioInv'
  OBVIOUS
<1> USE DEF OioInv
<1>1. /\ oio_pc = "read"
      /\ oio_pc' = IF data[cur] THEN "write" ELSE "close"
      /\ data' = [data EXCEPT ![cur] = FALSE]
      /\ UNCHANGED <<queue, cur, oio_peer, prompt, out>>
  BY DEF OioTimeout!Read
<1>2. OioTypes' /\ OioOrder'
  BY <1>1 DEF OioTypes, OioOrder, Serving
<1>3. OioPrompt'
  <2> SUFFICES ASSUME NEW k \in Clients, prompt[k], oio_peer[k] # "reset"
               PROVE  /\ In(k, queue) => data'[k]
                      /\ ~(k = cur /\ oio_pc' \in {"select", "read", "close"})
                      /\ out[k] # "closed"
    BY <1>1 DEF OioPrompt
  <2>1. (In(k, queue) => data[k]) /\ (k = cur => data[k]) /\ out[k] # "closed"
    BY <1>1 DEF OioPrompt
  <2>2. k = cur => ~In(k, queue) /\ oio_pc' = "write"
    BY <1>1, <2>1 DEF OioOrder, Serving
  <2>3. k # cur => data'[k] = data[k]
    BY <1>1 DEF OioTypes
  <2>4. QED
    BY <2>1, <2>2, <2>3
<1>4. QED
  BY <1>2, <1>3

LEMMA OioWrite == OioInv /\ OioTimeout!Write => OioInv'
<1> SUFFICES ASSUME OioInv, OioTimeout!Write PROVE OioInv'
  OBVIOUS
<1> USE DEF OioInv
<1>1. /\ oio_pc = "write"
      /\ UNCHANGED <<queue, cur, oio_peer, data, prompt>>
      /\ \/ oio_pc' = "close" /\ out' = [out EXCEPT ![cur] = "echo"]
         \/ oio_peer[cur] = "reset" /\ oio_pc' \in {"close", "exit"} /\ out' = out
  BY DEF OioTimeout!Write, OioTimeout!net
<1>2. ~In(cur, queue) /\ oio_peer[cur] # "new" /\ cur \in Clients
  BY <1>1 DEF OioOrder, OioTypes, Serving
<1>3. CASE oio_pc' = "close" /\ out' = [out EXCEPT ![cur] = "echo"]
  <2>1. \A k \in Clients : out'[k] = IF k = cur THEN "echo" ELSE out[k]
    BY <1>3 DEF OioTypes
  <2>2. OioTypes'
    BY <1>1, <1>3 DEF OioTypes
  <2>3. OioOrder'
    BY <1>1, <1>2, <1>3, <2>1 DEF OioOrder
  <2>4. OioPrompt'
    BY <1>1, <1>3, <2>1 DEF OioPrompt
  <2>5. QED
    BY <2>2, <2>3, <2>4
<1>4. CASE oio_peer[cur] = "reset" /\ oio_pc' \in {"close", "exit"} /\ out' = out
  <2>1. OioTypes' /\ OioOrder'
    BY <1>1, <1>2, <1>4 DEF OioTypes, OioOrder
  <2>2. OioPrompt'
    BY <1>1, <1>4 DEF OioPrompt
  <2>3. QED
    BY <2>1, <2>2
<1>5. QED
  BY <1>1, <1>3, <1>4

LEMMA OioCloseIt == OioInv /\ OioTimeout!CloseIt => OioInv'
<1> SUFFICES ASSUME OioInv, OioTimeout!CloseIt PROVE OioInv'
  OBVIOUS
<1> USE DEF OioInv
<1>1. /\ oio_pc = "close" /\ oio_pc' = "accept"
      /\ out' = [out EXCEPT ![cur] = IF @ = "none" THEN "closed" ELSE @]
      /\ UNCHANGED <<queue, cur, oio_peer, data, prompt>>
  BY DEF OioTimeout!CloseIt, OioTimeout!net
<1>2. ~In(cur, queue) /\ oio_peer[cur] # "new" /\ cur \in Clients
  BY <1>1 DEF OioOrder, OioTypes, Serving
<1>3. \A k \in Clients :
         out'[k] = IF k = cur /\ out[k] = "none" THEN "closed" ELSE out[k]
  BY <1>1 DEF OioTypes
<1>4. OioTypes'
  BY <1>1, <1>2 DEF OioTypes
<1>5. OioOrder'
  BY <1>1, <1>2, <1>3 DEF OioOrder, Serving
<1>6. OioPrompt'
  BY <1>1, <1>3 DEF OioPrompt
<1>7. QED
  BY <1>4, <1>5, <1>6

(* But for accept a step of one server is one of the other.                *)
LEMMA SameSteps ==
    OioNormal!Next => OioTimeout!Next \/ OioNormal!Accept
<1>1. \A c \in Clients :
         /\ OioNormal!Connect(c) => OioTimeout!Connect(c)
         /\ OioNormal!Close(c) => OioTimeout!Close(c)
         /\ OioNormal!Reset(c) => OioTimeout!Reset(c)
  BY DEF OioNormal!Connect, OioTimeout!Connect, OioNormal!Close, OioTimeout!Close,
         OioNormal!Reset, OioTimeout!Reset
<1>2. \A c \in Clients : OioNormal!Send(c) => OioTimeout!Send(c)
  BY Zenon DEF OioNormal!Send, OioTimeout!Send, OioNormal!Among, OioTimeout!Among
<1>3. /\ OioNormal!Select => OioTimeout!Select
      /\ OioNormal!Read => OioTimeout!Read
      /\ OioNormal!Write => OioTimeout!Write
      /\ OioNormal!CloseIt => OioTimeout!CloseIt
  BY DEF OioNormal!Select, OioTimeout!Select, OioNormal!Read, OioTimeout!Read,
         OioNormal!Write, OioTimeout!Write, OioNormal!CloseIt, OioTimeout!CloseIt,
         OioNormal!net, OioTimeout!net, OioNormal!Readable, OioTimeout!Readable
<1>4. QED
  BY <1>1, <1>2, <1>3, Zenon
     DEF OioNormal!Next, OioTimeout!Next, OioNormal!Server, OioTimeout!Server

LEMMA OioStep ==
    OioInv /\ (OioTimeout!Next \/ OioNormal!Next \/ UNCHANGED oioVars) => OioInv'
<1> SUFFICES ASSUME OioInv, OioTimeout!Next \/ OioNormal!Next \/ UNCHANGED oioVars
             PROVE  OioInv'
  OBVIOUS
<1>1. CASE UNCHANGED oioVars
  BY <1>1 DEF oioVars, OioInv, OioTypes, OioOrder, OioPrompt
<1>2. CASE OioTimeout!Next
  BY <1>2, OioConnect, OioSend, OioLeave, OioAccept, OioSelect, OioRead, OioWrite,
     OioCloseIt DEF OioTimeout!Next, OioTimeout!Server
<1>3. CASE OioNormal!Next
  BY <1>2, <1>3, SameSteps, OioAccept
<1>4. QED
  BY <1>1, <1>2, <1>3

(* Of all the echo servers: what is watched is what is open, what is left  *)
(* of the backlog and of the data is announced or was left by one accept   *)
(* or a short recv, and what was there at accept is answered               *)
(* (test_select/server.c 98-144, test_epoll/server.c 92-113,               *)
(* test_oio_timeout/server.c 58-81).                                       *)
THEOREM NothingOverlookedAlways == EchoSpec => []NothingOverlooked
<1>1. EchoInit => IInv /\ EpollInv /\ OioInv
  BY InitIInv, EpollInit, OioInit DEF EchoInit
<1>2. ASSUME IInv, EpollInv, OioInv, [EchoNext]_allVars
      PROVE  IInv' /\ EpollInv' /\ OioInv'
  <2>1. /\ [Next]_vars /\ [Epoll!Next]_epollVars
        /\ OioTimeout!Next \/ OioNormal!Next \/ UNCHANGED oioVars
    BY <1>2, Zenon DEF EchoNext, allVars
  <2>2. QED
    BY <1>2, <2>1, IInvStep, EpollStep, OioStep
<1>3. IInv /\ EpollInv /\ OioInv => NothingOverlooked
  <2> SUFFICES ASSUME IInv, EpollInv, OioInv PROVE NothingOverlooked
    OBVIOUS
  <2>1. WatchedAreOpen
    BY DEF IInv
  <2>2. OioTimeout!TypeOK
    BY AmongIsInQueue DEF OioTimeout!TypeOK, OioInv, OioTypes, OioOrder
  <2>3. OioTimeout!PromptIsAnswered
    BY DEF OioTimeout!PromptIsAnswered, OioInv, OioPrompt
  <2>4. QED
    BY <2>1, <2>2, <2>3, EpollShown DEF NothingOverlooked
<1>4. QED
  BY <1>1, <1>2, <1>3, PTL DEF EchoSpec
=============================================================================
