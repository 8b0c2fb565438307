------------------------ MODULE LockDaemons_proofs ------------------------
(***************************************************************************)
(* Proofs about the POSIX named-semaphore lock server, for every set of    *)
(* clients, connections and keys and for both versions of it.  The unit of *)
(* a semaphore is followed as in SysVSemServer_proofs; sem_open creates    *)
(* and initialises at once, so that no clause about a race is needed.      *)
(* Then about the supervisor and the bypass daemon, for every number of    *)
(* servers, tries, kills and handlers.                                     *)
(***************************************************************************)
EXTENDS MC_LockDaemons, TLAPS, FiniteSetTheorems

Busy == {"open", "value", "wait", "file", "post", "reply"}

(* The parts of TypeOK that need nothing else.                             *)
TypeHandler ==
    /\ pc \in [Conns -> PCs]
    /\ req \in [Conns -> Requests \cup {NoRequest}]
    /\ res \in [Conns -> Answers]

(* What was read of a semaphore.                                           *)
TypeSeen == seen \in [Conns -> NotRead .. MaxValue]

TypeKernel ==
    /\ sem \in [Keys -> {NoSem, 0, 1}]
    /\ owner \in [Keys -> Clients \cup {None}]

TypeClient ==
    /\ conn \in [Clients -> Conns \cup {None}]
    /\ has \in [Clients -> SUBSET Keys]
    /\ lost \in SUBSET Keys

Typed == TypeHandler /\ TypeSeen /\ TypeKernel /\ TypeClient

(* A busy handler has a request, of the kind that leads to where it is.    *)
Asked == \A h \in Conns :
    /\ pc[h] \in Busy => req[h] \in Requests
    /\ pc[h] \in {"wait", "file"} => Locks(h)
    /\ pc[h] = "post" => Unlocks(h)
    /\ pc[h] = "file" => res[h] = "ok"
    /\ pc[h] \in {"open", "value"} => Locks(h) \/ Unlocks(h)

(* The unit of k is in the semaphore, or with one client or handler.       *)
Outside(k) == sem[k] = 0 /\ owner[k] # None

(* Who holds a key was given its unit.                                     *)
Held == \A c \in Clients : \A k \in has[c] : Outside(k) /\ owner[k] = c

(* Who carries a unit is the only one to have it.                          *)
Carried == \A h \in Conns : Carries(h) =>
    /\ Outside(KeyOf(h)) /\ owner[KeyOf(h)] = req[h].client
    /\ \A c \in Clients : KeyOf(h) \notin has[c]
    /\ \A g \in Conns : Carries(g) /\ KeyOf(g) = KeyOf(h) => g = h

(* Unless the unit is out, nobody owns the key.                            *)
Inside == \A k \in Keys : sem[k] # 0 => owner[k] = None

IInv == Typed /\ Asked /\ Held /\ Carried /\ Inside /\ NoLockLeaked

-----------------------------------------------------------------------------
(* What a request consists of.                                             *)
LEMMA RequestFields ==
    ASSUME NEW r \in Requests
    PROVE  r.client \in Clients /\ r.client # None /\ r.key \in Keys /\ r.flag \in Flags
BY NoneAssumption DEF Requests

(* A busy handler has a client and a key.                                  *)
LEMMA BusyRequest ==
    ASSUME IInv, NEW h \in Conns, pc[h] \in Busy
    PROVE  /\ req[h] \in Requests /\ KeyOf(h) \in Keys
           /\ req[h].client \in Clients /\ req[h].client # None
BY RequestFields DEF IInv, Asked, KeyOf

(* What sem_getvalue may have returned.                                    *)
LEMMA SeenRange == \A v \in {NotRead, NoSem, 0, 1} : v \in NotRead .. MaxValue
<1>1. NotRead \in Int /\ NotRead <= MaxValue
  BY MaxValueAssumption DEF NotRead
<1>2. NoSem \in Int /\ NotRead <= NoSem /\ NoSem <= MaxValue
  BY MaxValueAssumption DEF NotRead, NoSem
<1>3. NotRead <= 0 /\ 0 <= MaxValue /\ NotRead <= 1 /\ 1 <= MaxValue
  BY MaxValueAssumption DEF NotRead
<1>4. QED
  BY <1>1, <1>2, <1>3, MaxValueAssumption

(* A semaphore that does not exist is not one that is taken.               *)
LEMMA NoSemIsNone == NoSem # 0
BY DEF NoSem

(* Whoever carries a unit is busy.                                         *)
LEMMA CarrierBusy ==
    ASSUME NEW h \in Conns, Carries(h)
    PROVE  pc[h] \in Busy
BY DEF Carries, Granted, UnlockPending, Busy

(* The types of what a handler knows.                                      *)
LEMMA TypeHandlerStep ==
    ASSUME IInv, [Next]_vars
    PROVE  TypeHandler'
<1> USE NoneAssumption, MaxValueAssumption DEF IInv, Typed, TypeHandler, PCs, Answers, Requests
<1>1. ASSUME NEW h \in Conns, Accept(h) PROVE TypeHandler'
  BY <1>1 DEF Accept, client
<1>2. ASSUME NEW h \in Conns, ReadFails(h) PROVE TypeHandler'
  BY <1>2 DEF ReadFails, client
<1>3. ASSUME NEW h \in Conns, NEW c \in Clients, NEW k \in Keys, NEW f \in Flags, LockSem(h, c, k, f) PROVE TypeHandler'
  BY <1>3 DEF LockSem, Dispatch, client
<1>4. ASSUME NEW h \in Conns, NEW c \in Clients, NEW k \in Keys, SendUnlock(h, c, k) PROVE TypeHandler'
  <2>1. "UNLOCK" \in Flags
    BY DEF Flags
  <2>2. QED
    BY <1>4, <2>1 DEF SendUnlock, Dispatch, client
<1>5. ASSUME NEW c \in Clients, NEW k \in Keys, UnlockSem(c, k) PROVE TypeHandler'
  BY <1>5 DEF UnlockSem, client
<1>6. ASSUME NEW h \in Conns, Open(h) PROVE TypeHandler'
  BY <1>6, BusyRequest DEF Open, client
<1>7. ASSUME NEW h \in Conns, OpenFails(h) PROVE TypeHandler'
  BY <1>7, BusyRequest DEF OpenFails, Exit, client
<1>8. ASSUME NEW h \in Conns, GetValue(h) PROVE TypeHandler'
  BY <1>8, BusyRequest DEF GetValue, client
<1>9. ASSUME NEW h \in Conns, Wait(h) PROVE TypeHandler'
  BY <1>9, BusyRequest DEF Wait, client
<1>10. ASSUME NEW h \in Conns, KeyFile(h) PROVE TypeHandler'
  BY <1>10, BusyRequest DEF KeyFile, client
<1>11. ASSUME NEW h \in Conns, Post(h) PROVE TypeHandler'
  BY <1>11, BusyRequest DEF Post, client
<1>12. ASSUME NEW h \in Conns, Reply(h) PROVE TypeHandler'
  BY <1>12, BusyRequest DEF Reply, Exit, client
<1>13. ASSUME NEW h \in Conns, Die(h) PROVE TypeHandler'
  BY <1>13, BusyRequest DEF Die, Exit, client
<1>14. ASSUME NEW c \in Clients, ClientRestarts(c) PROVE TypeHandler'
  BY <1>14 DEF ClientRestarts, client
<1>15. CASE UNCHANGED vars
  BY <1>15 DEF vars, client
<1>16. QED
  BY <1>1, <1>2, <1>3, <1>4, <1>5, <1>6, <1>7, <1>8, <1>9, <1>10,
     <1>11, <1>12, <1>13, <1>14, <1>15 DEF Next, Step

(* The values that were read.                                              *)
LEMMA TypeSeenStep ==
    ASSUME IInv, [Next]_vars
    PROVE  TypeSeen'
<1> USE SeenRange DEF IInv, Typed, TypeSeen, TypeKernel, Busy
<1>1. ASSUME NEW h \in Conns, Accept(h) PROVE TypeSeen'
  BY <1>1 DEF Accept, client
<1>2. ASSUME NEW h \in Conns, ReadFails(h) PROVE TypeSeen'
  BY <1>2 DEF ReadFails, client
<1>3. ASSUME NEW h \in Conns, NEW c \in Clients, NEW k \in Keys, NEW f \in Flags, LockSem(h, c, k, f) PROVE TypeSeen'
  BY <1>3 DEF LockSem, Dispatch, client
<1>4. ASSUME NEW h \in Conns, NEW c \in Clients, NEW k \in Keys, SendUnlock(h, c, k) PROVE TypeSeen'
  BY <1>4 DEF SendUnlock, Dispatch, client
<1>5. ASSUME NEW c \in Clients, NEW k \in Keys, UnlockSem(c, k) PROVE TypeSeen'
  BY <1>5 DEF UnlockSem, client
<1>6. ASSUME NEW h \in Conns, Open(h) PROVE TypeSeen'
  BY <1>6, BusyRequest DEF Open, client
<1>7. ASSUME NEW h \in Conns, OpenFails(h) PROVE TypeSeen'
  BY <1>7, BusyRequest DEF OpenFails, Exit, client
<1>8. ASSUME NEW h \in Conns, GetValue(h) PROVE TypeSeen'
  BY <1>8, BusyRequest DEF GetValue, client
<1>9. ASSUME NEW h \in Conns, Wait(h) PROVE TypeSeen'
  BY <1>9, BusyRequest DEF Wait, client
<1>10. ASSUME NEW h \in Conns, KeyFile(h) PROVE TypeSeen'
  BY <1>10, BusyRequest DEF KeyFile, client
<1>11. ASSUME NEW h \in Conns, Post(h) PROVE TypeSeen'
  BY <1>11, BusyRequest DEF Post, client
<1>12. ASSUME NEW h \in Conns, Reply(h) PROVE TypeSeen'
  BY <1>12, BusyRequest DEF Reply, Exit, client
<1>13. ASSUME NEW h \in Conns, Die(h) PROVE TypeSeen'
  BY <1>13, BusyRequest DEF Die, Exit, client
<1>14. ASSUME NEW c \in Clients, ClientRestarts(c) PROVE TypeSeen'
  BY <1>14 DEF ClientRestarts, client
<1>15. CASE UNCHANGED vars
  BY <1>15 DEF vars, client
<1>16. QED
  BY <1>1, <1>2, <1>3, <1>4, <1>5, <1>6, <1>7, <1>8, <1>9, <1>10,
     <1>11, <1>12, <1>13, <1>14, <1>15 DEF Next, Step

(* The types of the semaphores: a unit is given back only when it is out.  *)
LEMMA TypeKernelStep ==
    ASSUME IInv, [Next]_vars
    PROVE  TypeKernel'
<1> USE NoneAssumption, MaxValueAssumption DEF IInv, Typed, TypeHandler, TypeKernel, Busy, Asked, Carried, Carries, UnlockPending, Outside, NoSem
<1>1. ASSUME NEW h \in Conns, Accept(h) PROVE TypeKernel'
  BY <1>1 DEF Accept, client
<1>2. ASSUME NEW h \in Conns, ReadFails(h) PROVE TypeKernel'
  BY <1>2 DEF ReadFails, client
<1>3. ASSUME NEW h \in Conns, NEW c \in Clients, NEW k \in Keys, NEW f \in Flags, LockSem(h, c, k, f) PROVE TypeKernel'
  BY <1>3 DEF LockSem, Dispatch, client
<1>4. ASSUME NEW h \in Conns, NEW c \in Clients, NEW k \in Keys, SendUnlock(h, c, k) PROVE TypeKernel'
  BY <1>4 DEF SendUnlock, Dispatch, client
<1>5. ASSUME NEW c \in Clients, NEW k \in Keys, UnlockSem(c, k) PROVE TypeKernel'
  BY <1>5 DEF UnlockSem, client
<1>6. ASSUME NEW h \in Conns, Open(h) PROVE TypeKernel'
  BY <1>6, BusyRequest DEF Open, client
<1>7. ASSUME NEW h \in Conns, OpenFails(h) PROVE TypeKernel'
  BY <1>7, BusyRequest DEF OpenFails, Exit, client
<1>8. ASSUME NEW h \in Conns, GetValue(h) PROVE TypeKernel'
  BY <1>8, BusyRequest DEF GetValue, client
<1>9. ASSUME NEW h \in Conns, Wait(h) PROVE TypeKernel'
  BY <1>9, BusyRequest DEF Wait, client
<1>10. ASSUME NEW h \in Conns, KeyFile(h) PROVE TypeKernel'
  BY <1>10, BusyRequest DEF KeyFile, client
<1>11. ASSUME NEW h \in Conns, Post(h) PROVE TypeKernel'
  BY <1>11, BusyRequest DEF Post, client
<1>12. ASSUME NEW h \in Conns, Reply(h) PROVE TypeKernel'
  BY <1>12, BusyRequest DEF Reply, Exit, client
<1>13. ASSUME NEW h \in Conns, Die(h) PROVE TypeKernel'
  BY <1>13, BusyRequest DEF Die, Exit, client
<1>14. ASSUME NEW c \in Clients, ClientRestarts(c) PROVE TypeKernel'
  BY <1>14 DEF ClientRestarts, client
<1>15. CASE UNCHANGED vars
  BY <1>15 DEF vars, client
<1>16. QED
  BY <1>1, <1>2, <1>3, <1>4, <1>5, <1>6, <1>7, <1>8, <1>9, <1>10,
     <1>11, <1>12, <1>13, <1>14, <1>15 DEF Next, Step

(* The types of what a client knows.                                       *)
LEMMA TypeClientStep ==
    ASSUME IInv, [Next]_vars
    PROVE  TypeClient'
<1> USE NoneAssumption, MaxValueAssumption DEF IInv, Typed, TypeHandler, TypeKernel, TypeClient, Busy, KeyOf
<1>1. ASSUME NEW h \in Conns, Accept(h) PROVE TypeClient'
  BY <1>1 DEF Accept, client
<1>2. ASSUME NEW h \in Conns, ReadFails(h) PROVE TypeClient'
  BY <1>2 DEF ReadFails, client
<1>3. ASSUME NEW h \in Conns, NEW c \in Clients, NEW k \in Keys, NEW f \in Flags, LockSem(h, c, k, f) PROVE TypeClient'
  BY <1>3 DEF LockSem, Dispatch, client
<1>4. ASSUME NEW h \in Conns, NEW c \in Clients, NEW k \in Keys, SendUnlock(h, c, k) PROVE TypeClient'
  BY <1>4 DEF SendUnlock, Dispatch, client
<1>5. ASSUME NEW c \in Clients, NEW k \in Keys, UnlockSem(c, k) PROVE TypeClient'
  BY <1>5 DEF UnlockSem, client
<1>6. ASSUME NEW h \in Conns, Open(h) PROVE TypeClient'
  BY <1>6, BusyRequest DEF Open, client
<1>7. ASSUME NEW h \in Conns, OpenFails(h) PROVE TypeClient'
  <2>1. has' \in [Clients -> SUBSET Keys]
    BY <1>7 DEF OpenFails
  <2>2. lost' \in SUBSET Keys
    BY <1>7, BusyRequest DEF OpenFails
  <2>3. conn' \in [Clients -> Conns \cup {None}]
    BY <1>7 DEF OpenFails, Exit
  <2>4. QED
    BY <2>1, <2>2, <2>3
<1>8. ASSUME NEW h \in Conns, GetValue(h) PROVE TypeClient'
  BY <1>8, BusyRequest DEF GetValue, client
<1>9. ASSUME NEW h \in Conns, Wait(h) PROVE TypeClient'
  BY <1>9, BusyRequest DEF Wait, client
<1>10. ASSUME NEW h \in Conns, KeyFile(h) PROVE TypeClient'
  BY <1>10, BusyRequest DEF KeyFile, client
<1>11. ASSUME NEW h \in Conns, Post(h) PROVE TypeClient'
  BY <1>11, BusyRequest DEF Post, client
<1>12. ASSUME NEW h \in Conns, Reply(h) PROVE TypeClient'
  BY <1>12, BusyRequest DEF Reply, Exit, client
<1>13. ASSUME NEW h \in Conns, Die(h) PROVE TypeClient'
  <2>1. pc[h] \in Busy
    BY <1>13 DEF Die, PCs
  <2>2. KeyOf(h) \in Keys
    BY <2>1, BusyRequest
  <2>3. QED
    BY <1>13, <2>2 DEF Die, Exit
<1>14. ASSUME NEW c \in Clients, ClientRestarts(c) PROVE TypeClient'
  BY <1>14 DEF ClientRestarts, client
<1>15. CASE UNCHANGED vars
  BY <1>15 DEF vars, client
<1>16. QED
  BY <1>1, <1>2, <1>3, <1>4, <1>5, <1>6, <1>7, <1>8, <1>9, <1>10,
     <1>11, <1>12, <1>13, <1>14, <1>15 DEF Next, Step

(* A handler goes where its request leads.                                 *)
LEMMA AskedStep ==
    ASSUME IInv, [Next]_vars
    PROVE  Asked'
<1> USE NoneAssumption, MaxValueAssumption DEF IInv, Typed, TypeHandler, TypeKernel, TypeClient, Busy, PCs, NoRequest, Asked, Locks, Unlocks
<1>1. ASSUME NEW h \in Conns, Accept(h) PROVE Asked'
  BY <1>1 DEF Accept, client
<1>2. ASSUME NEW h \in Conns, ReadFails(h) PROVE Asked'
  BY <1>2 DEF ReadFails, client
<1>3. ASSUME NEW h \in Conns, NEW c \in Clients, NEW k \in Keys, NEW f \in Flags, LockSem(h, c, k, f) PROVE Asked'
  <2>1. [client |-> c, key |-> k, flag |-> f] \in Requests
    BY DEF Requests
  <2>2. QED
    BY <1>3, <2>1 DEF LockSem, Dispatch
<1>4. ASSUME NEW h \in Conns, NEW c \in Clients, NEW k \in Keys, SendUnlock(h, c, k) PROVE Asked'
  <2>1. "UNLOCK" \in Flags
    BY DEF Flags
  <2>2. [client |-> c, key |-> k, flag |-> "UNLOCK"] \in Requests
    BY <2>1 DEF Requests
  <2>3. QED
    BY <1>4, <2>2 DEF SendUnlock, Dispatch
<1>5. ASSUME NEW c \in Clients, NEW k \in Keys, UnlockSem(c, k) PROVE Asked'
  BY <1>5 DEF UnlockSem, client
<1>6. ASSUME NEW h \in Conns, Open(h) PROVE Asked'
  BY <1>6, BusyRequest DEF Open, client
<1>7. ASSUME NEW h \in Conns, OpenFails(h) PROVE Asked'
  <2>1. CASE Exit(h)
    BY <2>1 DEF Exit
  <2>2. CASE ~Exit(h)
    BY <1>7, <2>2 DEF OpenFails
  <2>3. QED
    BY <2>1, <2>2
<1>8. ASSUME NEW h \in Conns, GetValue(h) PROVE Asked'
  <2>1. /\ pc'[h] \in {"wait", "post", "reply"} /\ UNCHANGED req
        /\ pc'[h] = "wait" => Locks(h)
        /\ pc'[h] = "post" => ~Locks(h)
        /\ \A g \in Conns \ {h} : pc'[g] = pc[g] /\ res'[g] = res[g]
    BY <1>8 DEF GetValue
  <2>2. Locks(h) \/ Unlocks(h)
    BY <1>8 DEF GetValue
  <2>3. pc[h] = "value"
    BY <1>8 DEF GetValue
  <2>4. QED
    BY <2>1, <2>2, <2>3
<1>9. ASSUME NEW h \in Conns, Wait(h) PROVE Asked'
  BY <1>9, BusyRequest DEF Wait, client
<1>10. ASSUME NEW h \in Conns, KeyFile(h) PROVE Asked'
  BY <1>10, BusyRequest DEF KeyFile, client
<1>11. ASSUME NEW h \in Conns, Post(h) PROVE Asked'
  BY <1>11, BusyRequest DEF Post, client
<1>12. ASSUME NEW h \in Conns, Reply(h) PROVE Asked'
  BY <1>12, BusyRequest DEF Reply, Exit, client
<1>13. ASSUME NEW h \in Conns, Die(h) PROVE Asked'
  BY <1>13, BusyRequest DEF Die, Exit, client
<1>14. ASSUME NEW c \in Clients, ClientRestarts(c) PROVE Asked'
  BY <1>14 DEF ClientRestarts, client
<1>15. CASE UNCHANGED vars
  BY <1>15 DEF vars, client
<1>16. QED
  BY <1>1, <1>2, <1>3, <1>4, <1>5, <1>6, <1>7, <1>8, <1>9, <1>10,
     <1>11, <1>12, <1>13, <1>14, <1>15 DEF Next, Step

-----------------------------------------------------------------------------
(* Core: where the units are.                                              *)
Core == Held /\ Carried /\ Inside /\ NoLockLeaked

(* The handlers but h are where they were, with the request they had.      *)
Others(h) == \A g \in Conns \ {h} :
    pc'[g] = pc[g] /\ req'[g] = req[g] /\ res'[g] = res[g]

(* They carry what they carried.                                           *)
LEMMA OthersCarry ==
    ASSUME NEW h \in Conns, Others(h)
    PROVE  \A g \in Conns \ {h} :
               /\ Carries(g)' <=> Carries(g)
               /\ KeyOf(g)' = KeyOf(g) /\ req'[g] = req[g]
BY DEF Others, Carries, Granted, UnlockPending, Locks, Unlocks, KeyOf

(* A handler that neither takes nor drops anything moves no unit.          *)
LEMMA NothingMoves ==
    ASSUME IInv, NEW h \in Conns, Others(h), Carries(h)' <=> Carries(h),
           Carries(h) => req'[h] = req[h],
           \A k \in Keys : sem'[k] = sem[k] \/ (sem[k] = NoSem /\ sem'[k] = 1),
           UNCHANGED <<owner, has, lost>>
    PROVE  Core'
<1>1. \A g \in Conns : (Carries(g)' <=> Carries(g)) /\ (Carries(g) => req'[g] = req[g])
  BY OthersCarry
<1>2. \A g \in Conns : Carries(g) => KeyOf(g)' = KeyOf(g) /\ KeyOf(g) \in Keys
  BY <1>1, CarrierBusy, BusyRequest DEF KeyOf
<1>3. \A k \in Keys : (Outside(k)' <=> Outside(k)) /\ (sem'[k] = 0 <=> sem[k] = 0)
  BY DEF Outside, NoSem
<1> USE DEF IInv, Typed, TypeClient
<1>4. Held'
  BY <1>3 DEF Held
<1>5. Carried'
  BY <1>1, <1>2, <1>3 DEF Carried
<1>6. Inside'
  BY <1>3 DEF Inside
<1>7. NoLockLeaked'
  BY <1>1, <1>2, <1>3 DEF NoLockLeaked
<1>8. QED
  BY <1>4, <1>5, <1>6, <1>7 DEF Core

(* A handler that ends without an answer drops what it carries.            *)
LEMMA UnitDropped ==
    ASSUME IInv, NEW h \in Conns, Others(h), ~Carries(h)',
           UNCHANGED <<sem, owner, has>>,
           lost' = IF Carries(h) THEN lost \cup {KeyOf(h)} ELSE lost
    PROVE  Core'
<1>1. \A g \in Conns : Carries(g)' => Carries(g) /\ KeyOf(g)' = KeyOf(g) /\ req'[g] = req[g]
  BY OthersCarry
<1> USE DEF IInv, Typed, TypeClient
<1>2. Held' /\ Inside'
  BY DEF Held, Inside, Outside
<1>3. Carried'
  BY <1>1 DEF Carried, Outside
<1>4. NoLockLeaked'
  <2> SUFFICES ASSUME NEW k \in Keys, sem[k] = 0, k \notin lost',
                      \A c \in Clients : k \notin has[c]
               PROVE  \E g \in Conns : Carries(g)' /\ KeyOf(g)' = k
    BY DEF NoLockLeaked
  <2>1. PICK g \in Conns : Carries(g) /\ KeyOf(g) = k
    BY DEF NoLockLeaked
  <2>2. g # h
    BY <2>1
  <2>3. QED
    BY <2>1, <2>2, OthersCarry
<1>5. QED
  BY <1>2, <1>3, <1>4 DEF Core

(* The steps that move no unit.                                            *)
LEMMA AcceptCore ==
    ASSUME IInv, NEW h \in Conns, Accept(h)
    PROVE  Core'
<1>1. Others(h)
  BY DEF Others, Accept, IInv, Typed, TypeHandler
<1>2. (Carries(h)' <=> Carries(h)) /\ req'[h] = req[h]
  BY DEF Accept, Carries, Granted, UnlockPending, Locks, Unlocks, IInv, Typed, TypeHandler
<1>3. QED
  BY <1>1, <1>2, NothingMoves DEF Accept, client, IInv, Typed, TypeKernel

(* As above.                                                               *)
LEMMA ReadFailsCore ==
    ASSUME IInv, NEW h \in Conns, ReadFails(h)
    PROVE  Core'
<1>1. Others(h)
  BY DEF Others, ReadFails, IInv, Typed, TypeHandler
<1>2. (Carries(h)' <=> Carries(h)) /\ req'[h] = req[h]
  BY DEF ReadFails, Carries, Granted, UnlockPending, Locks, Unlocks, IInv, Typed, TypeHandler
<1>3. QED
  BY <1>1, <1>2, NothingMoves DEF ReadFails, client, IInv, Typed, TypeKernel

(* As above: sem_open creates the unit that nobody has.                    *)
LEMMA OpenCore ==
    ASSUME IInv, NEW h \in Conns, Open(h)
    PROVE  Core'
<1>1. Others(h)
  BY DEF Others, Open, IInv, Typed, TypeHandler
<1>2. (Carries(h)' <=> Carries(h)) /\ req'[h] = req[h]
  BY DEF Open, Carries, Granted, UnlockPending, Locks, Unlocks, IInv, Typed, TypeHandler
<1>3. QED
  BY <1>1, <1>2, NothingMoves DEF Open, client, IInv, Typed, TypeKernel

(* A request to lock carries nothing.                                      *)
LEMMA LockSemCore ==
    ASSUME IInv, NEW h \in Conns, NEW c \in Clients, NEW k \in Keys, NEW f \in Flags, LockSem(h, c, k, f)
    PROVE  Core'
<1>1. Others(h)
  BY DEF Others, LockSem, Dispatch, IInv, Typed, TypeHandler
<1>2. ~Carries(h) /\ ~Carries(h)'
  BY DEF LockSem, Dispatch, Carries, Granted, UnlockPending, Locks, Unlocks, IInv, Typed, TypeHandler
<1>3. QED
  BY <1>1, <1>2, NothingMoves DEF LockSem, Dispatch

(* The value that an unlock reads is 0: the unit is on its way back.       *)
LEMMA GetValueCore ==
    ASSUME IInv, NEW h \in Conns, GetValue(h)
    PROVE  Core'
<1>1. Others(h)
  BY DEF Others, GetValue, IInv, Typed, TypeHandler
<1>2. Unlocks(h) => sem[KeyOf(h)] = 0
  BY DEF GetValue, Carries, UnlockPending, IInv, Carried, Outside
<1>3. (Carries(h)' <=> Carries(h)) /\ req'[h] = req[h]
  BY <1>2 DEF GetValue, Carries, Granted, UnlockPending, Locks, Unlocks, IInv, Typed, TypeHandler
<1>4. QED
  BY <1>1, <1>3, NothingMoves DEF GetValue, client

(* A handler that cannot open the semaphore.                               *)
LEMMA OpenFailsCore ==
    ASSUME IInv, NEW h \in Conns, OpenFails(h)
    PROVE  Core'
<1>1. Others(h)
  BY DEF Others, OpenFails, Exit, IInv, Typed, TypeHandler
<1>2. ~Carries(h)'
  BY DEF OpenFails, Exit, NoRequest, Carries, Granted, UnlockPending, Locks, Unlocks, IInv, Typed, TypeHandler
<1>3. QED
  BY <1>1, <1>2, UnitDropped DEF OpenFails

(* A handler that is killed.                                               *)
LEMMA DieCore ==
    ASSUME IInv, NEW h \in Conns, Die(h)
    PROVE  Core'
<1>1. Others(h)
  BY DEF Others, Die, Exit, IInv, Typed, TypeHandler
<1>2. ~Carries(h)'
  BY DEF Die, Exit, NoRequest, Carries, Granted, UnlockPending, Locks, Unlocks, IInv, Typed, TypeHandler
<1>3. QED
  BY <1>1, <1>2, UnitDropped DEF Die

(* A key file that cannot be written loses the unit.                       *)
LEMMA KeyFileCore ==
    ASSUME IInv, NEW h \in Conns, KeyFile(h)
    PROVE  Core'
<1>1. Others(h)
  BY DEF Others, KeyFile, IInv, Typed, TypeHandler
<1>2. Carries(h) /\ req'[h] = req[h]
  BY DEF KeyFile, IInv, Asked, Carries, Granted
<1>3. CASE UNCHANGED <<res, lost>>
  <2>1. Carries(h)'
    BY <1>3 DEF KeyFile, IInv, Asked, Carries, Granted, UnlockPending, Locks, Unlocks, Typed, TypeHandler
  <2>2. QED
    BY <1>1, <1>2, <1>3, <2>1, NothingMoves DEF KeyFile, client
<1>4. CASE res' = [res EXCEPT ![h] = "error"] /\ lost' = lost \cup {KeyOf(h)}
  <2>1. ~Carries(h)'
    BY <1>4 DEF KeyFile, Carries, Granted, UnlockPending, Locks, Unlocks, IInv, Typed, TypeHandler, Asked
  <2>2. QED
    BY <1>1, <1>2, <1>4, <2>1, UnitDropped DEF KeyFile, client
<1>5. QED
  BY <1>3, <1>4 DEF KeyFile

(* A client that is started again has what it had.                         *)
LEMMA ClientRestartsCore ==
    ASSUME IInv, NEW c \in Clients, ClientRestarts(c)
    PROVE  Core'
<1>1. \A g \in Conns : (Carries(g)' <=> Carries(g)) /\ KeyOf(g)' = KeyOf(g)
  BY DEF ClientRestarts, Carries, Granted, UnlockPending, Locks, Unlocks, KeyOf
<1>2. UNCHANGED <<sem, owner, has, lost, req>>
  BY DEF ClientRestarts
<1>3. QED
  BY <1>1, <1>2 DEF IInv, Core, Held, Carried, Inside, NoLockLeaked, Outside

(* An unlock that is not sent loses the unit.                              *)
LEMMA UnlockSemCore ==
    ASSUME IInv, NEW c \in Clients, NEW k \in Keys, UnlockSem(c, k)
    PROVE  Core'
<1>1. \A g \in Conns : (Carries(g)' <=> Carries(g)) /\ KeyOf(g)' = KeyOf(g)
  BY DEF UnlockSem, Carries, Granted, UnlockPending, Locks, Unlocks, KeyOf
<1>2. UNCHANGED <<sem, owner, req>> /\ \A d \in Clients : has'[d] \subseteq has[d]
  BY DEF UnlockSem, IInv, Typed, TypeClient
<1>3. \A d \in Clients, j \in Keys : j \in has[d] => j \in has'[d] \/ j \in lost'
  BY DEF UnlockSem, IInv, Typed, TypeClient
<1>4. lost \subseteq lost'
  BY DEF UnlockSem
<1>5. Held' /\ Inside'
  BY <1>2 DEF IInv, Held, Inside, Outside
<1>6. Carried'
  BY <1>1, <1>2, CarrierBusy, BusyRequest DEF IInv, Carried, Outside
<1>7. NoLockLeaked'
  BY <1>1, <1>2, <1>3, <1>4 DEF IInv, NoLockLeaked
<1>8. QED
  BY <1>5, <1>6, <1>7 DEF Core

(* An unlock that is sent takes the unit from the client to the handler.   *)
LEMMA SendUnlockCore ==
    ASSUME IInv, NEW h \in Conns, NEW c \in Clients, NEW k \in Keys, SendUnlock(h, c, k)
    PROVE  Core'
<1>1. Others(h)
  BY DEF Others, SendUnlock, Dispatch, IInv, Typed, TypeHandler
<1>2. ~Carries(h) /\ Carries(h)' /\ KeyOf(h)' = k /\ req'[h].client = c
  BY DEF SendUnlock, Dispatch, Carries, Granted, UnlockPending, Locks, Unlocks, KeyOf, IInv, Typed, TypeHandler
<1>3. UNCHANGED <<sem, owner, lost>> /\ k \in has[c]
  BY DEF SendUnlock, Dispatch
<1>4. \A d \in Clients : has'[d] = IF d = c THEN has[d] \ {k} ELSE has[d]
  BY DEF SendUnlock, IInv, Typed, TypeClient
<1>5. Outside(k) /\ owner[k] = c /\ \A d \in Clients : k \notin has'[d]
  BY <1>3, <1>4 DEF IInv, Held
<1>6. \A g \in Conns : Carries(g) => KeyOf(g) # k
  BY <1>3 DEF IInv, Carried
<1>7. Held' /\ Inside'
  BY <1>3, <1>4 DEF IInv, Held, Inside, Outside
<1>8. Carried'
  <2> SUFFICES ASSUME NEW g \in Conns, Carries(g)'
               PROVE  /\ Outside(KeyOf(g))' /\ owner'[KeyOf(g)'] = req'[g].client
                      /\ \A d \in Clients : KeyOf(g)' \notin has'[d]
                      /\ \A f \in Conns : Carries(f)' /\ KeyOf(f)' = KeyOf(g)' => f = g
    BY DEF Carried
  <2>1. CASE g = h
    BY <1>1, <1>2, <1>3, <1>5, <1>6, <2>1, OthersCarry DEF Outside
  <2>2. CASE g # h
    <3>1. Carries(g) /\ KeyOf(g)' = KeyOf(g) /\ req'[g] = req[g] /\ KeyOf(g) # k
      BY <1>1, <1>6, <2>2, OthersCarry
    <3>2. Outside(KeyOf(g))' /\ owner'[KeyOf(g)'] = req'[g].client
      BY <1>3, <3>1 DEF IInv, Carried, Outside
    <3>3. \A d \in Clients : KeyOf(g)' \notin has'[d]
      BY <1>4, <3>1 DEF IInv, Carried
    <3>4. \A f \in Conns : Carries(f)' /\ KeyOf(f)' = KeyOf(g)' => f = g
      BY <1>1, <1>2, <3>1, OthersCarry DEF IInv, Carried
    <3>5. QED
      BY <3>2, <3>3, <3>4
  <2>3. QED
    BY <2>1, <2>2
<1>9. NoLockLeaked'
  <2> SUFFICES ASSUME NEW y \in Keys, sem'[y] = 0, y \notin lost'
               PROVE  \/ \E d \in Clients : y \in has'[d]
                      \/ \E g \in Conns : Carries(g)' /\ KeyOf(g)' = y
    BY DEF NoLockLeaked
  <2>1. CASE y = k
    BY <1>2, <2>1
  <2>2. CASE y # k
    <3>1. CASE \E d \in Clients : y \in has[d]
      BY <1>4, <2>2, <3>1
    <3>2. CASE \E g \in Conns : Carries(g) /\ KeyOf(g) = y
      BY <1>1, <1>2, <3>2, OthersCarry
    <3>3. QED
      BY <1>3, <3>1, <3>2 DEF IInv, NoLockLeaked
  <2>3. QED
    BY <2>1, <2>2
<1>10. QED
  BY <1>7, <1>8, <1>9 DEF Core

(* sem_wait takes the unit out of the semaphore.                           *)
LEMMA WaitCore ==
    ASSUME IInv, NEW h \in Conns, Wait(h)
    PROVE  Core'
<1> DEFINE k == KeyOf(h)
<1>1. Others(h)
  BY DEF Others, Wait, IInv, Typed, TypeHandler
<1>2. ~Carries(h) /\ Carries(h)' /\ KeyOf(h)' = k /\ req'[h] = req[h]
  BY DEF Wait, Carries, Granted, UnlockPending, Locks, Unlocks, KeyOf, IInv, Typed, TypeHandler, Asked
<1>3. k \in Keys /\ req[h].client \in Clients /\ req[h].client # None
  BY BusyRequest DEF Wait, Busy
<1>4. sem[k] = 1 /\ sem' = [sem EXCEPT ![k] = 0] /\ owner' = [owner EXCEPT ![k] = req[h].client]
  <2>1. sem[k] \in {NoSem, 0, 1} /\ sem[k] > 0
    BY <1>3 DEF Wait, IInv, Typed, TypeKernel
  <2>2. sem[k] = 1
    BY <2>1 DEF NoSem
  <2>3. QED
    BY <2>2 DEF Wait
<1>5. sem'[k] = 0 /\ owner'[k] = req[h].client
  BY <1>3, <1>4 DEF IInv, Typed, TypeKernel
<1>6. \A j \in Keys : j # k => sem'[j] = sem[j] /\ owner'[j] = owner[j]
  BY <1>3, <1>4 DEF IInv, Typed, TypeKernel
<1>7. /\ \A c \in Clients : k \notin has[c]
      /\ \A g \in Conns : Carries(g) => KeyOf(g) # k
  BY <1>4 DEF IInv, Held, Carried, Outside
<1>8. UNCHANGED <<has, lost>>
  BY DEF Wait, client
<1> HIDE DEF k
<1>9. Held'
  BY <1>6, <1>7, <1>8 DEF IInv, Held, Outside, Typed, TypeClient
<1>10. Carried'
  <2> SUFFICES ASSUME NEW g \in Conns, Carries(g)'
               PROVE  /\ Outside(KeyOf(g))' /\ owner'[KeyOf(g)'] = req'[g].client
                      /\ \A d \in Clients : KeyOf(g)' \notin has'[d]
                      /\ \A f \in Conns : Carries(f)' /\ KeyOf(f)' = KeyOf(g)' => f = g
    BY DEF Carried
  <2>1. CASE g = h
    <3>1. Outside(KeyOf(h))'
      BY <1>2, <1>3, <1>5 DEF Outside
    <3>2. \A f \in Conns : Carries(f)' /\ KeyOf(f)' = k => f = h
      BY <1>1, <1>7, OthersCarry
    <3>3. QED
      BY <1>2, <1>5, <1>7, <1>8, <2>1, <3>1, <3>2
  <2>2. CASE g # h
    <3>1. Carries(g) /\ KeyOf(g)' = KeyOf(g) /\ req'[g] = req[g] /\ KeyOf(g) # k
      BY <1>1, <1>7, <2>2, OthersCarry
    <3>2. KeyOf(g) \in Keys
      BY <3>1, CarrierBusy, BusyRequest
    <3>3. Outside(KeyOf(g))' /\ owner'[KeyOf(g)'] = req'[g].client
      BY <1>6, <3>1, <3>2 DEF IInv, Carried, Outside
    <3>4. \A f \in Conns : Carries(f)' /\ KeyOf(f)' = KeyOf(g)' => f = g
      BY <1>1, <1>2, <3>1, OthersCarry DEF IInv, Carried
    <3>5. QED
      BY <1>8, <3>1, <3>3, <3>4 DEF IInv, Carried
  <2>3. QED
    BY <2>1, <2>2
<1>11. Inside'
  BY <1>5, <1>6 DEF IInv, Inside
<1>12. NoLockLeaked'
  BY <1>1, <1>2, <1>6, <1>8, OthersCarry DEF IInv, NoLockLeaked
<1>13. QED
  BY <1>9, <1>10, <1>11, <1>12 DEF Core

(* sem_post puts it back.                                                  *)
LEMMA PostCore ==
    ASSUME IInv, NEW h \in Conns, Post(h)
    PROVE  Core'
<1> DEFINE k == KeyOf(h)
<1>1. Others(h)
  BY DEF Others, Post, IInv, Typed, TypeHandler
<1>2. Carries(h) /\ ~Carries(h)'
  BY DEF Post, Carries, Granted, UnlockPending, Locks, Unlocks, IInv, Typed, TypeHandler, Asked
<1>3. k \in Keys /\ sem[k] = 0
  BY <1>2, BusyRequest DEF Post, Busy, IInv, Carried, Outside
<1>4. sem' = [sem EXCEPT ![k] = 1] /\ owner' = [owner EXCEPT ![k] = None]
  <2>1. 0 < MaxValue
    BY MaxValueAssumption
  <2>2. QED
    BY <1>3, <2>1 DEF Post
<1>5. \A j \in Keys : j # k => sem'[j] = sem[j] /\ owner'[j] = owner[j]
  BY <1>3, <1>4 DEF IInv, Typed, TypeKernel
<1>6. sem'[k] = 1 /\ owner'[k] = None
  BY <1>3, <1>4 DEF IInv, Typed, TypeKernel
<1>7. /\ \A c \in Clients : k \notin has[c]
      /\ \A g \in Conns \ {h} : Carries(g) => KeyOf(g) # k
  BY <1>2 DEF IInv, Carried
<1>8. UNCHANGED <<has, lost>>
  BY DEF Post, client
<1> HIDE DEF k
<1>9. Held'
  BY <1>5, <1>7, <1>8 DEF IInv, Held, Outside, Typed, TypeClient
<1>10. Carried'
  <2> SUFFICES ASSUME NEW g \in Conns, Carries(g)'
               PROVE  /\ Outside(KeyOf(g))' /\ owner'[KeyOf(g)'] = req'[g].client
                      /\ \A d \in Clients : KeyOf(g)' \notin has'[d]
                      /\ \A f \in Conns : Carries(f)' /\ KeyOf(f)' = KeyOf(g)' => f = g
    BY DEF Carried
  <2>1. Carries(g) /\ KeyOf(g)' = KeyOf(g) /\ req'[g] = req[g] /\ KeyOf(g) # k
    BY <1>1, <1>2, <1>7, OthersCarry
  <2>2. KeyOf(g) \in Keys
    BY <2>1, CarrierBusy, BusyRequest
  <2>3. QED
    BY <1>1, <1>2, <1>5, <1>8, <2>1, <2>2, OthersCarry DEF IInv, Carried, Outside
<1>11. Inside'
  BY <1>5, <1>6 DEF IInv, Inside
<1>12. NoLockLeaked'
  <2> SUFFICES ASSUME NEW j \in Keys, sem'[j] = 0, j \notin lost, \A c \in Clients : j \notin has[c]
               PROVE  \E g \in Conns : Carries(g)' /\ KeyOf(g)' = j
    BY <1>8 DEF NoLockLeaked
  <2>1. j # k /\ sem[j] = 0
    BY <1>5, <1>6
  <2>2. PICK g \in Conns : Carries(g) /\ KeyOf(g) = j
    BY <2>1 DEF IInv, NoLockLeaked
  <2>3. g # h
    BY <2>1, <2>2 DEF k
  <2>4. QED
    BY <1>1, <2>2, <2>3, OthersCarry
<1>13. QED
  BY <1>9, <1>10, <1>11, <1>12 DEF Core

(* An answer that is heard takes the unit to the client; else it is lost.  *)
LEMMA ReplyCore ==
    ASSUME IInv, NEW h \in Conns, Reply(h)
    PROVE  Core'
<1> DEFINE c == req[h].client
           k == KeyOf(h)
<1>1. Others(h)
  BY DEF Others, Reply, Exit, IInv, Typed, TypeHandler
<1>2. ~Carries(h)'
  BY DEF Reply, Exit, NoRequest, Carries, Granted, UnlockPending, Locks, Unlocks, IInv, Typed, TypeHandler
<1>3. Carries(h) <=> Granted(h)
  BY DEF Reply, Carries, UnlockPending
<1>4. c \in Clients /\ k \in Keys
  BY BusyRequest DEF Reply, Busy
<1>5. CASE ~(conn[c] = h /\ Granted(h))
  BY <1>1, <1>2, <1>3, <1>5, UnitDropped DEF Reply
<1>6. CASE conn[c] = h /\ Granted(h)
  <2>1. UNCHANGED <<sem, owner, lost>> /\ has' = [has EXCEPT ![c] = @ \cup {k}]
    BY <1>6 DEF Reply
  <2>2. \A d \in Clients : has'[d] = IF d = c THEN has[d] \cup {k} ELSE has[d]
    BY <1>4, <2>1 DEF IInv, Typed, TypeClient
  <2>3. Outside(k) /\ owner[k] = c /\ \A g \in Conns \ {h} : Carries(g) => KeyOf(g) # k
    BY <1>3, <1>6 DEF IInv, Carried
  <2> HIDE DEF c, k
  <2>4. Held' /\ Inside'
    BY <2>1, <2>2, <2>3 DEF IInv, Held, Inside, Outside
  <2>5. Carried'
    <3> SUFFICES ASSUME NEW g \in Conns, Carries(g)'
                 PROVE  /\ Outside(KeyOf(g))' /\ owner'[KeyOf(g)'] = req'[g].client
                        /\ \A d \in Clients : KeyOf(g)' \notin has'[d]
                        /\ \A f \in Conns : Carries(f)' /\ KeyOf(f)' = KeyOf(g)' => f = g
      BY DEF Carried
    <3>1. Carries(g) /\ KeyOf(g)' = KeyOf(g) /\ req'[g] = req[g] /\ KeyOf(g) # k
      BY <1>1, <1>2, <2>3, OthersCarry
    <3>2. QED
      BY <1>1, <1>2, <2>1, <2>2, <3>1, OthersCarry DEF IInv, Carried, Outside
  <2>6. NoLockLeaked'
    <3> SUFFICES ASSUME NEW j \in Keys, sem[j] = 0, j \notin lost, \A d \in Clients : j \notin has'[d]
                 PROVE  \E g \in Conns : Carries(g)' /\ KeyOf(g)' = j
      BY <2>1 DEF NoLockLeaked
    <3>1. j # k /\ \A d \in Clients : j \notin has[d]
      BY <1>4, <2>2
    <3>2. PICK g \in Conns : Carries(g) /\ KeyOf(g) = j
      BY <3>1 DEF IInv, NoLockLeaked
    <3>3. g # h
      BY <3>1, <3>2 DEF k
    <3>4. QED
      BY <1>1, <3>2, <3>3, OthersCarry
  <2>7. QED
    BY <2>4, <2>5, <2>6 DEF Core
<1>7. QED
  BY <1>5, <1>6

(* Every step keeps Core.                                                  *)
LEMMA CoreStep ==
    ASSUME IInv, [Next]_vars
    PROVE  Core'
<1>1. CASE UNCHANGED vars
  BY <1>1 DEF vars, client, IInv, Core, Held, Carried, Inside, NoLockLeaked, Outside,
              Carries, Granted, UnlockPending, Locks, Unlocks, KeyOf
<1>2. QED
  BY <1>1, AcceptCore, ReadFailsCore, LockSemCore, SendUnlockCore, UnlockSemCore, OpenCore,
     OpenFailsCore, GetValueCore, WaitCore, KeyFileCore, PostCore, ReplyCore, DieCore,
     ClientRestartsCore DEF Next, Step

-----------------------------------------------------------------------------
(* The invariant holds at first.                                           *)
LEMMA InitIInv ==
    ASSUME Init
    PROVE  IInv
<1> USE NoneAssumption, MaxValueAssumption DEF Init
<1>1. TypeHandler
  BY DEF TypeHandler, PCs, Answers
<1>2. TypeKernel
  BY DEF TypeKernel
<1> TypeSeen
  BY SeenRange DEF TypeSeen
<1>3. TypeClient
  BY DEF TypeClient
<1>4. Asked /\ Held
  BY DEF Asked, Held, Busy
<1>5. Carried
  BY DEF Carried, Carries, Granted, UnlockPending
<1> Inside
  BY DEF Inside
<1> NoLockLeaked
  <2>1. NoSem # 0
    BY NoSemIsNone
  <2>2. \A k \in Keys : sem[k] # 0
    BY <2>1
  <2>3. QED
    BY <2>2 DEF NoLockLeaked
<1>6. QED
  BY <1>1, <1>2, <1>3, <1>4, <1>5 DEF IInv, Typed

(* What is proved above, for every reachable state.                        *)
LEMMA Inductive == Spec => []IInv
<1>1. Init => IInv
  BY InitIInv
<1>2. IInv /\ [Next]_vars => IInv'
  <2> SUFFICES ASSUME IInv, [Next]_vars PROVE IInv'
    OBVIOUS
  <2>1. QED
    BY TypeHandlerStep, TypeKernelStep, TypeClientStep, TypeSeenStep, AskedStep, CoreStep
       DEF IInv, Typed, Core
<1>3. QED
  BY <1>1, <1>2, PTL DEF Spec

(* The type invariant, for both versions of the server.                    *)
THEOREM TypeCorrect == Spec => []TypeOK
<1>1. IInv => TypeOK
  <2> SUFFICES ASSUME IInv PROVE TypeOK
    OBVIOUS
  <2>1. sem \in [Keys -> NoSem .. MaxValue]
    <3>1. {NoSem, 0, 1} \subseteq NoSem .. MaxValue
      BY MaxValueAssumption DEF NoSem
    <3>2. QED
      BY <3>1 DEF IInv, Typed, TypeKernel
  <2>2. QED
    BY <2>1 DEF IInv, Typed, TypeHandler, TypeSeen, TypeKernel, TypeClient, TypeOK
<1>2. QED
  BY <1>1, Inductive, PTL

(* Reading the value and taking the semaphore in two calls (ServerMain.c   *)
(* 111-121) lets no two clients hold a key.                                *)
THEOREM MutualExclusionAlways == Spec => []MutualExclusion
<1>1. IInv => MutualExclusion
  BY DEF IInv, Held, MutualExclusion, Typed, TypeClient
<1>2. QED
  BY <1>1, Inductive, PTL

(* A unit that is out is with a client or a handler, unless it was lost in *)
(* one of the ways that lost records.                                      *)
THEOREM NoLockLeakedAlways == Spec => []NoLockLeaked
<1>1. IInv => NoLockLeaked
  BY DEF IInv
<1>2. QED
  BY <1>1, Inductive, PTL

(* The same two calls (backup/ServerMain.c 87-93) never raise a semaphore  *)
(* above 1.                                                                *)
THEOREM BinarySemaphoreAlways == Spec => []BinarySemaphore
<1>1. IInv => BinarySemaphore
  BY DEF IInv, Typed, TypeKernel, BinarySemaphore, NoSem
<1>2. QED
  BY <1>1, Inductive, PTL

-----------------------------------------------------------------------------
(* Every step of the server and its clients is a step of the lock service, *)
(* or changes neither the owners nor what the clients hold.                *)
LEMMA StepRefines ==
    ASSUME IInv, [Next]_vars
    PROVE  [Service!Next]_(Service!vars)
<1> USE NoneAssumption DEF Service!vars, IInv
<1>1. ASSUME NEW h \in Conns, Accept(h) PROVE [Service!Next]_(Service!vars)
  BY <1>1 DEF Accept, client
<1>2. ASSUME NEW h \in Conns, ReadFails(h) PROVE [Service!Next]_(Service!vars)
  BY <1>2 DEF ReadFails, client
<1>3. ASSUME NEW h \in Conns, NEW c \in Clients, NEW k \in Keys, NEW f \in Flags, LockSem(h, c, k, f) PROVE [Service!Next]_(Service!vars)
  BY <1>3 DEF LockSem, Dispatch, client
<1>4. ASSUME NEW h \in Conns, NEW c \in Clients, NEW k \in Keys, SendUnlock(h, c, k) PROVE [Service!Next]_(Service!vars)
  <2>1. Service!GiveUp(c, k)
    BY <1>4 DEF SendUnlock, Service!GiveUp, Dispatch
  <2>2. QED
    BY <2>1 DEF Service!Next
<1>5. ASSUME NEW c \in Clients, NEW k \in Keys, UnlockSem(c, k) PROVE [Service!Next]_(Service!vars)
  <2>1. Service!GiveUp(c, k)
    BY <1>5 DEF UnlockSem, Service!GiveUp
  <2>2. QED
    BY <2>1 DEF Service!Next
<1>6. ASSUME NEW h \in Conns, Open(h) PROVE [Service!Next]_(Service!vars)
  BY <1>6 DEF Open, client
<1>7. ASSUME NEW h \in Conns, OpenFails(h) PROVE [Service!Next]_(Service!vars)
  BY <1>7 DEF OpenFails, Exit, client
<1>8. ASSUME NEW h \in Conns, GetValue(h) PROVE [Service!Next]_(Service!vars)
  BY <1>8 DEF GetValue, client
<1>9. ASSUME NEW h \in Conns, Wait(h) PROVE [Service!Next]_(Service!vars)
  <2>1. req[h].client \in Clients /\ KeyOf(h) \in Keys
    BY <1>9, BusyRequest DEF Wait, Busy
  <2>2. Service!Grant(req[h].client, KeyOf(h))
    <3>1. sem[KeyOf(h)] > 0
      BY <1>9 DEF Wait
    <3>2. owner[KeyOf(h)] = None
      BY <2>1, <3>1 DEF Inside
    <3>3. QED
      BY <1>9, <3>2 DEF Wait, client, Service!Grant
  <2>3. QED
    BY <2>1, <2>2 DEF Service!Next
<1>10. ASSUME NEW h \in Conns, KeyFile(h) PROVE [Service!Next]_(Service!vars)
  BY <1>10 DEF KeyFile, client
<1>11. ASSUME NEW h \in Conns, Post(h) PROVE [Service!Next]_(Service!vars)
  <2>1. req[h].client \in Clients /\ KeyOf(h) \in Keys
    BY <1>11, BusyRequest DEF Post, Busy
  <2>2. Service!Release(req[h].client, KeyOf(h))
    <3>1. Carries(h)
      BY <1>11 DEF Post, Asked, Carries, UnlockPending
    <3>2. owner[KeyOf(h)] = req[h].client /\ KeyOf(h) \notin has[req[h].client]
      BY <2>1, <3>1 DEF Carried
    <3>3. QED
      BY <1>11, <3>2 DEF Post, client, Service!Release
  <2>3. QED
    BY <2>1, <2>2 DEF Service!Next
<1>12. ASSUME NEW h \in Conns, Reply(h) PROVE [Service!Next]_(Service!vars)
  <2>1. CASE conn[req[h].client] = h /\ Granted(h)
    <3>1. req[h].client \in Clients /\ KeyOf(h) \in Keys
      BY <1>12, BusyRequest DEF Reply, Busy
    <3>2. owner[KeyOf(h)] = req[h].client
      BY <2>1 DEF Carried, Carries
    <3>3. Service!Tell(req[h].client, KeyOf(h))
      BY <1>12, <2>1, <3>2 DEF Reply, Service!Tell
    <3>4. QED
      BY <3>1, <3>3 DEF Service!Next
  <2>2. CASE ~(conn[req[h].client] = h /\ Granted(h))
    BY <1>12, <2>2 DEF Reply
  <2>3. QED
    BY <2>1, <2>2
<1>13. ASSUME NEW h \in Conns, Die(h) PROVE [Service!Next]_(Service!vars)
  BY <1>13 DEF Die, Exit, client
<1>14. ASSUME NEW c \in Clients, ClientRestarts(c) PROVE [Service!Next]_(Service!vars)
  BY <1>14 DEF ClientRestarts, client
<1>15. CASE UNCHANGED vars
  BY <1>15 DEF vars
<1>16. QED
  BY <1>1, <1>2, <1>3, <1>4, <1>5, <1>6, <1>7, <1>8, <1>9, <1>10,
     <1>11, <1>12, <1>13, <1>14, <1>15 DEF Next, Step

(* Both versions of the server implement the lock service.                 *)
THEOREM Refinement == Spec => ImplementsLockService
<1>1. Init => Service!Init
  BY DEF Init, Service!Init
<1>2. IInv /\ [Next]_vars => [Service!Next]_(Service!vars)
  BY StepRefines
<1>3. QED
  BY <1>1, <1>2, Inductive, PTL DEF Spec, ImplementsLockService, Service!Spec

-----------------------------------------------------------------------------
(* The supervisor.  A daemon that lives has a supervisor that waits, until *)
(* one is killed; a supervisor can take exit(9) from its daemon or the     *)
(* status it left only while another server listens, and that one has a    *)
(* supervisor too.                                                         *)
Attended ==
    ~excused => \A s \in Starts :
        sup_daemon[s] \in {"bind", "listen", "accept", "exit9", "killed"} => sup[s] = "wait"
Served ==
    ~excused => \A s \in Starts :
        /\ sup[s] = "wait" => sup_daemon[s] # "none"
        /\ s \notin started => sup[s] = "off"

(* While a daemon that gave up is not yet waited for, another supervisor   *)
(* is there whose own daemon did not give up.                              *)
Survivor == ~excused /\ (\E s \in Starts : sup_daemon[s] = "exit9") =>
    \E t \in Starts : sup[t] # "off" /\ sup_daemon[t] # "exit9"

(* A daemon that still binds has tries left.                               *)
TriesLeft == \A s \in Starts : sup_daemon[s] = "bind" => try_cnt[s] <= MaxTry + 1

SupInv == Supervisor!TypeOK /\ TriesLeft /\ Attended /\ Served /\ Survivor /\ Supervisor!OneSurvives

LEMMA SupTypeStep ==
  ASSUME Supervisor!TypeOK, TriesLeft, [Supervisor!Next]_(Supervisor!vars)
  PROVE Supervisor!TypeOK' /\ TriesLeft'
<1> DEFINE Goal == Supervisor!TypeOK' /\ TriesLeft'
<1> USE SupervisorAssumption DEF Supervisor!TypeOK, TriesLeft
<1>1. CASE UNCHANGED Supervisor!vars
  BY <1>1 DEF Supervisor!vars
<1>2. ASSUME NEW s \in Starts, Supervisor!Start(s) PROVE Goal
  BY <1>2 DEF Supervisor!Start
<1>3. ASSUME NEW s \in Starts, Supervisor!ForkDaemon(s) PROVE Goal
  BY <1>3 DEF Supervisor!ForkDaemon
<1>4. ASSUME NEW s \in Starts, Supervisor!Wait(s) PROVE Goal
  BY <1>4 DEF Supervisor!Wait, Supervisor!Decide
<1>5. ASSUME NEW s \in Starts, Supervisor!Bind(s) PROVE Goal
  <2>1. CASE ~Supervisor!PortTaken
    BY <1>5, <2>1 DEF Supervisor!Bind
  <2>2. CASE Supervisor!PortTaken /\ try_cnt[s] > MaxTry
    BY <1>5, <2>2 DEF Supervisor!Bind, Supervisor!Exit9
  <2>3. CASE Supervisor!PortTaken /\ ~(try_cnt[s] > MaxTry)
    <3>1. try_cnt[s] + 1 \in 0 .. MaxTry + 1
      BY <2>3
    <3>2. QED
      BY <1>5, <2>3, <3>1 DEF Supervisor!Bind
  <2>4. QED
    BY <2>1, <2>2, <2>3
<1>6. ASSUME NEW s \in Starts, Supervisor!Listen(s) PROVE Goal
  BY <1>6 DEF Supervisor!Listen, Supervisor!Exit9
<1>7. ASSUME NEW s \in Starts, Supervisor!ForkFails(s) PROVE Goal
  BY <1>7 DEF Supervisor!ForkFails
<1>8. ASSUME NEW s \in Starts, Supervisor!SocketFails(s) PROVE Goal
  BY <1>8 DEF Supervisor!SocketFails, Supervisor!Exit9
<1>9. ASSUME NEW s \in Starts, Supervisor!KillDaemon(s) PROVE Goal
  BY <1>9 DEF Supervisor!KillDaemon
<1>10. ASSUME NEW s \in Starts, Supervisor!KillSupervisor(s) PROVE Goal
  BY <1>10 DEF Supervisor!KillSupervisor
<1>11. ASSUME NEW s \in Starts, NEW h \in OneHandler, Supervisor!ForkHandler(s, h)
       PROVE Goal
  BY <1>11 DEF Supervisor!ForkHandler
<1>12. ASSUME NEW h \in OneHandler, Supervisor!CloseListen(h) PROVE Goal
  BY <1>12 DEF Supervisor!CloseListen
<1>13. ASSUME NEW h \in OneHandler, Supervisor!HandlerEnds(h) PROVE Goal
  BY <1>13 DEF Supervisor!HandlerEnds
<1>14. QED
  BY <1>1, <1>2, <1>3, <1>4, <1>5, <1>6, <1>7, <1>8, <1>9, <1>10, <1>11, <1>12, <1>13
     DEF Supervisor!Next, Supervisor!Run

LEMMA SurvivalStep ==
  ASSUME SupInv, [Supervisor!Next]_(Supervisor!vars)
  PROVE Attended' /\ Served' /\ Survivor' /\ Supervisor!OneSurvives'
<1> DEFINE Goal == Attended' /\ Served' /\ Survivor' /\ Supervisor!OneSurvives'
<1> USE DEF SupInv, Supervisor!TypeOK, Attended, Served, Survivor, Supervisor!OneSurvives
<1>1. CASE UNCHANGED Supervisor!vars
  BY <1>1 DEF Supervisor!vars
<1>2. ASSUME NEW s \in Starts, Supervisor!Start(s) PROVE Goal
  BY <1>2 DEF Supervisor!Start
<1>3. ASSUME NEW s \in Starts, Supervisor!ForkDaemon(s) PROVE Goal
  BY <1>3 DEF Supervisor!ForkDaemon
<1>4. ASSUME NEW s \in Starts, Supervisor!Wait(s) PROVE Goal
  BY <1>4 DEF Supervisor!Wait, Supervisor!Decide
<1>0. ASSUME NEW s \in Starts, sup_daemon[s] \in {"bind", "listen"}, Supervisor!Exit9(s),
             UNCHANGED <<sup, started>>
      PROVE  Goal
  <2>1. Attended' /\ Served'
    BY <1>0 DEF Supervisor!Exit9
  <2>2. Survivor'
    BY <1>0 DEF Supervisor!Exit9, Supervisor!Listening
  <2>3. Supervisor!OneSurvives'
    BY <1>0 DEF Supervisor!Exit9
  <2>4. QED
    BY <2>1, <2>2, <2>3
<1>5. ASSUME NEW s \in Starts, Supervisor!Bind(s) PROVE Goal
  <2>1. /\ sup_daemon[s] = "bind" /\ UNCHANGED <<sup, started>>
        /\ \/ sup_daemon' = [sup_daemon EXCEPT ![s] = "listen"] /\ UNCHANGED excused
           \/ UNCHANGED <<sup_daemon, excused>>
           \/ Supervisor!Exit9(s)
    BY <1>5 DEF Supervisor!Bind
  <2>2. CASE sup_daemon' = [sup_daemon EXCEPT ![s] = "listen"] /\ UNCHANGED excused
    BY <2>1, <2>2
  <2>3. CASE UNCHANGED <<sup_daemon, excused>>
    BY <2>1, <2>3
  <2>4. CASE Supervisor!Exit9(s)
    BY <1>0, <2>1, <2>4
  <2>5. QED
    BY <2>1, <2>2, <2>3, <2>4
<1>6. ASSUME NEW s \in Starts, Supervisor!Listen(s) PROVE Goal
  <2>1. /\ sup_daemon[s] = "listen" /\ UNCHANGED <<sup, started>>
        /\ \/ sup_daemon' = [sup_daemon EXCEPT ![s] = "accept"] /\ UNCHANGED excused
           \/ Supervisor!Exit9(s)
    BY <1>6 DEF Supervisor!Listen
  <2>2. CASE sup_daemon' = [sup_daemon EXCEPT ![s] = "accept"] /\ UNCHANGED excused
    BY <2>1, <2>2
  <2>3. CASE Supervisor!Exit9(s)
    BY <1>0, <2>1, <2>3
  <2>4. QED
    BY <2>1, <2>2, <2>3
<1>7. ASSUME NEW s \in Starts, Supervisor!ForkFails(s) PROVE Goal
  BY <1>7 DEF Supervisor!ForkFails
<1>8. ASSUME NEW s \in Starts, Supervisor!SocketFails(s) PROVE Goal
  BY <1>8 DEF Supervisor!SocketFails, Supervisor!Exit9, Supervisor!Listening
<1>9. ASSUME NEW s \in Starts, Supervisor!KillDaemon(s) PROVE Goal
  BY <1>9 DEF Supervisor!KillDaemon
<1>10. ASSUME NEW s \in Starts, Supervisor!KillSupervisor(s) PROVE Goal
  BY <1>10 DEF Supervisor!KillSupervisor
<1>11. ASSUME NEW s \in Starts, NEW h \in OneHandler, Supervisor!ForkHandler(s, h)
       PROVE Goal
  BY <1>11 DEF Supervisor!ForkHandler, Supervisor!Listening
<1>12. ASSUME NEW h \in OneHandler, Supervisor!CloseListen(h) PROVE Goal
  BY <1>12 DEF Supervisor!CloseListen
<1>13. ASSUME NEW h \in OneHandler, Supervisor!HandlerEnds(h) PROVE Goal
  BY <1>13 DEF Supervisor!HandlerEnds
<1>14. QED
  BY <1>1, <1>2, <1>3, <1>4, <1>5, <1>6, <1>7, <1>8, <1>9, <1>10, <1>11, <1>12, <1>13
     DEF Supervisor!Next, Supervisor!Run

LEMMA InitTyped == ASSUME Supervisor!Init PROVE Supervisor!TypeOK /\ TriesLeft
<1>1. excused \in BOOLEAN
  BY Zenon DEF Supervisor!Init
<1>2. 0 \in 0 .. MaxTry + 2 /\ 0 \in 0 .. SupKills
  BY SupervisorAssumption
<1>3. QED
  BY <1>1, <1>2 DEF Supervisor!Init, Supervisor!TypeOK, TriesLeft

(* main.c 48, tcp_lib.c 303-319: whatever the number of servers and of     *)
(* daemons killed, one supervisor stays.                                   *)
THEOREM OneSurvivesAlways == Supervisor!Spec => []OneSurvives
<1>1. Supervisor!Init => SupInv
  <2> SUFFICES ASSUME Supervisor!Init PROVE SupInv
    OBVIOUS
  <2>1. Supervisor!TypeOK /\ TriesLeft
    BY InitTyped
  <2>2. Attended /\ Served /\ Survivor /\ Supervisor!OneSurvives
    BY DEF Supervisor!Init, Attended, Served, Survivor, Supervisor!OneSurvives
  <2>3. QED
    BY <2>1, <2>2 DEF SupInv
<1>2. SupInv /\ [Supervisor!Next]_(Supervisor!vars) => SupInv'
  BY SupTypeStep, SurvivalStep DEF SupInv
<1>3. SupInv => OneSurvives
  BY DEF SupInv, OneSurvives
<1>4. QED
  BY <1>1, <1>2, <1>3, PTL DEF Supervisor!Spec

(* The status 0x900 is left only to a supervisor that ends by it.          *)
NoNine == \A s \in Starts :
    /\ sup[s] # "off" => s \in started
    /\ sup[s] # "off" \/ s \notin started => status[s] # "nine"

LEMMA NoNineStep ==
  ASSUME Supervisor!TypeOK, NoNine, [Supervisor!Next]_(Supervisor!vars)
  PROVE NoNine'
<1> USE DEF Supervisor!TypeOK, NoNine
<1>1. CASE UNCHANGED Supervisor!vars
  BY <1>1 DEF Supervisor!vars
<1>2. ASSUME NEW s \in Starts, Supervisor!Start(s) PROVE NoNine'
  BY <1>2 DEF Supervisor!Start
<1>3. ASSUME NEW s \in Starts, Supervisor!ForkDaemon(s) PROVE NoNine'
  BY <1>3 DEF Supervisor!ForkDaemon
<1>4. ASSUME NEW s \in Starts, Supervisor!Wait(s) PROVE NoNine'
  BY <1>4 DEF Supervisor!Wait, Supervisor!Decide
<1>5. ASSUME NEW s \in Starts, Supervisor!Bind(s) PROVE NoNine'
  BY <1>5 DEF Supervisor!Bind, Supervisor!Exit9
<1>6. ASSUME NEW s \in Starts, Supervisor!Listen(s) PROVE NoNine'
  BY <1>6 DEF Supervisor!Listen, Supervisor!Exit9
<1>7. ASSUME NEW s \in Starts, Supervisor!ForkFails(s) PROVE NoNine'
  BY <1>7 DEF Supervisor!ForkFails
<1>8. ASSUME NEW s \in Starts, Supervisor!SocketFails(s) PROVE NoNine'
  BY <1>8 DEF Supervisor!SocketFails, Supervisor!Exit9
<1>9. ASSUME NEW s \in Starts, Supervisor!KillDaemon(s) PROVE NoNine'
  BY <1>9 DEF Supervisor!KillDaemon
<1>10. ASSUME NEW s \in Starts, Supervisor!KillSupervisor(s) PROVE NoNine'
  BY <1>10 DEF Supervisor!KillSupervisor
<1>11. ASSUME NEW s \in Starts, NEW h \in OneHandler, Supervisor!ForkHandler(s, h)
       PROVE NoNine'
  BY <1>11 DEF Supervisor!ForkHandler
<1>12. ASSUME NEW h \in OneHandler, Supervisor!CloseListen(h) PROVE NoNine'
  BY <1>12 DEF Supervisor!CloseListen
<1>13. ASSUME NEW h \in OneHandler, Supervisor!HandlerEnds(h) PROVE NoNine'
  BY <1>13 DEF Supervisor!HandlerEnds
<1>14. QED
  BY <1>1, <1>2, <1>3, <1>4, <1>5, <1>6, <1>7, <1>8, <1>9, <1>10, <1>11, <1>12, <1>13
     DEF Supervisor!Next, Supervisor!Run

(* main.c 48: a supervisor stops only by exit(9) of its daemon, by a kill, *)
(* or by a status that was never written.                                  *)
THEOREM StopsOnlyWhenAskedAlways == Supervisor!Spec => Supervisor!StopsOnlyWhenAsked
<1> DEFINE Asked9(s) == sup[s] = "wait" /\ sup'[s] = "off" /\ sup_kills' = sup_kills =>
                            sup_daemon[s] = "exit9" \/ (sup_daemon[s] = "none" /\ status[s] = "unset")
<1> DEFINE Inv == Supervisor!TypeOK /\ TriesLeft /\ NoNine
<1>1. Supervisor!Init => Inv
  BY InitTyped DEF Supervisor!Init, NoNine
<1>2. Inv /\ [Supervisor!Next]_(Supervisor!vars) => Inv'
  BY SupTypeStep, NoNineStep
<1>3. Inv /\ [Supervisor!Next]_(Supervisor!vars)
        => [\A s \in Starts : Asked9(s)]_(Supervisor!vars)
  <2> SUFFICES ASSUME Inv, Supervisor!Next, NEW s \in Starts PROVE Asked9(s)
    OBVIOUS
  <2>1. ASSUME NEW t \in Starts, Supervisor!Wait(t) PROVE Asked9(s)
    BY <2>1 DEF Supervisor!Wait, Supervisor!Decide, Supervisor!TypeOK, NoNine
  <2>2. ASSUME NEW t \in Starts, Supervisor!KillSupervisor(t) PROVE Asked9(s)
    BY <2>2 DEF Supervisor!KillSupervisor, Supervisor!TypeOK
  <2>3. ASSUME NEW t \in Starts,
               Supervisor!Start(t) \/ Supervisor!ForkDaemon(t) \/ Supervisor!ForkFails(t)
        PROVE Asked9(s)
    BY <2>3 DEF Supervisor!Start, Supervisor!ForkDaemon, Supervisor!ForkFails,
                Supervisor!TypeOK
  <2>4. CASE sup' = sup
    BY <2>4
  <2>5. QED
    BY <2>1, <2>2, <2>3, <2>4
       DEF Supervisor!Next, Supervisor!Run, Supervisor!Bind, Supervisor!Listen,
           Supervisor!SocketFails, Supervisor!KillDaemon, Supervisor!ForkHandler,
           Supervisor!CloseListen, Supervisor!HandlerEnds
<1>4. QED
  BY <1>1, <1>2, <1>3, PTL DEF Supervisor!Spec, Supervisor!StopsOnlyWhenAsked

-----------------------------------------------------------------------------
(* The handler of the bypass daemon.  What TypeOK leaves open: the domains *)
(* of the local variables, the bound of the loop while it runs, and that   *)
(* every count left behind is that of a handler that was killed.           *)
LoopPCs == {"free", "incTest", "incLoad", "incStore", "incResult", "admit", "read", "try",
            "send", "decTest", "decLoad", "decStore", "exit"}
Shape ==
    /\ bypass_pc \in [OneHandler -> LoopPCs]
    /\ bypass_v \in [OneHandler -> 0 .. ByteMax]
    /\ bypass_r \in [OneHandler -> -1 .. ByteMax]
    /\ fork_cnt \in [OneHandler -> 0 .. ForkWrap - 1]
    /\ bypass_i \in [OneHandler -> 0 .. max_server_cnt + 1]
    /\ comm \in [OneHandler -> BOOLEAN]
    /\ refused \in [OneHandler -> SUBSET Failover!Servers]
    /\ leaked <= kills
    /\ \A h \in OneHandler : bypass_pc[h] = "try" => bypass_i[h] <= max_server_cnt

(* The servers whose turn comes in the first k rounds from f on.           *)
Turns(f, k) == {(f + j) % max_server_cnt : j \in 0 .. k - 1}

(* The loop has found every server out of reach whose turn came.           *)
Loop == \A h \in OneHandler :
    /\ bypass_pc[h] = "try" => refused[h] = Turns(fork_cnt[h], bypass_i[h])
    /\ bypass_pc[h] = "send" /\ ~comm[h] => refused[h] = Turns(fork_cnt[h], max_server_cnt + 1)

LEMMA ShapeStep ==
  ASSUME Failover!TypeOK, Shape, [Failover!Next]_(Failover!vars)
  PROVE Failover!TypeOK' /\ Shape'
<1> DEFINE Goal == Failover!TypeOK' /\ Shape'
<1> USE FailoverAssumption DEF Failover!TypeOK, Shape, LoopPCs
<1>a. /\ 0 \in 0 .. ByteMax /\ 0 \in -1 .. ByteMax /\ -1 \in -1 .. ByteMax
      /\ 0 \in 0 .. ForkWrap - 1 /\ 0 \in 0 .. max_server_cnt + 1
  BY FailoverAssumption
<1>1. CASE UNCHANGED Failover!vars
  BY <1>1 DEF Failover!vars, Failover!handler, Failover!locals, Failover!history
<1>2. ASSUME Failover!Init_Daemon PROVE Goal
  <2>1. why' \subseteq {"start", "race", "reset", "full"}
    BY <1>2 DEF Failover!Init_Daemon, Failover!Reset
  <2>2. QED
    BY <1>2, <1>a, <2>1 DEF Failover!Init_Daemon, Failover!Reset, Failover!handler, Failover!locals
<1>3. ASSUME Failover!Server_Daemon PROVE Goal
  <2>1. why' \subseteq {"start", "race", "reset", "full"}
    BY <1>3 DEF Failover!Server_Daemon, Failover!Reset
  <2>2. QED
    BY <1>3, <1>a, <2>1 DEF Failover!Server_Daemon, Failover!Reset, Failover!handler, Failover!locals
<1>4. ASSUME Failover!KillDaemon PROVE Goal
  BY <1>4 DEF Failover!KillDaemon, Failover!handler, Failover!locals, Failover!history
<1>5. ASSUME Failover!Respawn PROVE Goal
  BY <1>5 DEF Failover!Respawn, Failover!handler, Failover!locals, Failover!history
<1>6. ASSUME Failover!Accept PROVE Goal
  BY <1>6 DEF Failover!Accept, Failover!Goto, Failover!history
<1>7. ASSUME NEW h \in OneHandler, Failover!IncTest(h) PROVE Goal
  <2>1. why' \subseteq {"start", "race", "reset", "full"}
    BY <1>7 DEF Failover!IncTest
  <2>2. QED
    BY <1>7, <1>a, <2>1 DEF Failover!IncTest, Failover!Goto
<1>8. ASSUME NEW h \in OneHandler, Failover!IncLoad(h) PROVE Goal
  BY <1>8 DEF Failover!IncLoad, Failover!Goto, Failover!history
<1>9. ASSUME NEW h \in OneHandler, Failover!IncStore(h) PROVE Goal
  BY <1>9 DEF Failover!IncStore, Failover!Store, Failover!Goto, Failover!locals
<1>10. ASSUME NEW h \in OneHandler, Failover!IncResult(h) PROVE Goal
  BY <1>10 DEF Failover!IncResult, Failover!Goto
<1>11. ASSUME NEW h \in OneHandler, Failover!Admit(h) PROVE Goal
  BY <1>11 DEF Failover!Admit, Failover!Goto, Failover!locals, Failover!history
<1>12. ASSUME NEW h \in OneHandler, Failover!Read(h) PROVE Goal
  BY <1>12 DEF Failover!Read, Failover!Goto, Failover!history
<1>13. ASSUME NEW h \in OneHandler, Failover!Try(h) PROVE Goal
  <2>1. Failover!conn_idx(h) \in Failover!Servers
    BY DEF Failover!conn_idx, Failover!Servers
  <2>2. CASE Failover!conn_idx(h) \in up
    BY <1>13, <2>2 DEF Failover!Try, Failover!Goto, Failover!history
  <2>3. CASE Failover!conn_idx(h) \notin up
    <3>1. bypass_i[h] + 1 \in 0 .. max_server_cnt + 1
      BY <1>13 DEF Failover!Try
    <3>2. refused[h] \cup {Failover!conn_idx(h)} \in SUBSET Failover!Servers
      BY <2>1
    <3>3. QED
      BY <1>13, <2>3, <3>1, <3>2 DEF Failover!Try, Failover!Goto, Failover!history
  <2>4. QED
    BY <2>2, <2>3
<1>14. ASSUME NEW h \in OneHandler, Failover!Send(h) PROVE Goal
  BY <1>14 DEF Failover!Send, Failover!Goto, Failover!locals, Failover!history
<1>15. ASSUME NEW h \in OneHandler, Failover!DecTest(h) PROVE Goal
  BY <1>15 DEF Failover!DecTest, Failover!Goto, Failover!locals, Failover!history
<1>16. ASSUME NEW h \in OneHandler, Failover!DecLoad(h) PROVE Goal
  BY <1>16 DEF Failover!DecLoad, Failover!Goto, Failover!history
<1>17. ASSUME NEW h \in OneHandler, Failover!DecStore(h) PROVE Goal
  BY <1>17 DEF Failover!DecStore, Failover!Store, Failover!Goto, Failover!locals
<1>18. ASSUME NEW h \in OneHandler, Failover!Exit(h) PROVE Goal
  BY <1>18, <1>a DEF Failover!Exit, Failover!Ended, Failover!Goto, Failover!history
<1>19. ASSUME NEW h \in OneHandler, Failover!KillHandler(h) PROVE Goal
  <2>1. kills' \in 0 .. BypassKills /\ leaked' \in 0 .. BypassKills /\ leaked' <= kills'
    BY <1>19 DEF Failover!KillHandler
  <2>2. QED
    BY <1>19, <1>a, <2>1 DEF Failover!KillHandler, Failover!Ended, Failover!Goto
<1>20. ASSUME Failover!ServerChanges PROVE Goal
  BY <1>20
     DEF Failover!ServerChanges, Failover!handler, Failover!locals, Failover!history
<1>21. QED
  BY <1>1, <1>2, <1>3, <1>4, <1>5, <1>6, <1>7, <1>8, <1>9, <1>10,
     <1>11, <1>12, <1>13, <1>14, <1>15, <1>16, <1>17, <1>18, <1>19, <1>20
     DEF Failover!Next, Failover!Run

LEMMA LoopStep ==
  ASSUME Failover!TypeOK, Shape, Loop, [Failover!Next]_(Failover!vars)
  PROVE Loop'
<1> DEFINE Goal == Loop'
<1> USE FailoverAssumption DEF Shape, LoopPCs, Loop
<1>1. CASE UNCHANGED Failover!vars
  BY <1>1 DEF Failover!vars, Failover!handler, Failover!locals, Failover!history
<1>2. ASSUME Failover!Init_Daemon PROVE Goal
  BY <1>2 DEF Failover!Init_Daemon, Failover!Reset, Failover!handler, Failover!locals
<1>3. ASSUME Failover!Server_Daemon PROVE Goal
  BY <1>3 DEF Failover!Server_Daemon, Failover!Reset, Failover!handler, Failover!locals
<1>4. ASSUME Failover!KillDaemon PROVE Goal
  BY <1>4 DEF Failover!KillDaemon, Failover!handler, Failover!locals, Failover!history
<1>5. ASSUME Failover!Respawn PROVE Goal
  BY <1>5 DEF Failover!Respawn, Failover!handler, Failover!locals, Failover!history
<1>6. ASSUME Failover!Accept PROVE Goal
  BY <1>6 DEF Failover!Accept, Failover!Goto, Failover!history
<1>7. ASSUME NEW h \in OneHandler, Failover!IncTest(h) PROVE Goal
  BY <1>7 DEF Failover!IncTest, Failover!Goto
<1>8. ASSUME NEW h \in OneHandler, Failover!IncLoad(h) PROVE Goal
  BY <1>8 DEF Failover!IncLoad, Failover!Goto, Failover!history
<1>9. ASSUME NEW h \in OneHandler, Failover!IncStore(h) PROVE Goal
  BY <1>9 DEF Failover!IncStore, Failover!Store, Failover!Goto, Failover!locals
<1>10. ASSUME NEW h \in OneHandler, Failover!IncResult(h) PROVE Goal
  BY <1>10 DEF Failover!IncResult, Failover!Goto
<1>11. ASSUME NEW h \in OneHandler, Failover!Admit(h) PROVE Goal
  BY <1>11 DEF Failover!Admit, Failover!Goto, Failover!locals, Failover!history
<1>12. ASSUME NEW h \in OneHandler, Failover!Read(h) PROVE Goal
  <2>1. Turns(fork_cnt[h], 0) = {}
    BY DEF Turns
  <2>2. QED
    BY <1>12, <2>1 DEF Failover!Read, Failover!Goto, Failover!history
<1>13. ASSUME NEW h \in OneHandler, Failover!Try(h) PROVE Goal
  <2>1. CASE Failover!conn_idx(h) \in up
    BY <1>13, <2>1 DEF Failover!Try, Failover!Goto, Failover!history
  <2>2. CASE Failover!conn_idx(h) \notin up
    <3>1. refused'[h] = Turns(fork_cnt[h], bypass_i[h]) \cup {Failover!conn_idx(h)}
      BY <1>13, <2>2 DEF Failover!Try
    <3>2. Turns(fork_cnt[h], bypass_i[h]) \cup {Failover!conn_idx(h)}
            = Turns(fork_cnt[h], bypass_i[h] + 1)
      BY DEF Failover!conn_idx, Turns
    <3>3. bypass_i[h] + 1 > max_server_cnt => bypass_i[h] + 1 = max_server_cnt + 1
      BY <1>13 DEF Failover!Try
    <3>4. CASE bypass_i[h] + 1 <= max_server_cnt
      BY <1>13, <2>2, <3>1, <3>2, <3>4 DEF Failover!Try, Failover!Goto, Failover!history
    <3>5. CASE bypass_i[h] + 1 = max_server_cnt + 1
      BY <1>13, <2>2, <3>1, <3>2, <3>5 DEF Failover!Try, Failover!Goto, Failover!history
    <3>6. QED
      BY <1>13, <3>3, <3>4, <3>5 DEF Failover!Try
  <2>3. QED
    BY <2>1, <2>2
<1>14. ASSUME NEW h \in OneHandler, Failover!Send(h) PROVE Goal
  BY <1>14 DEF Failover!Send, Failover!Goto, Failover!locals, Failover!history
<1>15. ASSUME NEW h \in OneHandler, Failover!DecTest(h) PROVE Goal
  BY <1>15 DEF Failover!DecTest, Failover!Goto, Failover!locals, Failover!history
<1>16. ASSUME NEW h \in OneHandler, Failover!DecLoad(h) PROVE Goal
  BY <1>16 DEF Failover!DecLoad, Failover!Goto, Failover!history
<1>17. ASSUME NEW h \in OneHandler, Failover!DecStore(h) PROVE Goal
  BY <1>17 DEF Failover!DecStore, Failover!Store, Failover!Goto, Failover!locals
<1>18. ASSUME NEW h \in OneHandler, Failover!Exit(h) PROVE Goal
  BY <1>18 DEF Failover!Exit, Failover!Ended, Failover!Goto, Failover!history
<1>19. ASSUME NEW h \in OneHandler, Failover!KillHandler(h) PROVE Goal
  BY <1>19 DEF Failover!KillHandler, Failover!Ended, Failover!Goto
<1>20. ASSUME Failover!ServerChanges PROVE Goal
  BY <1>20
     DEF Failover!ServerChanges, Failover!handler, Failover!locals, Failover!history
<1>21. QED
  BY <1>1, <1>2, <1>3, <1>4, <1>5, <1>6, <1>7, <1>8, <1>9, <1>10,
     <1>11, <1>12, <1>13, <1>14, <1>15, <1>16, <1>17, <1>18, <1>19, <1>20
     DEF Failover!Next, Failover!Run

(* In as many rounds as there are servers everyone has its turn.           *)
LEMMA Remainder ==
  ASSUME NEW n \in Nat \ {0}, NEW q \in Int, NEW a \in 0 .. n - 1
  PROVE (n * q + a) % n = a
<1> DEFINE x == n * q + a
<1>1. x \in Int
  OBVIOUS
<1>2. x = n * (x \div n) + (x % n) /\ x % n \in 0 .. n - 1 /\ x \div n \in Int
  BY <1>1
<1> DEFINE d == q - x \div n
<1>3. n * d = (x % n) - a /\ d \in Int
  BY <1>2
<1>4. d < 1
  <2> SUFFICES ASSUME d >= 1 PROVE FALSE
    BY <1>3
  <2>1. n * d >= n
    BY <1>3
  <2>2. QED
    BY <1>2, <1>3, <2>1
<1>5. d > -1
  <2> SUFFICES ASSUME d <= -1 PROVE FALSE
    BY <1>3
  <2>1. n * d <= -n
    BY <1>3
  <2>2. QED
    BY <1>2, <1>3, <2>1
<1>6. d = 0
  BY <1>3, <1>4, <1>5
<1>7. QED
  BY <1>2, <1>3, <1>6

LEMMA AllTurns ==
  ASSUME NEW f \in Nat PROVE Turns(f, max_server_cnt + 1) = Failover!Servers
<1> USE FailoverAssumption
<1> DEFINE n == max_server_cnt
           q == f \div n
           t == f % n
<1>1. f = n * q + t /\ t \in 0 .. n - 1 /\ q \in Int
  OBVIOUS
<1>2. ASSUME NEW s \in 0 .. n - 1 PROVE s \in Turns(f, n + 1)
  <2>1. CASE t <= s
    <3>1. f + (s - t) = n * q + s /\ s - t \in 0 .. (n + 1) - 1
      BY <1>1, <2>1
    <3>2. (f + (s - t)) % n = s
      BY <1>1, <3>1, Remainder
    <3>3. QED
      BY <3>1, <3>2 DEF Turns
  <2>2. CASE s < t
    <3>1. f + (s - t + n) = n * (q + 1) + s /\ s - t + n \in 0 .. (n + 1) - 1
      BY <1>1, <2>2
    <3>2. (f + (s - t + n)) % n = s
      <4>1. q + 1 \in Int
        BY <1>1
      <4>2. QED
        BY <3>1, <4>1, Remainder
    <3>3. QED
      BY <3>1, <3>2 DEF Turns
  <2>3. QED
    BY <1>1, <2>1, <2>2
<1>3. ASSUME NEW s \in Turns(f, n + 1) PROVE s \in 0 .. n - 1
  BY DEF Turns
<1>4. QED
  BY <1>2, <1>3 DEF Failover!Servers

(* svr_main.c 41-50: a handler gives up only after every server was out of *)
(* reach when its turn came, for every list of servers.                    *)
THEOREM EveryServerTriedAlways == Failover!Spec => []EveryServerTried
<1> DEFINE Inv == Failover!TypeOK /\ Shape /\ Loop
<1>1. Failover!Init => Inv
  <2> SUFFICES ASSUME Failover!Init PROVE Inv
    OBVIOUS
  <2>1. /\ 0 \in 0 .. ByteMax /\ 0 \in -1 .. ByteMax /\ 0 \in 0 .. ForkWrap - 1
        /\ 0 \in 0 .. max_server_cnt + 1 /\ 0 \in 0 .. BypassKills
    BY FailoverAssumption
  <2>2. Failover!TypeOK
    BY <2>1 DEF Failover!Init, Failover!TypeOK
  <2>3. Shape
    BY <2>1 DEF Failover!Init, Shape, LoopPCs
  <2>4. Loop
    BY DEF Failover!Init, Loop
  <2>5. QED
    BY <2>2, <2>3, <2>4
<1>2. Inv /\ [Failover!Next]_(Failover!vars) => Inv'
  BY ShapeStep, LoopStep
<1>3. Inv => EveryServerTried
  <2> SUFFICES ASSUME Inv, NEW h \in OneHandler, bypass_pc[h] = "send", ~comm[h]
               PROVE refused[h] = Failover!Servers
    BY DEF EveryServerTried, Failover!EveryServerTried
  <2>1. fork_cnt[h] \in Nat
    BY FailoverAssumption DEF Shape
  <2>2. QED
    BY <2>1, AllTurns DEF Loop
<1>4. QED
  BY <1>1, <1>2, <1>3, PTL DEF Failover!Spec

=============================================================================
