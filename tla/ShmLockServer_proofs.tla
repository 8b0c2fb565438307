------------------------ MODULE ShmLockServer_proofs ------------------------
(***************************************************************************)
(* Proofs about the shared-memory lock server, for every set of clients,   *)
(* connections and keys: what its semaphores protect, what the gap between *)
(* reading the byte and setting it can break, what the file says, and what *)
(* the kernel's undo counts add up to.                                     *)
(***************************************************************************)
EXTENDS ShmLockServer, TLAPS, FiniteSetTheorems, WellFoundedInduction

Testing == {"glock", "gread", "gunlock", "decide"}
Setting == {"slock", "swrite", "sunlock", "file"}
Working == Testing \cup Setting

(* What is needed of the types.                                            *)
TypeHandler ==
    /\ pc \in [Conns -> PCs]
    /\ req \in [Conns -> Requests \cup {NoRequest}]
    /\ isShared \in [Conns -> {0, 1}]
    /\ res \in [Conns -> Answers]
    /\ semadj \in [Conns -> Int]

TypeShared ==
    /\ shm \in [shm_key -> {NUL, Zero, One}]
    /\ status \in [shm_key -> {0, 1}]
    /\ has \in [Clients -> SUBSET shm_key]

TypeSem == sem \in [sem_key -> Nat]

(* What a handler at work knows.                                           *)
Local == \A h \in Conns :
    /\ pc[h] \in Working => req[h] \in Requests
    /\ pc[h] \in Testing => req[h].flag = "1"
    /\ pc[h] \in Setting => req[h].flag \in {"0", "1"}
    /\ pc[h] \in {"slock", "swrite"} /\ req[h].flag = "1" => isShared[h] = 0
    /\ pc[h] = "reply" /\ res[h] = "ok" => req[h] \in Requests

(* As long as no sem_lock was interrupted, a semaphore is 0 while a        *)
(* handler is inside and the kernel owes it what that handler took.        *)
Kernel == ~interrupted =>
    /\ \A s \in sem_key : sem[s] \in {0, 1}
    /\ \A h \in Conns : semadj[h] = IF Inside(h) THEN 1 ELSE 0
    /\ \A h \in Conns : Inside(h) => sem[S(h)] = 0
    /\ \A g, h \in Conns : Inside(g) /\ Inside(h) /\ S(g) = S(h) => g = h

(* The lock of the byte is with h: it was set and its client not told yet, *)
(* or its client has given it up and the byte is not cleared yet.          *)
Carries(h) ==
    \/ req[h].flag = "1" /\ pc[h] \in {"sunlock", "file"}
    \/ req[h].flag = "1" /\ pc[h] = "reply" /\ res[h] = "ok"
    \/ req[h].flag = "0" /\ pc[h] \in {"slock", "swrite"}

(* A lock that was never granted on an old value is with one of them.      *)
Held == \A c, d \in Clients : \A m \in shm_key \ stale :
    m \in has[c] => Locked(m) /\ (m \in has[d] => c = d)

Carried == \A h \in Conns : Carries(h) /\ M(h) \notin stale =>
    /\ Locked(M(h))
    /\ \A c \in Clients : M(h) \notin has[c]
    /\ \A g \in Conns : Carries(g) /\ M(g) = M(h) => g = h

(* One handler at a time is at work as long as nothing is disturbed, and   *)
(* the file lags behind the byte only between the two writes.              *)
Quiet == ~disturbed =>
    /\ \A g, h \in Conns : pc[g] \in Working /\ pc[h] \in Working => g = h
    /\ \A h \in Conns : pc[h] \in {"sunlock", "file"} =>
           (Locked(M(h)) <=> req[h].flag = "1")
    /\ \A m \in shm_key :
           \/ status[m] = 1 <=> Locked(m)
           \/ \E h \in Conns : pc[h] \in {"sunlock", "file"} /\ M(h) = m

IInv ==
    /\ TypeHandler /\ TypeShared /\ TypeSem
    /\ Local /\ Kernel /\ Held /\ Carried /\ Quiet

-----------------------------------------------------------------------------
(* What a request consists of; it is not the empty one.                    *)
LEMMA RequestFields ==
    ASSUME NEW r \in Requests
    PROVE  r.client \in Clients /\ r.sem \in sem_key /\ r.shm \in shm_key /\ r # NoRequest
BY KeyAssumption DEF Requests, NoRequest, Capitals

(* The keys of a handler at work.                                          *)
LEMMA WorkingRequest ==
    ASSUME IInv, NEW h \in Conns, pc[h] \in Working
    PROVE  S(h) \in sem_key /\ M(h) \in shm_key /\ req[h] # NoRequest
BY RequestFields DEF IInv, Local, S, M

(* Likewise for one that carries a lock.                                   *)
LEMMA CarrierRequest ==
    ASSUME IInv, NEW h \in Conns, Carries(h)
    PROVE  M(h) \in shm_key /\ req[h].client \in Clients
BY RequestFields DEF IInv, Local, M, Carries, Working, Setting

(* What the kernel makes of a value when a process ends.                   *)
LEMMA MaxWithZero ==
    ASSUME NEW x \in Int
    PROVE  Max({0, x}) = IF x >= 0 THEN x ELSE 0
<1> DEFINE y == IF x >= 0 THEN x ELSE 0
<1>1. y \in {0, x} /\ \A z \in {0, x} : y >= z
  OBVIOUS
<1>2. \A w \in {0, x} : (\A z \in {0, x} : w >= z) => w = y
  OBVIOUS
<1>3. QED
  BY <1>1, <1>2 DEF Max

(* The end of a handler: only its own semaphore changes, by what it owes.  *)
LEMMA ExitSem ==
    ASSUME IInv, NEW h \in Conns, Exit(h)
    PROVE  /\ TypeSem'
           /\ \A s \in sem_key :
                  \/ sem'[s] = sem[s]
                  \/ s = S(h) /\ req[h] \in Requests /\ sem[s] + semadj[h] >= 0
                              /\ sem'[s] = sem[s] + semadj[h]
                  \/ s = S(h) /\ req[h] \in Requests /\ sem[s] + semadj[h] < 0
                              /\ sem'[s] = 0
           /\ req[h] \in Requests /\ semadj[h] = 1 => sem'[S(h)] = sem[S(h)] + 1
<1>1. CASE req[h] = NoRequest
  BY <1>1, RequestFields DEF Exit, IInv, TypeSem
<1>2. CASE req[h] # NoRequest
  <2>1. req[h] \in Requests /\ S(h) \in sem_key
    BY <1>2, RequestFields DEF IInv, TypeHandler, S
  <2> DEFINE x == sem[S(h)] + semadj[h]
  <2>2. sem[S(h)] \in Nat /\ semadj[h] \in Int /\ x \in Int
    BY <2>1 DEF IInv, TypeSem, TypeHandler
  <2>3. sem' = [sem EXCEPT ![S(h)] = Max({0, x})]
    BY <1>2 DEF Exit
  <2>4. Max({0, x}) = IF x >= 0 THEN x ELSE 0
    BY <2>2, MaxWithZero
  <2>5. Max({0, x}) \in Nat
    BY <2>2, <2>4
  <2>6. TypeSem'
    BY <2>3, <2>5 DEF IInv, TypeSem
  <2>7. \A s \in sem_key : sem'[s] = IF s = S(h) THEN Max({0, x}) ELSE sem[s]
    BY <2>3 DEF IInv, TypeSem
  <2>8. x = sem[S(h)] + semadj[h]
    OBVIOUS
  <2> HIDE DEF x
  <2>9. \A s \in sem_key \ {S(h)} : sem'[s] = sem[s]
    BY <2>7
  <2>10. sem'[S(h)] = IF x >= 0 THEN x ELSE 0
    BY <2>1, <2>4, <2>7
  <2>11. semadj[h] = 1 => x = sem[S(h)] + 1 /\ x >= 0
    BY <2>2, <2>8
  <2>12. x >= 0 \/ x < 0
    BY <2>2
  <2>13. QED
    BY <2>1, <2>6, <2>8, <2>9, <2>10, <2>11, <2>12
<1>3. QED
  BY <1>1, <1>2

(* What a semop and the end of a process make of what the kernel owes.     *)
LEMMA Owed ==
    ASSUME NEW f \in [Conns -> Int], NEW h \in Conns
    PROVE  /\ [f EXCEPT ![h] = @ + 1] \in [Conns -> Int]
           /\ [f EXCEPT ![h] = @ - 1] \in [Conns -> Int]
           /\ [f EXCEPT ![h] = 0] \in [Conns -> Int]
<1>1. f[h] + 1 \in Int /\ f[h] - 1 \in Int
  OBVIOUS
<1>2. QED
  BY <1>1

(* Nothing is owed when the server starts.                                 *)
LEMMA NoneOwed == [h \in Conns |-> 0] \in [Conns -> Int]
OBVIOUS

(* The end of a handler leaves well-typed locals behind.                   *)
LEMMA ExitTyped ==
    ASSUME TypeHandler, NEW h \in Conns, Exit(h)
    PROVE  TypeHandler'
<1> USE DEF TypeHandler, Exit, Goto, Answer
<1>1. pc' \in [Conns -> PCs]
  BY DEF PCs
<1>2. req' \in [Conns -> Requests \cup {NoRequest}]
  OBVIOUS
<1>3. isShared' \in [Conns -> {0, 1}]
  OBVIOUS
<1>4. res' \in [Conns -> Answers]
  BY DEF Answers
<1>5. semadj' \in [Conns -> Int]
  <2>1. semadj \in [Conns -> Int] /\ semadj' = [semadj EXCEPT ![h] = 0]
    OBVIOUS
  <2> HIDE DEF TypeHandler, Exit, Goto, Answer
  <2>2. QED
    BY <2>1, Owed
<1>6. QED
  BY <1>1, <1>2, <1>3, <1>4, <1>5

(* What a request does once its names have been turned into keys.          *)
Asks(h, c, r, f) ==
    /\ pc[h] = "read"
    /\ r.client = c /\ r.flag \in {f, "?"}
    /\ ClientSends(c, r.shm, f)
    /\ req' = [req EXCEPT ![h] = r]
    /\ pc' = [pc EXCEPT ![h] = CASE r.flag = "1" -> "glock" [] r.flag = "0" -> "slock"
                                  [] OTHER -> "reply"]
    /\ res' = [res EXCEPT ![h] = IF r.flag = "?" THEN "bad" ELSE ""]
    /\ disturbed' = (disturbed \/ \E g \in Conns \ {h} : Busy(g))
    /\ UNCHANGED <<sem, shm, status, semadj, isShared, stale, interrupted, clamped>>

(* An unlock takes one segment from what its client has, nothing else does. *)
LEMMA SendsLess ==
    ASSUME TypeShared, NEW c \in Clients, NEW m, NEW f, ClientSends(c, m, f)
    PROVE  /\ has' \in [Clients -> SUBSET shm_key]
           /\ \A d \in Clients : has'[d] \subseteq has[d]
<1>1. CASE has' = has
  BY <1>1 DEF TypeShared
<1>2. CASE has' = [has EXCEPT ![c] = @ \ {m}]
  <2>1. \A d \in Clients : has'[d] = IF d = c THEN has[d] \ {m} ELSE has[d]
    BY <1>2 DEF TypeShared
  <2>2. has[c] \in SUBSET shm_key
    BY DEF TypeShared
  <2>3. has[c] \ {m} \in SUBSET shm_key
    BY <2>2
  <2>4. has' \in [Clients -> SUBSET shm_key]
    BY <1>2, <2>3 DEF TypeShared
  <2>5. QED
    BY <2>1, <2>4
<1>3. QED
  BY <1>1, <1>2 DEF ClientSends

(* A request names known keys.                                             *)
LEMMA RequestAsks ==
    ASSUME NEW h \in Conns, NEW c \in Clients, NEW sn, NEW mn, NEW f \in Flags,
           Request(h, c, sn, mn, f)
    PROVE  \E r \in Requests : Asks(h, c, r, f)
<1>1. PICK s \in sem_key, m \in shm_key, read \in {f, "?"} :
         /\ ClientSends(c, m, f)
         /\ req' = [req EXCEPT ![h] = [client |-> c, sem |-> s, shm |-> m, flag |-> read]]
         /\ Goto(h, CASE read = "1" -> "glock" [] read = "0" -> "slock"
                      [] OTHER -> "reply")
         /\ Answer(h, IF read = "?" THEN "bad" ELSE "")
  BY DEF Request
<1> DEFINE r == [client |-> c, sem |-> s, shm |-> m, flag |-> read]
<1>2. r \in Requests
  BY DEF Requests, Flags
<1>3. r.client = c /\ r.shm = m /\ r.flag = read
  OBVIOUS
<1>4. req' = [req EXCEPT ![h] = r]
  BY <1>1
<1> HIDE DEF r
<1>5. Asks(h, c, r, f)
  BY <1>1, <1>3, <1>4 DEF Request, Asks, Goto, Answer, ipc
<1>6. QED
  BY <1>2, <1>5

-----------------------------------------------------------------------------
(* The types of what a handler knows.                                      *)
LEMMA TypeHandlerStep ==
    ASSUME IInv, [Next]_vars
    PROVE  TypeHandler'
<1> USE DEF IInv, TypeHandler, PCs, Answers
<1>1. ASSUME NEW h \in Conns, Accept(h) PROVE TypeHandler'
  BY <1>1 DEF Accept, Goto, Answer, ipc, ghost
<1>2. ASSUME NEW h \in Conns, ReadFails(h) PROVE TypeHandler'
  BY <1>2 DEF ReadFails, Goto, Answer, ipc, ghost
<1>3. ASSUME NEW h \in Conns, NEW sn \in SemNames, NEW mn \in ShmNames, UnknownKey(h, sn, mn) PROVE TypeHandler'
  BY <1>3 DEF UnknownKey, Goto, Answer, ipc, ghost
<1>4. ASSUME NEW h \in Conns, NEW c \in Clients, NEW sn \in SemNames, NEW mn \in ShmNames, NEW f \in Flags, Request(h, c, sn, mn, f) PROVE TypeHandler'
  <2>1. PICK r \in Requests : Asks(h, c, r, f)
    BY <1>4, RequestAsks
  <2>2. r.flag = "1" \/ r.flag = "0" \/ r.flag = "?"
    BY DEF Requests, Flags
  <2>3. pc' \in [Conns -> PCs]
    BY <2>1, <2>2 DEF Asks, PCs
  <2>4. req' \in [Conns -> Requests \cup {NoRequest}]
    BY <2>1 DEF Asks
  <2>5. res' \in [Conns -> Answers]
    BY <2>1 DEF Asks, Answers
  <2>6. QED
    BY <2>1, <2>3, <2>4, <2>5 DEF Asks
<1>5. ASSUME NEW h \in Conns, sem_lock(h) PROVE TypeHandler'
  <2>1. semadj' \in [Conns -> Int]
    <3>1. semadj \in [Conns -> Int]
      OBVIOUS
    <3>2. semadj' = [semadj EXCEPT ![h] = @ + 1]
      BY <1>5 DEF sem_lock
    <3> HIDE DEF IInv, TypeHandler
    <3>3. QED
      BY <3>1, <3>2, Owed
  <2>2. pc' \in [Conns -> PCs]
    BY <1>5 DEF sem_lock, Goto
  <2>3. QED
    BY <1>5, <2>1, <2>2 DEF sem_lock
<1>6. ASSUME NEW h \in Conns, sem_lockInterrupted(h) PROVE TypeHandler'
  BY <1>6, WorkingRequest DEF sem_lockInterrupted, Goto, Answer, ipc, ghost
<1>7. ASSUME NEW h \in Conns, sem_unlock(h) PROVE TypeHandler'
  <2>1. semadj' \in [Conns -> Int]
    <3>1. semadj \in [Conns -> Int]
      OBVIOUS
    <3>2. semadj' = [semadj EXCEPT ![h] = @ - 1]
      BY <1>7 DEF sem_unlock
    <3> HIDE DEF IInv, TypeHandler
    <3>3. QED
      BY <3>1, <3>2, Owed
  <2>2. pc' \in [Conns -> PCs]
    BY <1>7 DEF sem_unlock, Goto
  <2>3. QED
    BY <1>7, <2>1, <2>2 DEF sem_unlock
<1>8. ASSUME NEW h \in Conns, getShmSegData(h) PROVE TypeHandler'
  BY <1>8, WorkingRequest DEF getShmSegData, Goto, Answer, ipc, ghost
<1>9. ASSUME NEW h \in Conns, LockIfFree(h) PROVE TypeHandler'
  BY <1>9, WorkingRequest DEF LockIfFree, Goto, Answer, ipc, ghost
<1>10. ASSUME NEW h \in Conns, setShmSegData(h) PROVE TypeHandler'
  BY <1>10, WorkingRequest DEF setShmSegData, Goto, Answer, ipc, ghost
<1>11. ASSUME NEW h \in Conns, writeInitFile(h) PROVE TypeHandler'
  BY <1>11, WorkingRequest DEF writeInitFile, Goto, Answer, ipc, ghost
<1>12. ASSUME NEW h \in Conns, Reply(h) PROVE TypeHandler'
  BY <1>12, ExitTyped DEF Reply
<1>13. ASSUME NEW h \in Conns, Die(h) PROVE TypeHandler'
  BY <1>13, ExitTyped DEF Die
<1>14. ASSUME Restart PROVE TypeHandler'
  <2>1. pc' \in [Conns -> PCs]
    BY <1>14 DEF Restart
  <2>0. semadj' = [g \in Conns |-> 0]
    BY <1>14 DEF Restart
  <2>5. semadj' \in [Conns -> Int]
    <3> HIDE DEF IInv, TypeHandler
    <3>1. QED
      BY <2>0, NoneOwed
  <2>2. req' \in [Conns -> Requests \cup {NoRequest}]
    BY <1>14 DEF Restart
  <2>3. isShared' \in [Conns -> {0, 1}] /\ res' \in [Conns -> Answers]
    BY <1>14 DEF Restart
  <2>4. QED
    BY <2>1, <2>2, <2>3, <2>5
<1>15. CASE UNCHANGED vars
  BY <1>15 DEF vars
<1>16. QED
  BY <1>1, <1>2, <1>3, <1>4, <1>5, <1>6, <1>7, <1>8, <1>9, <1>10,
     <1>11, <1>12, <1>13, <1>14, <1>15 DEF Next, Step

(* The types of the segments, the file and the clients' keys.              *)
LEMMA TypeSharedStep ==
    ASSUME IInv, [Next]_vars
    PROVE  TypeShared'
<1> USE DEF IInv, TypeHandler, TypeShared, Local, Working, Testing, Setting, S, M
<1>1. ASSUME NEW h \in Conns, Accept(h) PROVE TypeShared'
  BY <1>1 DEF Accept, Goto, Answer, ipc, ghost
<1>2. ASSUME NEW h \in Conns, ReadFails(h) PROVE TypeShared'
  BY <1>2 DEF ReadFails, Goto, Answer, ipc, ghost
<1>3. ASSUME NEW h \in Conns, NEW sn \in SemNames, NEW mn \in ShmNames, UnknownKey(h, sn, mn) PROVE TypeShared'
  BY <1>3 DEF UnknownKey, Goto, Answer, ipc, ghost
<1>4. ASSUME NEW h \in Conns, NEW c \in Clients, NEW sn \in SemNames, NEW mn \in ShmNames, NEW f \in Flags, Request(h, c, sn, mn, f) PROVE TypeShared'
  <2>1. PICK r \in Requests : Asks(h, c, r, f)
    BY <1>4, RequestAsks
  <2>2. QED
    BY <2>1, SendsLess DEF Asks
<1>5. ASSUME NEW h \in Conns, sem_lock(h) PROVE TypeShared'
  BY <1>5, WorkingRequest DEF sem_lock, Goto, Answer, ipc, ghost
<1>6. ASSUME NEW h \in Conns, sem_lockInterrupted(h) PROVE TypeShared'
  BY <1>6, WorkingRequest DEF sem_lockInterrupted, Goto, Answer, ipc, ghost
<1>7. ASSUME NEW h \in Conns, sem_unlock(h) PROVE TypeShared'
  BY <1>7, WorkingRequest DEF sem_unlock, Goto, Answer, ipc, ghost
<1>8. ASSUME NEW h \in Conns, getShmSegData(h) PROVE TypeShared'
  BY <1>8, WorkingRequest DEF getShmSegData, Goto, Answer, ipc, ghost
<1>9. ASSUME NEW h \in Conns, LockIfFree(h) PROVE TypeShared'
  BY <1>9, WorkingRequest DEF LockIfFree, Goto, Answer, ipc, ghost
<1>10. ASSUME NEW h \in Conns, setShmSegData(h) PROVE TypeShared'
  BY <1>10, WorkingRequest DEF setShmSegData, Goto, Answer, ipc, ghost
<1>11. ASSUME NEW h \in Conns, writeInitFile(h) PROVE TypeShared'
  BY <1>11, WorkingRequest DEF writeInitFile, Goto, Answer, ipc, ghost
<1>12. ASSUME NEW h \in Conns, Reply(h) PROVE TypeShared'
  <2>1. has' \in [Clients -> SUBSET shm_key]
    <3>1. CASE UNCHANGED has
      BY <3>1
    <3>2. CASE res[h] = "ok" /\ has' = [has EXCEPT ![req[h].client] = @ \cup {M(h)}]
      <4>1. req[h] \in Requests
        BY <1>12, <3>2 DEF Reply
      <4>2. M(h) \in shm_key /\ req[h].client \in Clients
        BY <4>1, RequestFields
      <4>3. QED
        BY <3>2, <4>2
    <3>3. QED
      BY <1>12, <3>1, <3>2 DEF Reply
  <2>2. QED
    BY <1>12, <2>1 DEF Reply, Exit
<1>13. ASSUME NEW h \in Conns, Die(h) PROVE TypeShared'
  BY <1>13 DEF Die, Exit, Goto, Answer, ipc, ghost
<1>14. ASSUME Restart PROVE TypeShared'
  BY <1>14 DEF Restart, Goto, Answer, ipc, ghost
<1>15. CASE UNCHANGED vars
  BY <1>15 DEF vars
<1>16. QED
  BY <1>1, <1>2, <1>3, <1>4, <1>5, <1>6, <1>7, <1>8, <1>9, <1>10,
     <1>11, <1>12, <1>13, <1>14, <1>15 DEF Next, Step

(* No semaphore is negative.                                               *)
LEMMA TypeSemStep ==
    ASSUME IInv, [Next]_vars
    PROVE  TypeSem'
<1> USE DEF IInv, TypeSem
<1>1. ASSUME NEW h \in Conns, Accept(h) PROVE TypeSem'
  BY <1>1 DEF Accept, Goto, Answer, ipc, ghost
<1>2. ASSUME NEW h \in Conns, ReadFails(h) PROVE TypeSem'
  BY <1>2 DEF ReadFails, Goto, Answer, ipc, ghost
<1>3. ASSUME NEW h \in Conns, NEW sn \in SemNames, NEW mn \in ShmNames, UnknownKey(h, sn, mn) PROVE TypeSem'
  BY <1>3 DEF UnknownKey, Goto, Answer, ipc, ghost
<1>4. ASSUME NEW h \in Conns, NEW c \in Clients, NEW sn \in SemNames, NEW mn \in ShmNames, NEW f \in Flags, Request(h, c, sn, mn, f) PROVE TypeSem'
  <2>1. PICK r \in Requests : Asks(h, c, r, f)
    BY <1>4, RequestAsks
  <2>2. QED
    BY <2>1, RequestFields DEF Asks, Flags
<1>5. ASSUME NEW h \in Conns, sem_lock(h) PROVE TypeSem'
  <2>1. S(h) \in sem_key
    BY <1>5, WorkingRequest DEF sem_lock, Working, Testing, Setting
  <2>2. sem[S(h)] \in Nat /\ sem[S(h)] > 0
    BY <1>5, <2>1 DEF sem_lock
  <2>3. sem[S(h)] - 1 \in Nat
    BY <2>2
  <2>4. QED
    BY <1>5, <2>3 DEF sem_lock
<1>6. ASSUME NEW h \in Conns, sem_lockInterrupted(h) PROVE TypeSem'
  BY <1>6, WorkingRequest DEF sem_lockInterrupted, Goto, Answer, ipc, ghost
<1>7. ASSUME NEW h \in Conns, sem_unlock(h) PROVE TypeSem'
  <2>1. S(h) \in sem_key
    BY <1>7, WorkingRequest DEF sem_unlock, Working, Testing, Setting
  <2>2. sem[S(h)] + 1 \in Nat
    BY <2>1
  <2>3. QED
    BY <1>7, <2>2 DEF sem_unlock
<1>8. ASSUME NEW h \in Conns, getShmSegData(h) PROVE TypeSem'
  BY <1>8, WorkingRequest DEF getShmSegData, Goto, Answer, ipc, ghost
<1>9. ASSUME NEW h \in Conns, LockIfFree(h) PROVE TypeSem'
  BY <1>9, WorkingRequest DEF LockIfFree, Goto, Answer, ipc, ghost
<1>10. ASSUME NEW h \in Conns, setShmSegData(h) PROVE TypeSem'
  BY <1>10, WorkingRequest DEF setShmSegData, Goto, Answer, ipc, ghost
<1>11. ASSUME NEW h \in Conns, writeInitFile(h) PROVE TypeSem'
  BY <1>11, WorkingRequest DEF writeInitFile, Goto, Answer, ipc, ghost
<1>12. ASSUME NEW h \in Conns, Reply(h) PROVE TypeSem'
  BY <1>12, ExitSem DEF Reply
<1>13. ASSUME NEW h \in Conns, Die(h) PROVE TypeSem'
  BY <1>13, ExitSem DEF Die
<1>14. ASSUME Restart PROVE TypeSem'
  BY <1>14 DEF Restart, Goto, Answer, ipc, ghost
<1>15. CASE UNCHANGED vars
  BY <1>15 DEF vars
<1>16. QED
  BY <1>1, <1>2, <1>3, <1>4, <1>5, <1>6, <1>7, <1>8, <1>9, <1>10,
     <1>11, <1>12, <1>13, <1>14, <1>15 DEF Next, Step

(* A handler goes where its request leads.                                 *)
LEMMA LocalStep ==
    ASSUME IInv, [Next]_vars
    PROVE  Local'
<1> USE DEF IInv, TypeHandler, Local, Working, Testing, Setting, PCs, Requests, NoRequest
<1>1. ASSUME NEW h \in Conns, Accept(h) PROVE Local'
  BY <1>1 DEF Accept, Goto, Answer, ipc, ghost
<1>2. ASSUME NEW h \in Conns, ReadFails(h) PROVE Local'
  BY <1>2 DEF ReadFails, Goto, Answer, ipc, ghost
<1>3. ASSUME NEW h \in Conns, NEW sn \in SemNames, NEW mn \in ShmNames, UnknownKey(h, sn, mn) PROVE Local'
  BY <1>3 DEF UnknownKey, Goto, Answer, ipc, ghost
<1>4. ASSUME NEW h \in Conns, NEW c \in Clients, NEW sn \in SemNames, NEW mn \in ShmNames, NEW f \in Flags, Request(h, c, sn, mn, f) PROVE Local'
  <2>1. PICK r \in Requests : Asks(h, c, r, f)
    BY <1>4, RequestAsks
  <2>2. r.flag = "1" \/ r.flag = "0" \/ r.flag = "?"
    BY DEF Requests, Flags
  <2>3. \A g \in Conns \ {h} : pc'[g] = pc[g] /\ req'[g] = req[g] /\ res'[g] = res[g]
    BY <2>1 DEF Asks
  <2>4. /\ req'[h] = r
        /\ pc'[h] = CASE r.flag = "1" -> "glock" [] r.flag = "0" -> "slock" [] OTHER -> "reply"
        /\ isShared' = isShared
    BY <2>1 DEF Asks
  <2>5. r.flag = "0" => pc'[h] = "slock"
    BY <2>4
  <2>6. r.flag = "1" => pc'[h] = "glock"
    BY <2>4
  <2>7. r.flag = "?" => pc'[h] = "reply"
    BY <2>4
  <2> HIDE DEF Requests
  <2>8. QED
    BY <2>2, <2>3, <2>4, <2>5, <2>6, <2>7
<1>5. ASSUME NEW h \in Conns, sem_lock(h) PROVE Local'
  BY <1>5, WorkingRequest DEF sem_lock, Goto, Answer, ipc, ghost
<1>6. ASSUME NEW h \in Conns, sem_lockInterrupted(h) PROVE Local'
  BY <1>6, WorkingRequest DEF sem_lockInterrupted, Goto, Answer, ipc, ghost
<1>7. ASSUME NEW h \in Conns, sem_unlock(h) PROVE Local'
  BY <1>7, WorkingRequest DEF sem_unlock, Goto, Answer, ipc, ghost
<1>8. ASSUME NEW h \in Conns, getShmSegData(h) PROVE Local'
  BY <1>8, WorkingRequest DEF getShmSegData, Goto, Answer, ipc, ghost
<1>9. ASSUME NEW h \in Conns, LockIfFree(h) PROVE Local'
  BY <1>9, WorkingRequest DEF LockIfFree, Goto, Answer, ipc, ghost
<1>10. ASSUME NEW h \in Conns, setShmSegData(h) PROVE Local'
  BY <1>10, WorkingRequest DEF setShmSegData, Goto, Answer, ipc, ghost
<1>11. ASSUME NEW h \in Conns, writeInitFile(h) PROVE Local'
  BY <1>11, WorkingRequest DEF writeInitFile, Goto, Answer, ipc, ghost
<1>12. ASSUME NEW h \in Conns, Reply(h) PROVE Local'
  BY <1>12 DEF Reply, Exit, Goto, Answer, ipc, ghost
<1>13. ASSUME NEW h \in Conns, Die(h) PROVE Local'
  BY <1>13 DEF Die, Exit, Goto, Answer, ipc, ghost
<1>14. ASSUME Restart PROVE Local'
  BY <1>14 DEF Restart, Goto, Answer, ipc, ghost
<1>15. CASE UNCHANGED vars
  BY <1>15 DEF vars
<1>16. QED
  BY <1>1, <1>2, <1>3, <1>4, <1>5, <1>6, <1>7, <1>8, <1>9, <1>10,
     <1>11, <1>12, <1>13, <1>14, <1>15 DEF Next, Step

(* A semaphore that is waited for is taken by one.                         *)
LEMMA KernelStep ==
    ASSUME IInv, [Next]_vars
    PROVE  Kernel'
<1> USE DEF IInv, TypeHandler, TypeSem, Local, Kernel, Inside, Working, Testing, Setting, S
<1>1. ASSUME NEW h \in Conns, Accept(h) PROVE Kernel'
  BY <1>1 DEF Accept, Goto, Answer, ipc, ghost
<1>2. ASSUME NEW h \in Conns, ReadFails(h) PROVE Kernel'
  BY <1>2 DEF ReadFails, Goto, Answer, ipc, ghost
<1>3. ASSUME NEW h \in Conns, NEW sn \in SemNames, NEW mn \in ShmNames, UnknownKey(h, sn, mn) PROVE Kernel'
  BY <1>3 DEF UnknownKey, Goto, Answer, ipc, ghost
<1>4. ASSUME NEW h \in Conns, NEW c \in Clients, NEW sn \in SemNames, NEW mn \in ShmNames, NEW f \in Flags, Request(h, c, sn, mn, f) PROVE Kernel'
  <2>1. PICK r \in Requests : Asks(h, c, r, f)
    BY <1>4, RequestAsks
  <2>2. \A g \in Conns \ {h} : pc'[g] = pc[g] /\ req'[g] = req[g]
    BY <2>1 DEF Asks
  <2>3. ~Inside(h) /\ ~Inside(h)'
    BY <2>1 DEF Asks
  <2>4. UNCHANGED <<sem, semadj, interrupted>>
    BY <2>1 DEF Asks
  <2>5. \A g \in Conns : Inside(g)' => Inside(g) /\ S(g)' = S(g)
    BY <2>2, <2>3
  <2>6. \A g \in Conns : Inside(g)' <=> Inside(g)
    BY <2>2, <2>3
  <2> QED
    BY <2>4, <2>5, <2>6 DEF Kernel
<1>5. ASSUME NEW h \in Conns, sem_lock(h) PROVE Kernel'
  BY <1>5, WorkingRequest DEF sem_lock, Goto, Answer, ipc, ghost
<1>6. ASSUME NEW h \in Conns, sem_lockInterrupted(h) PROVE Kernel'
  BY <1>6, WorkingRequest DEF sem_lockInterrupted, Goto, Answer, ipc, ghost
<1>7. ASSUME NEW h \in Conns, sem_unlock(h) PROVE Kernel'
  BY <1>7, WorkingRequest DEF sem_unlock, Goto, Answer, ipc, ghost
<1>8. ASSUME NEW h \in Conns, getShmSegData(h) PROVE Kernel'
  BY <1>8, WorkingRequest DEF getShmSegData, Goto, Answer, ipc, ghost
<1>9. ASSUME NEW h \in Conns, LockIfFree(h) PROVE Kernel'
  BY <1>9, WorkingRequest DEF LockIfFree, Goto, Answer, ipc, ghost
<1>10. ASSUME NEW h \in Conns, setShmSegData(h) PROVE Kernel'
  BY <1>10, WorkingRequest DEF setShmSegData, Goto, Answer, ipc, ghost
<1>11. ASSUME NEW h \in Conns, writeInitFile(h) PROVE Kernel'
  BY <1>11, WorkingRequest DEF writeInitFile, Goto, Answer, ipc, ghost
<1>12. ASSUME NEW h \in Conns, Reply(h) PROVE Kernel'
  <2> SUFFICES ASSUME ~interrupted PROVE Kernel'
    BY <1>12 DEF Reply, Kernel
  <2>0. Exit(h) /\ pc[h] \notin {"idle", "read"} /\ ~interrupted /\ ~interrupted' /\ Kernel
    BY <1>12 DEF Reply, Busy
  <2>1. CASE Inside(h)
    <3>1. req[h] \in Requests /\ S(h) \in sem_key
      BY <2>1, WorkingRequest
    <3>2. sem[S(h)] = 0 /\ semadj[h] = 1
      BY <2>1, <2>0
    <3>3. sem'[S(h)] = 1 /\ \A s \in sem_key \ {S(h)} : sem'[s] = sem[s]
      BY <3>1, <3>2, <2>0, ExitSem
    <3>4. \A g \in Conns \ {h} : Inside(g) => S(g) # S(h)
      BY <2>1, <2>0
    <3>5. QED
      <4>1. ~Inside(h)' /\ semadj'[h] = 0
        BY <2>0 DEF Exit, Goto
      <4>2. \A g \in Conns \ {h} : /\ (Inside(g)' <=> Inside(g)) /\ S(g)' = S(g)
                                   /\ semadj'[g] = semadj[g]
        BY <2>0 DEF Exit, Goto
      <4>3. \A g \in Conns \ {h} : Inside(g) => S(g) \in sem_key
        BY WorkingRequest
      <4>4. \A s \in sem_key : sem'[s] \in {0, 1}
        BY <3>3, <2>0
      <4>5. \A g \in Conns \ {h} : Inside(g) => sem'[S(g)] = 0
        BY <3>3, <3>4, <4>3, <2>0
      <4>6. \A g \in Conns : semadj'[g] = IF Inside(g)' THEN 1 ELSE 0
        BY <4>1, <4>2, <2>0
      <4>7. \A g \in Conns : Inside(g)' => sem'[S(g)'] = 0
        BY <4>1, <4>2, <4>5
      <4>8. \A g, k \in Conns : Inside(g)' /\ Inside(k)' /\ S(g)' = S(k)' => g = k
        BY <4>1, <4>2, <2>0
      <4> HIDE DEF Inside, S
      <4>9. QED
        BY <4>4, <4>6, <4>7, <4>8
  <2>2. CASE ~Inside(h)
    <3>1. \A s \in sem_key : sem'[s] = sem[s]
      BY <2>0, <2>2, ExitSem
    <3>2. QED
      BY <3>1, <2>0, <2>2, WorkingRequest DEF Exit, Goto
  <2>3. QED
    BY <2>1, <2>2
<1>13. ASSUME NEW h \in Conns, Die(h) PROVE Kernel'
  <2> SUFFICES ASSUME ~interrupted PROVE Kernel'
    BY <1>13 DEF Die, Kernel
  <2>0. Exit(h) /\ pc[h] \notin {"idle", "read"} /\ ~interrupted /\ ~interrupted' /\ Kernel
    BY <1>13 DEF Die, Busy
  <2>1. CASE Inside(h)
    <3>1. req[h] \in Requests /\ S(h) \in sem_key
      BY <2>1, WorkingRequest
    <3>2. sem[S(h)] = 0 /\ semadj[h] = 1
      BY <2>1, <2>0
    <3>3. sem'[S(h)] = 1 /\ \A s \in sem_key \ {S(h)} : sem'[s] = sem[s]
      BY <3>1, <3>2, <2>0, ExitSem
    <3>4. \A g \in Conns \ {h} : Inside(g) => S(g) # S(h)
      BY <2>1, <2>0
    <3>5. QED
      <4>1. ~Inside(h)' /\ semadj'[h] = 0
        BY <2>0 DEF Exit, Goto
      <4>2. \A g \in Conns \ {h} : /\ (Inside(g)' <=> Inside(g)) /\ S(g)' = S(g)
                                   /\ semadj'[g] = semadj[g]
        BY <2>0 DEF Exit, Goto
      <4>3. \A g \in Conns \ {h} : Inside(g) => S(g) \in sem_key
        BY WorkingRequest
      <4>4. \A s \in sem_key : sem'[s] \in {0, 1}
        BY <3>3, <2>0
      <4>5. \A g \in Conns \ {h} : Inside(g) => sem'[S(g)] = 0
        BY <3>3, <3>4, <4>3, <2>0
      <4>6. \A g \in Conns : semadj'[g] = IF Inside(g)' THEN 1 ELSE 0
        BY <4>1, <4>2, <2>0
      <4>7. \A g \in Conns : Inside(g)' => sem'[S(g)'] = 0
        BY <4>1, <4>2, <4>5
      <4>8. \A g, k \in Conns : Inside(g)' /\ Inside(k)' /\ S(g)' = S(k)' => g = k
        BY <4>1, <4>2, <2>0
      <4> HIDE DEF Inside, S
      <4>9. QED
        BY <4>4, <4>6, <4>7, <4>8
  <2>2. CASE ~Inside(h)
    <3>1. \A s \in sem_key : sem'[s] = sem[s]
      BY <2>0, <2>2, ExitSem
    <3>2. QED
      BY <3>1, <2>0, <2>2, WorkingRequest DEF Exit, Goto
  <2>3. QED
    BY <2>1, <2>2
<1>14. ASSUME Restart PROVE Kernel'
  BY <1>14 DEF Restart, Goto, Answer, ipc, ghost
<1>15. CASE UNCHANGED vars
  BY <1>15 DEF vars
<1>16. QED
  BY <1>1, <1>2, <1>3, <1>4, <1>5, <1>6, <1>7, <1>8, <1>9, <1>10,
     <1>11, <1>12, <1>13, <1>14, <1>15 DEF Next, Step

(* A lock that is held was granted once.                                   *)
LEMMA HeldStep ==
    ASSUME IInv, [Next]_vars
    PROVE  Held'
<1> USE DEF IInv, TypeHandler, TypeShared, Local, Held, Carried, Carries, Locked, Working, Testing, Setting, S, M, NUL, Zero, One
<1>1. ASSUME NEW h \in Conns, Accept(h) PROVE Held'
  BY <1>1 DEF Accept, Goto, Answer, ipc, ghost
<1>2. ASSUME NEW h \in Conns, ReadFails(h) PROVE Held'
  BY <1>2 DEF ReadFails, Goto, Answer, ipc, ghost
<1>3. ASSUME NEW h \in Conns, NEW sn \in SemNames, NEW mn \in ShmNames, UnknownKey(h, sn, mn) PROVE Held'
  BY <1>3 DEF UnknownKey, Goto, Answer, ipc, ghost
<1>4. ASSUME NEW h \in Conns, NEW c \in Clients, NEW sn \in SemNames, NEW mn \in ShmNames, NEW f \in Flags, Request(h, c, sn, mn, f) PROVE Held'
  <2>1. PICK r \in Requests : Asks(h, c, r, f)
    BY <1>4, RequestAsks
  <2>2. \A g \in Conns \ {h} : pc'[g] = pc[g] /\ req'[g] = req[g] /\ res'[g] = res[g]
    BY <2>1 DEF Asks
  <2>3. req'[h] = r /\ r.client = c /\ r.shm \in shm_key
    BY <2>1, RequestFields DEF Asks
  <2>4. UNCHANGED <<shm, status, stale>>
    BY <2>1 DEF Asks
  <2>5. \A d \in Clients : has'[d] \subseteq has[d]
    BY <2>1, SendsLess DEF Asks
  <2>6. QED
    BY <2>4, <2>5
<1>5. ASSUME NEW h \in Conns, sem_lock(h) PROVE Held'
  BY <1>5, WorkingRequest DEF sem_lock, Goto, Answer, ipc, ghost
<1>6. ASSUME NEW h \in Conns, sem_lockInterrupted(h) PROVE Held'
  BY <1>6, WorkingRequest DEF sem_lockInterrupted, Goto, Answer, ipc, ghost
<1>7. ASSUME NEW h \in Conns, sem_unlock(h) PROVE Held'
  BY <1>7, WorkingRequest DEF sem_unlock, Goto, Answer, ipc, ghost
<1>8. ASSUME NEW h \in Conns, getShmSegData(h) PROVE Held'
  BY <1>8, WorkingRequest DEF getShmSegData, Goto, Answer, ipc, ghost
<1>9. ASSUME NEW h \in Conns, LockIfFree(h) PROVE Held'
  BY <1>9, WorkingRequest DEF LockIfFree, Goto, Answer, ipc, ghost
<1>10. ASSUME NEW h \in Conns, setShmSegData(h) PROVE Held'
  BY <1>10, WorkingRequest DEF setShmSegData, Goto, Answer, ipc, ghost
<1>11. ASSUME NEW h \in Conns, writeInitFile(h) PROVE Held'
  BY <1>11, WorkingRequest DEF writeInitFile, Goto, Answer, ipc, ghost
<1>12. ASSUME NEW h \in Conns, Reply(h) PROVE Held'
  <2>1. shm' = shm /\ stale' = stale
    BY <1>12 DEF Reply, Exit
  <2>5. CASE has' = has
    BY <2>1, <2>5
  <2>6. CASE /\ res[h] = "ok" /\ req[h].flag = "1"
             /\ has' = [has EXCEPT ![req[h].client] = @ \cup {M(h)}]
    <3>1. Carries(h)
      BY <1>12, <2>6 DEF Reply
    <3>2. M(h) \in shm_key /\ req[h].client \in Clients
      BY <3>1, CarrierRequest
    <3>3. M(h) \notin stale => Locked(M(h)) /\ \A d \in Clients : M(h) \notin has[d]
      BY <3>1
    <3>4. \A d \in Clients : \A m \in shm_key :
            m \in has'[d] => m \in has[d] \/ (m = M(h) /\ d = req[h].client)
      <4> DEFINE cl == req[h].client
                 mm == M(h)
      <4>1. has' = [has EXCEPT ![cl] = @ \cup {mm}] /\ cl \in Clients
        BY <2>6, <3>2
      <4> HIDE DEF cl, mm
      <4>2. \A d \in Clients : has'[d] = IF d = cl THEN has[d] \cup {mm} ELSE has[d]
        BY <4>1
      <4>3. \A d \in Clients : \A m \in shm_key :
              m \in has'[d] => m \in has[d] \/ (m = mm /\ d = cl)
        <5> HIDE DEF IInv, TypeHandler, TypeShared, Local, Held, Carried
        <5> SUFFICES ASSUME NEW d \in Clients, NEW m \in shm_key, m \in has'[d]
                     PROVE  m \in has[d] \/ (m = mm /\ d = cl)
          OBVIOUS
        <5>1. has'[d] = IF d = cl THEN has[d] \cup {mm} ELSE has[d]
          BY <4>2
        <5>2. CASE d = cl
          BY <5>1, <5>2
        <5>3. CASE d # cl
          BY <5>1, <5>3
        <5>4. QED
          BY <5>2, <5>3
      <4>4. QED
        BY <4>3 DEF cl, mm
    <3>5. QED
      BY <2>1, <3>3, <3>4
  <2>7. QED
    BY <1>12, <2>5, <2>6 DEF Reply
<1>13. ASSUME NEW h \in Conns, Die(h) PROVE Held'
  BY <1>13 DEF Die, Exit, Goto, Answer, ipc, ghost
<1>14. ASSUME Restart PROVE Held'
  BY <1>14 DEF Restart, Goto, Answer, ipc, ghost
<1>15. CASE UNCHANGED vars
  BY <1>15 DEF vars
<1>16. QED
  BY <1>1, <1>2, <1>3, <1>4, <1>5, <1>6, <1>7, <1>8, <1>9, <1>10,
     <1>11, <1>12, <1>13, <1>14, <1>15 DEF Next, Step

(* A lock that is carried is with one handler and no client.               *)
LEMMA CarriedStep ==
    ASSUME IInv, [Next]_vars
    PROVE  Carried'
<1> USE DEF IInv, TypeHandler, TypeShared, Local, Held, Carried, Carries, Locked, Working, Testing, Setting, S, M, NUL, Zero, One
<1>1. ASSUME NEW h \in Conns, Accept(h) PROVE Carried'
  BY <1>1 DEF Accept, Goto, Answer, ipc, ghost
<1>2. ASSUME NEW h \in Conns, ReadFails(h) PROVE Carried'
  BY <1>2 DEF ReadFails, Goto, Answer, ipc, ghost
<1>3. ASSUME NEW h \in Conns, NEW sn \in SemNames, NEW mn \in ShmNames, UnknownKey(h, sn, mn) PROVE Carried'
  BY <1>3 DEF UnknownKey, Goto, Answer, ipc, ghost
<1>4. ASSUME NEW h \in Conns, NEW c \in Clients, NEW sn \in SemNames, NEW mn \in ShmNames, NEW f \in Flags, Request(h, c, sn, mn, f) PROVE Carried'
  <2>1. PICK r \in Requests : Asks(h, c, r, f)
    BY <1>4, RequestAsks
  <2>2. \A g \in Conns \ {h} : pc'[g] = pc[g] /\ req'[g] = req[g] /\ res'[g] = res[g]
    BY <2>1 DEF Asks
  <2>3. req'[h] = r /\ r.client = c /\ r.shm \in shm_key
    BY <2>1, RequestFields DEF Asks
  <2>4. UNCHANGED <<shm, status, stale>>
    BY <2>1 DEF Asks
  <2>5. \A d \in Clients : has'[d] \subseteq has[d]
    BY <2>1, SendsLess DEF Asks
  <2>6. \A g \in Conns \ {h} : Carries(g)' <=> Carries(g)
    BY <2>2
  <2>7. ~Carries(h)
    BY <2>1 DEF Asks
  <2>8. pc'[h] \notin {"sunlock", "file", "swrite"} /\ ~(pc'[h] = "reply" /\ r.flag = "1")
    BY <2>1 DEF Asks
  <2>9. Carries(h)' => r.flag = "0"
    BY <2>3, <2>8
  <2>10. Carries(h)' => r.shm \in has[c] /\ has' = [has EXCEPT ![c] = @ \ {r.shm}]
    BY <2>1, <2>9 DEF Asks, ClientSends, Flags
  <2>11. \A g \in Conns : Carries(g) /\ M(g) \notin stale =>
            M(g) \in shm_key /\ \A d \in Clients : M(g) \notin has[d]
    BY CarrierRequest
  <2>12. QED
    BY <2>2, <2>3, <2>4, <2>5, <2>6, <2>7, <2>10, <2>11
<1>5. ASSUME NEW h \in Conns, sem_lock(h) PROVE Carried'
  BY <1>5, WorkingRequest DEF sem_lock, Goto, Answer, ipc, ghost
<1>6. ASSUME NEW h \in Conns, sem_lockInterrupted(h) PROVE Carried'
  BY <1>6, WorkingRequest DEF sem_lockInterrupted, Goto, Answer, ipc, ghost
<1>7. ASSUME NEW h \in Conns, sem_unlock(h) PROVE Carried'
  BY <1>7, WorkingRequest DEF sem_unlock, Goto, Answer, ipc, ghost
<1>8. ASSUME NEW h \in Conns, getShmSegData(h) PROVE Carried'
  BY <1>8, WorkingRequest DEF getShmSegData, Goto, Answer, ipc, ghost
<1>9. ASSUME NEW h \in Conns, LockIfFree(h) PROVE Carried'
  BY <1>9, WorkingRequest DEF LockIfFree, Goto, Answer, ipc, ghost
<1>10. ASSUME NEW h \in Conns, setShmSegData(h) PROVE Carried'
  BY <1>10, WorkingRequest DEF setShmSegData, Goto, Answer, ipc, ghost
<1>11. ASSUME NEW h \in Conns, writeInitFile(h) PROVE Carried'
  BY <1>11, WorkingRequest DEF writeInitFile, Goto, Answer, ipc, ghost
<1>12. ASSUME NEW h \in Conns, Reply(h) PROVE Carried'
  <2>1. Exit(h) /\ shm' = shm /\ stale' = stale
    BY <1>12 DEF Reply, Exit
  <2>2. \A g \in Conns \ {h} : pc'[g] = pc[g] /\ req'[g] = req[g] /\ res'[g] = res[g]
    BY <2>1 DEF Exit, Goto, Answer
  <2>3. ~Carries(h)'
    BY <2>1 DEF Exit, Goto
  <2>4. \A g \in Conns \ {h} : (Carries(g)' <=> Carries(g)) /\ M(g)' = M(g)
    BY <2>2
  <2>5. CASE has' = has
    BY <2>1, <2>3, <2>4, <2>5
  <2>6. CASE /\ res[h] = "ok" /\ req[h].flag = "1"
             /\ has' = [has EXCEPT ![req[h].client] = @ \cup {M(h)}]
    <3>1. Carries(h)
      BY <1>12, <2>6 DEF Reply
    <3>2. M(h) \in shm_key /\ req[h].client \in Clients
      BY <3>1, CarrierRequest
    <3>3. \A g \in Conns \ {h} : Carries(g) /\ M(g) \notin stale => M(g) # M(h)
      BY <3>1
    <3>4. \A g \in Conns \ {h} : \A d \in Clients :
            M(g) # M(h) /\ M(g) \notin has[d] => M(g) \notin has'[d]
      BY <2>6, <3>2
    <3>5. QED
      BY <2>1, <2>3, <2>4, <3>3, <3>4
  <2>7. QED
    BY <1>12, <2>5, <2>6 DEF Reply
<1>13. ASSUME NEW h \in Conns, Die(h) PROVE Carried'
  <2>1. Exit(h) /\ shm' = shm /\ stale' = stale
    BY <1>13 DEF Die, Exit
  <2>2. \A g \in Conns \ {h} : pc'[g] = pc[g] /\ req'[g] = req[g] /\ res'[g] = res[g]
    BY <2>1 DEF Exit, Goto, Answer
  <2>3. ~Carries(h)'
    BY <2>1 DEF Exit, Goto
  <2>4. \A g \in Conns \ {h} : (Carries(g)' <=> Carries(g)) /\ M(g)' = M(g)
    BY <2>2
  <2>5. has' = has
    BY <1>13 DEF Die
  <2>6. QED
    BY <2>1, <2>3, <2>4, <2>5
<1>14. ASSUME Restart PROVE Carried'
  BY <1>14 DEF Restart, Goto, Answer, ipc, ghost
<1>15. CASE UNCHANGED vars
  BY <1>15 DEF vars
<1>16. QED
  BY <1>1, <1>2, <1>3, <1>4, <1>5, <1>6, <1>7, <1>8, <1>9, <1>10,
     <1>11, <1>12, <1>13, <1>14, <1>15 DEF Next, Step

(* Undisturbed, the byte and the file change one after the other.          *)
LEMMA QuietStep ==
    ASSUME IInv, [Next]_vars
    PROVE  Quiet'
<1> USE DEF IInv, TypeHandler, TypeShared, Local, Quiet, Locked, Working, Testing, Setting, M, Busy, NUL, Zero, One
<1>1. ASSUME NEW h \in Conns, Accept(h) PROVE Quiet'
  BY <1>1 DEF Accept, Goto, Answer, ipc, ghost
<1>2. ASSUME NEW h \in Conns, ReadFails(h) PROVE Quiet'
  BY <1>2 DEF ReadFails, Goto, Answer, ipc, ghost
<1>3. ASSUME NEW h \in Conns, NEW sn \in SemNames, NEW mn \in ShmNames, UnknownKey(h, sn, mn) PROVE Quiet'
  BY <1>3 DEF UnknownKey, Goto, Answer, ipc, ghost
<1>4. ASSUME NEW h \in Conns, NEW c \in Clients, NEW sn \in SemNames, NEW mn \in ShmNames, NEW f \in Flags, Request(h, c, sn, mn, f) PROVE Quiet'
  <2>1. PICK r \in Requests : Asks(h, c, r, f)
    BY <1>4, RequestAsks
  <2>2. \A g \in Conns \ {h} : pc'[g] = pc[g] /\ req'[g] = req[g] /\ res'[g] = res[g]
    BY <2>1 DEF Asks
  <2>3. req'[h] = r /\ r.client = c /\ r.shm \in shm_key
    BY <2>1, RequestFields DEF Asks
  <2>4. UNCHANGED <<shm, status, stale>>
    BY <2>1 DEF Asks
  <2>5. disturbed' = (disturbed \/ \E g \in Conns \ {h} : Busy(g))
    BY <2>1 DEF Asks
  <2>6. pc[h] = "read" /\ pc'[h] \notin {"sunlock", "file"}
    BY <2>1 DEF Asks
  <2> SUFFICES ASSUME ~disturbed' PROVE Quiet'
    BY DEF Quiet
  <2>7. \A g \in Conns \ {h} : pc'[g] \notin Working
    BY <2>2, <2>5 DEF Busy
  <2>8. \A g \in Conns : pc[g] \notin {"sunlock", "file"} /\ pc'[g] \notin {"sunlock", "file"}
    BY <2>2, <2>6, <2>7
  <2>9. QED
    BY <2>4, <2>5, <2>7, <2>8 DEF Quiet
<1>5. ASSUME NEW h \in Conns, sem_lock(h) PROVE Quiet'
  BY <1>5, WorkingRequest DEF sem_lock, Goto, Answer, ipc, ghost
<1>6. ASSUME NEW h \in Conns, sem_lockInterrupted(h) PROVE Quiet'
  BY <1>6, WorkingRequest DEF sem_lockInterrupted, Goto, Answer, ipc, ghost
<1>7. ASSUME NEW h \in Conns, sem_unlock(h) PROVE Quiet'
  BY <1>7, WorkingRequest DEF sem_unlock, Goto, Answer, ipc, ghost
<1>8. ASSUME NEW h \in Conns, getShmSegData(h) PROVE Quiet'
  BY <1>8, WorkingRequest DEF getShmSegData, Goto, Answer, ipc, ghost
<1>9. ASSUME NEW h \in Conns, LockIfFree(h) PROVE Quiet'
  BY <1>9, WorkingRequest DEF LockIfFree, Goto, Answer, ipc, ghost
<1>10. ASSUME NEW h \in Conns, setShmSegData(h) PROVE Quiet'
  BY <1>10, WorkingRequest DEF setShmSegData, Goto, Answer, ipc, ghost
<1>11. ASSUME NEW h \in Conns, writeInitFile(h) PROVE Quiet'
  BY <1>11, WorkingRequest DEF writeInitFile, Goto, Answer, ipc, ghost
<1>12. ASSUME NEW h \in Conns, Reply(h) PROVE Quiet'
  BY <1>12 DEF Reply, Exit, Goto, Answer, ipc, ghost
<1>13. ASSUME NEW h \in Conns, Die(h) PROVE Quiet'
  BY <1>13 DEF Die, Exit, Goto, Answer, ipc, ghost
<1>14. ASSUME Restart PROVE Quiet'
  BY <1>14 DEF Restart, Goto, Answer, ipc, ghost
<1>15. CASE UNCHANGED vars
  BY <1>15 DEF vars
<1>16. QED
  BY <1>1, <1>2, <1>3, <1>4, <1>5, <1>6, <1>7, <1>8, <1>9, <1>10,
     <1>11, <1>12, <1>13, <1>14, <1>15 DEF Next, Step

-----------------------------------------------------------------------------
(* The invariant holds when the server starts.                             *)
LEMMA InitIInv ==
    ASSUME Init
    PROVE  IInv
<1> USE DEF Init
<1>1. TypeHandler
  <2>0. semadj = [g \in Conns |-> 0]
    OBVIOUS
  <2>1. semadj \in [Conns -> Int]
    <3> HIDE DEF Init
    <3>1. QED
      BY <2>0, NoneOwed
  <2>5. pc \in [Conns -> PCs]
    BY DEF PCs
  <2>2. req \in [Conns -> Requests \cup {NoRequest}]
    OBVIOUS
  <2>3. isShared \in [Conns -> {0, 1}] /\ res \in [Conns -> Answers]
    BY DEF Answers
  <2>4. QED
    BY <2>1, <2>2, <2>3, <2>5 DEF TypeHandler
<1>2. TypeShared /\ TypeSem
  BY DEF TypeShared, TypeSem
<1>3. Local /\ Kernel
  BY DEF Local, Working, Testing, Setting, Kernel, Inside
<1>4. Held /\ Carried
  BY DEF Held, Carried, Carries
<1>5. Quiet
  <2>1. \A m \in shm_key : status[m] = 0 /\ shm[m] = NUL
    OBVIOUS
  <2>2. \A h \in Conns : pc[h] = "idle"
    OBVIOUS
  <2> HIDE DEF Init
  <2>3. NUL # One
    BY DEF NUL, One
  <2>4. \A m \in shm_key : status[m] # 1 /\ ~Locked(m)
    BY <2>1, <2>3 DEF Locked
  <2>5. \A h \in Conns : pc[h] \notin Working /\ pc[h] \notin {"sunlock", "file"}
    BY <2>2 DEF Working, Testing, Setting
  <2>6. QED
    BY <2>4, <2>5 DEF Quiet
<1>6. QED
  BY <1>1, <1>2, <1>3, <1>4, <1>5 DEF IInv

(* What is proved above, for every reachable state.                        *)
LEMMA Inductive == Spec => []IInv
<1>1. Init => IInv
  BY InitIInv
<1>2. IInv /\ [Next]_vars => IInv'
  <2> SUFFICES ASSUME IInv, [Next]_vars PROVE IInv'
    OBVIOUS
  <2>1. QED
    BY TypeHandlerStep, TypeSharedStep, TypeSemStep, LocalStep, KernelStep, HeldStep,
       CarriedStep, QuietStep DEF IInv
<1>3. QED
  BY <1>1, <1>2, PTL DEF Spec

(* The semaphores protect the segments (ipc.c 107, 126) however many       *)
(* handlers there are and are killed, until a signal interrupts a sem_lock. *)
THEOREM CriticalSectionAlways == Spec => []CriticalSection
<1>1. IInv => CriticalSection
  BY DEF IInv, Kernel, CriticalSection
<1>2. QED
  BY <1>1, Inductive, PTL

(* Two clients hold one segment only if it was granted on an old value or  *)
(* a restart cleared it: the gap between getShmSegData and setShmSegData   *)
(* is the only one.                                                        *)
THEOREM DoubleGrantOnlyByStaleCheckAlways == Spec => []DoubleGrantOnlyByStaleCheck
<1>1. IInv => DoubleGrantOnlyByStaleCheck
  BY DEF IInv, Held, TypeShared, DoubleGrantOnlyByStaleCheck
<1>2. QED
  BY <1>1, Inductive, PTL

(* Between requests that came one after the other the file says what the   *)
(* segments say.                                                           *)
THEOREM StatusTruthfulAlways == Spec => []StatusTruthful
<1>1. IInv => StatusTruthful
  BY DEF IInv, Quiet, Busy, StatusTruthful
<1>2. QED
  BY <1>1, Inductive, PTL
-----------------------------------------------------------------------------
(* Sums over finite sets.  The library's folds are recursive functions;    *)
(* induction over a set of numbers, which the well-founded order on Nat    *)
(* gives, says what they compute.                                          *)
Smaller == {ss \in Nat \X Nat : ss[1] < ss[2]}

LEMMA SmallerWF == IsWellFoundedOn(Smaller, Nat)
<1>1. Smaller = OpToRel(<, Nat)
  BY Zenon DEF Smaller, OpToRel
<1>2. QED
  BY <1>1, NatLessThanWellFounded, Zenon

LEMMA NatSetInduction ==
    ASSUME NEW Z, 0 \in Z, \A n \in Nat : n \in Z => n + 1 \in Z
    PROVE  Nat \subseteq Z
<1>1. SUFFICES ASSUME Nat \ Z # {} PROVE FALSE
  OBVIOUS
<1>2. PICK x \in Nat \ Z : \A y \in Nat \ Z : ~(<<y, x>> \in Smaller)
  <2>1. Nat \ Z \subseteq Nat
    OBVIOUS
  <2>2. QED
    BY <1>1, <2>1, SmallerWF, WFMin, Zenon
<1>3. x - 1 \in Nat /\ x - 1 < x
  BY <1>2
<1>4. x - 1 \in Z
  <2>1. <<x - 1, x>> \in Smaller
    BY <1>2, <1>3 DEF Smaller
  <2>2. QED
    BY <2>1, <1>2, <1>3
<1>5. QED
  BY <1>2, <1>3, <1>4

(* The same over the subsets of a finite set: a set of sets that has a set *)
(* as soon as it has that set without any one of its elements has them all. *)
LEMMA SubsetInduction ==
    ASSUME NEW B, IsFiniteSet(B), NEW Z,
           \A T \in SUBSET B : (\A x \in T : T \ {x} \in Z) => T \in Z
    PROVE  SUBSET B \subseteq Z
<1> DEFINE N == {n \in Nat : \A T \in SUBSET B : Cardinality(T) = n => T \in Z}
<1>1. \A T \in SUBSET B : IsFiniteSet(T) /\ Cardinality(T) \in Nat
  BY FS_Subset, FS_CardinalityType
<1>2. 0 \in N
  BY <1>1, FS_EmptySet
<1>3. ASSUME NEW n \in Nat, n \in N PROVE n + 1 \in N
  <2>1. SUFFICES ASSUME NEW T \in SUBSET B, Cardinality(T) = n + 1 PROVE T \in Z
    OBVIOUS
  <2>2. ASSUME NEW x \in T PROVE T \ {x} \in Z
    <3>1. Cardinality(T \ {x}) = n
      BY <1>1, <2>1, FS_RemoveElement
    <3>2. QED
      BY <1>3, <3>1
  <2>3. QED
    BY <2>2
<1>4. Nat \subseteq N
  <2> HIDE DEF N
  <2>1. QED
    BY <1>2, <1>3, NatSetInduction
<1>5. QED
  BY <1>1, <1>4

(* The element that a fold over a set takes first.                         *)
First(T) == CHOOSE x \in T : TRUE

LEMMA FirstIn == ASSUME NEW T, T # {} PROVE First(T) \in T
BY DEF First

(* How the fold that SumOver is adds up: i holds the sums of the sets in D. *)
Sums(f, i, D) ==
    i = [s \in D |-> IF s = {} THEN 0 ELSE f[First(s)] + i[s \ {First(s)}]]

LEMMA SumsByFold ==
    ASSUME NEW f, NEW T
    PROVE  SumOver(f, T) = (CHOOSE i : Sums(f, i, SUBSET T))[T]
BY DEF SumOver, FoldFunctionOnSet, MapThenFoldSet, Sums, First

(* There are such sums.                                                    *)
LEMMA SumsExist ==
    ASSUME NEW B, IsFiniteSet(B), NEW f \in [B -> Int]
    PROVE  \E i \in [SUBSET B -> Int] : Sums(f, i, SUBSET B)
<1> DEFINE D(n) == {s \in SUBSET B : Cardinality(s) <= n}
           N == {n \in Nat : \E i \in [D(n) -> Int] : Sums(f, i, D(n))}
<1>1. \A T \in SUBSET B : IsFiniteSet(T) /\ Cardinality(T) \in Nat
  BY FS_Subset, FS_CardinalityType
<1>2. 0 \in N
  <2> DEFINE i == [s \in D(0) |-> 0]
  <2>1. \A s \in D(0) : s = {}
    BY <1>1, FS_EmptySet
  <2>2. i \in [D(0) -> Int] /\ Sums(f, i, D(0))
    BY <2>1 DEF Sums
  <2>3. QED
    BY <2>2
<1>3. ASSUME NEW n \in Nat, n \in N PROVE n + 1 \in N
  <2>1. PICK i \in [D(n) -> Int] : Sums(f, i, D(n))
    BY <1>3
  <2> DEFINE value(s) == IF s = {} THEN 0 ELSE f[First(s)] + i[s \ {First(s)}]
             j == [s \in D(n + 1) |-> value(s)]
  <2>2. ASSUME NEW s \in D(n + 1), s # {}
        PROVE  First(s) \in B /\ s \ {First(s)} \in D(n) /\ s \ {First(s)} \in D(n + 1)
    <3>1. First(s) \in s
      BY <2>2, FirstIn
    <3>2. Cardinality(s \ {First(s)}) = Cardinality(s) - 1
      BY <1>1, <3>1, FS_RemoveElement
    <3>3. QED
      BY <1>1, <3>1, <3>2
  <2>3. j \in [D(n + 1) -> Int]
    BY <2>2
  <2>4. \A s \in D(n) : s \in D(n + 1) /\ j[s] = i[s]
    <3>1. SUFFICES ASSUME NEW s \in D(n) PROVE s \in D(n + 1) /\ j[s] = i[s]
      OBVIOUS
    <3>2. s \in D(n + 1)
      BY <1>1
    <3>3. i[s] = value(s)
      BY <2>1 DEF Sums
    <3>4. QED
      BY <3>2, <3>3
  <2>5. Sums(f, j, D(n + 1))
    <3>1. \A s \in D(n + 1) : value(s) = IF s = {} THEN 0 ELSE f[First(s)] + j[s \ {First(s)}]
      BY <2>2, <2>4
    <3> HIDE DEF D
    <3>2. QED
      BY <3>1 DEF Sums
  <2>6. n + 1 \in Nat /\ \E k \in [D(n + 1) -> Int] : Sums(f, k, D(n + 1))
    <3> HIDE DEF j, D
    <3>1. QED
      BY <2>3, <2>5
  <2>7. QED
    BY <2>6
<1>4. Nat \subseteq N
  <2> HIDE DEF N
  <2>1. QED
    BY <1>2, <1>3, NatSetInduction
<1>5. SUBSET B = D(Cardinality(B))
  BY <1>1, FS_Subset
<1>6. Cardinality(B) \in N
  BY <1>1, <1>4
<1>7. QED
  BY <1>5, <1>6

(* One of the summands after the other: the first one first.               *)
LEMMA SumFirst ==
    ASSUME NEW B, IsFiniteSet(B), NEW f \in [B -> Int], NEW T \in SUBSET B
    PROVE  /\ SumOver(f, T) \in Int
           /\ SumOver(f, T) = IF T = {} THEN 0
                              ELSE f[First(T)] + SumOver(f, T \ {First(T)})
<1>1. PICK g \in [SUBSET B -> Int] : Sums(f, g, SUBSET B)
  BY SumsExist
<1>2. ASSUME NEW U \in SUBSET B PROVE SumOver(f, U) = g[U]
  <2> DEFINE r == [s \in SUBSET U |-> g[s]]
             i == CHOOSE k : Sums(f, k, SUBSET U)
             Z == {s \in SUBSET U : i[s] = g[s]}
  <2>1. Sums(f, r, SUBSET U)
    <3>1. \A s \in SUBSET U : s \in SUBSET B /\ s \ {First(s)} \in SUBSET U
      BY <1>2
    <3>2. \A s \in SUBSET U : g[s] = IF s = {} THEN 0 ELSE f[First(s)] + g[s \ {First(s)}]
      BY <1>1, <3>1 DEF Sums
    <3>3. \A s \in SUBSET U : g[s] = IF s = {} THEN 0 ELSE f[First(s)] + r[s \ {First(s)}]
      BY <3>1, <3>2
    <3>4. QED
      BY <3>3 DEF Sums
  <2>2. Sums(f, i, SUBSET U)
    <3> HIDE DEF r
    <3>1. QED
      BY <2>1
  <2>3. IsFiniteSet(U)
    BY FS_Subset
  <2>4. ASSUME NEW s \in SUBSET U, \A x \in s : s \ {x} \in Z PROVE s \in Z
    <3>0. s \in SUBSET B
      BY <1>2
    <3>1. i[s] = IF s = {} THEN 0 ELSE f[First(s)] + i[s \ {First(s)}]
      <4> HIDE DEF i
      <4>1. QED
        BY <2>2 DEF Sums
    <3>2. g[s] = IF s = {} THEN 0 ELSE f[First(s)] + g[s \ {First(s)}]
      BY <1>1, <3>0 DEF Sums
    <3>3. s # {} => i[s \ {First(s)}] = g[s \ {First(s)}]
      <4> HIDE DEF i
      <4>1. QED
        BY <2>4, FirstIn
    <3> HIDE DEF i
    <3>4. QED
      BY <3>1, <3>2, <3>3
  <2>5. SUBSET U \subseteq Z
    <3> HIDE DEF Z
    <3>1. QED
      BY <2>3, <2>4, SubsetInduction
  <2>6. i[U] = g[U]
    <3> HIDE DEF i
    <3>1. QED
      BY <2>5
  <2>7. QED
    BY <2>6, SumsByFold
<1>3. g[T] = IF T = {} THEN 0 ELSE f[First(T)] + g[T \ {First(T)}]
  BY <1>1 DEF Sums
<1>4. QED
  BY <1>1, <1>2, <1>3

(* Any one of them can be the first.                                       *)
LEMMA SumWithout ==
    ASSUME NEW B, IsFiniteSet(B), NEW f \in [B -> Int], NEW T \in SUBSET B, NEW x \in T
    PROVE  SumOver(f, T) = f[x] + SumOver(f, T \ {x})
<1> DEFINE Z == {U \in SUBSET B : \A y \in U : SumOver(f, U) = f[y] + SumOver(f, U \ {y})}
<1>1. ASSUME NEW U \in SUBSET B, \A y \in U : U \ {y} \in Z PROVE U \in Z
  <2>1. SUFFICES ASSUME NEW y \in U PROVE SumOver(f, U) = f[y] + SumOver(f, U \ {y})
    OBVIOUS
  <2> DEFINE z == First(U)
  <2>2. z \in U
    BY FirstIn
  <2>3. SumOver(f, U) = f[z] + SumOver(f, U \ {z})
    BY <2>2, SumFirst
  <2> HIDE DEF z
  <2>4. CASE y # z
    <3>1. SumOver(f, U \ {z}) = f[y] + SumOver(f, (U \ {z}) \ {y})
      BY <1>1, <2>2, <2>4
    <3>2. SumOver(f, U \ {y}) = f[z] + SumOver(f, (U \ {y}) \ {z})
      BY <1>1, <2>2, <2>4
    <3>3. SumOver(f, (U \ {z}) \ {y}) = SumOver(f, (U \ {y}) \ {z})
      <4>1. (U \ {z}) \ {y} = (U \ {y}) \ {z}
        OBVIOUS
      <4>2. QED
        BY <4>1
    <3>4. SumOver(f, (U \ {y}) \ {z}) \in Int
      BY SumFirst
    <3>5. f[y] \in Int /\ f[z] \in Int
      BY <2>2
    <3>6. QED
      BY <2>3, <3>1, <3>2, <3>3, <3>4, <3>5
  <2>5. QED
    BY <2>3, <2>4
<1>2. SUBSET B \subseteq Z
  <2> HIDE DEF Z
  <2>1. QED
    BY <1>1, SubsetInduction
<1>3. QED
  BY <1>2

(* Only what is summed matters.                                            *)
LEMMA SumSame ==
    ASSUME NEW B, IsFiniteSet(B), NEW f \in [B -> Int], NEW g \in [B -> Int],
           NEW T \in SUBSET B, \A x \in T : f[x] = g[x]
    PROVE  SumOver(f, T) = SumOver(g, T)
<1> DEFINE Z == {U \in SUBSET T : SumOver(f, U) = SumOver(g, U)}
<1>1. ASSUME NEW U \in SUBSET T, \A y \in U : U \ {y} \in Z PROVE U \in Z
  <2>1. U \in SUBSET B
    OBVIOUS
  <2>2. U # {} => First(U) \in U
    BY FirstIn
  <2>3. /\ SumOver(f, U) = IF U = {} THEN 0 ELSE f[First(U)] + SumOver(f, U \ {First(U)})
        /\ SumOver(g, U) = IF U = {} THEN 0 ELSE g[First(U)] + SumOver(g, U \ {First(U)})
    BY <2>1, SumFirst
  <2>4. QED
    BY <1>1, <2>2, <2>3
<1>2. SUBSET T \subseteq Z
  <2>1. IsFiniteSet(T)
    BY FS_Subset
  <2> HIDE DEF Z
  <2>2. QED
    BY <1>1, <2>1, SubsetInduction
<1>3. QED
  BY <1>2

(* What one element may change.                                            *)
LEMMA SumChange ==
    ASSUME NEW B, IsFiniteSet(B), NEW f \in [B -> Int], NEW g \in [B -> Int],
           NEW T \in SUBSET B, NEW U \in SUBSET B, NEW x,
           T \ {x} = U \ {x}, \A y \in T \ {x} : f[y] = g[y]
    PROVE  SumOver(g, U) - (IF x \in U THEN g[x] ELSE 0) =
           SumOver(f, T) - (IF x \in T THEN f[x] ELSE 0)
<1>1. SumOver(f, T \ {x}) = SumOver(g, U \ {x}) /\ SumOver(f, T \ {x}) \in Int
  <2>1. T \ {x} \in SUBSET B
    OBVIOUS
  <2>2. SumOver(f, T \ {x}) = SumOver(g, T \ {x})
    BY <2>1, SumSame
  <2>3. SumOver(f, T \ {x}) \in Int
    BY <2>1, SumFirst
  <2>4. QED
    BY <2>2, <2>3
<1>2. SumOver(f, T) = (IF x \in T THEN f[x] ELSE 0) + SumOver(f, T \ {x})
  <2>1. x \notin T => T \ {x} = T
    OBVIOUS
  <2>2. QED
    BY <1>1, <2>1, SumWithout
<1>3. SumOver(g, U) = (IF x \in U THEN g[x] ELSE 0) + SumOver(g, U \ {x})
  <2>1. x \notin U => U \ {x} = U
    OBVIOUS
  <2>2. QED
    BY <1>1, <2>1, SumWithout
<1>4. (x \in T => f[x] \in Int) /\ (x \in U => g[x] \in Int)
  OBVIOUS
<1>5. QED
  BY <1>1, <1>2, <1>3, <1>4
-----------------------------------------------------------------------------
(* The units of the semaphores.                                            *)

(* What the kernel owes a semaphore for a handler, by where it is.         *)
Owing == \A h \in Conns :
    /\ pc[h] \in {"idle", "read"} => req[h] = NoRequest
    /\ pc[h] \in {"idle", "read", "glock"} => semadj[h] = 0
    /\ pc[h] \in {"gread", "gunlock"} => semadj[h] \in {0, 1}
    /\ pc[h] \in {"decide", "slock"} => semadj[h] \in {-1, 0}
    /\ pc[h] \in {"swrite", "sunlock"} => semadj[h] \in {-1, 0, 1}
    /\ pc[h] \in {"file", "reply"} => semadj[h] \in {-2, -1, 0}

(* The handlers between sem_lock and sem_unlock on a semaphore, whether    *)
(* they got a unit or were interrupted; each of them will give one back.   *)
Within(s) == {h \in Conns : Inside(h) /\ S(h) = s}
Room == \A s \in sem_key : sem[s] + Cardinality(Within(s)) <= 1 + Cardinality(Conns)

Users(s) == {h \in Conns : S(h) = s}
Units == ~clamped => \A s \in sem_key : sem[s] + SumOver(semadj, Users(s)) = 1

UInv == Owing /\ Room /\ Units

(* A step of one handler keeps the units if what it takes from or gives to *)
(* a semaphore is what the kernel notes down.                              *)
LEMMA UnitsMove ==
    ASSUME IInv, IInv', Units, NEW h \in Conns,
           \A g \in Conns \ {h} : req'[g] = req[g] /\ semadj'[g] = semadj[g],
           ~clamped' => ~clamped,
           ~clamped' => \A s \in sem_key :
               sem'[s] + (IF S(h)' = s THEN semadj'[h] ELSE 0) =
               sem[s] + (IF S(h) = s THEN semadj[h] ELSE 0)
    PROVE  Units'
<1>1. SUFFICES ASSUME ~clamped', NEW s \in sem_key
               PROVE  sem'[s] + SumOver(semadj', Users(s)') = 1
  BY DEF Units
<1>2. semadj \in [Conns -> Int] /\ semadj' \in [Conns -> Int]
  BY DEF IInv, TypeHandler
<1>3. sem[s] \in Int /\ sem'[s] \in Int
  BY DEF IInv, TypeSem
<1>4. Users(s) \in SUBSET Conns /\ Users(s)' \in SUBSET Conns
  BY DEF Users
<1>5. Users(s) \ {h} = Users(s)' \ {h}
  BY DEF Users, S
<1>6. SumOver(semadj', Users(s)') - (IF h \in Users(s)' THEN semadj'[h] ELSE 0) =
      SumOver(semadj, Users(s)) - (IF h \in Users(s) THEN semadj[h] ELSE 0)
  BY <1>2, <1>4, <1>5, ConnsAssumption, SumChange
<1>7. /\ h \in Users(s) <=> S(h) = s
      /\ h \in Users(s)' <=> S(h)' = s
  BY DEF Users
<1>8. SumOver(semadj', Users(s)') \in Int /\ SumOver(semadj, Users(s)) \in Int
  BY <1>2, <1>4, ConnsAssumption, SumFirst
<1>9. sem[s] + SumOver(semadj, Users(s)) = 1
  BY <1>1 DEF Units
<1>10. semadj[h] \in Int /\ semadj'[h] \in Int
  BY <1>2
<1>11. sem'[s] + (IF S(h)' = s THEN semadj'[h] ELSE 0) =
       sem[s] + (IF S(h) = s THEN semadj[h] ELSE 0)
  BY <1>1
<1>12. QED
  BY <1>3, <1>6, <1>7, <1>8, <1>9, <1>10, <1>11

(* The handlers inside are not more than there are handlers.               *)
LEMMA WithinCount ==
    ASSUME NEW s
    PROVE  /\ IsFiniteSet(Within(s)) /\ Cardinality(Within(s)) \in Nat
           /\ Cardinality(Conns) \in Nat /\ Cardinality(Within(s)) <= Cardinality(Conns)
<1>1. Within(s) \in SUBSET Conns
  BY DEF Within
<1>2. QED
  BY <1>1, ConnsAssumption, FS_Subset, FS_CardinalityType

(* A step of one handler keeps the bound if the unit it gives back was     *)
(* counted as one of a handler inside.                                     *)
LEMMA RoomMove ==
    ASSUME IInv, IInv', Room, NEW h \in Conns,
           \A g \in Conns \ {h} : pc'[g] = pc[g] /\ req'[g] = req[g],
           \A s \in sem_key :
               \/ sem'[s] = 0
               \/ sem'[s] + (IF Inside(h)' /\ S(h)' = s THEN 1 ELSE 0) <=
                  sem[s] + (IF Inside(h) /\ S(h) = s THEN 1 ELSE 0)
    PROVE  Room'
<1>1. SUFFICES ASSUME NEW s \in sem_key
               PROVE  sem'[s] + Cardinality(Within(s)') <= 1 + Cardinality(Conns)
  BY DEF Room
<1>2. sem[s] \in Nat /\ sem'[s] \in Nat
  BY DEF IInv, TypeSem
<1>3. /\ Within(s)' \in SUBSET Conns /\ IsFiniteSet(Within(s)')
      /\ Cardinality(Within(s)') \in Nat /\ Cardinality(Within(s)') <= Cardinality(Conns)
  <2>1. Within(s)' \in SUBSET Conns
    BY DEF Within
  <2>2. QED
    BY <2>1, ConnsAssumption, FS_Subset, FS_CardinalityType
<1>4. IsFiniteSet(Within(s)) /\ Cardinality(Within(s)) \in Nat /\ Cardinality(Conns) \in Nat
  BY WithinCount
<1>5. Within(s)' \ {h} = Within(s) \ {h}
  BY DEF Within, Inside, S
<1>6. /\ h \in Within(s) <=> Inside(h) /\ S(h) = s
      /\ h \in Within(s)' <=> Inside(h)' /\ S(h)' = s
  BY DEF Within
<1>7. Cardinality(Within(s)) = Cardinality(Within(s) \ {h}) + (IF h \in Within(s) THEN 1 ELSE 0)
  <2>1. Cardinality(Within(s) \ {h}) =
          IF h \in Within(s) THEN Cardinality(Within(s)) - 1 ELSE Cardinality(Within(s))
    BY <1>4, FS_RemoveElement
  <2>2. QED
    BY <1>4, <2>1
<1>8. Cardinality(Within(s)') = Cardinality(Within(s) \ {h}) + (IF h \in Within(s)' THEN 1 ELSE 0)
  <2>1. Cardinality(Within(s)' \ {h}) =
          IF h \in Within(s)' THEN Cardinality(Within(s)') - 1 ELSE Cardinality(Within(s)')
    BY <1>3, FS_RemoveElement
  <2>2. Cardinality(Within(s)' \ {h}) = Cardinality(Within(s) \ {h})
    BY <1>5
  <2>3. QED
    BY <1>3, <2>1, <2>2
<1>9. sem[s] + Cardinality(Within(s)) <= 1 + Cardinality(Conns)
  BY DEF Room
<1>10. CASE sem'[s] = 0
  BY <1>3, <1>4, <1>10
<1>11. CASE sem'[s] + (IF h \in Within(s)' THEN 1 ELSE 0) <=
            sem[s] + (IF h \in Within(s) THEN 1 ELSE 0)
  <2>1. Cardinality(Within(s) \ {h}) \in Int
    BY <1>4, FS_RemoveElement, FS_CardinalityType
  <2>2. QED
    BY <1>2, <1>3, <1>4, <1>7, <1>8, <1>9, <1>11, <2>1
<1>12. QED
  BY <1>6, <1>10, <1>11

(* No request, no key.                                                     *)
LEMMA NoKey == NoRequest.sem = 0 /\ 0 \notin sem_key
BY KeyAssumption DEF NoRequest, Capitals

(* A step in which only the place of one handler changes, and neither its  *)
(* semaphore nor whether it is inside.                                     *)
LEMMA PlaceMove ==
    ASSUME IInv, IInv', Room, Units, NEW h \in Conns,
           \A g \in Conns \ {h} : pc'[g] = pc[g] /\ req'[g] = req[g],
           UNCHANGED <<sem, semadj, clamped>>,
           Inside(h)' => Inside(h) /\ S(h)' = S(h),
           S(h)' = S(h) \/ semadj[h] = 0
    PROVE  Room' /\ Units'
<1>1. Room'
  BY RoomMove DEF IInv, TypeSem
<1>2. Units'
  BY UnitsMove
<1>3. QED
  BY <1>1, <1>2

(* The end of a handler gives back what the kernel owes for it.            *)
LEMMA ExitUnits ==
    ASSUME IInv, IInv', UInv, NEW h \in Conns, Exit(h)
    PROVE  UInv'
<1>1. /\ pc' = [pc EXCEPT ![h] = "idle"] /\ req' = [req EXCEPT ![h] = NoRequest]
      /\ semadj' = [semadj EXCEPT ![h] = 0]
      /\ pc \in [Conns -> PCs] /\ req \in [Conns -> Requests \cup {NoRequest}]
      /\ semadj \in [Conns -> Int] /\ sem \in [sem_key -> Nat]
  BY DEF Exit, Goto, IInv, TypeHandler, TypeSem
<1>2. /\ \A g \in Conns \ {h} : pc'[g] = pc[g] /\ req'[g] = req[g] /\ semadj'[g] = semadj[g]
      /\ pc'[h] = "idle" /\ req'[h] = NoRequest /\ semadj'[h] = 0
  BY <1>1
<1>3. Owing'
  BY <1>2 DEF UInv, Owing
<1>4. S(h)' \notin sem_key
  BY <1>2, NoKey DEF S
<1>5. semadj[h] \in Int /\ semadj[h] <= IF Inside(h) THEN 1 ELSE 0
  BY <1>1 DEF UInv, Owing, Inside, PCs
<1>6. Room'
  <2>1. ASSUME NEW s \in sem_key
        PROVE  sem'[s] = 0 \/ sem'[s] <= sem[s] + (IF Inside(h) /\ S(h) = s THEN 1 ELSE 0)
    <3>1. sem[s] \in Nat
      BY <1>1
    <3>2. \/ sem'[s] = sem[s]
          \/ s = S(h) /\ sem'[s] = sem[s] + semadj[h]
          \/ sem'[s] = 0
      BY ExitSem
    <3>3. QED
      BY <1>5, <3>1, <3>2
  <2>2. ASSUME NEW s \in sem_key
        PROVE  \/ sem'[s] = 0
               \/ sem'[s] + (IF Inside(h)' /\ S(h)' = s THEN 1 ELSE 0) <=
                  sem[s] + (IF Inside(h) /\ S(h) = s THEN 1 ELSE 0)
    <3>1. sem'[s] \in Nat
      BY DEF IInv, TypeSem
    <3>2. QED
      BY <1>4, <2>1, <3>1
  <2>3. QED
    BY <1>2, <2>2, RoomMove DEF UInv
<1>7. Units'
  <2>1. ~clamped' => ~clamped
    BY Zenon DEF Exit
  <2>2. ASSUME ~clamped', NEW s \in sem_key
        PROVE  sem'[s] = sem[s] + (IF S(h) = s THEN semadj[h] ELSE 0)
    <3>1. CASE req[h] = NoRequest
      <4>1. sem' = sem
        BY <3>1, Zenon DEF Exit
      <4>2. S(h) # s
        BY <3>1, NoKey DEF S
      <4>3. sem[s] \in Nat
        BY <1>1
      <4>4. QED
        BY <4>1, <4>2, <4>3
    <3>2. CASE req[h] # NoRequest
      <4>1. ~(sem[S(h)] + semadj[h] < 0) /\ sem' = [sem EXCEPT ![S(h)] = Max({0, @ + semadj[h]})]
        BY <2>2, <3>2, Zenon DEF Exit
      <4>2. S(h) \in sem_key
        BY <1>1, <3>2, RequestFields DEF S
      <4>3. sem[S(h)] \in Nat
        BY <1>1, <4>2
      <4>4. sem[S(h)] + semadj[h] \in Int /\ sem[S(h)] + semadj[h] >= 0
        BY <1>5, <4>1, <4>3
      <4>5. Max({0, sem[S(h)] + semadj[h]}) = sem[S(h)] + semadj[h]
        BY <4>4, MaxWithZero
      <4>6. sem' = [sem EXCEPT ![S(h)] = sem[S(h)] + semadj[h]]
        BY <4>1, <4>5
      <4>7. sem[s] \in Nat
        BY <1>1
      <4>8. QED
        BY <1>1, <4>2, <4>6, <4>7
    <3>3. QED
      BY <3>1, <3>2
  <2>3. ASSUME ~clamped', NEW s \in sem_key
        PROVE  sem'[s] + (IF S(h)' = s THEN semadj'[h] ELSE 0) =
               sem[s] + (IF S(h) = s THEN semadj[h] ELSE 0)
    <3>1. sem'[s] \in Nat
      BY DEF IInv, TypeSem
    <3>2. QED
      BY <1>4, <2>2, <2>3, <3>1
  <2>4. QED
    BY <1>2, <2>1, <2>3, UnitsMove DEF UInv
<1>8. QED
  BY <1>3, <1>6, <1>7 DEF UInv

(* Where the server starts, and starts again.                              *)
Fresh ==
    /\ sem = [s \in sem_key |-> 1] /\ pc = [h \in Conns |-> "idle"]
    /\ req = [h \in Conns |-> NoRequest] /\ semadj = [h \in Conns |-> 0]

LEMMA FreshUnits ==
    ASSUME Fresh
    PROVE  UInv
<1>1. Owing
  BY DEF Fresh, Owing
<1>2. ASSUME NEW s \in sem_key PROVE sem[s] = 1 /\ Within(s) = {} /\ Users(s) = {}
  BY NoKey DEF Fresh, Within, Users, Inside, S
<1>3. Room
  <2>1. Cardinality(Conns) \in Nat /\ Cardinality({}) = 0
    BY FS_EmptySet, ConnsAssumption, FS_CardinalityType
  <2>2. \A s \in sem_key : sem[s] + Cardinality(Within(s)) = 1 + 0
    BY <1>2, <2>1
  <2>3. QED
    BY <2>1, <2>2 DEF Room
<1>4. Units
  <2>1. semadj \in [Conns -> Int] /\ {} \in SUBSET Conns
    BY DEF Fresh
  <2>2. SumOver(semadj, {}) = 0
    BY <2>1, ConnsAssumption, SumFirst
  <2>3. QED
    BY <1>2, <2>2 DEF Units
<1>5. QED
  BY <1>1, <1>3, <1>4 DEF UInv

(* Every step keeps the units and the bound.                               *)
LEMMA UInvStep ==
    ASSUME IInv, IInv', UInv, [Next]_vars
    PROVE  UInv'
<1> USE DEF ipc, ghost
<1>t. /\ pc \in [Conns -> PCs] /\ req \in [Conns -> Requests \cup {NoRequest}]
      /\ semadj \in [Conns -> Int] /\ sem \in [sem_key -> Nat]
  BY DEF IInv, TypeHandler, TypeSem
<1>0. CASE UNCHANGED vars
  <2>1. UNCHANGED <<sem, pc, req, semadj, clamped>>
    BY <1>0 DEF vars
  <2>2. \A s : Within(s)' = Within(s) /\ Users(s)' = Users(s)
    BY <2>1 DEF Within, Users, Inside, S
  <2>3. Owing' /\ Room' /\ Units'
    BY <2>1, <2>2 DEF UInv, Owing, Room, Units
  <2>4. QED
    BY <2>3 DEF UInv
<1>1. ASSUME NEW h \in Conns,
             \/ Accept(h) \/ ReadFails(h)
             \/ getShmSegData(h) \/ LockIfFree(h) \/ setShmSegData(h) \/ writeInitFile(h)
             \/ \E sn \in SemNames, mn \in ShmNames : UnknownKey(h, sn, mn)
      PROVE UInv'
  <2>1. /\ \A g \in Conns \ {h} : pc'[g] = pc[g] /\ req'[g] = req[g]
        /\ UNCHANGED <<sem, req, semadj, clamped>>
        /\ <<pc[h], pc'[h]>> \in
             {<<"idle", "read">>, <<"read", "idle">>, <<"gread", "gunlock">>,
              <<"decide", "slock">>, <<"decide", "reply">>, <<"swrite", "sunlock">>,
              <<"file", "reply">>, <<"read", "reply">>}
    BY <1>1, <1>t DEF Accept, ReadFails, UnknownKey, getShmSegData, LockIfFree,
       setShmSegData, writeInitFile, Goto
  <2>2. Owing'
    BY <2>1 DEF UInv, Owing
  <2>3. (Inside(h)' => Inside(h)) /\ S(h)' = S(h)
    BY <2>1 DEF Inside, S
  <2>4. Room' /\ Units'
    BY <2>1, <2>3, PlaceMove DEF UInv
  <2>5. QED
    BY <2>2, <2>4 DEF UInv
<1>2. ASSUME NEW h \in Conns, NEW c \in Clients, NEW sn \in SemNames, NEW mn \in ShmNames,
             NEW f \in Flags, Request(h, c, sn, mn, f)
      PROVE UInv'
  <2>0. PICK r \in Requests : Asks(h, c, r, f)
    BY <1>2, RequestAsks
  <2>1. /\ \A g \in Conns \ {h} : pc'[g] = pc[g] /\ req'[g] = req[g]
        /\ UNCHANGED <<sem, semadj, clamped>>
        /\ pc[h] = "read" /\ pc'[h] \in {"glock", "slock", "reply"}
    BY <2>0, <1>t DEF Asks
  <2>2. semadj[h] = 0
    BY <2>1 DEF UInv, Owing
  <2>3. Owing'
    BY <2>1, <2>2 DEF UInv, Owing
  <2>4. ~Inside(h)'
    BY <2>1 DEF Inside
  <2>5. Room' /\ Units'
    BY <2>1, <2>2, <2>4, PlaceMove DEF UInv
  <2>6. QED
    BY <2>3, <2>5 DEF UInv
<1>3. ASSUME NEW h \in Conns, sem_lock(h) PROVE UInv'
  <2>1. /\ \A g \in Conns \ {h} : pc'[g] = pc[g] /\ req'[g] = req[g] /\ semadj'[g] = semadj[g]
        /\ UNCHANGED <<req, clamped>>
        /\ \/ pc[h] = "glock" /\ pc'[h] = "gread"
           \/ pc[h] = "slock" /\ pc'[h] = "swrite"
        /\ sem' = [sem EXCEPT ![S(h)] = sem[S(h)] - 1]
        /\ semadj'[h] = semadj[h] + 1
    BY <1>3, <1>t DEF sem_lock, Goto
  <2>2. S(h) \in sem_key
    BY <2>1, WorkingRequest DEF Working, Testing, Setting
  <2>3. Owing'
    BY <2>1 DEF UInv, Owing
  <2>4. ~Inside(h) /\ Inside(h)' /\ S(h)' = S(h)
    BY <2>1 DEF Inside, S
  <2>5. ASSUME NEW s \in sem_key PROVE sem[s] \in Nat /\ sem'[s] = sem[s] - (IF S(h) = s THEN 1 ELSE 0)
    BY <2>1, <2>2, <1>t
  <2>6. Room'
    <3>1. \A s \in sem_key :
             sem'[s] + (IF Inside(h)' /\ S(h)' = s THEN 1 ELSE 0) <=
             sem[s] + (IF Inside(h) /\ S(h) = s THEN 1 ELSE 0)
      BY <2>4, <2>5
    <3>2. QED
      BY <2>1, <3>1, RoomMove DEF UInv
  <2>7. Units'
    <3>0. semadj[h] \in Int
      BY <1>t
    <3>1. \A s \in sem_key :
             sem'[s] + (IF S(h)' = s THEN semadj'[h] ELSE 0) =
             sem[s] + (IF S(h) = s THEN semadj[h] ELSE 0)
      BY <2>1, <2>4, <2>5, <3>0
    <3>2. QED
      BY <2>1, <3>1, UnitsMove DEF UInv
  <2>8. QED
    BY <2>3, <2>6, <2>7 DEF UInv
<1>4. ASSUME NEW h \in Conns, sem_lockInterrupted(h) PROVE UInv'
  <2>1. /\ \A g \in Conns \ {h} : pc'[g] = pc[g] /\ req'[g] = req[g] /\ semadj'[g] = semadj[g]
        /\ UNCHANGED <<sem, req, semadj, clamped>>
        /\ \/ pc[h] = "glock" /\ pc'[h] = "gread"
           \/ pc[h] = "slock" /\ pc'[h] = "swrite"
        /\ sem'[S(h)] = 0
    BY <1>4, <1>t DEF sem_lockInterrupted, Goto
  <2>2. Owing'
    BY <2>1 DEF UInv, Owing
  <2>3. Room'
    <3>1. S(h)' = S(h)
      BY <2>1 DEF S
    <3>2. \A s \in sem_key :
             \/ sem'[s] = 0
             \/ sem'[s] + (IF Inside(h)' /\ S(h)' = s THEN 1 ELSE 0) <=
                sem[s] + (IF Inside(h) /\ S(h) = s THEN 1 ELSE 0)
      BY <2>1, <3>1, <1>t
    <3>3. QED
      BY <2>1, <3>2, RoomMove DEF UInv
  <2>4. Units'
    BY <2>1, UnitsMove DEF UInv, S
  <2>5. QED
    BY <2>2, <2>3, <2>4 DEF UInv
<1>5. ASSUME NEW h \in Conns, sem_unlock(h) PROVE UInv'
  <2>1. /\ \A g \in Conns \ {h} : pc'[g] = pc[g] /\ req'[g] = req[g] /\ semadj'[g] = semadj[g]
        /\ UNCHANGED <<req, clamped>>
        /\ \/ pc[h] = "gunlock" /\ pc'[h] = "decide"
           \/ pc[h] = "sunlock" /\ pc'[h] = "file"
        /\ sem' = [sem EXCEPT ![S(h)] = sem[S(h)] + 1]
        /\ semadj'[h] = semadj[h] - 1
    BY <1>5, <1>t DEF sem_unlock, Goto
  <2>2. S(h) \in sem_key
    BY <2>1, WorkingRequest DEF Working, Testing, Setting
  <2>3. Owing'
    BY <2>1 DEF UInv, Owing
  <2>4. Inside(h) /\ ~Inside(h)' /\ S(h)' = S(h)
    BY <2>1 DEF Inside, S
  <2>5. ASSUME NEW s \in sem_key PROVE sem[s] \in Nat /\ sem'[s] = sem[s] + (IF S(h) = s THEN 1 ELSE 0)
    BY <2>1, <2>2, <1>t
  <2>6. Room'
    <3>1. \A s \in sem_key :
             sem'[s] + (IF Inside(h)' /\ S(h)' = s THEN 1 ELSE 0) <=
             sem[s] + (IF Inside(h) /\ S(h) = s THEN 1 ELSE 0)
      BY <2>4, <2>5
    <3>2. QED
      BY <2>1, <3>1, RoomMove DEF UInv
  <2>7. Units'
    <3>0. semadj[h] \in Int
      BY <1>t
    <3>1. \A s \in sem_key :
             sem'[s] + (IF S(h)' = s THEN semadj'[h] ELSE 0) =
             sem[s] + (IF S(h) = s THEN semadj[h] ELSE 0)
      BY <2>1, <2>4, <2>5, <3>0
    <3>2. QED
      BY <2>1, <3>1, UnitsMove DEF UInv
  <2>8. QED
    BY <2>3, <2>6, <2>7 DEF UInv
<1>6. ASSUME NEW h \in Conns, Reply(h) \/ Die(h) PROVE UInv'
  BY <1>6, ExitUnits DEF Reply, Die
<1>7. ASSUME Restart PROVE UInv'
  <2>1. Fresh'
    BY <1>7 DEF Restart, Fresh
  <2>2. QED
    BY <2>1, FreshUnits, PTL
<1>8. QED
  BY <1>0, <1>1, <1>2, <1>3, <1>4, <1>5, <1>6, <1>7 DEF Next, Step

(* What is only remembered.                                                *)
Marks ==
    /\ stale \in SUBSET shm_key
    /\ interrupted \in BOOLEAN /\ clamped \in BOOLEAN /\ disturbed \in BOOLEAN

LEMMA MarksStep ==
    ASSUME IInv, Marks, [Next]_vars
    PROVE  Marks'
<1> USE DEF Marks, ipc, ghost
<1>1. ASSUME NEW h \in Conns, NEW c \in Clients, NEW sn \in SemNames, NEW mn \in ShmNames,
             NEW f \in Flags, Request(h, c, sn, mn, f)
      PROVE Marks'
  BY <1>1 DEF Request
<1>2. ASSUME NEW h \in Conns, setShmSegData(h) PROVE Marks'
  <2>1. M(h) \in shm_key
    BY <1>2, WorkingRequest DEF setShmSegData, Working, Testing, Setting
  <2>2. QED
    BY <1>2, <2>1 DEF setShmSegData
<1>3. ASSUME NEW h \in Conns, Reply(h) \/ Die(h) PROVE Marks'
  <2>1. clamped' \in BOOLEAN
    BY <1>3 DEF Reply, Die, Exit
  <2>2. QED
    BY <1>3, <2>1 DEF Reply, Die
<1>4. ASSUME Restart PROVE Marks'
  BY <1>4 DEF Restart
<1>5. ASSUME NEW h \in Conns,
             \/ Accept(h) \/ ReadFails(h) \/ sem_lock(h) \/ sem_lockInterrupted(h)
             \/ sem_unlock(h) \/ getShmSegData(h) \/ LockIfFree(h) \/ writeInitFile(h)
             \/ \E sn \in SemNames, mn \in ShmNames : UnknownKey(h, sn, mn)
      PROVE Marks'
  BY <1>5 DEF Accept, ReadFails, sem_lock, sem_lockInterrupted, sem_unlock, getShmSegData,
     LockIfFree, writeInitFile, UnknownKey
<1>6. CASE UNCHANGED vars
  BY <1>6 DEF vars
<1>7. QED
  BY <1>1, <1>2, <1>3, <1>4, <1>5, <1>6 DEF Next, Step

(* SEM_UNDO keeps the units of the semaphores, however many handlers there *)
(* are, are interrupted and are killed, and no variable leaves its type:   *)
(* above all a semaphore never exceeds the number of handlers by more      *)
(* than one, and the kernel never owes more than two units.                *)
THEOREM UndoRightAlways == Spec => []UndoRight
<1>1. Init => UInv
  <2>1. Init => Fresh
    BY DEF Init, Fresh
  <2>2. QED
    BY <2>1, FreshUnits
<1>2. Spec => [](IInv /\ UInv)
  <2>1. IInv /\ IInv' /\ UInv /\ [Next]_vars => UInv'
    BY UInvStep
  <2>2. QED
    BY <1>1, <2>1, Inductive, PTL DEF Spec
<1>3. Spec => []Marks
  <2>1. Init => Marks
    BY DEF Init, Marks
  <2>2. IInv /\ Marks /\ [Next]_vars => Marks'
    BY MarksStep
  <2>3. QED
    BY <2>1, <2>2, Inductive, PTL DEF Spec
<1>4. ASSUME IInv, UInv, Marks PROVE UndoRight
  <2>1. Cardinality(Conns) \in Nat
    BY ConnsAssumption, FS_CardinalityType
  <2>2. sem \in [sem_key -> 0 .. 1 + Cardinality(Conns)]
    <3>1. ASSUME NEW s \in sem_key PROVE sem[s] \in 0 .. 1 + Cardinality(Conns)
      <4>1. sem[s] \in Nat /\ Cardinality(Within(s)) \in Nat
        BY <1>4, WithinCount DEF IInv, TypeSem
      <4>2. sem[s] + Cardinality(Within(s)) <= 1 + Cardinality(Conns)
        BY <1>4 DEF UInv, Room
      <4>3. QED
        BY <2>1, <4>1, <4>2
    <3>2. QED
      BY <1>4, <3>1 DEF IInv, TypeSem
  <2>3. semadj \in [Conns -> -2 .. 1]
    <3>1. ASSUME NEW h \in Conns PROVE semadj[h] \in -2 .. 1
      BY <1>4 DEF UInv, Owing, IInv, TypeHandler, PCs
    <3>2. QED
      BY <1>4, <3>1 DEF IInv, TypeHandler
  <2>4. TypeOK
    BY <1>4, <2>2, <2>3 DEF TypeOK, IInv, TypeHandler, TypeShared, Marks
  <2>5. UnitsConserved
    BY <1>4 DEF UInv, Units, Users, UnitsConserved
  <2>6. QED
    BY <2>4, <2>5 DEF UndoRight
<1>5. QED
  BY <1>2, <1>3, <1>4, Inductive, PTL
=============================================================================
