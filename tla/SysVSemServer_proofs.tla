------------------------ MODULE SysVSemServer_proofs ------------------------
(***************************************************************************)
(* Proofs about the System V semaphore server, for every set of clients,   *)
(* connections, names and keys.  The type invariant needs nothing else.    *)
(* Mutual exclusion rests on the invariant Core, which follows the unit of *)
(* each semaphore: it is in the semaphore, with a client that was told so, *)
(* or with exactly one handler.  What initialize.ini says rests on where   *)
(* the records of a key are, and the run count of the bypass daemon on how *)
(* many handlers it has let in.                                            *)
(***************************************************************************)
EXTENDS MC_SharedData, TLAPS, SequenceTheorems, FiniteSetTheorems

Active == {"get", "set", "scan", "seek", "append", "op", "mfind", "mwrite"}

(* A handler at work knows its request.                                    *)
ReqOK == \A h \in Conns : pc[h] \in Active => req[h] \in Requests

(* The parts of TypeOK, kept apart for the provers.                        *)
TypeKernel == sem \in [Keys -> NoSem .. SEMVMX] /\ owner \in [Keys -> Clients \cup {None}]
TypeFile == file \in Seq(Records) /\ garbled \in BOOLEAN
TypePc == pc \in [Conns -> PCs]
TypeReq == req \in [Conns -> Requests \cup {NoRequest}]
TypePos == pos \in [Conns -> Nat]
TypeRes == res \in [Conns -> Answers]
TypeClient == has \in [Clients -> SUBSET Keys] /\ owes \in [Clients -> SUBSET Keys]
TypeGhost == lost \in SUBSET Keys /\ raced \in BOOLEAN /\ disturbed \in BOOLEAN

Typed == TypeKernel /\ TypeFile /\ TypePc /\ TypeReq /\ TypePos /\ TypeRes
         /\ TypeClient /\ TypeGhost /\ ReqOK

-----------------------------------------------------------------------------
(* The parts together are TypeOK.                                          *)
LEMMA TypedIsTypeOK == Typed => TypeOK
BY DEF Typed, TypeOK, TypeKernel, TypeFile, TypePc, TypeReq, TypePos, TypeRes,
       TypeClient, TypeGhost

(* What a request consists of.                                             *)
LEMMA RequestFields ==
    ASSUME NEW r \in Requests
    PROVE  r.client \in Clients /\ r.client # None /\ r.key \in Keys /\ r.flag \in Flags
BY NoneAssumption DEF Requests

(* Replacing a record leaves a sequence of records.                        *)
LEMMA ReplaceRecord ==
    ASSUME NEW s \in Seq(Records), NEW i, NEW r \in Records
    PROVE  [s EXCEPT ![i] = r] \in Seq(Records)
<1>1. CASE i \in 1 .. Len(s)
  BY <1>1, ExceptSeq
<1>2. CASE i \notin 1 .. Len(s)
  <2>1. DOMAIN s = 1 .. Len(s)
    OBVIOUS
  <2>2. [s EXCEPT ![i] = r] = s
    BY <1>2, <2>1
  <2>3. QED
    BY <2>2
<1>3. QED
  BY <1>1, <1>2

(* Changing the status of a record leaves a sequence of records.           *)
LEMMA RewriteStatus ==
    ASSUME NEW s \in Seq(Records), NEW i, NEW v \in {0, 1}
    PROVE  [s EXCEPT ![i].status = v] \in Seq(Records)
<1>1. CASE i \in 1 .. Len(s)
  <2>1. s[i] \in Records
    BY <1>1
  <2>2. [s[i] EXCEPT !.status = v] \in Records
    BY <2>1 DEF Records
  <2>3. QED
    BY <2>2, ReplaceRecord
<1>2. CASE i \notin 1 .. Len(s)
  <2>1. [s EXCEPT ![i].status = v] = s
    BY <1>2
  <2>2. QED
    BY <2>1
<1>3. QED
  BY <1>1, <1>2

-----------------------------------------------------------------------------
(* A handler that ends leaves well-typed locals behind.                    *)
LEMMA ExitTyped ==
    ASSUME Typed, NEW h \in Conns, Exit(h)
    PROVE  (TypePc /\ TypeReq /\ TypePos /\ TypeRes /\ ReqOK)'
<1> USE DEF Typed, Exit
<1>1. TypePc'
  BY DEF TypePc, PCs
<1>2. TypeReq'
  BY DEF TypeReq
<1>3. TypePos'
  BY DEF TypePos
<1>4. TypeRes'
  BY DEF TypeRes, Answers
<1>5. ReqOK'
  BY DEF ReqOK, Active, TypePc, TypeReq
<1>6. QED
  BY <1>1, <1>2, <1>3, <1>4, <1>5

(* The key, client and flag of a handler at work are of their types.       *)
LEMMA AtWork ==
    ASSUME Typed, NEW h \in Conns, pc[h] \in Active
    PROVE  /\ req[h] \in Requests
           /\ KeyOf(h) \in Keys
           /\ req[h].client \in Clients
           /\ req[h].client # None
           /\ req[h].flag \in Flags
BY RequestFields DEF Typed, ReqOK, KeyOf

(* Likewise for a handler that took the semaphore.                         *)
LEMMA GrantedRequest ==
    ASSUME Typed, NEW h \in Conns, Granted(h)
    PROVE  /\ req[h] \in Requests
           /\ KeyOf(h) \in Keys
           /\ req[h].client \in Clients
           /\ req[h].client # None
<1>1. req[h] # NoRequest
  BY DEF Granted, NoRequest
<1>2. req[h] \in Requests
  BY <1>1 DEF Typed, TypeReq
<1>3. QED
  BY <1>2, RequestFields DEF KeyOf

(* Whichever way a handler carries the unit, it knows its request.         *)
LEMMA CarrierRequest ==
    ASSUME Typed, NEW h \in Conns, Carries(h)
    PROVE  /\ req[h] \in Requests
           /\ KeyOf(h) \in Keys
           /\ req[h].client \in Clients
           /\ req[h].client # None
BY AtWork, GrantedRequest DEF Carries, UnlockPending, Active

(* A step that only moves the handler on, among the states where it knows  *)
(* its request or needs none, keeps everything typed.                      *)
LEMMA MoveTyped ==
    ASSUME Typed, NEW h \in Conns, NEW q \in PCs, UNCHANGED req,
           q \in Active => req[h] \in Requests,
           pc' = [pc EXCEPT ![h] = q]
    PROVE  (TypePc /\ TypeReq /\ ReqOK)'
<1>1. TypePc'
  BY DEF Typed, TypePc
<1>2. TypeReq'
  BY DEF Typed, TypeReq
<1>3. ReqOK'
  BY DEF Typed, ReqOK, TypePc
<1>4. QED
  BY <1>1, <1>2, <1>3

(* Every step keeps the state typed.                                       *)
LEMMA TypedStep ==
    ASSUME Typed, [Next]_vars
    PROVE  Typed'
<1> USE DEF kernel, disk, client, ghost
<1>0. CASE UNCHANGED vars
  BY <1>0 DEF vars, Typed, TypeKernel, TypeFile, TypePc, TypeReq, TypePos,
              TypeRes, TypeClient, TypeGhost, ReqOK
<1>1. ASSUME NEW h \in Conns, Accept(h) PROVE Typed'
  <2>1. (TypePc /\ TypeReq /\ ReqOK)'
    BY <1>1, MoveTyped DEF Accept, PCs, Active
  <2>2. QED
    BY <1>1, <2>1 DEF Accept, Typed, TypeKernel, TypeFile, TypePos, TypeRes,
                      TypeClient, TypeGhost
<1>2. ASSUME NEW h \in Conns, ReadFails(h) PROVE Typed'
  <2>1. (TypePc /\ TypeReq /\ ReqOK)'
    BY <1>2, MoveTyped DEF ReadFails, PCs, Active
  <2>2. QED
    BY <1>2, <2>1 DEF ReadFails, Typed, TypeKernel, TypeFile, TypePos, TypeRes,
                      TypeClient, TypeGhost
<1>3. ASSUME NEW h \in Conns, NEW c \in Clients, NEW n \in Names, NEW f \in Flags,
             Request(h, c, n, f)
      PROVE Typed'
  <2>1. PICK k \in changeCharToNumber(n, Keys) : Request(h, c, n, f)!2!(k)
    BY <1>3 DEF Request
  <2>2. UNCHANGED <<sem, file, garbled, pos, res, owner, lost, raced>>
    BY <1>3 DEF Request
  <2>3. k \in Keys \cup {0}
    BY NameKeysAssumption
  <2>4. CASE k = 0
    <3>1. (TypePc /\ TypeReq /\ ReqOK)'
      BY <2>1, <2>4 DEF Typed, TypePc, TypeReq, ReqOK, PCs, Active
    <3>2. UNCHANGED <<has, owes, disturbed>>
      BY <2>1, <2>4
    <3>3. QED
      BY <3>1, <3>2, <2>2 DEF Typed, TypeKernel, TypeFile, TypePos, TypeRes,
                              TypeClient, TypeGhost
  <2>5. CASE k # 0
    <3>1. k \in Keys
      BY <2>3, <2>5
    <3>2. [client |-> c, key |-> k, flag |-> f] \in Requests
      BY <3>1 DEF Requests
    <3>3. (TypePc /\ TypeReq /\ ReqOK)'
      BY <2>1, <2>5, <3>2 DEF Typed, TypePc, TypeReq, ReqOK, PCs, Active
    <3>4. TypeClient'
      BY <2>1, <2>5, <3>1 DEF ClientSends, Typed, TypeClient
    <3>5. disturbed' \in BOOLEAN
      BY <2>1, <2>5
    <3>6. QED
      BY <3>3, <3>4, <3>5, <2>2 DEF Typed, TypeKernel, TypeFile, TypePos, TypeRes,
                                    TypeGhost
  <2>6. QED
    BY <2>4, <2>5
<1>4. ASSUME NEW h \in Conns, SemGet(h) PROVE Typed'
  <2>1. req[h] \in Requests /\ KeyOf(h) \in Keys /\ req[h].client \in Clients
    BY <1>4, AtWork DEF SemGet, Active
  <2>2. PICK q \in PCs : pc' = [pc EXCEPT ![h] = q]
    BY <1>4 DEF SemGet, PCs
  <2>3. (TypePc /\ TypeReq /\ ReqOK)'
    BY <1>4, <2>1, <2>2, MoveTyped DEF SemGet
  <2>4. TypeKernel'
    BY SemvmxAssumption, <1>4, <2>1 DEF SemGet, Typed, TypeKernel, NoSem
  <2>5. QED
    BY <1>4, <2>3, <2>4 DEF SemGet, Typed, TypeFile, TypePos, TypeRes, TypeClient, TypeGhost
<1>5. ASSUME NEW h \in Conns, InitIpcFails(h) PROVE Typed'
  <2>1. req[h] \in Requests /\ KeyOf(h) \in Keys /\ req[h].client \in Clients
    BY <1>5, AtWork DEF InitIpcFails, Active
  <2>2. PICK q \in PCs : pc' = [pc EXCEPT ![h] = q]
    BY <1>5 DEF InitIpcFails, PCs
  <2>3. (TypePc /\ TypeReq /\ ReqOK)'
    BY <1>5, <2>1, <2>2, MoveTyped DEF InitIpcFails
  <2>4. TypeRes'
    BY <1>5, <2>1 DEF InitIpcFails, Typed, TypeRes, Answers
  <2>5. TypeGhost'
    BY <1>5, <2>1 DEF InitIpcFails, Typed, TypeGhost
  <2>6. QED
    BY <1>5, <2>3, <2>4, <2>5 DEF InitIpcFails, Typed, TypeKernel, TypeFile, TypePos, TypeClient
<1>6. ASSUME NEW h \in Conns, SetVal(h) PROVE Typed'
  <2>1. req[h] \in Requests /\ KeyOf(h) \in Keys /\ req[h].client \in Clients
    BY <1>6, AtWork DEF SetVal, Active
  <2>2. PICK q \in PCs : pc' = [pc EXCEPT ![h] = q]
    BY <1>6 DEF SetVal, PCs
  <2>3. (TypePc /\ TypeReq /\ ReqOK)'
    BY <1>6, <2>1, <2>2, MoveTyped DEF SetVal
  <2>4. TypeKernel'
    BY SemvmxAssumption, <1>6, <2>1 DEF SetVal, Typed, TypeKernel, NoSem
  <2>5. QED
    BY <1>6, <2>3, <2>4 DEF SetVal, Typed, TypeFile, TypePos, TypeRes, TypeClient, TypeGhost
<1>7. ASSUME NEW h \in Conns, ScanInitFile(h) PROVE Typed'
  <2>1. req[h] \in Requests /\ KeyOf(h) \in Keys /\ req[h].client \in Clients
    BY <1>7, AtWork DEF ScanInitFile, Active
  <2>2. PICK q \in PCs : pc' = [pc EXCEPT ![h] = q]
    BY <1>7 DEF ScanInitFile, PCs
  <2>3. (TypePc /\ TypeReq /\ ReqOK)'
    BY <1>7, <2>1, <2>2, MoveTyped DEF ScanInitFile
  <2>4. QED
    BY <1>7, <2>3 DEF ScanInitFile, Typed, TypeKernel, TypeFile, TypePos, TypeRes, TypeClient, TypeGhost
<1>8. ASSUME NEW h \in Conns, SeekEnd(h) PROVE Typed'
  <2>1. req[h] \in Requests /\ KeyOf(h) \in Keys /\ req[h].client \in Clients
    BY <1>8, AtWork DEF SeekEnd, Active
  <2>2. PICK q \in PCs : pc' = [pc EXCEPT ![h] = q]
    BY <1>8 DEF SeekEnd, PCs
  <2>3. (TypePc /\ TypeReq /\ ReqOK)'
    BY <1>8, <2>1, <2>2, MoveTyped DEF SeekEnd
  <2>4. TypePos'
    BY <1>8, <2>1 DEF SeekEnd, Typed, TypePos, TypeFile
  <2>5. QED
    BY <1>8, <2>3, <2>4 DEF SeekEnd, Typed, TypeKernel, TypeFile, TypeRes, TypeClient, TypeGhost
<1>9. ASSUME NEW h \in Conns, AppendRecord(h) PROVE Typed'
  <2>1. req[h] \in Requests /\ KeyOf(h) \in Keys /\ req[h].client \in Clients
    BY <1>9, AtWork DEF AppendRecord, Active
  <2>2. PICK q \in PCs : pc' = [pc EXCEPT ![h] = q]
    BY <1>9 DEF AppendRecord, PCs
  <2>3. (TypePc /\ TypeReq /\ ReqOK)'
    BY <1>9, <2>1, <2>2, MoveTyped DEF AppendRecord
  <2>4. TypePos' /\ TypeFile'
    <3>1. [key |-> KeyOf(h), status |-> 0] \in Records
      BY <2>1 DEF Records
    <3>2. TypeFile'
      <4> DEFINE rec == [key |-> KeyOf(h), status |-> 0]
      <4>1. file \in Seq(Records) /\ garbled' \in BOOLEAN
        BY <1>9 DEF AppendRecord, Typed, TypeFile
      <4>2. \/ file' = Append(file, rec)
            \/ file' = [file EXCEPT ![pos[h]] = rec]
        BY <1>9 DEF AppendRecord
      <4>3. rec \in Records
        BY <3>1
      <4> HIDE DEF rec
      <4>4. Append(file, rec) \in Seq(Records)
        BY <4>1, <4>3
      <4>5. [file EXCEPT ![pos[h]] = rec] \in Seq(Records)
        BY <4>1, <4>3, ReplaceRecord
      <4>6. QED
        BY <4>1, <4>2, <4>4, <4>5 DEF TypeFile
    <3>3. TypePos'
      BY <1>9 DEF AppendRecord, Typed, TypePos
    <3>4. QED
      BY <3>2, <3>3
  <2>5. QED
    BY <1>9, <2>3, <2>4 DEF AppendRecord, Typed, TypeKernel, TypeRes, TypeClient, TypeGhost
<1>10. ASSUME NEW h \in Conns, SetLockSemaphore(h) PROVE Typed'
  <2>1. req[h] \in Requests /\ KeyOf(h) \in Keys /\ req[h].client \in Clients
    BY <1>10, AtWork DEF SetLockSemaphore, Active
  <2>2. PICK q \in PCs : pc' = [pc EXCEPT ![h] = q]
    BY <1>10 DEF SetLockSemaphore, PCs
  <2>3. (TypePc /\ TypeReq /\ ReqOK)'
    BY <1>10, <2>1, <2>2, MoveTyped DEF SetLockSemaphore
  <2>4. TypeKernel' /\ TypeRes'
    <3>1. TypeRes'
      BY <1>10 DEF SetLockSemaphore, Typed, TypeRes, Answers
    <3>2. TypeKernel'
      BY SemvmxAssumption, <1>10, <2>1 DEF SetLockSemaphore, Typed, TypeKernel, NoSem
    <3>3. QED
      BY <3>1, <3>2
  <2>5. QED
    BY <1>10, <2>3, <2>4 DEF SetLockSemaphore, Typed, TypeFile, TypePos, TypeClient, TypeGhost
<1>11. ASSUME NEW h \in Conns, SetUnLockSemaphore(h) PROVE Typed'
  <2>1. req[h] \in Requests /\ KeyOf(h) \in Keys /\ req[h].client \in Clients
    BY <1>11, AtWork DEF SetUnLockSemaphore, Active
  <2>2. PICK q \in PCs : pc' = [pc EXCEPT ![h] = q]
    BY <1>11 DEF SetUnLockSemaphore, PCs
  <2>3. (TypePc /\ TypeReq /\ ReqOK)'
    BY <1>11, <2>1, <2>2, MoveTyped DEF SetUnLockSemaphore
  <2>4. TypeKernel' /\ TypeRes'
    <3>1. TypeRes'
      BY <1>11 DEF SetUnLockSemaphore, Typed, TypeRes, Answers
    <3>2. TypeKernel'
      BY SemvmxAssumption, <1>11, <2>1 DEF SetUnLockSemaphore, Typed, TypeKernel, NoSem
    <3>3. QED
      BY <3>1, <3>2
  <2>5. QED
    BY <1>11, <2>3, <2>4 DEF SetUnLockSemaphore, Typed, TypeFile, TypePos, TypeClient, TypeGhost
<1>12. ASSUME NEW h \in Conns, BadFlag(h) PROVE Typed'
  <2>1. req[h] \in Requests /\ KeyOf(h) \in Keys /\ req[h].client \in Clients
    BY <1>12, AtWork DEF BadFlag, Active
  <2>2. PICK q \in PCs : pc' = [pc EXCEPT ![h] = q]
    BY <1>12 DEF BadFlag, PCs
  <2>3. (TypePc /\ TypeReq /\ ReqOK)'
    BY <1>12, <2>1, <2>2, MoveTyped DEF BadFlag
  <2>4. TypeRes'
    BY <1>12, <2>1 DEF BadFlag, Typed, TypeRes, Answers
  <2>5. QED
    BY <1>12, <2>3, <2>4 DEF BadFlag, Typed, TypeKernel, TypeFile, TypePos, TypeClient, TypeGhost
<1>13. ASSUME NEW h \in Conns, MarkFind(h) PROVE Typed'
  <2>1. req[h] \in Requests /\ KeyOf(h) \in Keys /\ req[h].client \in Clients
    BY <1>13, AtWork DEF MarkFind, Active
  <2>2. PICK q \in PCs : pc' = [pc EXCEPT ![h] = q]
    BY <1>13 DEF MarkFind, PCs
  <2>3. (TypePc /\ TypeReq /\ ReqOK)'
    BY <1>13, <2>1, <2>2, MoveTyped DEF MarkFind
  <2>4. TypePos'
    <3>1. RecordsOf(KeyOf(h)) \subseteq Nat
      BY DEF RecordsOf, Typed, TypeFile
    <3>2. QED
      BY <1>13, <3>1 DEF MarkFind, Typed, TypePos
  <2>5. QED
    BY <1>13, <2>3, <2>4 DEF MarkFind, Typed, TypeKernel, TypeFile, TypeRes, TypeClient, TypeGhost
<1>14. ASSUME NEW h \in Conns, MarkWrite(h) PROVE Typed'
  <2>1. req[h] \in Requests /\ KeyOf(h) \in Keys /\ req[h].client \in Clients
    BY <1>14, AtWork DEF MarkWrite, Active
  <2>2. PICK q \in PCs : pc' = [pc EXCEPT ![h] = q]
    BY <1>14 DEF MarkWrite, PCs
  <2>3. (TypePc /\ TypeReq /\ ReqOK)'
    BY <1>14, <2>1, <2>2, MoveTyped DEF MarkWrite
  <2>4. TypePos' /\ TypeFile'
    <3>1. TypeFile'
      <4> DEFINE v == IF req[h].flag = "1" THEN 1 ELSE 0
      <4>1. file \in Seq(Records) /\ garbled' \in BOOLEAN
        BY <1>14 DEF MarkWrite, Typed, TypeFile
      <4>2. file' = file \/ file' = [file EXCEPT ![pos[h]].status = v]
        BY <1>14 DEF MarkWrite
      <4>3. v \in {0, 1}
        OBVIOUS
      <4> HIDE DEF v
      <4>4. [file EXCEPT ![pos[h]].status = v] \in Seq(Records)
        BY <4>1, <4>3, RewriteStatus
      <4>5. QED
        BY <4>1, <4>2, <4>4 DEF TypeFile
    <3>2. TypePos'
      BY <1>14 DEF MarkWrite, Typed, TypePos
    <3>3. QED
      BY <3>1, <3>2
  <2>5. QED
    BY <1>14, <2>3, <2>4 DEF MarkWrite, Typed, TypeKernel, TypeRes, TypeClient, TypeGhost
<1>15. ASSUME NEW h \in Conns, Reply(h) PROVE Typed'
  <2>1. (TypePc /\ TypeReq /\ TypePos /\ TypeRes /\ ReqOK)'
    BY <1>15, ExitTyped DEF Reply
  <2>2. TypeClient'
    <3>1. Granted(h) => req[h].client \in Clients /\ KeyOf(h) \in Keys
      BY GrantedRequest
    <3>2. has' \in [Clients -> SUBSET Keys]
      BY <1>15, <3>1 DEF Reply, Typed, TypeClient
    <3>3. owes' \in [Clients -> SUBSET Keys]
      BY <1>15 DEF Reply, Typed, TypeClient
    <3>4. QED
      BY <3>2, <3>3 DEF TypeClient
  <2>3. QED
    BY <1>15, <2>1, <2>2 DEF Reply, Typed, TypeKernel, TypeFile, TypeGhost
<1>16. ASSUME NEW h \in Conns, ReplyLost(h) PROVE Typed'
  <2>1. (TypePc /\ TypeReq /\ TypePos /\ TypeRes /\ ReqOK)'
    BY <1>16, ExitTyped DEF ReplyLost
  <2>2. TypeGhost'
    <3>1. Granted(h) => KeyOf(h) \in Keys
      BY GrantedRequest
    <3>2. QED
      BY <1>16, <3>1 DEF ReplyLost, Typed, TypeGhost
  <2>3. QED
    BY <1>16, <2>1, <2>2 DEF ReplyLost, Typed, TypeKernel, TypeFile, TypeClient
<1>17. ASSUME NEW h \in Conns, Die(h) PROVE Typed'
  <2>1. (TypePc /\ TypeReq /\ TypePos /\ TypeRes /\ ReqOK)'
    BY <1>17, ExitTyped DEF Die
  <2>2. TypeGhost'
    <3>1. Carries(h) => KeyOf(h) \in Keys
      BY CarrierRequest
    <3>2. QED
      BY <1>17, <3>1 DEF Die, Typed, TypeGhost
  <2>3. QED
    BY <1>17, <2>1, <2>2 DEF Die, Typed, TypeKernel, TypeFile, TypeClient
<1>18. QED
  BY <1>0, <1>1, <1>2, <1>3, <1>4, <1>5, <1>6, <1>7, <1>8, <1>9, <1>10, <1>11,
     <1>12, <1>13, <1>14, <1>15, <1>16, <1>17 DEF Next, Step

(* Initially the state is typed.                                           *)
LEMMA TypedInit == ASSUME Init PROVE Typed
<1>1. TypeKernel
  <2>1. NoSem \in NoSem .. SEMVMX
    BY SemvmxAssumption DEF NoSem
  <2>2. QED
    BY <2>1 DEF Init, TypeKernel
<1>2. TypeFile
  BY EmptySeq DEF Init, TypeFile
<1>3. TypeClient
  BY DEF Init, TypeClient
<1>4. TypeGhost
  BY DEF Init, TypeGhost
<1>5. TypePc
  BY DEF Init, TypePc, PCs
<1>6. TypePos /\ TypeRes
  BY DEF Init, TypePos, TypeRes, Answers
<1>7. TypeReq /\ ReqOK
  BY DEF Init, TypeReq, ReqOK, Active
<1>8. QED
  BY <1>1, <1>2, <1>3, <1>4, <1>5, <1>6, <1>7 DEF Typed

-----------------------------------------------------------------------------
(* Type correctness of the server, for every value of the constants: in    *)
(* particular no semaphore leaves 0 .. SEMVMX once it exists, and a        *)
(* handler at work always knows whose request it serves.                   *)
THEOREM SysVTypeCorrect == Spec => []TypeOK
<1>1. Init => Typed
  BY TypedInit
<1>2. Typed /\ [Next]_vars => Typed'
  BY TypedStep
<1>3. Typed => TypeOK
  BY TypedIsTypeOK
<1>4. QED
  BY <1>1, <1>2, <1>3, PTL DEF Spec

-----------------------------------------------------------------------------
(* Where the unit of each semaphore is.  The clients do not repeat their   *)
(* unlocks.                                                                *)

(* A unit in the semaphore belongs to nobody, and there is at most one.    *)
InSemaphore == \A k \in Keys : sem[k] <= 1 /\ (sem[k] # 0 => owner[k] = None)

(* The creator of a set has not put the unit in yet.                       *)
Setters == \A h \in Conns :
    pc[h] = "set" => sem[KeyOf(h)] = 0 /\ owner[KeyOf(h)] = None

(* A client that was told it holds a key owns it.                          *)
Holders == \A c \in Clients : owes[c] = {} /\ \A k \in has[c] : owner[k] = c

(* A handler that took the unit, or is to give it back, acts for the owner *)
(* of the key, and the owner does not count the key among those it holds.  *)
Acting(h) == UnlockPending(h) \/ Granted(h)
Agents == \A h \in Conns :
    Acting(h) => /\ owner[KeyOf(h)] = req[h].client
                 /\ KeyOf(h) \notin has[req[h].client]

(* No two handlers carry the unit of one key.                              *)
Alone == \A g, h \in Conns :
    (g # h /\ Carries(g) /\ Carries(h)) => KeyOf(g) # KeyOf(h)

Core == InSemaphore /\ Setters /\ Holders /\ Agents /\ Alone /\ NoLockLeaked

(* Nothing that Core speaks of changes for handler g.                      *)
Same(g) == /\ pc'[g] = pc[g]
           /\ req'[g] = req[g]
           /\ res'[g] = res[g]

(* A step of handler h that carries the same unit before and after, and    *)
(* that touches neither semaphores nor clients, preserves Core.            *)
LEMMA QuietStep ==
    ASSUME Typed, Core, NEW h \in Conns,
           \A g \in Conns \ {h} : Same(g),
           UNCHANGED <<sem, owner, has, owes, lost>>,
           (pc[h] = "set")' <=> pc[h] = "set",
           Acting(h)' <=> Acting(h),
           Carries(h) => KeyOf(h)' = KeyOf(h) /\ req'[h].client = req[h].client
    PROVE  Core'
<1> USE DEF Same, Carries, Acting, UnlockPending, Granted, KeyOf
<1>1. InSemaphore'
  BY DEF Core, InSemaphore
<1>2. Holders'
  BY DEF Core, Holders
<1>3. Setters'
  BY DEF Core, Setters
<1>4. Agents'
  BY DEF Core, Agents
<1>5. Alone'
  BY DEF Core, Alone
<1>6. NoLockLeaked'
  BY DEF Core, NoLockLeaked
<1>7. QED
  BY <1>1, <1>2, <1>3, <1>4, <1>5, <1>6 DEF Core

(* A unit is in one place only: a key some handler carries, or some client *)
(* holds, is not in its semaphore, and no key is both carried and held.    *)
LEMMA OnePlace ==
    ASSUME Typed, Core
    PROVE  /\ \A g \in Conns : Carries(g) =>
                /\ KeyOf(g) \in Keys /\ req[g].client \in Clients /\ req[g].client # None
                /\ sem[KeyOf(g)] = 0
                /\ \A c \in Clients : KeyOf(g) \notin has[c]
           /\ \A g \in Conns : ~(pc[g] = "set" /\ Acting(g))
           /\ \A c \in Clients : \A k \in has[c] : k \in Keys /\ sem[k] = 0
<1>1. ASSUME NEW g \in Conns, Carries(g)
      PROVE  /\ KeyOf(g) \in Keys /\ req[g].client \in Clients /\ req[g].client # None
             /\ sem[KeyOf(g)] = 0
             /\ \A c \in Clients : KeyOf(g) \notin has[c]
             /\ ~(pc[g] = "set" /\ Acting(g))
  <2>1. KeyOf(g) \in Keys /\ req[g].client \in Clients /\ req[g].client # None
    BY <1>1, CarrierRequest
  <2>2. CASE Acting(g)
    <3>1. owner[KeyOf(g)] = req[g].client /\ KeyOf(g) \notin has[req[g].client]
      BY <2>2 DEF Core, Agents
    <3>2. sem[KeyOf(g)] = 0
      BY <3>1, <2>1 DEF Core, InSemaphore
    <3>3. \A c \in Clients : KeyOf(g) \notin has[c]
      BY <3>1 DEF Core, Holders
    <3>4. pc[g] # "set"
      BY <3>1, <2>1 DEF Core, Setters
    <3>5. QED
      BY <2>1, <3>2, <3>3, <3>4
  <2>3. CASE pc[g] = "set"
    <3>1. sem[KeyOf(g)] = 0 /\ owner[KeyOf(g)] = None
      BY <2>3 DEF Core, Setters
    <3>2. \A c \in Clients : KeyOf(g) \notin has[c]
      BY <3>1, NoneAssumption DEF Core, Holders
    <3>3. ~Acting(g)
      BY <3>1, <2>1 DEF Core, Agents
    <3>4. QED
      BY <2>1, <3>1, <3>2, <3>3
  <2>4. QED
    BY <1>1, <2>2, <2>3 DEF Carries, Acting
<1>2. ASSUME NEW c \in Clients, NEW k \in has[c] PROVE k \in Keys /\ sem[k] = 0
  <2>1. k \in Keys
    BY DEF Typed, TypeClient
  <2>2. owner[k] = c /\ c # None
    BY NoneAssumption DEF Core, Holders
  <2>3. QED
    BY <2>1, <2>2 DEF Core, InSemaphore
<1>3. QED
  BY <1>1, <1>2 DEF Carries, Acting

(* Every step preserves Core, if the clients do not repeat unlocks.        *)
LEMMA CoreStep ==
    ASSUME Typed, Core, ~RetryUnlock, [Next]_vars
    PROVE  Core'
<1> USE DEF kernel, disk, client, ghost
<1>0. CASE UNCHANGED vars
  BY <1>0 DEF vars, Core, InSemaphore, Setters, Holders, Agents, Alone, NoLockLeaked,
              Acting, Carries, UnlockPending, Granted, KeyOf
<1>1. ASSUME NEW h \in Conns, Accept(h) PROVE Core'
  <2>1. \A g \in Conns \ {h} : Same(g)
    BY <1>1 DEF Accept, Same, Typed, TypePc, TypeRes
  <2>2. QED
    BY <1>1, <2>1, QuietStep DEF Accept, Acting, Carries, UnlockPending, Granted,
                           KeyOf, Typed, TypePc, TypeRes
<1>2. ASSUME NEW h \in Conns, ReadFails(h) PROVE Core'
  <2>1. \A g \in Conns \ {h} : Same(g)
    BY <1>2 DEF ReadFails, Same, Typed, TypePc, TypeRes
  <2>2. QED
    BY <1>2, <2>1, QuietStep DEF ReadFails, Acting, Carries, UnlockPending, Granted,
                           KeyOf, Typed, TypePc, TypeRes
<1>3. ASSUME NEW h \in Conns, NEW c \in Clients, NEW n \in Names, NEW f \in Flags,
             Request(h, c, n, f)
      PROVE Core'
  <2>1. PICK k \in changeCharToNumber(n, Keys) : Request(h, c, n, f)!2!(k)
    BY <1>3 DEF Request
  <2>2. pc[h] = "read" /\ UNCHANGED <<sem, res, owner, lost>>
    BY <1>3 DEF Request
  <2>3. \A g \in Conns \ {h} : Same(g)
    BY <2>1, <2>2 DEF Same, Typed, TypePc, TypeReq
  <2>4. CASE k = 0 \/ f # "0"
    <3>1. UNCHANGED <<has, owes>>
      BY <2>1, <2>4 DEF ClientSends
    <3>2. ~Acting(h) /\ ~Acting(h)' /\ pc[h] # "set" /\ pc'[h] # "set"
      BY <2>1, <2>2, <2>4 DEF Acting, UnlockPending, Granted, NoRequest, Typed, TypePc,
                              TypeReq
    <3>3. QED
      BY <2>2, <2>3, <3>1, <3>2, QuietStep DEF Carries, Acting
  <2>5. CASE k # 0 /\ f = "0"
    <3>1. /\ k \in has[c]
          /\ has' = [has EXCEPT ![c] = @ \ {k}]
          /\ UNCHANGED owes
      BY <2>1, <2>5 DEF ClientSends, Core, Holders
    <3>2. pc' = [pc EXCEPT ![h] = "get"]
      BY <2>1, <2>5
    <3>3. req'[h].client = c /\ req'[h].key = k /\ req'[h].flag = "0"
      BY <2>1, <2>5 DEF Typed, TypeReq
    <3> USE DEF Same, KeyOf, Carries, Acting, UnlockPending, Granted, Core,
        Typed, TypePc, TypeClient
    <3>4. InSemaphore' /\ Holders'
      BY <2>2, <3>1 DEF InSemaphore, Holders
    <3>5. Setters'
      BY <2>2, <2>3, <3>2 DEF Setters
    <3>6. Agents'
      BY <2>2, <2>3, <3>1, <3>2, <3>3 DEF Agents, Holders
    <3>7. Alone'
      BY <2>2, <2>3, <3>1, <3>2, <3>3, OnePlace DEF Alone
    <3>8. NoLockLeaked'
      BY <2>2, <2>3, <3>1, <3>2, <3>3 DEF NoLockLeaked
    <3>9. QED
      BY <3>4, <3>5, <3>6, <3>7, <3>8
  <2>6. QED
    BY <2>4, <2>5
<1>4. ASSUME NEW h \in Conns, SemGet(h) PROVE Core'
  <2>1. KeyOf(h) \in Keys /\ req[h].client \in Clients /\ req[h].client # None
    BY <1>4, AtWork DEF SemGet, Active
  <2> USE DEF SemGet, KeyOf, Carries, Acting, UnlockPending, Granted, NoSem, Core,
      Typed, TypePc, TypeRes, TypeReq, TypeKernel, TypeClient, TypeGhost
  <2>2. InSemaphore'
    BY <1>4, <2>1, OnePlace DEF InSemaphore, Setters, Agents
  <2>3. Setters'
    BY <1>4, <2>1, OnePlace DEF Setters, InSemaphore, Alone
  <2>4. Holders'
    BY <1>4, <2>1, OnePlace DEF Holders
  <2>5. Agents'
    BY <1>4, <2>1, OnePlace DEF Agents, InSemaphore, Alone
  <2>6. Alone'
    BY <1>4, <2>1, OnePlace DEF Alone
  <2>7. NoLockLeaked'
    BY <1>4, <2>1, OnePlace DEF NoLockLeaked, InSemaphore
  <2>8. QED
    BY <2>2, <2>3, <2>4, <2>5, <2>6, <2>7
<1>5. ASSUME NEW h \in Conns, InitIpcFails(h) PROVE Core'
  <2>1. \A g \in Conns \ {h} : Same(g)
    BY <1>5 DEF InitIpcFails, Same, Typed, TypePc, TypeRes
  <2>2. pc'[h] = "reply" /\ res'[h] = "nokey" /\ UNCHANGED <<sem, owner, has, owes>>
    BY <1>5 DEF InitIpcFails, Typed, TypePc, TypeRes
  <2>3. lost \subseteq lost' /\ (Carries(h) => KeyOf(h) \in lost')
    BY <1>5 DEF InitIpcFails
  <2> USE DEF Same, KeyOf, Carries, Acting, UnlockPending, Granted, Core
  <2>4. InSemaphore' /\ Setters' /\ Holders'
    BY <2>1, <2>2 DEF InSemaphore, Setters, Holders
  <2>5. Agents' /\ Alone'
    BY <2>1, <2>2 DEF Agents, Alone
  <2>6. NoLockLeaked'
    BY <2>1, <2>2, <2>3 DEF NoLockLeaked
  <2>7. QED
    BY <2>4, <2>5, <2>6
<1>6. ASSUME NEW h \in Conns, SetVal(h) PROVE Core'
  <2>1. KeyOf(h) \in Keys /\ req[h].client \in Clients /\ req[h].client # None
    BY <1>6, AtWork DEF SetVal, Active
  <2> USE DEF SetVal, KeyOf, Carries, Acting, UnlockPending, Granted, NoSem, Core,
      Typed, TypePc, TypeRes, TypeReq, TypeKernel, TypeClient, TypeGhost
  <2>2. InSemaphore'
    BY <1>6, <2>1, OnePlace DEF InSemaphore, Setters, Agents
  <2>3. Setters'
    BY <1>6, <2>1, OnePlace DEF Setters, InSemaphore, Alone
  <2>4. Holders'
    BY <1>6, <2>1, OnePlace DEF Holders
  <2>5. Agents'
    BY <1>6, <2>1, OnePlace DEF Agents, InSemaphore, Alone
  <2>6. Alone'
    BY <1>6, <2>1, OnePlace DEF Alone
  <2>7. NoLockLeaked'
    BY <1>6, <2>1, OnePlace DEF NoLockLeaked, InSemaphore
  <2>8. QED
    BY <2>2, <2>3, <2>4, <2>5, <2>6, <2>7
<1>7. ASSUME NEW h \in Conns, ScanInitFile(h) PROVE Core'
  <2>1. \A g \in Conns \ {h} : Same(g)
    BY <1>7 DEF ScanInitFile, Same, Typed, TypePc, TypeRes
  <2>2. QED
    BY <1>7, <2>1, QuietStep DEF ScanInitFile, Acting, Carries, UnlockPending, Granted,
                           KeyOf, Typed, TypePc, TypeRes
<1>8. ASSUME NEW h \in Conns, SeekEnd(h) PROVE Core'
  <2>1. \A g \in Conns \ {h} : Same(g)
    BY <1>8 DEF SeekEnd, Same, Typed, TypePc, TypeRes
  <2>2. QED
    BY <1>8, <2>1, QuietStep DEF SeekEnd, Acting, Carries, UnlockPending, Granted,
                           KeyOf, Typed, TypePc, TypeRes
<1>9. ASSUME NEW h \in Conns, AppendRecord(h) PROVE Core'
  <2>1. \A g \in Conns \ {h} : Same(g)
    BY <1>9 DEF AppendRecord, Same, Typed, TypePc, TypeRes
  <2>2. QED
    BY <1>9, <2>1, QuietStep DEF AppendRecord, Acting, Carries, UnlockPending, Granted,
                           KeyOf, Typed, TypePc, TypeRes
<1>10. ASSUME NEW h \in Conns, SetLockSemaphore(h) PROVE Core'
  <2>1. KeyOf(h) \in Keys /\ req[h].client \in Clients /\ req[h].client # None
    BY <1>10, AtWork DEF SetLockSemaphore, Active
  <2> USE DEF SetLockSemaphore, KeyOf, Carries, Acting, UnlockPending, Granted, NoSem, Core,
      Typed, TypePc, TypeRes, TypeReq, TypeKernel, TypeClient, TypeGhost
  <2>2. InSemaphore'
    BY <1>10, <2>1, OnePlace DEF InSemaphore, Setters, Agents
  <2>3. Setters'
    BY <1>10, <2>1, OnePlace DEF Setters, InSemaphore, Alone
  <2>4. Holders'
    BY <1>10, <2>1, OnePlace DEF Holders
  <2>5. Agents'
    BY <1>10, <2>1, OnePlace DEF Agents, InSemaphore, Alone
  <2>6. Alone'
    BY <1>10, <2>1, OnePlace DEF Alone
  <2>7. NoLockLeaked'
    BY <1>10, <2>1, OnePlace DEF NoLockLeaked, InSemaphore
  <2>8. QED
    BY <2>2, <2>3, <2>4, <2>5, <2>6, <2>7
<1>11. ASSUME NEW h \in Conns, SetUnLockSemaphore(h) PROVE Core'
  <2>1. KeyOf(h) \in Keys /\ req[h].client \in Clients /\ req[h].client # None
    BY <1>11, AtWork DEF SetUnLockSemaphore, Active
  <2> USE DEF SetUnLockSemaphore, KeyOf, Carries, Acting, UnlockPending, Granted, NoSem, Core,
      Typed, TypePc, TypeRes, TypeReq, TypeKernel, TypeClient, TypeGhost
  <2>2. InSemaphore'
    BY <1>11, <2>1, OnePlace DEF InSemaphore, Setters, Agents
  <2>3. Setters'
    BY <1>11, <2>1, OnePlace DEF Setters, InSemaphore, Alone
  <2>4. Holders'
    BY <1>11, <2>1, OnePlace DEF Holders
  <2>5. Agents'
    BY <1>11, <2>1, OnePlace DEF Agents, InSemaphore, Alone
  <2>6. Alone'
    BY <1>11, <2>1, OnePlace DEF Alone
  <2>7. NoLockLeaked'
    BY <1>11, <2>1, OnePlace, SemvmxAssumption DEF NoLockLeaked, InSemaphore
  <2>8. QED
    BY <2>2, <2>3, <2>4, <2>5, <2>6, <2>7
<1>12. ASSUME NEW h \in Conns, BadFlag(h) PROVE Core'
  <2>1. \A g \in Conns \ {h} : Same(g)
    BY <1>12 DEF BadFlag, Same, Typed, TypePc, TypeRes
  <2>2. QED
    BY <1>12, <2>1, QuietStep DEF BadFlag, Acting, Carries, UnlockPending, Granted,
                           KeyOf, Typed, TypePc, TypeRes
<1>13. ASSUME NEW h \in Conns, MarkFind(h) PROVE Core'
  <2>1. \A g \in Conns \ {h} : Same(g)
    BY <1>13 DEF MarkFind, Same, Typed, TypePc, TypeRes
  <2>2. QED
    BY <1>13, <2>1, QuietStep DEF MarkFind, Acting, Carries, UnlockPending, Granted,
                           KeyOf, Typed, TypePc, TypeRes
<1>14. ASSUME NEW h \in Conns, MarkWrite(h) PROVE Core'
  <2>1. \A g \in Conns \ {h} : Same(g)
    BY <1>14 DEF MarkWrite, Same, Typed, TypePc, TypeRes
  <2>2. QED
    BY <1>14, <2>1, QuietStep DEF MarkWrite, Acting, Carries, UnlockPending, Granted,
                           KeyOf, Typed, TypePc, TypeRes
<1>15. ASSUME NEW h \in Conns, Reply(h) PROVE Core'
  <2>1. Granted(h) => KeyOf(h) \in Keys /\ req[h].client \in Clients
    BY GrantedRequest
  <2>2. \A g \in Conns \ {h} : Same(g)
    BY <1>15 DEF Reply, Exit, Same, Typed, TypePc, TypeRes, TypeReq, TypeKernel, TypeClient, TypeGhost
  <2>3. ~Carries(h)' /\ pc'[h] = "idle" /\ UNCHANGED <<sem, owner, owes, lost>>
    BY <1>15 DEF Reply, Exit, Carries, UnlockPending, Granted, Typed, TypePc, TypeRes, TypeReq, TypeKernel, TypeClient, TypeGhost
  <2>4. CASE ~Granted(h)
    <3>1. UNCHANGED has
      BY <1>15, <2>4 DEF Reply
    <3>2. ~Carries(h)
      BY <1>15, <2>4 DEF Reply, Carries, UnlockPending
    <3>3. QED
      BY <2>2, <2>3, <3>1, <3>2, QuietStep DEF Carries, Acting
  <2>5. CASE Granted(h)
    <3>1. has' = [has EXCEPT ![req[h].client] = @ \cup {KeyOf(h)}]
      BY <1>15, <2>5 DEF Reply
    <3>2. Carries(h) /\ Acting(h)
      BY <2>5 DEF Carries, Acting
    <3>3. owner[KeyOf(h)] = req[h].client
      BY <3>2 DEF Core, Agents
    <3> USE DEF Same, KeyOf, Carries, Acting, UnlockPending, Granted, Core, Typed,
        TypeClient
    <3>4. InSemaphore' /\ Setters'
      BY <2>2, <2>3 DEF InSemaphore, Setters
    <3>5. Holders'
      BY <2>1, <2>3, <2>5, <3>1, <3>3 DEF Holders
    <3>6. Agents'
      BY <2>1, <2>2, <2>3, <2>5, <3>1, <3>2 DEF Agents, Alone
    <3>7. Alone'
      BY <2>2, <2>3 DEF Alone
    <3>8. NoLockLeaked'
      BY <2>1, <2>2, <2>3, <2>5, <3>1 DEF NoLockLeaked
    <3>9. QED
      BY <3>4, <3>5, <3>6, <3>7, <3>8
  <2>6. QED
    BY <2>4, <2>5
<1>16. ASSUME NEW h \in Conns, ReplyLost(h) PROVE Core'
  <2>1. \A g \in Conns \ {h} : Same(g)
    BY <1>16 DEF ReplyLost, Exit, Same, Typed, TypePc, TypeRes, TypeReq, TypeKernel, TypeClient, TypeGhost
  <2>2. pc'[h] = "idle" /\ UNCHANGED <<sem, owner, has, owes>>
    BY <1>16 DEF ReplyLost, Exit, Typed, TypePc, TypeRes, TypeReq, TypeKernel, TypeClient, TypeGhost
  <2>3. lost \subseteq lost' /\ (Carries(h) => KeyOf(h) \in lost')
    BY <1>16 DEF ReplyLost, Carries, UnlockPending
  <2> USE DEF Same, KeyOf, Carries, Acting, UnlockPending, Granted, Core
  <2>4. InSemaphore' /\ Setters' /\ Holders'
    BY <2>1, <2>2 DEF InSemaphore, Setters, Holders
  <2>5. Agents' /\ Alone'
    BY <2>1, <2>2 DEF Agents, Alone
  <2>6. NoLockLeaked'
    BY <2>1, <2>2, <2>3 DEF NoLockLeaked
  <2>7. QED
    BY <2>4, <2>5, <2>6
<1>17. ASSUME NEW h \in Conns, Die(h) PROVE Core'
  <2>1. \A g \in Conns \ {h} : Same(g)
    BY <1>17 DEF Die, Exit, Same, Typed, TypePc, TypeRes, TypeReq, TypeKernel, TypeClient, TypeGhost
  <2>2. pc'[h] = "idle" /\ UNCHANGED <<sem, owner, has, owes>>
    BY <1>17 DEF Die, Exit, Typed, TypePc, TypeRes, TypeReq, TypeKernel, TypeClient, TypeGhost
  <2>3. lost \subseteq lost' /\ (Carries(h) => KeyOf(h) \in lost')
    BY <1>17 DEF Die, Carries, UnlockPending
  <2> USE DEF Same, KeyOf, Carries, Acting, UnlockPending, Granted, Core
  <2>4. InSemaphore' /\ Setters' /\ Holders'
    BY <2>1, <2>2 DEF InSemaphore, Setters, Holders
  <2>5. Agents' /\ Alone'
    BY <2>1, <2>2 DEF Agents, Alone
  <2>6. NoLockLeaked'
    BY <2>1, <2>2, <2>3 DEF NoLockLeaked
  <2>7. QED
    BY <2>4, <2>5, <2>6
<1>18. QED
  BY <1>0, <1>1, <1>2, <1>3, <1>4, <1>5, <1>6, <1>7, <1>8, <1>9, <1>10, <1>11,
     <1>12, <1>13, <1>14, <1>15, <1>16, <1>17 DEF Next, Step

(* Core holds initially: no semaphore exists yet.                          *)
LEMMA CoreInit == ASSUME Init PROVE Core
<1>1. \A k \in Keys : sem[k] = -1 /\ owner[k] = None
  BY DEF Init, NoSem
<1>2. InSemaphore /\ NoLockLeaked
  BY <1>1 DEF InSemaphore, NoLockLeaked
<1>3. \A h \in Conns : pc[h] = "idle"
  BY DEF Init
<1>4. Setters /\ Agents /\ Alone
  BY <1>3 DEF Setters, Agents, Alone, Acting, Carries, UnlockPending, Granted
<1>5. Holders
  BY DEF Init, Holders
<1>6. QED
  BY <1>2, <1>4, <1>5 DEF Core

(* Core excludes two holders of one key.                                   *)
LEMMA CoreExcludes == ASSUME Core PROVE MutualExclusion
BY DEF Core, Holders, MutualExclusion

-----------------------------------------------------------------------------
(* Mutual exclusion, for every number of clients, connections and keys:    *)
(* clients that unlock only what they hold, and do not repeat unlocks, are *)
(* never two of them told that they hold one key, whatever handlers are    *)
(* killed and whatever answers are lost.                                   *)
THEOREM SysVMutualExclusion ==
    ASSUME ~RetryUnlock
    PROVE  Spec => []MutualExclusion
<1>1. Init => Typed /\ Core
  BY TypedInit, CoreInit
<1>2. (Typed /\ Core) /\ [Next]_vars => (Typed /\ Core)'
  BY TypedStep, CoreStep
<1>3. Typed /\ Core => MutualExclusion
  BY CoreExcludes
<1>4. QED
  BY <1>1, <1>2, <1>3, PTL DEF Spec

(* A key is out of reach for ever only when a handler was killed or failed *)
(* in init_ipc, or its answer was lost, while it carried the unit.         *)
THEOREM SysVNoLockLeaked ==
    ASSUME ~RetryUnlock
    PROVE  Spec => []NoLockLeaked
<1>1. Init => Typed /\ Core
  BY TypedInit, CoreInit
<1>2. (Typed /\ Core) /\ [Next]_vars => (Typed /\ Core)'
  BY TypedStep, CoreStep
<1>3. Typed /\ Core => NoLockLeaked
  BY DEF Core
<1>4. QED
  BY <1>1, <1>2, <1>3, PTL DEF Spec

-----------------------------------------------------------------------------
(* Every step of the server is a step of the lock service, or none.        *)
LEMMA ServiceStep ==
    ASSUME Typed, Core, ~RetryUnlock, [Next]_vars
    PROVE  [Service!Next]_(Service!vars)
<1> USE DEF kernel, disk, client, ghost, Service!vars
<1>0. CASE UNCHANGED vars
  BY <1>0 DEF vars
<1>1. ASSUME NEW h \in Conns, NEW c \in Clients, NEW n \in Names, NEW f \in Flags,
             Request(h, c, n, f)
      PROVE [Service!Next]_(Service!vars)
  <2>1. PICK k \in changeCharToNumber(n, Keys) : Request(h, c, n, f)!2!(k)
    BY <1>1 DEF Request
  <2>2. UNCHANGED owner
    BY <1>1 DEF Request
  <2>3. CASE k = 0 \/ f # "0"
    BY <2>1, <2>2, <2>3 DEF ClientSends
  <2>4. CASE k # 0 /\ f = "0"
    <3>1. k \in has[c] /\ has' = [has EXCEPT ![c] = @ \ {k}]
      BY <2>1, <2>4 DEF ClientSends, Core, Holders
    <3>2. k \in Keys
      BY <3>1 DEF Typed, TypeClient
    <3>3. Service!GiveUp(c, k)
      BY <2>2, <3>1 DEF Service!GiveUp
    <3>4. QED
      BY <3>2, <3>3 DEF Service!Next
  <2>5. QED
    BY <2>3, <2>4
<1>2. ASSUME NEW h \in Conns, SetLockSemaphore(h) PROVE [Service!Next]_(Service!vars)
  <2>1. KeyOf(h) \in Keys /\ req[h].client \in Clients
    BY <1>2, AtWork DEF SetLockSemaphore, Active
  <2>2. CASE sem[KeyOf(h)] > 0
    <3>1. owner[KeyOf(h)] = None
      BY <2>1, <2>2 DEF Core, InSemaphore
    <3>2. Service!Grant(req[h].client, KeyOf(h))
      BY <1>2, <2>2, <3>1 DEF SetLockSemaphore, Service!Grant
    <3>3. QED
      BY <2>1, <3>2 DEF Service!Next
  <2>3. CASE ~(sem[KeyOf(h)] > 0)
    BY <1>2, <2>3 DEF SetLockSemaphore
  <2>4. QED
    BY <2>2, <2>3
<1>3. ASSUME NEW h \in Conns, SetUnLockSemaphore(h) PROVE [Service!Next]_(Service!vars)
  <2>1. KeyOf(h) \in Keys /\ req[h].client \in Clients
    BY <1>3, AtWork DEF SetUnLockSemaphore, Active
  <2>2. owner[KeyOf(h)] = req[h].client /\ KeyOf(h) \notin has[req[h].client]
    BY <1>3 DEF SetUnLockSemaphore, Core, Agents, Acting, UnlockPending
  <2>3. CASE sem[KeyOf(h)] < SEMVMX
    <3>1. Service!Release(req[h].client, KeyOf(h))
      BY <1>3, <2>2, <2>3 DEF SetUnLockSemaphore, Service!Release
    <3>2. QED
      BY <2>1, <3>1 DEF Service!Next
  <2>4. CASE ~(sem[KeyOf(h)] < SEMVMX)
    BY <1>3, <2>4 DEF SetUnLockSemaphore
  <2>5. QED
    BY <2>3, <2>4
<1>4. ASSUME NEW h \in Conns, Reply(h) PROVE [Service!Next]_(Service!vars)
  <2>1. CASE Granted(h)
    <3>1. KeyOf(h) \in Keys /\ req[h].client \in Clients
      BY <2>1, GrantedRequest
    <3>2. owner[KeyOf(h)] = req[h].client
      BY <2>1 DEF Core, Agents, Acting
    <3>3. Service!Tell(req[h].client, KeyOf(h))
      BY <1>4, <2>1, <3>2 DEF Reply, Service!Tell
    <3>4. QED
      BY <3>1, <3>3 DEF Service!Next
  <2>2. CASE ~Granted(h)
    BY <1>4, <2>2 DEF Reply
  <2>3. QED
    BY <2>1, <2>2
<1>5. ASSUME NEW h \in Conns,
             \/ Accept(h) \/ ReadFails(h) \/ SemGet(h) \/ InitIpcFails(h) \/ SetVal(h)
             \/ ScanInitFile(h) \/ SeekEnd(h) \/ AppendRecord(h) \/ BadFlag(h)
             \/ MarkFind(h) \/ MarkWrite(h) \/ ReplyLost(h) \/ Die(h)
      PROVE [Service!Next]_(Service!vars)
  BY <1>5 DEF Accept, ReadFails, SemGet, InitIpcFails, SetVal, ScanInitFile, SeekEnd,
              AppendRecord, BadFlag, MarkFind, MarkWrite, ReplyLost, Die
<1>6. QED
  BY <1>0, <1>1, <1>2, <1>3, <1>4, <1>5 DEF Next, Step

(* The server implements the lock service: a key is granted only when it   *)
(* is free, only its owner is told so, and it becomes free only after its  *)
(* holder sent an unlock.                                                  *)
THEOREM SysVImplementsLockService ==
    ASSUME ~RetryUnlock
    PROVE  Spec => ImplementsLockService
<1>1. Init => Typed /\ Core
  BY TypedInit, CoreInit
<1>2. (Typed /\ Core) /\ [Next]_vars => (Typed /\ Core)'
  BY TypedStep, CoreStep
<1>3. Init => Service!Init
  BY DEF Init, Service!Init
<1>4. (Typed /\ Core) /\ [Next]_vars => [Service!Next]_(Service!vars)
  BY ServiceStep
<1>5. QED
  BY <1>1, <1>2, <1>3, <1>4, PTL DEF Spec, ImplementsLockService, Service!Spec

-----------------------------------------------------------------------------
(* The records of initialize.ini, as long as no two handlers registered    *)
(* different keys at once.                                                 *)

(* A handler past writeInitFile finds a record of its key.                 *)
Recorded == \A h \in Conns :
    /\ pc[h] \in {"op", "mfind"} => \E i \in 1 .. Len(file) : file[i].key = KeyOf(h)
    /\ pc[h] = "mwrite" => pos[h] # 0

(* Where a handler is about to write there is nothing yet, or a record of  *)
(* its own key; all handlers that are about to write have the same key.    *)
Appending == \A h \in Conns : pc[h] = "append" =>
    /\ pos[h] \in 1 .. Len(file) + 1
    /\ pos[h] <= Len(file) => file[pos[h]].key = KeyOf(h)
    /\ \A g \in Conns : pc[g] = "append" => KeyOf(g) = KeyOf(h)

Filed == raced \/ (~garbled /\ Recorded /\ Appending)

(* Every step preserves Filed.                                             *)
LEMMA FiledStep ==
    ASSUME Typed, Filed, [Next]_vars
    PROVE  Filed'
<1> USE DEF kernel, disk, client, ghost, Filed, Recorded, Appending, KeyOf
<1>0. CASE UNCHANGED vars
  BY <1>0 DEF vars
<1>1. ASSUME NEW h \in Conns, Accept(h) PROVE Filed'
  BY <1>1 DEF Accept, Typed, TypePc, TypeReq, TypePos
<1>2. ASSUME NEW h \in Conns, ReadFails(h) PROVE Filed'
  BY <1>2 DEF ReadFails, Typed, TypePc, TypeReq, TypePos
<1>3. ASSUME NEW h \in Conns, NEW c \in Clients, NEW n \in Names, NEW f \in Flags,
             Request(h, c, n, f)
      PROVE Filed'
  <2>1. \A g \in Conns \ {h} : pc'[g] = pc[g] /\ req'[g] = req[g]
    BY <1>3 DEF Request, Typed, TypePc, TypeReq
  <2>2. pc'[h] \in {"reply", "get"}
    BY <1>3 DEF Request, Typed, TypePc
  <2>3. UNCHANGED <<file, garbled, pos, raced>>
    BY <1>3 DEF Request
  <2>4. QED
    BY <2>1, <2>2, <2>3
<1>4. ASSUME NEW h \in Conns, SemGet(h) PROVE Filed'
  BY <1>4 DEF SemGet, Typed, TypePc, TypeReq, TypePos
<1>5. ASSUME NEW h \in Conns, InitIpcFails(h) PROVE Filed'
  BY <1>5 DEF InitIpcFails, Typed, TypePc, TypeReq, TypePos
<1>6. ASSUME NEW h \in Conns, SetVal(h) PROVE Filed'
  BY <1>6 DEF SetVal, Typed, TypePc, TypeReq, TypePos
<1>7. ASSUME NEW h \in Conns, ScanInitFile(h) PROVE Filed'
  <2>1. RecordsOf(KeyOf(h)) # {} => \E i \in 1 .. Len(file) : file[i].key = KeyOf(h)
    BY DEF RecordsOf, Typed, TypeFile
  <2>2. QED
    BY <1>7, <2>1 DEF ScanInitFile, Typed, TypePc
<1>8. ASSUME NEW h \in Conns, SeekEnd(h) PROVE Filed'
  <2>1. Len(file) \in Nat
    BY DEF Typed, TypeFile
  <2>2. CASE raced'
    BY <2>2
  <2>3. CASE ~raced'
    <3>1. /\ pc' = [pc EXCEPT ![h] = "append"]
          /\ pos' = [pos EXCEPT ![h] = Len(file) + 1]
          /\ UNCHANGED <<file, garbled, req>>
      BY <1>8 DEF SeekEnd
    <3>2. ~raced /\ \A g \in Conns \ {h} : pc[g] = "append" => KeyOf(g) = KeyOf(h)
      BY <1>8, <2>3 DEF SeekEnd
    <3>3. ~garbled' /\ Recorded'
      BY <3>1, <3>2 DEF Typed, TypePc, TypePos
    <3>4. Appending'
      BY <2>1, <3>1, <3>2 DEF Typed, TypePc, TypePos
    <3>5. QED
      BY <3>3, <3>4
  <2>4. QED
    BY <2>2, <2>3
<1>9. ASSUME NEW h \in Conns, AppendRecord(h), ~raced PROVE Filed'
  <2> DEFINE rec == [key |-> KeyOf(h), status |-> 0]
  <2>1. file \in Seq(Records) /\ rec \in Records /\ rec.key = KeyOf(h)
    BY <1>9, AtWork DEF AppendRecord, Active, Records, Typed, TypeFile
  <2>2. /\ pos[h] \in 1 .. Len(file) + 1
        /\ file' = IF pos[h] > Len(file) THEN Append(file, rec)
                   ELSE [file EXCEPT ![pos[h]] = rec]
    BY <1>9 DEF AppendRecord
  <2> HIDE DEF rec
  <2>3. /\ Len(file') \in {Len(file), Len(file) + 1}
        /\ pos[h] \in 1 .. Len(file')
        /\ file'[pos[h]].key = KeyOf(h)
        /\ \A i \in 1 .. Len(file) : file'[i].key = file[i].key
        /\ \A i \in 1 .. Len(file') : i \in 1 .. Len(file) \/ file'[i].key = KeyOf(h)
    <3>1. CASE pos[h] > Len(file)
      <4>1. file' = Append(file, rec) /\ pos[h] = Len(file) + 1
        BY <2>1, <2>2, <3>1
      <4>2. QED
        BY <2>1, <4>1
    <3>2. CASE ~(pos[h] > Len(file))
      <4>1. file' = [file EXCEPT ![pos[h]] = rec] /\ pos[h] \in 1 .. Len(file)
        BY <2>1, <2>2, <3>2
      <4>2. file[pos[h]].key = KeyOf(h)
        BY <1>9, <2>1, <4>1 DEF AppendRecord
      <4>3. Len(file') = Len(file) /\ \A j \in 1 .. Len(file) :
                file'[j] = IF j = pos[h] THEN rec ELSE file[j]
        BY <2>1, <4>1, ExceptSeq
      <4>4. QED
        BY <2>1, <4>1, <4>2, <4>3
    <3>3. QED
      BY <3>1, <3>2
  <2>4. /\ pc' = [pc EXCEPT ![h] = "op"]
        /\ pos' = [pos EXCEPT ![h] = 0]
        /\ UNCHANGED <<req, garbled, raced>>
    BY <1>9 DEF AppendRecord
  <2>5. Recorded'
    BY <1>9, <2>1, <2>3, <2>4 DEF Typed, TypePc, TypePos
  <2>6. Appending'
    BY <1>9, <2>1, <2>3, <2>4 DEF AppendRecord, Typed, TypePc, TypePos
  <2>7. QED
    BY <1>9, <2>4, <2>5, <2>6
<1>10. ASSUME NEW h \in Conns, SetLockSemaphore(h) PROVE Filed'
  BY <1>10 DEF SetLockSemaphore, Typed, TypePc, TypeReq, TypePos
<1>11. ASSUME NEW h \in Conns, SetUnLockSemaphore(h) PROVE Filed'
  BY <1>11 DEF SetUnLockSemaphore, Typed, TypePc, TypeReq, TypePos
<1>12. ASSUME NEW h \in Conns, BadFlag(h) PROVE Filed'
  BY <1>12 DEF BadFlag, Typed, TypePc, TypeReq, TypePos
<1>13. ASSUME NEW h \in Conns, MarkFind(h) PROVE Filed'
  <2>1. RecordsOf(KeyOf(h)) = {i \in 1 .. Len(file) : file[i].key = KeyOf(h)}
    BY DEF RecordsOf, Typed, TypeFile
  <2>2. QED
    BY <1>13, <2>1 DEF MarkFind, Typed, TypePc, TypePos
<1>14. ASSUME NEW h \in Conns, MarkWrite(h), ~raced PROVE Filed'
  <2>1. file \in Seq(Records)
    BY DEF Typed, TypeFile
  <2>2. PICK v \in {0, 1} : file' = [file EXCEPT ![pos[h]].status = v]
    BY <1>14 DEF MarkWrite
  <2>3. Len(file') = Len(file) /\ \A i \in 1 .. Len(file) : file'[i].key = file[i].key
    <3>1. CASE pos[h] \in 1 .. Len(file)
      <4> DEFINE rec == [file[pos[h]] EXCEPT !.status = v]
      <4>0. file[pos[h]] \in Records
        BY <2>1, <3>1
      <4>1. rec \in Records /\ rec.key = file[pos[h]].key
        BY <4>0 DEF Records
      <4>2. file' = [file EXCEPT ![pos[h]] = rec]
        BY <2>2
      <4> HIDE DEF rec
      <4>3. QED
        BY <2>1, <3>1, <4>1, <4>2, ExceptSeq
    <3>2. CASE pos[h] \notin 1 .. Len(file)
      <4>1. file' = file
        BY <2>1, <2>2, <3>2
      <4>2. QED
        BY <4>1
    <3>3. QED
      BY <3>1, <3>2
  <2>4. UNCHANGED <<req, garbled, raced>>
    BY <1>14 DEF MarkWrite
  <2>5. \A g \in Conns \ {h} : pc'[g] = pc[g] /\ pos'[g] = pos[g]
    BY <1>14 DEF MarkWrite, Typed, TypePc, TypePos
  <2>6. pc'[h] = "reply"
    BY <1>14 DEF MarkWrite, Typed, TypePc
  <2>7. QED
    BY <1>14, <2>1, <2>3, <2>4, <2>5, <2>6
<1>15. ASSUME NEW h \in Conns, Reply(h) PROVE Filed'
  BY <1>15 DEF Reply, Exit, Typed, TypePc, TypeReq, TypePos
<1>16. ASSUME NEW h \in Conns, ReplyLost(h) PROVE Filed'
  BY <1>16 DEF ReplyLost, Exit, Typed, TypePc, TypeReq, TypePos
<1>17. ASSUME NEW h \in Conns, Die(h) PROVE Filed'
  BY <1>17 DEF Die, Exit, Typed, TypePc, TypeReq, TypePos
<1>18. ASSUME NEW h \in Conns, AppendRecord(h) \/ MarkWrite(h), raced PROVE Filed'
  BY <1>18 DEF AppendRecord, MarkWrite
<1>19. QED
  BY <1>0, <1>1, <1>2, <1>3, <1>4, <1>5, <1>6, <1>7, <1>8, <1>9, <1>10, <1>11,
     <1>12, <1>13, <1>14, <1>15, <1>16, <1>17, <1>18 DEF Next, Step

(* markInitFile damages the head of initialize.ini only after two handlers *)
(* registered different keys at once; no other interleaving, and no killed *)
(* handler, can make it miss the record that writeInitFile made sure of.   *)
THEOREM SysVHeadIntact == Spec => []HeadIntact
<1>1. Init => Typed /\ Filed
  <2>1. Init => Filed
    BY DEF Init, Filed, Recorded, Appending
  <2>2. QED
    BY <2>1, TypedInit
<1>2. (Typed /\ Filed) /\ [Next]_vars => (Typed /\ Filed)'
  BY TypedStep, FiledStep
<1>3. Typed /\ Filed => HeadIntact
  BY DEF Filed, HeadIntact
<1>4. QED
  BY <1>1, <1>2, <1>3, PTL DEF Spec

-----------------------------------------------------------------------------
(* The file tells the truth while requests come one after the other: what  *)
(* the handler at work has done so far says where file and semaphore may   *)
(* differ.                                                                 *)
Places == 1 .. Len(file)
Unrecorded(k) == \A i \in Places : file[i].key # k
Truth(k) == \E i \in Places : file[i].key = k /\ (file[i].status = 1 <=> sem[k] = 0)

(* One handler is at work, and a key has one record.                       *)
Single == \A g, h \in Conns : pc[g] \in Active /\ pc[h] \in Active => g = h
Once == \A i, j \in Places : file[i].key = file[j].key => i = j

(* Past semget.                                                            *)
Entered == Active \ {"get"}

(* The keys that nobody works on.                                          *)
Settled == \A k \in Keys :
    /\ sem[k] = NoSem => Unrecorded(k)
    /\ sem[k] # NoSem => Truth(k) \/ \E h \in Conns : pc[h] \in Entered /\ KeyOf(h) = k

(* The key of a handler at work.                                           *)
UnderwayOf(h, k) ==
    /\ pc[h] \in Entered => sem[k] # NoSem
    /\ pc[h] = "set" => Unrecorded(k)
    /\ pc[h] = "scan" => Truth(k) \/ (Unrecorded(k) /\ sem[k] = 1)
    /\ pc[h] \in {"seek", "append"} => Unrecorded(k) /\ sem[k] = 1
    /\ pc[h] = "append" => pos[h] = Len(file) + 1
    /\ pc[h] = "op" => Truth(k)
    /\ pc[h] \in {"mfind", "mwrite"} => (sem[k] = 0 <=> req[h].flag = "1")
    /\ pc[h] = "mfind" => ~Unrecorded(k)
    /\ pc[h] = "mwrite" => pos[h] \in Places /\ file[pos[h]].key = k
Underway == \A h \in Conns : UnderwayOf(h, KeyOf(h))

Quiet == Single /\ Once /\ Settled /\ Underway

(* A step of the handler at work that touches neither the file nor a       *)
(* semaphore keeps Quiet if it does so for that handler.                   *)
LEMMA QuietMove ==
    ASSUME Typed, Quiet, NEW h \in Conns, pc[h] \in Active,
           \A g \in Conns \ {h} : pc'[g] = pc[g] /\ req'[g] = req[g] /\ pos'[g] = pos[g],
           UNCHANGED <<sem, file>>,
           pc'[h] \in Active => KeyOf(h)' = KeyOf(h),
           (pc'[h] \in Entered) \/ (sem[KeyOf(h)] # NoSem => Truth(KeyOf(h))),
           UnderwayOf(h, KeyOf(h))'
    PROVE  Quiet'
<1>1. \A g \in Conns \ {h} : pc[g] \notin Active
  BY DEF Quiet, Single
<1>2. Single' /\ Once'
  BY <1>1 DEF Quiet, Single, Once, Places
<1>3. Settled'
  BY <1>1 DEF Quiet, Settled, Unrecorded, Truth, Places, KeyOf, Entered
<1>4. Underway'
  BY <1>1 DEF Quiet, Underway, UnderwayOf, Entered, Active
<1>5. QED
  BY <1>2, <1>3, <1>4 DEF Quiet

(* Every step preserves Quiet, as long as no requests overlap and nobody   *)
(* dies or fails in init_ipc.                                              *)
LEMMA TruthStep ==
    ASSUME Typed, Core, Quiet, ~RetryUnlock, ~disturbed', [Next]_vars
    PROVE  Quiet'
<1> USE DEF kernel, disk, client, ghost
<1>0. CASE UNCHANGED vars
  BY <1>0 DEF vars, Quiet, Single, Once, Settled, Underway, UnderwayOf, Truth,
              Unrecorded, Places, KeyOf
<1>1. ASSUME NEW h \in Conns, Accept(h) \/ ReadFails(h) PROVE Quiet'
  <2>1. /\ \A g \in Conns \ {h} : pc'[g] = pc[g]
        /\ pc[h] \notin Active /\ pc'[h] \notin Active
        /\ UNCHANGED <<sem, file, req, pos>>
    BY <1>1 DEF Accept, ReadFails, Active, Typed, TypePc
  <2>2. QED
    BY <2>1 DEF Quiet, Single, Once, Settled, Underway, UnderwayOf, Truth, Unrecorded,
                Places, KeyOf, Entered, Active
<1>2. ASSUME NEW h \in Conns, NEW c \in Clients, NEW n \in Names, NEW f \in Flags,
             Request(h, c, n, f)
      PROVE Quiet'
  <2>1. PICK k \in changeCharToNumber(n, Keys) : Request(h, c, n, f)!2!(k)
    BY <1>2 DEF Request
  <2>2. /\ \A g \in Conns \ {h} : pc'[g] = pc[g] /\ req'[g] = req[g]
        /\ pc[h] = "read" /\ pc'[h] \in {"reply", "get"}
        /\ UNCHANGED <<sem, file, pos>>
    BY <1>2 DEF Request, Typed, TypePc, TypeReq
  <2>3. pc'[h] = "get" => \A g \in Conns \ {h} : pc[g] \notin Active
    BY <2>1, <2>2 DEF Busy, Active, Typed, TypePc
  <2>4. QED
    BY <2>2, <2>3 DEF Quiet, Single, Once, Settled, Underway, UnderwayOf, Truth,
                      Unrecorded, Places, KeyOf, Entered, Active
<1>3. ASSUME NEW h \in Conns, SemGet(h) PROVE Quiet'
  <2>1. pc[h] = "get" /\ KeyOf(h) \in Keys /\ (\A g \in Conns \ {h} : pc[g] \notin Active)
    BY <1>3, AtWork DEF SemGet, Active, Quiet, Single
  <2>2. CASE sem[KeyOf(h)] = NoSem
    <3>1. /\ sem' = [sem EXCEPT ![KeyOf(h)] = 0] /\ pc' = [pc EXCEPT ![h] = "set"]
          /\ UNCHANGED <<file, req, pos>>
      BY <1>3, <2>2 DEF SemGet
    <3>2. QED
      BY <2>1, <2>2, <3>1 DEF Quiet, Single, Once, Settled, Underway, UnderwayOf, Truth,
         Unrecorded, Places, KeyOf, Entered, Active, Typed, TypePc, TypeKernel, NoSem
  <2>3. CASE sem[KeyOf(h)] # NoSem
    <3>1. pc' = [pc EXCEPT ![h] = "scan"] /\ UNCHANGED <<sem, file, req, pos>>
      BY <1>3, <2>3 DEF SemGet
    <3>2. Truth(KeyOf(h))
      BY <2>1, <2>3 DEF Quiet, Settled, Entered, Active
    <3>3. QED
      BY <2>1, <2>3, <3>1, <3>2 DEF Quiet, Single, Once, Settled, Underway, UnderwayOf,
         Truth, Unrecorded, Places, KeyOf, Entered, Active, Typed, TypePc
  <2>4. QED
    BY <2>2, <2>3
<1>4. ASSUME NEW h \in Conns, InitIpcFails(h) \/ Die(h) PROVE Quiet'
  BY <1>4 DEF InitIpcFails, Die
<1>5. ASSUME NEW h \in Conns, SetVal(h) PROVE Quiet'
  <2>1. pc[h] = "set" /\ KeyOf(h) \in Keys /\ (\A g \in Conns \ {h} : pc[g] \notin Active)
    BY <1>5, AtWork DEF SetVal, Active, Quiet, Single
  <2>2. /\ sem' = [sem EXCEPT ![KeyOf(h)] = 1] /\ pc' = [pc EXCEPT ![h] = "scan"]
        /\ UNCHANGED <<file, req, pos>>
    BY <1>5 DEF SetVal
  <2>3. QED
    BY <2>1, <2>2 DEF Quiet, Single, Once, Settled, Underway, UnderwayOf, Truth,
       Unrecorded, Places, KeyOf, Entered, Active, Typed, TypePc, TypeKernel, NoSem
<1>6. ASSUME NEW h \in Conns, ScanInitFile(h) PROVE Quiet'
  <2>1. pc[h] \in Active /\ KeyOf(h) \in Keys /\ UnderwayOf(h, KeyOf(h))
    BY <1>6, AtWork DEF ScanInitFile, Active, Quiet, Underway
  <2>2. /\ \A g \in Conns \ {h} : pc'[g] = pc[g] /\ req'[g] = req[g] /\ pos'[g] = pos[g]
        /\ UNCHANGED <<sem, file, req>>
    BY <1>6 DEF ScanInitFile, Typed, TypePc, TypePos
  <2>3. (pc'[h] \in Entered) \/ (sem[KeyOf(h)] # NoSem => Truth(KeyOf(h)))
    BY <1>6, <2>1 DEF ScanInitFile, UnderwayOf, Entered, Active, Typed, TypePc
  <2>4. UnderwayOf(h, KeyOf(h))'
    <3>1. RecordsOf(KeyOf(h)) = {i \in Places : file[i].key = KeyOf(h)}
      BY DEF RecordsOf, Places, Typed, TypeFile
    <3>2. QED
      BY <1>6, <2>1, <2>2, <3>1 DEF ScanInitFile, UnderwayOf, Truth, Unrecorded, Places,
         KeyOf, Entered, Active, Typed, TypePc
  <2>5. QED
    BY <2>1, <2>2, <2>3, <2>4, QuietMove DEF KeyOf
<1>7. ASSUME NEW h \in Conns, SeekEnd(h) PROVE Quiet'
  <2>1. pc[h] \in Active /\ KeyOf(h) \in Keys /\ UnderwayOf(h, KeyOf(h))
    BY <1>7, AtWork DEF SeekEnd, Active, Quiet, Underway
  <2>2. /\ \A g \in Conns \ {h} : pc'[g] = pc[g] /\ req'[g] = req[g] /\ pos'[g] = pos[g]
        /\ UNCHANGED <<sem, file, req>>
    BY <1>7 DEF SeekEnd, Typed, TypePc, TypePos
  <2>3. (pc'[h] \in Entered) \/ (sem[KeyOf(h)] # NoSem => Truth(KeyOf(h)))
    BY <1>7, <2>1 DEF SeekEnd, UnderwayOf, Entered, Active, Typed, TypePc
  <2>4. UnderwayOf(h, KeyOf(h))'
    BY <1>7, <2>1, <2>2 DEF SeekEnd, UnderwayOf, Truth, Unrecorded, Places, KeyOf,
       Entered, Active, Typed, TypePc, TypePos
  <2>5. QED
    BY <2>1, <2>2, <2>3, <2>4, QuietMove DEF KeyOf
<1>8. ASSUME NEW h \in Conns, AppendRecord(h) PROVE Quiet'
  <2> DEFINE rec == [key |-> KeyOf(h), status |-> 0]
  <2>1. /\ pc[h] = "append" /\ KeyOf(h) \in Keys
        /\ \A g \in Conns \ {h} : pc[g] \notin Active
    BY <1>8, AtWork DEF AppendRecord, Active, Quiet, Single
  <2>2. /\ pos[h] = Len(file) + 1 /\ Unrecorded(KeyOf(h)) /\ sem[KeyOf(h)] = 1
        /\ file \in Seq(Records)
    BY <2>1 DEF Quiet, Underway, UnderwayOf, Typed, TypeFile
  <2>3. /\ file' = Append(file, rec) /\ pc' = [pc EXCEPT ![h] = "op"]
        /\ UNCHANGED <<sem, req>>
    BY <1>8, <2>2 DEF AppendRecord
  <2>4. rec.key = KeyOf(h) /\ rec.status = 0 /\ rec \in Records
    BY <2>1 DEF Records
  <2> HIDE DEF rec
  <2>5. /\ Len(file') = Len(file) + 1 /\ Len(file) \in Nat
        /\ file'[Len(file) + 1] = rec
        /\ \A i \in Places : file'[i] = file[i]
    BY <2>2, <2>3, <2>4 DEF Places
  <2>6. Single'
    BY <2>1, <2>3 DEF Quiet, Single, Typed, TypePc
  <2>7. Once'
    BY <2>2, <2>4, <2>5 DEF Quiet, Once, Places, Unrecorded
  <2>8. Truth(KeyOf(h))'
    BY <2>2, <2>3, <2>4, <2>5 DEF Truth, Places, KeyOf
  <2>9. ASSUME NEW k \in Keys, k # KeyOf(h)
        PROVE  (Unrecorded(k) => Unrecorded(k)') /\ (Truth(k) => Truth(k)')
    <3>1. Places' = Places \cup {Len(file) + 1}
      BY <2>5 DEF Places
    <3>2. QED
      BY <2>3, <2>4, <2>5, <2>9, <3>1 DEF Unrecorded, Truth
  <2>10. Settled'
    BY <2>1, <2>2, <2>3, <2>8, <2>9 DEF Quiet, Settled, KeyOf, Entered, Active, NoSem, Typed,
       TypePc
  <2>11. Underway'
    BY <2>1, <2>2, <2>3, <2>8 DEF Quiet, Underway, UnderwayOf, KeyOf, Entered, Active,
       NoSem, Typed, TypePc
  <2>12. QED
    BY <2>6, <2>7, <2>10, <2>11 DEF Quiet
<1>9. ASSUME NEW h \in Conns, SetLockSemaphore(h) \/ SetUnLockSemaphore(h) PROVE Quiet'
  <2>1. /\ pc[h] = "op" /\ KeyOf(h) \in Keys
        /\ \A g \in Conns \ {h} : pc[g] \notin Active
    BY <1>9, AtWork DEF SetLockSemaphore, SetUnLockSemaphore, Active, Quiet, Single
  <2>2. Truth(KeyOf(h)) /\ sem[KeyOf(h)] # NoSem /\ sem[KeyOf(h)] \in NoSem .. SEMVMX
        /\ sem[KeyOf(h)] <= 1
    BY <2>1 DEF Quiet, Underway, UnderwayOf, Entered, Active, Typed, TypeKernel, Core,
       InSemaphore
  <2>3. /\ pc' = [pc EXCEPT ![h] = "mfind"] /\ UNCHANGED <<file, req, pos>>
        /\ \A k \in Keys \ {KeyOf(h)} : sem'[k] = sem[k]
        /\ sem'[KeyOf(h)] = 0 <=> req[h].flag = "1"
        /\ sem'[KeyOf(h)] # NoSem
    BY <1>9, <2>1, <2>2, SemvmxAssumption DEF SetLockSemaphore, SetUnLockSemaphore, NoSem,
       Typed, TypeKernel
  <2>4. ~Unrecorded(KeyOf(h))'
    BY <2>2, <2>3 DEF Truth, Unrecorded, Places, KeyOf
  <2>5. Single' /\ Once'
    BY <2>1, <2>3 DEF Quiet, Single, Once, Places, Typed, TypePc
  <2>6. Settled'
    BY <2>1, <2>3 DEF Quiet, Settled, Unrecorded, Truth, Places, KeyOf, Entered, Active,
       Typed, TypePc
  <2>7. Underway'
    BY <2>1, <2>3, <2>4 DEF Quiet, Underway, UnderwayOf, KeyOf, Entered, Active, Typed,
       TypePc
  <2>8. QED
    BY <2>5, <2>6, <2>7 DEF Quiet
<1>10. ASSUME NEW h \in Conns, BadFlag(h) PROVE Quiet'
  <2>1. pc[h] \in Active /\ KeyOf(h) \in Keys /\ UnderwayOf(h, KeyOf(h))
    BY <1>10, AtWork DEF BadFlag, Active, Quiet, Underway
  <2>2. /\ \A g \in Conns \ {h} : pc'[g] = pc[g] /\ req'[g] = req[g] /\ pos'[g] = pos[g]
        /\ UNCHANGED <<sem, file, req>>
    BY <1>10 DEF BadFlag, Typed, TypePc, TypePos
  <2>3. (pc'[h] \in Entered) \/ (sem[KeyOf(h)] # NoSem => Truth(KeyOf(h)))
    BY <1>10, <2>1 DEF BadFlag, UnderwayOf, Entered, Active, Typed, TypePc
  <2>4. UnderwayOf(h, KeyOf(h))'
    BY <1>10 DEF BadFlag, UnderwayOf, Entered, Active, Typed, TypePc
  <2>5. QED
    BY <2>1, <2>2, <2>3, <2>4, QuietMove DEF KeyOf
<1>11. ASSUME NEW h \in Conns, MarkFind(h) PROVE Quiet'
  <2>1. pc[h] \in Active /\ KeyOf(h) \in Keys /\ UnderwayOf(h, KeyOf(h))
    BY <1>11, AtWork DEF MarkFind, Active, Quiet, Underway
  <2>2. /\ \A g \in Conns \ {h} : pc'[g] = pc[g] /\ req'[g] = req[g] /\ pos'[g] = pos[g]
        /\ UNCHANGED <<sem, file, req>>
    BY <1>11 DEF MarkFind, Typed, TypePc, TypePos
  <2>3. (pc'[h] \in Entered) \/ (sem[KeyOf(h)] # NoSem => Truth(KeyOf(h)))
    BY <1>11, <2>1 DEF MarkFind, UnderwayOf, Entered, Active, Typed, TypePc
  <2>4. UnderwayOf(h, KeyOf(h))'
    <3>1. RecordsOf(KeyOf(h)) = {i \in Places : file[i].key = KeyOf(h)}
      BY DEF RecordsOf, Places, Typed, TypeFile
    <3>2. QED
      BY <1>11, <2>1, <2>2, <3>1 DEF MarkFind, UnderwayOf, Unrecorded, Places,
         KeyOf, Entered, Active, Typed, TypePc, TypePos
  <2>5. QED
    BY <2>1, <2>2, <2>3, <2>4, QuietMove DEF KeyOf
<1>12. ASSUME NEW h \in Conns, MarkWrite(h) PROVE Quiet'
  <2>1. /\ pc[h] = "mwrite" /\ KeyOf(h) \in Keys
        /\ \A g \in Conns \ {h} : pc[g] \notin Active
    BY <1>12, AtWork DEF MarkWrite, Active, Quiet, Single
  <2> DEFINE v == IF req[h].flag = "1" THEN 1 ELSE 0
             rec == [file[pos[h]] EXCEPT !.status = v]
  <2>2. /\ pos[h] \in Places /\ file[pos[h]].key = KeyOf(h)
        /\ sem[KeyOf(h)] = 0 <=> req[h].flag = "1"
        /\ file \in Seq(Records)
    BY <2>1 DEF Quiet, Underway, UnderwayOf, Typed, TypeFile
  <2>3. file[pos[h]] \in Records
    BY <2>2 DEF Places
  <2>4. rec \in Records /\ rec.key = KeyOf(h) /\ rec.status = v
    BY <2>2, <2>3 DEF Records
  <2>5. pos[h] # 0
    BY <2>2 DEF Places, Typed, TypeFile
  <2>6. /\ file' = [file EXCEPT ![pos[h]] = rec] /\ pc' = [pc EXCEPT ![h] = "reply"]
        /\ UNCHANGED <<sem, req>>
    BY <1>12, <2>5 DEF MarkWrite
  <2> HIDE DEF rec
  <2>7. /\ Len(file') = Len(file)
        /\ \A i \in Places : file'[i] = IF i = pos[h] THEN rec ELSE file[i]
    BY <2>2, <2>4, <2>6, ExceptSeq DEF Places
  <2>8. /\ Places' = Places
        /\ \A i \in Places : file'[i].key = file[i].key
    BY <2>2, <2>4, <2>7 DEF Places
  <2>9. Single' /\ Once'
    BY <2>1, <2>6, <2>8 DEF Quiet, Single, Once, Typed, TypePc
  <2>10. Truth(KeyOf(h))'
    BY <2>2, <2>4, <2>6, <2>7, <2>8 DEF Truth, KeyOf
  <2>11. ASSUME NEW k \in Keys, k # KeyOf(h)
         PROVE  (Unrecorded(k) => Unrecorded(k)') /\ (Truth(k) => Truth(k)')
    BY <2>2, <2>4, <2>6, <2>7, <2>8, <2>11 DEF Unrecorded, Truth
  <2>12. sem[KeyOf(h)] # NoSem
    BY <2>1 DEF Quiet, Underway, UnderwayOf, Entered, Active
  <2>13. Settled'
    BY <2>1, <2>6, <2>10, <2>11, <2>12 DEF Quiet, Settled, KeyOf, Entered, Active, Typed,
       TypePc
  <2>14. Underway'
    BY <2>1, <2>6 DEF Quiet, Underway, UnderwayOf, KeyOf, Entered, Active, Typed, TypePc
  <2>15. QED
    BY <2>9, <2>13, <2>14 DEF Quiet
<1>13. ASSUME NEW h \in Conns, Reply(h) \/ ReplyLost(h) PROVE Quiet'
  <2>1. /\ \A g \in Conns \ {h} : pc'[g] = pc[g] /\ req'[g] = req[g] /\ pos'[g] = pos[g]
        /\ pc[h] \notin Active /\ pc'[h] \notin Active
        /\ UNCHANGED <<sem, file>>
    BY <1>13 DEF Reply, ReplyLost, Exit, Active, Typed, TypePc, TypeReq, TypePos
  <2>2. QED
    BY <2>1 DEF Quiet, Single, Once, Settled, Underway, UnderwayOf, Truth, Unrecorded,
                Places, KeyOf, Entered, Active
<1>14. QED
  BY <1>0, <1>1, <1>2, <1>3, <1>4, <1>5, <1>6, <1>7, <1>8, <1>9, <1>10, <1>11,
     <1>12, <1>13 DEF Next, Step

(* Once disturbed, always disturbed.                                       *)
LEMMA DisturbedStays ==
    ASSUME Typed, [Next]_vars, disturbed
    PROVE  disturbed'
<1>1. ASSUME NEW h \in Conns, NEW c \in Clients, NEW n \in Names, NEW f \in Flags,
             Request(h, c, n, f)
      PROVE disturbed'
  <2>1. \/ UNCHANGED disturbed
        \/ disturbed' = (disturbed \/ \E g \in Conns \ {h} : Busy(g))
    BY <1>1, Zenon DEF Request
  <2>2. QED
    BY <2>1, Zenon
<1>2. ASSUME NEW h \in Conns, InitIpcFails(h) \/ Die(h) PROVE disturbed'
  BY <1>2, Zenon DEF InitIpcFails, Die
<1>3. ASSUME NEW h \in Conns, Accept(h) \/ ReadFails(h) \/ Step(h), ~InitIpcFails(h)
      PROVE disturbed'
  <2>1. UNCHANGED disturbed
    BY <1>3, Zenon DEF Step, Accept, ReadFails, SemGet, SetVal, ScanInitFile, SeekEnd, AppendRecord,
       SetLockSemaphore, SetUnLockSemaphore, BadFlag, MarkFind, MarkWrite, Reply,
       ReplyLost, ghost
  <2>2. QED
    BY <2>1, Zenon
<1>4. CASE UNCHANGED vars
  BY <1>4, Zenon DEF vars
<1>5. QED
  BY <1>1, <1>2, <1>3, <1>4, Zenon DEF Next, Step

(* When nobody is at work, Quiet is what StatusTruthful asks for.          *)
LEMMA QuietIsTruthful ==
    ASSUME Typed, disturbed \/ Quiet
    PROVE  StatusTruthful
<1>1. \A k \in Keys : RecordsOf(k) = {i \in Places : file[i].key = k}
  BY DEF RecordsOf, Places, Typed, TypeFile
<1>2. ASSUME ~disturbed, \A h \in Conns : ~Busy(h), NEW k \in Keys, sem[k] # NoSem
      PROVE  \E i \in RecordsOf(k) : (file[i].status = 1) <=> (sem[k] = 0)
  <2>1. \A h \in Conns : pc[h] \notin Entered
    BY <1>2 DEF Busy, Entered, Active
  <2>2. Truth(k)
    BY <1>2, <2>1 DEF Quiet, Settled
  <2>3. QED
    BY <1>1, <2>2 DEF Truth
<1>3. QED
  BY <1>2 DEF StatusTruthful

(* As long as requests come one after the other and no handler died or     *)
(* failed in init_ipc, initialize.ini says of every semaphore whether it   *)
(* is taken, although markInitFile writes the status of a request that     *)
(* failed as well.                                                         *)
THEOREM SysVStatusTruthful ==
    ASSUME ~RetryUnlock
    PROVE  Spec => []StatusTruthful
<1> DEFINE I == Typed /\ Core /\ (disturbed \/ Quiet)
<1>1. Init => I
  <2>1. ASSUME Init PROVE Quiet
    <3>1. Places = {}
      <4>1. file = <<>>
        BY <2>1 DEF Init
      <4>2. Len(file) = 0
        BY <4>1
      <4>3. QED
        BY <4>2 DEF Places
    <3>2. /\ \A h \in Conns : pc[h] = "idle"
          /\ \A k \in Keys : sem[k] = NoSem
      BY <2>1 DEF Init
    <3>3. QED
      BY <3>1, <3>2 DEF Quiet, Single, Once, Settled, Underway, UnderwayOf, Unrecorded,
         Entered, Active
  <2>2. QED
    BY <2>1, TypedInit, CoreInit
<1>2. I /\ [Next]_vars => I'
  BY TypedStep, CoreStep, TruthStep, DisturbedStays
<1>3. I => StatusTruthful
  BY QuietIsTruthful
<1>4. QED
  BY <1>1, <1>2, <1>3, PTL DEF Spec

-----------------------------------------------------------------------------
(* The handler of the bypass daemon.  What TypeOK leaves open: the domains *)
(* of the local variables, the bound of the loop while it runs, and that   *)
(* every count left behind is that of a handler that was killed.           *)
BypassPCs == {"free", "incTest", "incLoad", "incStore", "incResult", "admit", "read", "try",
            "send", "decTest", "decLoad", "decStore", "exit"}
BypassShape ==
    /\ bypass_pc \in [Handlers -> BypassPCs]
    /\ bypass_v \in [Handlers -> 0 .. ByteMax]
    /\ bypass_r \in [Handlers -> -1 .. ByteMax]
    /\ fork_cnt \in [Handlers -> 0 .. ForkWrap - 1]
    /\ bypass_i \in [Handlers -> 0 .. max_server_cnt + 1]
    /\ comm \in [Handlers -> BOOLEAN]
    /\ refused \in [Handlers -> SUBSET Bypass!Servers]
    /\ leaked <= kills
    /\ \A h \in Handlers : bypass_pc[h] = "try" => bypass_i[h] <= max_server_cnt

LEMMA BypassShapeStep ==
  ASSUME Bypass!TypeOK, BypassShape, [Bypass!Next]_(Bypass!vars)
  PROVE Bypass!TypeOK' /\ BypassShape'
<1> DEFINE Goal == Bypass!TypeOK' /\ BypassShape'
<1> USE BypassAssumption DEF Bypass!TypeOK, BypassShape, BypassPCs
<1>a. /\ 0 \in 0 .. ByteMax /\ 0 \in -1 .. ByteMax /\ -1 \in -1 .. ByteMax
      /\ 0 \in 0 .. ForkWrap - 1 /\ 0 \in 0 .. max_server_cnt + 1
  BY BypassAssumption
<1>1. CASE UNCHANGED Bypass!vars
  BY <1>1 DEF Bypass!vars, Bypass!handler, Bypass!locals, Bypass!history
<1>2. ASSUME Bypass!Init_Daemon PROVE Goal
  <2>1. why' \subseteq {"start", "race", "reset", "full"}
    BY <1>2 DEF Bypass!Init_Daemon, Bypass!Reset
  <2>2. QED
    BY <1>2, <1>a, <2>1 DEF Bypass!Init_Daemon, Bypass!Reset, Bypass!handler, Bypass!locals
<1>3. ASSUME Bypass!Server_Daemon PROVE Goal
  <2>1. why' \subseteq {"start", "race", "reset", "full"}
    BY <1>3 DEF Bypass!Server_Daemon, Bypass!Reset
  <2>2. QED
    BY <1>3, <1>a, <2>1 DEF Bypass!Server_Daemon, Bypass!Reset, Bypass!handler, Bypass!locals
<1>4. ASSUME Bypass!KillDaemon PROVE Goal
  BY <1>4 DEF Bypass!KillDaemon, Bypass!handler, Bypass!locals, Bypass!history
<1>5. ASSUME Bypass!Respawn PROVE Goal
  BY <1>5 DEF Bypass!Respawn, Bypass!handler, Bypass!locals, Bypass!history
<1>6. ASSUME Bypass!Accept PROVE Goal
  BY <1>6 DEF Bypass!Accept, Bypass!Goto, Bypass!history
<1>7. ASSUME NEW h \in Handlers, Bypass!IncTest(h) PROVE Goal
  <2>1. why' \subseteq {"start", "race", "reset", "full"}
    BY <1>7 DEF Bypass!IncTest
  <2>2. QED
    BY <1>7, <1>a, <2>1 DEF Bypass!IncTest, Bypass!Goto
<1>8. ASSUME NEW h \in Handlers, Bypass!IncLoad(h) PROVE Goal
  BY <1>8 DEF Bypass!IncLoad, Bypass!Goto, Bypass!history
<1>9. ASSUME NEW h \in Handlers, Bypass!IncStore(h) PROVE Goal
  BY <1>9 DEF Bypass!IncStore, Bypass!Store, Bypass!Goto, Bypass!locals
<1>10. ASSUME NEW h \in Handlers, Bypass!IncResult(h) PROVE Goal
  <2>1. (bypass_v[h] + 1) % (ByteMax + 1) \in -1 .. ByteMax /\ runCnt \in -1 .. ByteMax
    BY DEF Bypass!IncResult
  <2>2. PICK x \in -1 .. ByteMax : bypass_r' = [bypass_r EXCEPT ![h] = x]
    BY <1>10, <2>1 DEF Bypass!IncResult
  <2>3. why' \subseteq {"start", "race", "reset", "full"}
    BY <1>10 DEF Bypass!IncResult
  <2>4. QED
    BY <1>10, <1>a, <2>2, <2>3 DEF Bypass!IncResult, Bypass!Goto
<1>11. ASSUME NEW h \in Handlers, Bypass!Admit(h) PROVE Goal
  BY <1>11 DEF Bypass!Admit, Bypass!Goto, Bypass!locals, Bypass!history
<1>12. ASSUME NEW h \in Handlers, Bypass!Read(h) PROVE Goal
  BY <1>12 DEF Bypass!Read, Bypass!Goto, Bypass!history
<1>13. ASSUME NEW h \in Handlers, Bypass!Try(h) PROVE Goal
  <2>1. Bypass!conn_idx(h) \in Bypass!Servers
    BY DEF Bypass!conn_idx, Bypass!Servers
  <2>2. CASE Bypass!conn_idx(h) \in up
    BY <1>13, <2>2 DEF Bypass!Try, Bypass!Goto, Bypass!history
  <2>3. CASE Bypass!conn_idx(h) \notin up
    <3>1. bypass_i[h] + 1 \in 0 .. max_server_cnt + 1
      BY <1>13 DEF Bypass!Try
    <3>2. refused[h] \cup {Bypass!conn_idx(h)} \in SUBSET Bypass!Servers
      BY <2>1
    <3>3. QED
      BY <1>13, <2>3, <3>1, <3>2 DEF Bypass!Try, Bypass!Goto, Bypass!history
  <2>4. QED
    BY <2>2, <2>3
<1>14. ASSUME NEW h \in Handlers, Bypass!Send(h) PROVE Goal
  BY <1>14 DEF Bypass!Send, Bypass!Goto, Bypass!locals, Bypass!history
<1>15. ASSUME NEW h \in Handlers, Bypass!DecTest(h) PROVE Goal
  BY <1>15 DEF Bypass!DecTest, Bypass!Goto, Bypass!locals, Bypass!history
<1>16. ASSUME NEW h \in Handlers, Bypass!DecLoad(h) PROVE Goal
  BY <1>16 DEF Bypass!DecLoad, Bypass!Goto, Bypass!history
<1>17. ASSUME NEW h \in Handlers, Bypass!DecStore(h) PROVE Goal
  BY <1>17 DEF Bypass!DecStore, Bypass!Store, Bypass!Goto, Bypass!locals
<1>18. ASSUME NEW h \in Handlers, Bypass!Exit(h) PROVE Goal
  BY <1>18, <1>a DEF Bypass!Exit, Bypass!Ended, Bypass!Goto, Bypass!history
<1>19. ASSUME NEW h \in Handlers, Bypass!KillHandler(h) PROVE Goal
  <2>1. kills' \in 0 .. MaxKills /\ leaked' \in 0 .. MaxKills /\ leaked' <= kills'
    BY <1>19 DEF Bypass!KillHandler
  <2>2. QED
    BY <1>19, <1>a, <2>1 DEF Bypass!KillHandler, Bypass!Ended, Bypass!Goto
<1>20. ASSUME Bypass!ServerChanges PROVE Goal
  BY <1>20
     DEF Bypass!ServerChanges, Bypass!handler, Bypass!locals, Bypass!history
<1>21. QED
  BY <1>1, <1>2, <1>3, <1>4, <1>5, <1>6, <1>7, <1>8, <1>9, <1>10,
     <1>11, <1>12, <1>13, <1>14, <1>15, <1>16, <1>17, <1>18, <1>19, <1>20
     DEF Bypass!Next, Bypass!Run

LEMMA BypassInit == ASSUME Bypass!Init PROVE Bypass!TypeOK /\ BypassShape
<1>1. /\ 0 \in 0 .. ByteMax /\ 0 \in -1 .. ByteMax /\ 0 \in 0 .. ForkWrap - 1
      /\ 0 \in 0 .. max_server_cnt + 1 /\ 0 \in 0 .. MaxKills
  BY BypassAssumption
<1>2. Bypass!TypeOK
  BY <1>1 DEF Bypass!Init, Bypass!TypeOK
<1>3. BypassShape
  BY <1>1 DEF Bypass!Init, BypassShape, BypassPCs
<1>4. QED
  BY <1>2, <1>3

(* The handlers that are counted, by their place.                          *)
InCount == {"incResult", "admit", "read", "try", "send", "decTest", "decLoad", "decStore"}

(* The handlers that are let in, or will be by what they know already.     *)
LetIn == {h \in Handlers :
    \/ bypass_pc[h] = "incResult" /\ bypass_v[h] + 1 <= max_process_cnt
    \/ bypass_pc[h] = "admit" /\ bypass_r[h] <= max_process_cnt
    \/ bypass_pc[h] \in {"read", "try", "send"}}

(* A handler that is let in found room when it counted itself; the others  *)
(* have at most given up their place since.                                *)
CountInv == why = {} =>
    /\ runCnt = Cardinality(Bypass!counted) + leaked
    /\ Cardinality(LetIn) <= max_process_cnt

LEMMA CountsAreFinite ==
  /\ IsFiniteSet(Bypass!counted) /\ Cardinality(Bypass!counted) \in Nat
  /\ IsFiniteSet(LetIn) /\ Cardinality(LetIn) \in Nat
  /\ IsFiniteSet(Bypass!serving) /\ Cardinality(Bypass!serving) \in Nat
<1>1. /\ Bypass!counted \subseteq Handlers /\ LetIn \subseteq Handlers
      /\ Bypass!serving \subseteq Handlers
  BY DEF Bypass!counted, Bypass!serving, LetIn
<1>2. QED
  BY <1>1, BypassAssumption, FS_Subset, FS_CardinalityType

(* A smaller set of handlers let in needs no argument.                     *)
LEMMA FewerLetIn ==
  ASSUME BypassShape, CountInv, LetIn' \subseteq LetIn, why' = {} => why = {}
  PROVE why' = {} => Cardinality(LetIn') <= max_process_cnt
<1>1. Cardinality(LetIn') <= Cardinality(LetIn) /\ Cardinality(LetIn') \in Nat
  BY CountsAreFinite, FS_Subset, FS_CardinalityType
<1>2. QED
  BY <1>1, CountsAreFinite, BypassAssumption DEF CountInv

(* A handler that goes to another place is counted there or not.           *)
Move(h, to) == bypass_pc' = [bypass_pc EXCEPT ![h] = to]

LEMMA StaysCounted ==
  ASSUME BypassShape, NEW h \in Handlers, NEW to \in BypassPCs, Move(h, to),
         bypass_pc[h] \in InCount <=> to \in InCount
  PROVE Bypass!counted' = Bypass!counted
BY DEF Move, Bypass!counted, InCount, BypassShape

LEMMA Joins ==
  ASSUME BypassShape, NEW h \in Handlers, NEW to \in InCount, Move(h, to),
         bypass_pc[h] \notin InCount
  PROVE /\ Bypass!counted' = Bypass!counted \cup {h}
        /\ Cardinality(Bypass!counted') = Cardinality(Bypass!counted) + 1
<1>1. Bypass!counted' = Bypass!counted \cup {h} /\ h \notin Bypass!counted
  BY DEF Move, Bypass!counted, InCount, BypassShape
<1>2. QED
  BY <1>1, CountsAreFinite, FS_AddElement

LEMMA Leaves ==
  ASSUME BypassShape, NEW h \in Handlers, NEW to \in BypassPCs \ InCount, Move(h, to),
         bypass_pc[h] \in InCount
  PROVE /\ Cardinality(Bypass!counted') = Cardinality(Bypass!counted) - 1
        /\ Cardinality(Bypass!counted) \in Nat \ {0}
<1>1. Bypass!counted' = Bypass!counted \ {h} /\ h \in Bypass!counted
  BY DEF Move, Bypass!counted, InCount, BypassShape
<1>2. QED
  BY <1>1, CountsAreFinite, FS_RemoveElement, FS_EmptySet

LEMMA CountStep ==
  ASSUME Bypass!TypeOK, BypassShape, CountInv, [Bypass!Next]_(Bypass!vars)
  PROVE CountInv'
<1>1. CASE UNCHANGED Bypass!vars
  BY <1>1 DEF Bypass!vars, Bypass!handler, Bypass!locals, Bypass!history,
              CountInv, LetIn, Bypass!counted
<1>2. ASSUME Bypass!Init_Daemon PROVE CountInv'
  <2>1. bypass_pc' = bypass_pc /\ runCnt' = 0 /\ leaked' = 0
    BY <1>2 DEF Bypass!Init_Daemon, Bypass!Reset, Bypass!handler
  <2>2. Bypass!counted' = Bypass!counted
    BY <2>1 DEF Bypass!counted
  <2>3. why' = {} => Bypass!counted = {}
    BY <1>2 DEF Bypass!Init_Daemon, Bypass!Reset
  <2>4. Bypass!counted = {} => LetIn' = {}
    BY <2>1, <2>2 DEF Bypass!counted, LetIn
  <2>5. Cardinality({}) = 0
    BY FS_EmptySet
  <2>6. QED
    BY <2>1, <2>2, <2>3, <2>4, <2>5, BypassAssumption DEF CountInv
<1>3. ASSUME Bypass!Server_Daemon PROVE CountInv'
  <2>1. bypass_pc' = bypass_pc /\ runCnt' = 0 /\ leaked' = 0
    BY <1>3 DEF Bypass!Server_Daemon, Bypass!Reset, Bypass!handler
  <2>2. Bypass!counted' = Bypass!counted
    BY <2>1 DEF Bypass!counted
  <2>3. why' = {} => Bypass!counted = {}
    BY <1>3 DEF Bypass!Server_Daemon, Bypass!Reset
  <2>4. Bypass!counted = {} => LetIn' = {}
    BY <2>1, <2>2 DEF Bypass!counted, LetIn
  <2>5. Cardinality({}) = 0
    BY FS_EmptySet
  <2>6. QED
    BY <2>1, <2>2, <2>3, <2>4, <2>5, BypassAssumption DEF CountInv
<1>4. ASSUME Bypass!KillDaemon PROVE CountInv'
  BY <1>4
     DEF Bypass!KillDaemon, Bypass!handler, Bypass!locals, Bypass!history, CountInv, LetIn, Bypass!counted
<1>5. ASSUME Bypass!Respawn PROVE CountInv'
  BY <1>5
     DEF Bypass!Respawn, Bypass!handler, Bypass!locals, Bypass!history, CountInv, LetIn, Bypass!counted
<1>6. ASSUME Bypass!Accept PROVE CountInv'
  <2>1. Bypass!counted' = Bypass!counted
    <3>1. CASE bypass_pc' = bypass_pc
      BY <3>1 DEF Bypass!counted
    <3>2. CASE bypass_pc' # bypass_pc
      <4>1. PICK h \in Handlers : bypass_pc[h] = "free" /\ Move(h, "incTest")
        BY <1>6, <3>2 DEF Bypass!Accept, Bypass!Goto, Move
      <4>2. QED
        BY <4>1, StaysCounted DEF InCount, BypassPCs
    <3>3. QED
      BY <3>1, <3>2
  <2>2. LetIn' \subseteq LetIn
    BY <1>6 DEF Bypass!Accept, Bypass!Goto, LetIn, BypassShape
  <2>3. QED
    BY <1>6, <2>1, <2>2, FewerLetIn DEF Bypass!Accept, Bypass!history, CountInv
<1>7. ASSUME NEW h \in Handlers, Bypass!IncTest(h) PROVE CountInv'
  <2>1. CASE runCnt = ByteMax
    BY <1>7, <2>1 DEF Bypass!IncTest, CountInv
  <2>2. CASE runCnt # ByteMax
    <3>1. Move(h, "incLoad")
      BY <1>7, <2>2 DEF Bypass!IncTest, Bypass!Goto, Move
    <3>2. Bypass!counted' = Bypass!counted
      BY <1>7, <3>1, StaysCounted DEF Bypass!IncTest, InCount, BypassPCs
    <3>3. LetIn' \subseteq LetIn
      BY <1>7, <2>2 DEF Bypass!IncTest, Bypass!Goto, LetIn, BypassShape
    <3>4. QED
      BY <1>7, <2>2, <3>2, <3>3, FewerLetIn DEF Bypass!IncTest, CountInv
  <2>3. QED
    BY <2>1, <2>2
<1>8. ASSUME NEW h \in Handlers, Bypass!IncLoad(h) PROVE CountInv'
  <2>1. PICK to \in {"incStore"} : Move(h, to)
    BY <1>8 DEF Bypass!IncLoad, Bypass!Goto, Move
  <2>2. Bypass!counted' = Bypass!counted
    BY <1>8, <2>1, StaysCounted DEF Bypass!IncLoad, InCount, BypassPCs
  <2>3. LetIn' \subseteq LetIn
    BY <1>8 DEF Bypass!IncLoad, Bypass!Goto, Bypass!history, LetIn, BypassShape
  <2>4. QED
    BY <1>8, <2>2, <2>3, FewerLetIn
       DEF Bypass!IncLoad, Bypass!Goto, Bypass!history, CountInv
<1>9. ASSUME NEW h \in Handlers, Bypass!IncStore(h) PROVE CountInv'
  <2>1. Move(h, "incResult")
    BY <1>9 DEF Bypass!IncStore, Bypass!Goto, Move
  <2>2. Cardinality(Bypass!counted') = Cardinality(Bypass!counted) + 1
    BY <1>9, <2>1, Joins DEF Bypass!IncStore, InCount, BypassPCs
  <2>3. SUFFICES ASSUME why' = {} PROVE CountInv'
    BY DEF CountInv
  <2>4. why = {} /\ runCnt = bypass_v[h] /\ bypass_v[h] + 1 \in 0 .. ByteMax
    BY <1>9, <2>3 DEF Bypass!IncStore, Bypass!Store
  <2>5. runCnt' = bypass_v[h] + 1
    BY <1>9, <2>4, BypassAssumption DEF Bypass!IncStore, Bypass!Store
  <2>6. runCnt' = Cardinality(Bypass!counted') + leaked' /\ leaked \in Nat
    BY <1>9, <2>2, <2>4, <2>5, CountsAreFinite, BypassAssumption
       DEF Bypass!IncStore, Bypass!TypeOK, CountInv
  <2>7. CASE bypass_v[h] + 1 <= max_process_cnt
    <3>1. LetIn' \subseteq Bypass!counted'
      BY DEF LetIn, Bypass!counted
    <3>2. Cardinality(LetIn') <= Cardinality(Bypass!counted') /\ Cardinality(LetIn') \in Nat
      <4>1. IsFiniteSet(Bypass!counted')
        BY <2>1, <1>9, Joins, CountsAreFinite, FS_AddElement
           DEF Bypass!IncStore, InCount, BypassPCs
      <4>2. QED
        BY <3>1, <4>1, FS_Subset, FS_CardinalityType
    <3>3. QED
      BY <2>2, <2>4, <2>6, <2>7, <3>2, CountsAreFinite, BypassAssumption DEF CountInv
  <2>8. CASE ~(bypass_v[h] + 1 <= max_process_cnt)
    <3>1. LetIn' \subseteq LetIn
      BY <1>9, <2>8 DEF Bypass!IncStore, Bypass!Goto, Bypass!locals, LetIn, BypassShape
    <3>2. QED
      BY <2>3, <2>4, <2>6, <3>1, FewerLetIn DEF CountInv
  <2>9. QED
    BY <2>7, <2>8
<1>10. ASSUME NEW h \in Handlers, Bypass!IncResult(h) PROVE CountInv'
  <2>1. Move(h, "admit")
    BY <1>10 DEF Bypass!IncResult, Bypass!Goto, Move
  <2>2. Bypass!counted' = Bypass!counted
    BY <1>10, <2>1, StaysCounted DEF Bypass!IncResult, InCount, BypassPCs
  <2>3. SUFFICES ASSUME why' = {} PROVE CountInv'
    BY DEF CountInv
  <2>4. PICK x \in {(bypass_v[h] + 1) % (ByteMax + 1), runCnt} :
          bypass_r' = [bypass_r EXCEPT ![h] = x]
    BY <1>10 DEF Bypass!IncResult
  <2>5. why = {} /\ x = bypass_v[h] + 1
    BY <1>10, <2>3, <2>4 DEF Bypass!IncResult, BypassShape
  <2>6. LetIn' \subseteq LetIn
    BY <1>10, <2>4, <2>5 DEF Bypass!IncResult, Bypass!Goto, LetIn, BypassShape
  <2>7. QED
    BY <1>10, <2>2, <2>3, <2>5, <2>6, FewerLetIn DEF Bypass!IncResult, CountInv
<1>11. ASSUME NEW h \in Handlers, Bypass!Admit(h) PROVE CountInv'
  <2>1. PICK to \in {"read", "decTest"} : Move(h, to)
    BY <1>11 DEF Bypass!Admit, Bypass!Goto, Move
  <2>2. Bypass!counted' = Bypass!counted
    BY <1>11, <2>1, StaysCounted DEF Bypass!Admit, InCount, BypassPCs
  <2>3. LetIn' \subseteq LetIn
    BY <1>11
       DEF Bypass!Admit, Bypass!Goto, Bypass!locals, Bypass!history, LetIn, BypassShape
  <2>4. QED
    BY <1>11, <2>2, <2>3, FewerLetIn
       DEF Bypass!Admit, Bypass!Goto, Bypass!locals, Bypass!history, CountInv
<1>12. ASSUME NEW h \in Handlers, Bypass!Read(h) PROVE CountInv'
  <2>1. PICK to \in {"try", "decTest"} : Move(h, to)
    BY <1>12 DEF Bypass!Read, Bypass!Goto, Move
  <2>2. Bypass!counted' = Bypass!counted
    BY <1>12, <2>1, StaysCounted DEF Bypass!Read, InCount, BypassPCs
  <2>3. LetIn' \subseteq LetIn
    BY <1>12 DEF Bypass!Read, Bypass!Goto, Bypass!history, LetIn, BypassShape
  <2>4. QED
    BY <1>12, <2>2, <2>3, FewerLetIn
       DEF Bypass!Read, Bypass!Goto, Bypass!history, CountInv
<1>13. ASSUME NEW h \in Handlers, Bypass!Try(h) PROVE CountInv'
  <2>1. PICK to \in {"try", "send"} : Move(h, to)
    BY <1>13 DEF Bypass!Try, Bypass!Goto, Move
  <2>2. Bypass!counted' = Bypass!counted
    BY <1>13, <2>1, StaysCounted DEF Bypass!Try, InCount, BypassPCs
  <2>3. LetIn' \subseteq LetIn
    BY <1>13 DEF Bypass!Try, Bypass!Goto, Bypass!history, LetIn, BypassShape
  <2>4. QED
    BY <1>13, <2>2, <2>3, FewerLetIn
       DEF Bypass!Try, Bypass!Goto, Bypass!history, CountInv
<1>14. ASSUME NEW h \in Handlers, Bypass!Send(h) PROVE CountInv'
  <2>1. PICK to \in {"decTest"} : Move(h, to)
    BY <1>14 DEF Bypass!Send, Bypass!Goto, Move
  <2>2. Bypass!counted' = Bypass!counted
    BY <1>14, <2>1, StaysCounted DEF Bypass!Send, InCount, BypassPCs
  <2>3. LetIn' \subseteq LetIn
    BY <1>14
       DEF Bypass!Send, Bypass!Goto, Bypass!locals, Bypass!history, LetIn, BypassShape
  <2>4. QED
    BY <1>14, <2>2, <2>3, FewerLetIn
       DEF Bypass!Send, Bypass!Goto, Bypass!locals, Bypass!history, CountInv
<1>15. ASSUME NEW h \in Handlers, Bypass!DecTest(h) PROVE CountInv'
  <2>1. CASE runCnt = 0
    <3>1. Move(h, "exit")
      BY <1>15, <2>1 DEF Bypass!DecTest, Bypass!Goto, Move
    <3>2. Cardinality(Bypass!counted) \in Nat \ {0}
      BY <1>15, <3>1, Leaves DEF Bypass!DecTest, InCount, BypassPCs
    <3>3. why # {}
      BY <2>1, <3>2 DEF CountInv, Bypass!TypeOK
    <3>4. QED
      BY <1>15, <3>3 DEF Bypass!DecTest, Bypass!history, CountInv
  <2>2. CASE runCnt # 0
    <3>1. Move(h, "decLoad")
      BY <1>15, <2>2 DEF Bypass!DecTest, Bypass!Goto, Move
    <3>2. Bypass!counted' = Bypass!counted
      BY <1>15, <3>1, StaysCounted DEF Bypass!DecTest, InCount, BypassPCs
    <3>3. LetIn' \subseteq LetIn
      BY <1>15, <2>2 DEF Bypass!DecTest, Bypass!Goto, Bypass!locals, LetIn, BypassShape
    <3>4. QED
      BY <1>15, <3>2, <3>3, FewerLetIn DEF Bypass!DecTest, Bypass!history, CountInv
  <2>3. QED
    BY <2>1, <2>2
<1>16. ASSUME NEW h \in Handlers, Bypass!DecLoad(h) PROVE CountInv'
  <2>1. PICK to \in {"decStore"} : Move(h, to)
    BY <1>16 DEF Bypass!DecLoad, Bypass!Goto, Move
  <2>2. Bypass!counted' = Bypass!counted
    BY <1>16, <2>1, StaysCounted DEF Bypass!DecLoad, InCount, BypassPCs
  <2>3. LetIn' \subseteq LetIn
    BY <1>16 DEF Bypass!DecLoad, Bypass!Goto, Bypass!history, LetIn, BypassShape
  <2>4. QED
    BY <1>16, <2>2, <2>3, FewerLetIn
       DEF Bypass!DecLoad, Bypass!Goto, Bypass!history, CountInv
<1>17. ASSUME NEW h \in Handlers, Bypass!DecStore(h) PROVE CountInv'
  <2>1. Move(h, "exit")
    BY <1>17 DEF Bypass!DecStore, Bypass!Goto, Move
  <2>2. /\ Cardinality(Bypass!counted') = Cardinality(Bypass!counted) - 1
        /\ Cardinality(Bypass!counted) \in Nat \ {0}
    BY <1>17, <2>1, Leaves DEF Bypass!DecStore, InCount, BypassPCs
  <2>3. SUFFICES ASSUME why' = {} PROVE CountInv'
    BY DEF CountInv
  <2>4. why = {} /\ runCnt = bypass_v[h] /\ bypass_v[h] - 1 \in 0 .. ByteMax
    BY <1>17, <2>3 DEF Bypass!DecStore, Bypass!Store
  <2>5. runCnt' = bypass_v[h] - 1
    BY <1>17, <2>4, BypassAssumption DEF Bypass!DecStore, Bypass!Store
  <2>6. runCnt' = Cardinality(Bypass!counted') + leaked'
    BY <1>17, <2>2, <2>4, <2>5, BypassAssumption
       DEF Bypass!DecStore, Bypass!TypeOK, CountInv
  <2>7. LetIn' \subseteq LetIn
    BY <1>17 DEF Bypass!DecStore, Bypass!Goto, Bypass!locals, LetIn, BypassShape
  <2>8. QED
    BY <2>3, <2>4, <2>6, <2>7, FewerLetIn DEF CountInv
<1>18. ASSUME NEW h \in Handlers, Bypass!Exit(h) PROVE CountInv'
  <2>1. Move(h, "free")
    BY <1>18 DEF Bypass!Exit, Bypass!Ended, Bypass!Goto, Move
  <2>2. Bypass!counted' = Bypass!counted
    BY <1>18, <2>1, StaysCounted DEF Bypass!Exit, InCount, BypassPCs
  <2>3. LetIn' \subseteq LetIn
    BY <1>18 DEF Bypass!Exit, Bypass!Ended, Bypass!Goto, LetIn, BypassShape
  <2>4. QED
    BY <1>18, <2>2, <2>3, FewerLetIn DEF Bypass!Exit, Bypass!history, CountInv
<1>19. ASSUME NEW h \in Handlers, Bypass!KillHandler(h) PROVE CountInv'
  <2>1. Move(h, "free")
    BY <1>19 DEF Bypass!KillHandler, Bypass!Ended, Bypass!Goto, Move
  <2>2. LetIn' \subseteq LetIn
    BY <1>19 DEF Bypass!KillHandler, Bypass!Ended, Bypass!Goto, LetIn, BypassShape
  <2>3. CASE bypass_pc[h] \in InCount
    <3>1. /\ Cardinality(Bypass!counted') = Cardinality(Bypass!counted) - 1
          /\ Cardinality(Bypass!counted) \in Nat \ {0}
      BY <2>1, <2>3, Leaves DEF InCount, BypassPCs
    <3>2. leaked' = leaked + 1 /\ leaked \in Nat
      BY <1>19, <2>3, BypassAssumption
         DEF Bypass!KillHandler, Bypass!counted, Bypass!TypeOK, InCount
    <3>3. runCnt' = runCnt /\ why' = why
      BY <1>19 DEF Bypass!KillHandler
    <3>4. QED
      BY <2>2, <3>1, <3>2, <3>3, FewerLetIn DEF CountInv
  <2>4. CASE bypass_pc[h] \notin InCount
    <3>1. Bypass!counted' = Bypass!counted
      BY <2>1, <2>4, StaysCounted DEF InCount, BypassPCs
    <3>2. leaked' = leaked /\ runCnt' = runCnt /\ why' = why
      BY <1>19, <2>4 DEF Bypass!KillHandler, Bypass!counted, InCount
    <3>3. QED
      BY <2>2, <3>1, <3>2, FewerLetIn DEF CountInv
  <2>5. QED
    BY <2>3, <2>4
<1>20. ASSUME Bypass!ServerChanges PROVE CountInv'
  BY <1>20
     DEF Bypass!ServerChanges, Bypass!handler, Bypass!locals, Bypass!history, CountInv, LetIn, Bypass!counted
<1>21. QED
  BY <1>1, <1>2, <1>3, <1>4, <1>5, <1>6, <1>7, <1>8, <1>9, <1>10,
     <1>11, <1>12, <1>13, <1>14, <1>15, <1>16, <1>17, <1>18, <1>19, <1>20
     DEF Bypass!Next, Bypass!Run

(* line_check.c 76-93, main_thread.c 77: unless one of the four disturbs   *)
(* it, the count is that of the handlers between their inc and their dec   *)
(* and of those killed there, and no more are let in than the ini file     *)
(* allows.                                                                 *)
THEOREM CountKeptAlways == Bypass!Spec => []CountKept
<1> DEFINE Inv == Bypass!TypeOK /\ BypassShape /\ CountInv
<1>1. Bypass!Init => Inv
  <2> SUFFICES ASSUME Bypass!Init PROVE Inv
    OBVIOUS
  <2>1. why # {}
    BY DEF Bypass!Init
  <2>2. QED
    BY <2>1, BypassInit DEF CountInv
<1>2. Inv /\ [Bypass!Next]_(Bypass!vars) => Inv'
  BY BypassShapeStep, CountStep
<1>3. Inv => CountKept
  <2> SUFFICES ASSUME Inv PROVE CountKept
    OBVIOUS
  <2>1. Cardinality(Bypass!serving) <= Cardinality(LetIn)
    <3>1. Bypass!serving \subseteq LetIn
      BY DEF Bypass!serving, LetIn
    <3>2. QED
      BY <3>1, CountsAreFinite, FS_Subset
  <2>2. why = {} => ~(Cardinality(Bypass!serving) > max_process_cnt)
    BY <2>1, CountsAreFinite, BypassAssumption DEF CountInv
  <2>3. ASSUME NEW S PROVE Bypass!Cardinality(S) = Cardinality(S)
    BY DEF Bypass!Cardinality, Cardinality
  <2>4. QED
    BY <2>2, <2>3 DEF CountKept, CountInv, Bypass!CountExact, Bypass!OverloadOnlyByWrongCount
<1>4. QED
  BY <1>1, <1>2, <1>3, PTL DEF Bypass!Spec

=============================================================================
