------------------------- MODULE PccSingleton_proofs -------------------------
(***************************************************************************)
(* Proofs about PccSingleton: what the semaphore of IsExist_PCC guarantees *)
(* for any number of PCCs and of starts.                                   *)
(***************************************************************************)
EXTENDS PccSingleton, TLAPS

States == {"off", "get", "get2", "set", "p", "init", "bind", "serve", "rmsem", "reply"}
Up == {"init", "bind", "serve", "rmsem", "reply"}

(* The types the other parts need.                                         *)
Typed ==
    /\ pc \in [Pccs -> States]
    /\ semid \in [Pccs -> Nat] /\ shmid \in [Pccs -> Nat]
    /\ held \in [Pccs -> BOOLEAN] /\ flag \in [Pccs -> BOOLEAN]
    /\ sem \in Nat /\ pool \in Nat /\ ids \in Nat /\ val \in {0, 1}
    /\ blind \in BOOLEAN /\ orphan \in BOOLEAN
    /\ port \subseteq {"pcc", "kid"} \X Pccs
    /\ kid \in [Pccs -> {"none", "run", "told"}]
    /\ starts \in 0 .. MaxStarts

(* Ids that are in use have been given out.                                *)
Fresh ==
    /\ sem <= ids /\ pool <= ids
    /\ \A p \in Pccs : semid[p] <= ids /\ shmid[p] <= ids

(* p has the one unit of the semaphore that exists, or is about to set it. *)
Holder(p) == sem # NoId /\ semid[p] = sem /\ (held[p] \/ pc[p] = "set")

(* There is one such process, and then the value is 0.                     *)
OneUnit ==
    /\ \A p, q \in Pccs : Holder(p) /\ Holder(q) => p = q
    /\ \A p \in Pccs : Holder(p) => val = 0

(* How the local variables of a process go with the place it is at.        *)
Local == \A p \in Pccs :
    /\ held[p] => pc[p] \in Up /\ semid[p] # NoId
    /\ flag[p] => pc[p] \in {"serve", "rmsem", "reply"}
    /\ pc[p] = "set" => semid[p] # NoId
    /\ pc[p] \in Up /\ semid[p] = sem /\ sem # NoId => held[p]
    /\ held[p] /\ ~flag[p] => semid[p] = sem /\ sem # NoId
    /\ pc[p] \in Up /\ ~held[p] => blind
    /\ pc[p] \in Up \ {"init"} => shmid[p] # NoId

(* And there is one whenever the value is 0.                               *)
Taken == sem # NoId /\ val = 0 /\ ~orphan => \E p \in Pccs : Holder(p)

(* A PCC that has removed its segment no longer has the one under the key. *)
Pool == ~blind => \A p \in Pccs :
    /\ pc[p] \in {"bind", "serve", "reply"} /\ ~flag[p] => shmid[p] = pool
    /\ flag[p] \/ pc[p] = "rmsem" => shmid[p] # pool

(* The inductive invariant.                                                *)
IInv == Typed /\ Fresh /\ OneUnit /\ Local /\ Taken /\ Pool

-----------------------------------------------------------------------------
(* The end of a process keeps the types; the value it gives back was 0.    *)
LEMMA GoneTyped ==
    ASSUME IInv, NEW p \in Pccs, Gone(p), starts' = starts,
           blind' \in BOOLEAN, orphan' \in BOOLEAN
    PROVE  Typed'
<1> USE DEF IInv, Typed, States, Gone
<1>1. val' \in {0, 1}
  <2>1. CASE held[p] /\ semid[p] = sem
    <3>1. val = 0
      BY <2>1 DEF OneUnit, Holder, Local
    <3>2. QED
      BY <2>1, <3>1
  <2>2. CASE ~(held[p] /\ semid[p] = sem)
    BY <2>2
  <2>3. QED
    BY <2>1, <2>2
<1>2. /\ pc' \in [Pccs -> States] /\ semid' \in [Pccs -> Nat]
      /\ shmid' \in [Pccs -> Nat]
  BY DEF NoId
<1>3. held' \in [Pccs -> BOOLEAN] /\ flag' \in [Pccs -> BOOLEAN]
  OBVIOUS
<1>4. port' \subseteq {"pcc", "kid"} \X Pccs
  OBVIOUS
<1>5. QED
  BY <1>1, <1>2, <1>3, <1>4

(* The types are kept: the value stays below 2, since whoever sets it or   *)
(* gives the unit back is the one that holds it.                           *)
LEMMA TypedStep ==
    ASSUME IInv, [Next]_vars
    PROVE  Typed'
<1> USE DEF IInv, Typed, States, OneUnit, Holder, Local, Up, NoId
<1>1. ASSUME NEW p \in Pccs, Start(p) PROVE Typed'
  BY <1>1, MaxStartsAssumption DEF Start, Goto, mine, ipc, net, hist
<1>2. ASSUME NEW p \in Pccs, SemCreate(p) PROVE Typed'
  BY <1>2 DEF SemCreate, Goto, mine, ipc, net, hist
<1>3. ASSUME NEW p \in Pccs, SemFind(p) PROVE Typed'
  BY <1>3 DEF SemFind, Goto, mine, ipc, net, hist
<1>4. ASSUME NEW p \in Pccs, SetVal(p) PROVE Typed'
  BY <1>4 DEF SetVal, Goto, mine, ipc, net, hist
<1>5. ASSUME NEW p \in Pccs, SemP(p) PROVE Typed'
  <2>1. pc' \in [Pccs -> States]
    BY <1>5 DEF SemP, Goto
  <2> val' \in {0, 1}
    <3>1. val' = val \/ (val > 0 /\ val' = val - 1)
      BY <1>5 DEF SemP
    <3>2. QED
      BY <3>1
  <2>2. held' \in [Pccs -> BOOLEAN]
    BY <1>5 DEF SemP
  <2>3. semid' \in [Pccs -> Nat]
    BY <1>5 DEF SemP
  <2>4. blind' \in BOOLEAN
    BY <1>5 DEF SemP
  <2>5. QED
    BY <1>5, <2>1, <2>2, <2>3, <2>4 DEF SemP, net, hist
<1>6. ASSUME NEW p \in Pccs, Init_Shm(p) PROVE Typed'
  BY <1>6 DEF Init_Shm, Goto, mine, ipc, net, hist
<1>7. ASSUME NEW p \in Pccs, Bind(p) PROVE Typed'
  BY <1>7 DEF Bind, Goto, mine, ipc, net, hist
<1>8. ASSUME NEW p \in Pccs, ForkProgram(p) PROVE Typed'
  BY <1>8 DEF ForkProgram, mine, ipc, net, hist
<1>9. ASSUME NEW p \in Pccs, ProgramEnds(p) PROVE Typed'
  BY <1>9 DEF ProgramEnds, mine, ipc, net, hist
<1>10. ASSUME NEW p \in Pccs, Request(p) PROVE Typed'
  BY <1>10 DEF Request, Goto, mine, ipc, net, hist
<1>11. ASSUME NEW p \in Pccs, KillPool(p) PROVE Typed'
  BY <1>11 DEF KillPool, Goto, mine, ipc, net, hist
<1>12. ASSUME NEW p \in Pccs, KillSem(p) PROVE Typed'
  BY <1>12 DEF KillSem, Goto, mine, ipc, net, hist
<1>13. ASSUME NEW p \in Pccs, Reply(p) PROVE Typed'
  <2>1. CASE Gone(p) /\ UNCHANGED hist
    BY <2>1, GoneTyped DEF hist
  <2>2. CASE Goto(p, "reply", "serve") /\ UNCHANGED <<mine, ipc, net, hist>>
    BY <2>2 DEF Goto, mine, ipc, net, hist
  <2>3. QED
    BY <1>13, <2>1, <2>2 DEF Reply, SendOk, SendFails
<1>14. ASSUME NEW p \in Pccs, Crash(p) PROVE Typed'
  <2>1. orphan' \in BOOLEAN
    BY <1>14 DEF Crash
  <2>2. QED
    BY <1>14, <2>1, GoneTyped DEF Crash
<1>15. CASE UNCHANGED vars
  BY <1>15 DEF vars, mine, ipc, net, hist
<1>16. QED
  BY <1>1, <1>2, <1>3, <1>4, <1>5, <1>6, <1>7, <1>8, <1>9, <1>10, <1>11,
     <1>12, <1>13, <1>14, <1>15 DEF Next, Boot, KillAll

(* Only ids that were given out are in use.                                *)
LEMMA FreshStep ==
    ASSUME IInv, [Next]_vars
    PROVE  Fresh'
<1> USE DEF IInv, Typed, States, Fresh, NoId
<1>1. ASSUME NEW p \in Pccs, Start(p) PROVE Fresh'
  BY <1>1 DEF Start, Goto, mine, ipc, net, hist
<1>2. ASSUME NEW p \in Pccs, SemCreate(p) PROVE Fresh'
  BY <1>2 DEF SemCreate, Goto, mine, ipc, net, hist
<1>3. ASSUME NEW p \in Pccs, SemFind(p) PROVE Fresh'
  BY <1>3 DEF SemFind, Goto, mine, ipc, net, hist
<1>4. ASSUME NEW p \in Pccs, SetVal(p) PROVE Fresh'
  BY <1>4 DEF SetVal, Goto, mine, ipc, net, hist
<1>5. ASSUME NEW p \in Pccs, SemP(p) PROVE Fresh'
  BY <1>5 DEF SemP, Goto, mine, ipc, net, hist
<1>6. ASSUME NEW p \in Pccs, Init_Shm(p) PROVE Fresh'
  BY <1>6 DEF Init_Shm, Goto, mine, ipc, net, hist
<1>7. ASSUME NEW p \in Pccs, Bind(p) PROVE Fresh'
  BY <1>7 DEF Bind, Goto, mine, ipc, net, hist
<1>8. ASSUME NEW p \in Pccs, ForkProgram(p) PROVE Fresh'
  BY <1>8 DEF ForkProgram, mine, ipc, net, hist
<1>9. ASSUME NEW p \in Pccs, ProgramEnds(p) PROVE Fresh'
  BY <1>9 DEF ProgramEnds, mine, ipc, net, hist
<1>10. ASSUME NEW p \in Pccs, Request(p) PROVE Fresh'
  BY <1>10 DEF Request, Goto, mine, ipc, net, hist
<1>11. ASSUME NEW p \in Pccs, KillPool(p) PROVE Fresh'
  BY <1>11 DEF KillPool, Goto, mine, ipc, net, hist
<1>12. ASSUME NEW p \in Pccs, KillSem(p) PROVE Fresh'
  BY <1>12 DEF KillSem, Goto, mine, ipc, net, hist
<1>13. ASSUME NEW p \in Pccs, Reply(p) PROVE Fresh'
  BY <1>13 DEF Reply, SendOk, SendFails, Gone, Goto, mine, ipc, net, hist
<1>14. ASSUME NEW p \in Pccs, Crash(p) PROVE Fresh'
  BY <1>14 DEF Crash, Gone, mine, ipc, net, hist
<1>15. CASE UNCHANGED vars
  BY <1>15 DEF vars, mine, ipc, net, hist
<1>16. QED
  BY <1>1, <1>2, <1>3, <1>4, <1>5, <1>6, <1>7, <1>8, <1>9, <1>10, <1>11,
     <1>12, <1>13, <1>14, <1>15 DEF Next, Boot, KillAll

(* The unit has one holder: a new semaphore has a new id, which nobody     *)
(* else can hold.                                                          *)
LEMMA OneUnitStep ==
    ASSUME IInv, [Next]_vars
    PROVE  OneUnit'
<1> USE DEF IInv, Typed, States, Fresh, OneUnit, Holder, Local, Up, NoId
<1>1. ASSUME NEW p \in Pccs, Start(p) PROVE OneUnit'
  BY <1>1 DEF Start, Goto, mine, ipc, net, hist
<1>2. ASSUME NEW p \in Pccs, SemCreate(p) PROVE OneUnit'
  BY <1>2 DEF SemCreate, Goto, mine, ipc, net, hist
<1>3. ASSUME NEW p \in Pccs, SemFind(p) PROVE OneUnit'
  BY <1>3 DEF SemFind, Goto, mine, ipc, net, hist
<1>4. ASSUME NEW p \in Pccs, SetVal(p) PROVE OneUnit'
  BY <1>4 DEF SetVal, Goto, mine, ipc, net, hist
<1>5. ASSUME NEW p \in Pccs, SemP(p) PROVE OneUnit'
  BY <1>5 DEF SemP, Goto, mine, ipc, net, hist
<1>6. ASSUME NEW p \in Pccs, Init_Shm(p) PROVE OneUnit'
  BY <1>6 DEF Init_Shm, Goto, mine, ipc, net, hist
<1>7. ASSUME NEW p \in Pccs, Bind(p) PROVE OneUnit'
  BY <1>7 DEF Bind, Goto, mine, ipc, net, hist
<1>8. ASSUME NEW p \in Pccs, ForkProgram(p) PROVE OneUnit'
  BY <1>8 DEF ForkProgram, mine, ipc, net, hist
<1>9. ASSUME NEW p \in Pccs, ProgramEnds(p) PROVE OneUnit'
  BY <1>9 DEF ProgramEnds, mine, ipc, net, hist
<1>10. ASSUME NEW p \in Pccs, Request(p) PROVE OneUnit'
  BY <1>10 DEF Request, Goto, mine, ipc, net, hist
<1>11. ASSUME NEW p \in Pccs, KillPool(p) PROVE OneUnit'
  BY <1>11 DEF KillPool, Goto, mine, ipc, net, hist
<1>12. ASSUME NEW p \in Pccs, KillSem(p) PROVE OneUnit'
  BY <1>12 DEF KillSem, Goto, mine, ipc, net, hist
<1>13. ASSUME NEW p \in Pccs, Reply(p) PROVE OneUnit'
  BY <1>13 DEF Reply, SendOk, SendFails, Gone, Goto, mine, ipc, net, hist
<1>14. ASSUME NEW p \in Pccs, Crash(p) PROVE OneUnit'
  BY <1>14 DEF Crash, Gone, mine, ipc, net, hist
<1>15. CASE UNCHANGED vars
  BY <1>15 DEF vars, mine, ipc, net, hist
<1>16. QED
  BY <1>1, <1>2, <1>3, <1>4, <1>5, <1>6, <1>7, <1>8, <1>9, <1>10, <1>11,
     <1>12, <1>13, <1>14, <1>15 DEF Next, Boot, KillAll

(* The locals agree with the place the process is at.                      *)
LEMMA LocalStep ==
    ASSUME IInv, [Next]_vars
    PROVE  Local'
<1> USE DEF IInv, Typed, States, Fresh, OneUnit, Holder, Local, Up, NoId
<1>1. ASSUME NEW p \in Pccs, Start(p) PROVE Local'
  BY <1>1 DEF Start, Goto, mine, ipc, net, hist
<1>2. ASSUME NEW p \in Pccs, SemCreate(p) PROVE Local'
  BY <1>2 DEF SemCreate, Goto, mine, ipc, net, hist
<1>3. ASSUME NEW p \in Pccs, SemFind(p) PROVE Local'
  BY <1>3 DEF SemFind, Goto, mine, ipc, net, hist
<1>4. ASSUME NEW p \in Pccs, SetVal(p) PROVE Local'
  BY <1>4 DEF SetVal, Goto, mine, ipc, net, hist
<1>5. ASSUME NEW p \in Pccs, SemP(p) PROVE Local'
  BY <1>5 DEF SemP, Goto, mine, ipc, net, hist
<1>6. ASSUME NEW p \in Pccs, Init_Shm(p) PROVE Local'
  BY <1>6 DEF Init_Shm, Goto, mine, ipc, net, hist
<1>7. ASSUME NEW p \in Pccs, Bind(p) PROVE Local'
  BY <1>7 DEF Bind, Goto, mine, ipc, net, hist
<1>8. ASSUME NEW p \in Pccs, ForkProgram(p) PROVE Local'
  BY <1>8 DEF ForkProgram, mine, ipc, net, hist
<1>9. ASSUME NEW p \in Pccs, ProgramEnds(p) PROVE Local'
  BY <1>9 DEF ProgramEnds, mine, ipc, net, hist
<1>10. ASSUME NEW p \in Pccs, Request(p) PROVE Local'
  BY <1>10 DEF Request, Goto, mine, ipc, net, hist
<1>11. ASSUME NEW p \in Pccs, KillPool(p) PROVE Local'
  BY <1>11 DEF KillPool, Goto, mine, ipc, net, hist
<1>12. ASSUME NEW p \in Pccs, KillSem(p) PROVE Local'
  BY <1>12 DEF KillSem, Goto, mine, ipc, net, hist
<1>13. ASSUME NEW p \in Pccs, Reply(p) PROVE Local'
  BY <1>13 DEF Reply, SendOk, SendFails, Gone, Goto, mine, ipc, net, hist
<1>14. ASSUME NEW p \in Pccs, Crash(p) PROVE Local'
  BY <1>14 DEF Crash, Gone, mine, ipc, net, hist
<1>15. CASE UNCHANGED vars
  BY <1>15 DEF vars, mine, ipc, net, hist
<1>16. QED
  BY <1>1, <1>2, <1>3, <1>4, <1>5, <1>6, <1>7, <1>8, <1>9, <1>10, <1>11,
     <1>12, <1>13, <1>14, <1>15 DEF Next, Boot, KillAll

(* A value of 0 has a holder, unless the creator died before SETVAL.       *)
LEMMA TakenStep ==
    ASSUME IInv, [Next]_vars
    PROVE  Taken'
<1> USE DEF IInv, Typed, States, Fresh, OneUnit, Holder, Local, Up, Taken, NoId
<1>1. ASSUME NEW p \in Pccs, Start(p) PROVE Taken'
  BY <1>1 DEF Start, Goto, mine, ipc, net, hist
<1>2. ASSUME NEW p \in Pccs, SemCreate(p) PROVE Taken'
  BY <1>2 DEF SemCreate, Goto, mine, ipc, net, hist
<1>3. ASSUME NEW p \in Pccs, SemFind(p) PROVE Taken'
  BY <1>3 DEF SemFind, Goto, mine, ipc, net, hist
<1>4. ASSUME NEW p \in Pccs, SetVal(p) PROVE Taken'
  BY <1>4 DEF SetVal, Goto, mine, ipc, net, hist
<1>5. ASSUME NEW p \in Pccs, SemP(p) PROVE Taken'
  BY <1>5 DEF SemP, Goto, mine, ipc, net, hist
<1>6. ASSUME NEW p \in Pccs, Init_Shm(p) PROVE Taken'
  BY <1>6 DEF Init_Shm, Goto, mine, ipc, net, hist
<1>7. ASSUME NEW p \in Pccs, Bind(p) PROVE Taken'
  BY <1>7 DEF Bind, Goto, mine, ipc, net, hist
<1>8. ASSUME NEW p \in Pccs, ForkProgram(p) PROVE Taken'
  BY <1>8 DEF ForkProgram, mine, ipc, net, hist
<1>9. ASSUME NEW p \in Pccs, ProgramEnds(p) PROVE Taken'
  BY <1>9 DEF ProgramEnds, mine, ipc, net, hist
<1>10. ASSUME NEW p \in Pccs, Request(p) PROVE Taken'
  BY <1>10 DEF Request, Goto, mine, ipc, net, hist
<1>11. ASSUME NEW p \in Pccs, KillPool(p) PROVE Taken'
  BY <1>11 DEF KillPool, Goto, mine, ipc, net, hist
<1>12. ASSUME NEW p \in Pccs, KillSem(p) PROVE Taken'
  BY <1>12 DEF KillSem, Goto, mine, ipc, net, hist
<1>13. ASSUME NEW p \in Pccs, Reply(p) PROVE Taken'
  BY <1>13 DEF Reply, SendOk, SendFails, Gone, Goto, mine, ipc, net, hist
<1>14. ASSUME NEW p \in Pccs, Crash(p) PROVE Taken'
  <2> SUFFICES ASSUME sem' # NoId, val' = 0, ~orphan'
               PROVE  \E q \in Pccs : Holder(q)'
    OBVIOUS
  <2>1. sem' = sem /\ ~orphan /\ pc[p] # "set"
    BY <1>14 DEF Crash, Gone
  <2>2. val = 0 /\ ~(held[p] /\ semid[p] = sem)
    BY <1>14 DEF Crash, Gone
  <2>3. PICK q \in Pccs : Holder(q)
    BY <2>1, <2>2
  <2>4. q # p
    BY <2>1, <2>2, <2>3
  <2>5. Holder(q)'
    BY <1>14, <2>1, <2>3, <2>4 DEF Crash, Gone
  <2>6. QED
    BY <2>5
<1>15. CASE UNCHANGED vars
  BY <1>15 DEF vars, mine, ipc, net, hist
<1>16. QED
  BY <1>1, <1>2, <1>3, <1>4, <1>5, <1>6, <1>7, <1>8, <1>9, <1>10, <1>11,
     <1>12, <1>13, <1>14, <1>15 DEF Next, Boot, KillAll

(* Only the holder works on the pool, and it is the one under the key.     *)
LEMMA PoolStep ==
    ASSUME IInv, [Next]_vars
    PROVE  Pool'
<1> USE DEF IInv, Typed, States, Fresh, OneUnit, Holder, Local, Up, Pool, NoId
<1>1. ASSUME NEW p \in Pccs, Start(p) PROVE Pool'
  BY <1>1 DEF Start, Goto, mine, ipc, net, hist
<1>2. ASSUME NEW p \in Pccs, SemCreate(p) PROVE Pool'
  BY <1>2 DEF SemCreate, Goto, mine, ipc, net, hist
<1>3. ASSUME NEW p \in Pccs, SemFind(p) PROVE Pool'
  BY <1>3 DEF SemFind, Goto, mine, ipc, net, hist
<1>4. ASSUME NEW p \in Pccs, SetVal(p) PROVE Pool'
  BY <1>4 DEF SetVal, Goto, mine, ipc, net, hist
<1>5. ASSUME NEW p \in Pccs, SemP(p) PROVE Pool'
  BY <1>5 DEF SemP, Goto, mine, ipc, net, hist
<1>6. ASSUME NEW p \in Pccs, Init_Shm(p) PROVE Pool'
  BY <1>6 DEF Init_Shm, Goto, mine, ipc, net, hist
<1>7. ASSUME NEW p \in Pccs, Bind(p) PROVE Pool'
  BY <1>7 DEF Bind, Goto, mine, ipc, net, hist
<1>8. ASSUME NEW p \in Pccs, ForkProgram(p) PROVE Pool'
  BY <1>8 DEF ForkProgram, mine, ipc, net, hist
<1>9. ASSUME NEW p \in Pccs, ProgramEnds(p) PROVE Pool'
  BY <1>9 DEF ProgramEnds, mine, ipc, net, hist
<1>10. ASSUME NEW p \in Pccs, Request(p) PROVE Pool'
  BY <1>10 DEF Request, Goto, mine, ipc, net, hist
<1>11. ASSUME NEW p \in Pccs, KillPool(p) PROVE Pool'
  BY <1>11 DEF KillPool, Goto, mine, ipc, net, hist
<1>12. ASSUME NEW p \in Pccs, KillSem(p) PROVE Pool'
  BY <1>12 DEF KillSem, Goto, mine, ipc, net, hist
<1>13. ASSUME NEW p \in Pccs, Reply(p) PROVE Pool'
  <2>1. CASE Gone(p) /\ UNCHANGED hist
    BY <2>1 DEF Gone, hist
  <2>2. CASE Goto(p, "reply", "serve") /\ UNCHANGED <<mine, ipc, net, hist>>
    <3>1. pc[p] = "reply" /\ pc' = [pc EXCEPT ![p] = "serve"]
      BY <2>2 DEF Goto
    <3>2. UNCHANGED <<shmid, flag, pool, blind>>
      BY <2>2 DEF mine, ipc, net, hist
    <3>3. ~blind /\ ~flag[p] => shmid[p] = pool
      BY <3>1
    <3>4. QED
      BY <3>1, <3>2, <3>3
  <2>3. QED
    BY <1>13, <2>1, <2>2 DEF Reply, SendOk, SendFails
<1>14. ASSUME NEW p \in Pccs, Crash(p) PROVE Pool'
  BY <1>14 DEF Crash, Gone, mine, ipc, net, hist
<1>15. CASE UNCHANGED vars
  BY <1>15 DEF vars, mine, ipc, net, hist
<1>16. QED
  BY <1>1, <1>2, <1>3, <1>4, <1>5, <1>6, <1>7, <1>8, <1>9, <1>10, <1>11,
     <1>12, <1>13, <1>14, <1>15 DEF Next, Boot, KillAll
-----------------------------------------------------------------------------
(* It holds before the first start.                                       *)
LEMMA InitIInv ==
    ASSUME Init
    PROVE  IInv
<1> USE DEF Init, NoId
<1>1. Typed
  <2>1. starts \in 0 .. MaxStarts /\ sem \in Nat /\ pool \in Nat /\ ids \in Nat
        /\ val \in {0, 1}
    BY MaxStartsAssumption
  <2>2. pc \in [Pccs -> States] /\ kid \in [Pccs -> {"none", "run", "told"}]
    BY DEF States
  <2>3. semid \in [Pccs -> Nat] /\ shmid \in [Pccs -> Nat]
    OBVIOUS
  <2>4. held \in [Pccs -> BOOLEAN] /\ flag \in [Pccs -> BOOLEAN]
    OBVIOUS
  <2>5. blind \in BOOLEAN /\ orphan \in BOOLEAN /\ port \subseteq {"pcc", "kid"} \X Pccs
    OBVIOUS
  <2>6. QED
    BY <2>1, <2>2, <2>3, <2>4, <2>5 DEF Typed
<1>2. Fresh /\ Taken
  BY DEF Fresh, Taken
<1>3. OneUnit
  BY DEF OneUnit, Holder
<1>4. Local
  BY DEF Local, Up
<1>5. Pool
  BY DEF Pool
<1>6. QED
  BY <1>1, <1>2, <1>3, <1>4, <1>5 DEF IInv

(* What is proved above, for every reachable state.                        *)
LEMMA Inductive == Spec => []IInv
<1>1. Init => IInv
  BY InitIInv
<1>2. IInv /\ [Next]_vars => IInv'
  <2> SUFFICES ASSUME IInv, [Next]_vars PROVE IInv'
    OBVIOUS
  <2>1. QED
    BY TypedStep, FreshStep, OneUnitStep, LocalStep, TakenStep, PoolStep DEF IInv
<1>3. QED
  BY <1>1, <1>2, PTL DEF Spec

(* The type invariant, for every set of processes and number of starts:    *)
(* the value of the semaphore of pcc.c 509-525 is never above 1.           *)
THEOREM TypeCorrect == Spec => []TypeOK
<1>1. IInv => TypeOK
  BY DEF IInv, Typed, Fresh, States, TypeOK, Ids
<1>2. QED
  BY <1>1, Inductive, PTL

(* IsExist_PCC (pcc.c 511-525) lets no second PCC in that holds the        *)
(* semaphore; without a sem_p that failed there is only one at all.        *)
THEOREM OneActiveAlways == Spec => []OneActive
<1>1. IInv => OneActive
  BY DEF IInv, Typed, States, OneUnit, Holder, Local, Up, Active, OneActive, NoId
<1>2. QED
  BY <1>1, Inductive, PTL

(* No start is turned away (pcc.c 579-582) by a semaphore nobody has,      *)
(* unless its creator died before SETVAL.                                  *)
THEOREM TakenBySomebodyAlways == Spec => []TakenBySomebody
<1>1. IInv => TakenBySomebody
  BY DEF IInv, Taken, Holder, TakenBySomebody
<1>2. QED
  BY <1>1, Inductive, PTL

(* KILL_ALL of an old PCC (pcc.c 250-262) never removes the segment that a *)
(* new one works on.                                                       *)
THEOREM PoolNotPulledAlways == Spec => []PoolNotPulled
<1>1. IInv => PoolNotPulled
  BY DEF IInv, Pool, Active, PoolNotPulled
<1>2. QED
  BY <1>1, Inductive, PTL

(* Both together, as the run checks them.                                  *)
THEOREM StartsSafelyAlways == Spec => []StartsSafely
<1>1. TakenBySomebody /\ PoolNotPulled => StartsSafely
  BY DEF StartsSafely
<1>2. QED
  BY <1>1, TakenBySomebodyAlways, PoolNotPulledAlways, PTL
=============================================================================
