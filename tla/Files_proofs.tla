---------------------------- MODULE Files_proofs ----------------------------
(***************************************************************************)
(* Proofs about the programs that keep their progress on disk.             *)
(* writePositionConf, for every set of logs and every number of failing    *)
(* calls and crashes: the files have the shape the code reads, one thread  *)
(* at a time rewrites them, one copy is always there; the copy keeps the   *)
(* position of every log, and without faults the positions are true; and   *)
(* every step of a call brings it nearer to its end.  The receiver over    *)
(* SFTP, for every number of sites, files and errors: where a file is and  *)
(* what its row says.                                                      *)
(***************************************************************************)
EXTENDS MC_Files, TLAPS, SequenceTheorems, FiniteSetTheorems, WellFoundedInduction

(* Between Lock and Unlock.                                                *)
Critical == {"open", "copy", "alone", "ren1", "ren2", "only", "unbak", "back", "unlock"}

(* The parts of TypeOK, for the provers.                                   *)
TypePc == pc \in [Logs -> Critical \cup {"idle", "stat", "lock"}]

TypeCall ==
    /\ msg \in [Logs -> Messages \cup {0}]
    /\ st \in [Logs -> [ino : Nat, size : 0 .. MaxSize]]
    /\ mutex \in Logs \cup {Absent}
    /\ k \in Nat \ {0} /\ found \in BOOLEAN /\ cut \in BOOLEAN

TypeFiles ==
    /\ w \in Contents
    /\ cfg \in Contents \cup {Absent}
    /\ tmp \in Contents \cup {Absent}
    /\ bak \in Contents \cup {Absent}

TypeLogs ==
    /\ ino \in [Logs -> Nat] /\ size \in [Logs -> 0 .. MaxSize]
    /\ read \in [Logs -> 0 .. MaxSize]
    /\ rotations \in 0 .. MaxRotations /\ faults \in 0 .. MaxFaults
    /\ torn \subseteq TornBy /\ leaked \in BOOLEAN /\ given \in InitCfgs

(* One thread between Lock and Unlock: the one that has the mutex.         *)
OneWriter == \A t \in Logs : pc[t] \in Critical => mutex = t

(* Which files are there at each place in the function.                    *)
FilesAt(t) ==
    /\ pc[t] \in {"copy", "alone", "ren1", "ren2", "only"} => tmp # Absent
    /\ pc[t] \in {"copy", "ren1", "unbak"} => cfg # Absent
    /\ pc[t] \in {"ren2", "back"} => bak # Absent

IInv ==
    /\ TypePc /\ TypeCall /\ TypeFiles /\ TypeLogs
    /\ OneWriter
    /\ \A t \in Logs : FilesAt(t)
    /\ CopyExists

-----------------------------------------------------------------------------
(* A set of line numbers has a least one, which is what First chooses.     *)
LEMMA FirstIsNoted ==
    ASSUME NEW t \in Logs, Noted(t) # {}, cfg \in Contents \cup {Absent}
    PROVE  First(t) \in Noted(t)
<1> DEFINE R == OpToRel(<, Nat)
<1>1. IsWellFoundedOn(R, Nat)
  BY NatLessThanWellFounded
<1>2. Noted(t) \subseteq Nat
  BY DEF Noted
<1>3. \A x, y \in Nat : <<x, y>> \in R <=> x < y
  BY DEF OpToRel
<1> HIDE DEF R
<1>4. PICK x \in Noted(t) : \A y \in Noted(t) : ~ (<<y, x>> \in R)
  BY <1>1, <1>2, WFMin
<1>5. \A y \in Noted(t) : x <= y
  <2>1. \A y \in Noted(t) : ~ (y < x)
    BY <1>2, <1>3, <1>4
  <2>2. x \in Nat /\ \A y \in Noted(t) : y \in Nat
    BY <1>2
  <2>3. QED
    BY <2>1, <2>2
<1>6. QED
  BY <1>5 DEF First

(* The lines of cfg, none without a file.                                  *)
LEMMA CfgTyped ==
    ASSUME cfg \in Contents \cup {Absent}
    PROVE  Cfg \in Seq(Lines)
BY DEF Cfg, Contents

(* write keeps a file a file, also when it fails.                         *)
LEMMA WriteTyped ==
    ASSUME w \in Contents, tmp \in Contents, cut \in BOOLEAN, faults \in 0 .. MaxFaults,
           NEW line \in Lines, Write(line)
    PROVE  /\ w' \in Contents /\ tmp' \in Contents
           /\ cut' \in BOOLEAN /\ faults' \in 0 .. MaxFaults
<1>1. CASE Written(line) /\ NoFault /\ UNCHANGED cut
  <2>1. w'.lines \in Seq(Lines) /\ w' \in Contents
    <3>1. w.lines \in Seq(Lines) /\ Append(w.lines, line) \in Seq(Lines)
      BY DEF Contents
    <3>2. QED
      BY <1>1, <3>1 DEF Written, Contents
  <2> DEFINE n == Len(w'.lines)
             rest == SubSeq(tmp.lines, n + 1, Len(tmp.lines))
  <2>2. rest \in Seq(Lines)
    <3>1. tmp.lines \in Seq(Lines) /\ n \in Nat
      BY <2>1 DEF Contents
    <3>2. n + 1 \in Int /\ Len(tmp.lines) \in Int
      BY <3>1
    <3>3. \A j \in n + 1 .. Len(tmp.lines) : tmp.lines[j] \in Lines
      BY <3>1
    <3>4. QED
      BY <3>2, <3>3, SubSeqProperties
  <2>3. w'.lines \o rest \in Seq(Lines)
    BY <2>1, <2>2, ConcatProperties
  <2>4. tmp' = [lines |-> w'.lines \o rest, open |-> w'.open /\ n >= Len(tmp.lines)]
    BY <1>1 DEF Written
  <2>5. tmp' \in Contents
    BY <2>3, <2>4 DEF Contents
  <2>6. QED
    BY <1>1, <2>1, <2>5 DEF NoFault
<1>2. CASE Fault /\ cut' = TRUE /\ UNCHANGED <<w, tmp>>
  BY <1>2, ConstantsAssumption DEF Fault
<1>3. QED
  BY <1>1, <1>2 DEF Write

(* What is written for a log is a line.                                    *)
LEMMA LinesTyped ==
    ASSUME TypeCall, NEW t \in Logs
    PROVE  Started(t) \in Lines /\ \A old \in Lines : Advanced(t, old) \in Lines
<1>1. msg[t] \in Nat
  <2>1. msg[t] \in Messages \cup {0}
    BY DEF TypeCall
  <2>2. Messages \cup {0} \subseteq Nat
    BY ConstantsAssumption
  <2>3. QED
    BY <2>1, <2>2
<1>2. Printed(st[t].ino) \in Int
  BY ConstantsAssumption DEF TypeCall, Printed
<1>3. Started(t) \in Lines
  BY <1>1, <1>2 DEF Started, Line, Lines
<1>4. \A old \in Lines : [old EXCEPT !.pos = @ + msg[t]] \in Lines
  BY <1>1 DEF Lines
<1>5. QED
  BY <1>3, <1>4 DEF Advanced

(* A thread alone between Lock and Unlock: the others need no file.        *)
LEMMA Alone ==
    ASSUME IInv, NEW t \in Logs, pc[t] \in Critical, NEW q, q # "lock",
           pc' = [pc EXCEPT ![t] = q], FilesAt(t)'
    PROVE  \A u \in Logs : FilesAt(u)'
<1>1. \A u \in Logs : u # t => pc[u] \notin Critical /\ pc'[u] = pc[u]
  BY DEF IInv, OneWriter, TypePc
<1>2. QED
  BY <1>1 DEF FilesAt, Critical

-----------------------------------------------------------------------------
(* The invariant holds at first.                                           *)
LEMMA InitIInv ==
    ASSUME Init
    PROVE  IInv
<1> USE ConstantsAssumption, ContentsAssumption DEF Init
<1>1. TypePc
  BY DEF TypePc
<1>2. TypeCall
  <2>1. st \in [Logs -> [ino : Nat, size : 0 .. MaxSize]]
    OBVIOUS
  <2>2. msg \in [Logs -> Messages \cup {0}]
    OBVIOUS
  <2>3. mutex \in Logs \cup {Absent}
    OBVIOUS
  <2>4. k \in Nat \ {0}
    OBVIOUS
  <2>5. found \in BOOLEAN /\ cut \in BOOLEAN
    OBVIOUS
  <2>6. QED
    BY <2>1, <2>2, <2>3, <2>4, <2>5 DEF TypeCall
<1>3. TypeFiles
  <2>1. Empty \in Contents
    BY DEF Empty, Contents
  <2>2. cfg \in Contents \cup {Absent}
    BY DEF Contents
  <2>3. QED
    BY <2>1, <2>2 DEF TypeFiles
<1>4. TypeLogs
  <2>1. ino \in [Logs -> Nat]
    OBVIOUS
  <2>2. size \in [Logs -> 0 .. MaxSize] /\ read \in [Logs -> 0 .. MaxSize]
    OBVIOUS
  <2>3. rotations \in 0 .. MaxRotations /\ faults \in 0 .. MaxFaults
    OBVIOUS
  <2>4. torn \subseteq TornBy /\ leaked \in BOOLEAN /\ given \in InitCfgs
    OBVIOUS
  <2>5. QED
    BY <2>1, <2>2, <2>3, <2>4 DEF TypeLogs
<1>5. OneWriter /\ \A t \in Logs : FilesAt(t)
  BY DEF OneWriter, FilesAt, Critical
<1>6. CopyExists
  <2>1. given # Absent => cfg \in Contents
    BY DEF Contents
  <2>2. QED
    BY <2>1 DEF CopyExists
<1>7. QED
  BY <1>1, <1>2, <1>3, <1>4, <1>5, <1>6 DEF IInv

(* A log grows, is rotated, or is read on: none of the files changes.      *)
LEMMA GrowStep ==
    ASSUME IInv, UNCHANGED given, NEW t \in Logs, Grow(t)
    PROVE  IInv'
<1> USE ConstantsAssumption DEF IInv, Grow, Goto, local, held, files, logs, hist
<1>1. TypePc'
  BY DEF TypePc
<1>2. TypeCall'
  BY DEF TypeCall
<1>3. TypeFiles'
  BY DEF TypeFiles
<1>4. TypeLogs'
  BY DEF TypeLogs
<1>5. OneWriter' /\ \A u \in Logs : FilesAt(u)'
  BY DEF OneWriter, FilesAt, Critical, TypePc
<1>6. CopyExists'
  BY DEF CopyExists
<1>7. QED
  BY <1>1, <1>2, <1>3, <1>4, <1>5, <1>6

(* As above.                                                               *)
LEMMA RotateStep ==
    ASSUME IInv, UNCHANGED given, NEW t \in Logs, Rotate(t)
    PROVE  IInv'
<1> USE ConstantsAssumption DEF IInv, Rotate, Goto, local, held, files, logs, hist
<1>1. TypePc'
  BY DEF TypePc
<1>2. TypeCall'
  BY DEF TypeCall
<1>3. TypeFiles'
  BY DEF TypeFiles
<1>4. TypeLogs'
  BY DEF TypeLogs
<1>5. OneWriter' /\ \A u \in Logs : FilesAt(u)'
  BY DEF OneWriter, FilesAt, Critical, TypePc
<1>6. CopyExists'
  BY DEF CopyExists
<1>7. QED
  BY <1>1, <1>2, <1>3, <1>4, <1>5, <1>6

(* As above.                                                               *)
LEMMA CallStep ==
    ASSUME IInv, UNCHANGED given, NEW t \in Logs, Call(t)
    PROVE  IInv'
<1> USE ConstantsAssumption DEF IInv, Call, Goto, local, held, files, logs, hist
<1>1. TypePc'
  BY DEF TypePc
<1>2. TypeCall'
  BY DEF TypeCall
<1>3. TypeFiles'
  BY DEF TypeFiles
<1>4. TypeLogs'
  BY DEF TypeLogs
<1>5. OneWriter' /\ \A u \in Logs : FilesAt(u)'
  BY DEF OneWriter, FilesAt, Critical, TypePc
<1>6. CopyExists'
  BY DEF CopyExists
<1>7. QED
  BY <1>1, <1>2, <1>3, <1>4, <1>5, <1>6

-----------------------------------------------------------------------------
(* writePositionConf up to the mutex.                                      *)
LEMMA StatStep ==
    ASSUME IInv, UNCHANGED given, NEW t \in Logs, Stat(t)
    PROVE  IInv'
<1> USE ConstantsAssumption DEF IInv, Stat, Goto, NoFault, Fault, local, held, files, logs, hist
<1>1. TypePc'
  BY DEF TypePc, Critical
<1>2. TypeCall'
  <2>1. ino[t] \in Nat /\ size[t] \in 0 .. MaxSize
    BY DEF TypeLogs
  <2>2. st' \in [Logs -> [ino : Nat, size : 0 .. MaxSize]]
    BY <2>1 DEF TypeCall
  <2>3. QED
    BY <2>2 DEF TypeCall
<1>3. TypeFiles'
  BY DEF TypeFiles
<1>4. TypeLogs'
  <2>1. faults' \in 0 .. MaxFaults
    BY DEF TypeLogs
  <2>2. torn' \subseteq TornBy /\ leaked' \in BOOLEAN
    BY DEF TypeLogs
  <2>3. UNCHANGED logs
    OBVIOUS
  <2>4. QED
    BY <2>1, <2>2, <2>3 DEF TypeLogs
<1>5. OneWriter'
  BY ContentsAssumption DEF OneWriter, Critical, TypePc
<1>6. \A u \in Logs : FilesAt(u)'
  BY DEF FilesAt, TypePc
<1>7. CopyExists'
  BY DEF CopyExists, FilesAt
<1>8. QED
  BY <1>1, <1>2, <1>3, <1>4, <1>5, <1>6, <1>7

(* The mutex is free, so nobody else is between Lock and Unlock.           *)
LEMMA LockStep ==
    ASSUME IInv, UNCHANGED given, NEW t \in Logs, Lock(t)
    PROVE  IInv'
<1> USE ConstantsAssumption DEF IInv, Lock, Goto, local, held, files, logs, hist
<1>1. TypePc'
  BY DEF TypePc, Critical
<1>2. TypeCall'
  BY DEF TypeCall, TypeLogs
<1>3. TypeFiles'
  BY DEF TypeFiles
<1>4. TypeLogs'
  BY DEF TypeLogs
<1>5. OneWriter'
  BY ContentsAssumption DEF OneWriter, Critical, TypePc
<1>6. \A u \in Logs : FilesAt(u)'
  BY DEF FilesAt, TypePc
<1>7. CopyExists'
  BY DEF CopyExists, FilesAt
<1>8. QED
  BY <1>1, <1>2, <1>3, <1>4, <1>5, <1>6, <1>7

(* .tmp is there from now on; a failure leaves the mutex with t.           *)
LEMMA OpenStep ==
    ASSUME IInv, UNCHANGED given, NEW t \in Logs, Open(t)
    PROVE  IInv'
<1> USE ConstantsAssumption DEF IInv, Open, Goto, NoFault, Fault, local, held, files, logs, hist
<1>1. TypePc'
  BY DEF TypePc, Critical
<1>2. TypeCall'
  <2>1. k' \in Nat \ {0} /\ UNCHANGED <<msg, st, mutex>>
    OBVIOUS
  <2>2. found' \in BOOLEAN /\ cut' \in BOOLEAN
    OBVIOUS
  <2>3. QED
    BY <2>1, <2>2 DEF TypeCall
<1>3. /\ TypeFiles' /\ (tmp # Absent => tmp' # Absent)
      /\ pc'[t] \in {"copy", "alone"} => tmp' # Absent
      /\ pc'[t] = "copy" => cfg' # Absent
      /\ pc'[t] \in {"copy", "alone", "idle"}
  <2>1. Empty \in Contents
    BY DEF Empty, Contents
  <2>2. QED
    BY <2>1, ContentsAssumption DEF TypeFiles, TypePc
<1>4. TypeLogs'
  <2>1. faults' \in 0 .. MaxFaults
    BY DEF TypeLogs
  <2>2. torn' \subseteq TornBy
    BY DEF TypeLogs
  <2>3. leaked' \in BOOLEAN
    BY DEF TypeLogs
  <2>4. UNCHANGED logs
    OBVIOUS
  <2>5. QED
    BY <2>1, <2>2, <2>3, <2>4 DEF TypeLogs
<1>5. OneWriter'
  BY DEF OneWriter, Critical, TypePc
<1>6. \A u \in Logs : FilesAt(u)'
  <2>1. FilesAt(t)'
    BY <1>3 DEF FilesAt, TypePc
  <2>2. QED
    BY <2>1, Alone DEF Critical
<1>7. CopyExists'
  BY DEF CopyExists, FilesAt
<1>8. QED
  BY <1>1, <1>2, <1>3, <1>4, <1>5, <1>6, <1>7

(* A line is copied.                                                       *)
LEMMA CopyStep ==
    ASSUME IInv, UNCHANGED given, NEW t \in Logs, Copy(t)
    PROVE  IInv'
<1> USE ConstantsAssumption DEF IInv, Copy, Goto, local, files, logs
<1>1. TypePc'
  BY DEF TypePc, Critical
<1>2. /\ w' \in Contents /\ tmp' \in Contents
      /\ cut' \in BOOLEAN /\ faults' \in 0 .. MaxFaults
  <2>1. tmp \in Contents
    BY DEF FilesAt, TypeFiles
  <2>2. Cfg[k] \in Lines
    BY CfgTyped DEF TypeFiles, TypeCall
  <2>3. (IF Cfg[k].idx = t THEN Advanced(t, Cfg[k]) ELSE Cfg[k]) \in Lines
    BY <2>2, LinesTyped
  <2>4. QED
    BY <2>1, <2>3, WriteTyped DEF TypeFiles, TypeCall, TypeLogs
<1>3. TypeCall'
  <2>1. k' \in Nat \ {0} /\ found' \in BOOLEAN
    BY DEF TypeCall
  <2>2. UNCHANGED <<msg, st, mutex>>
    OBVIOUS
  <2>3. QED
    BY <1>2, <2>1, <2>2 DEF TypeCall
<1>4. TypeFiles' /\ tmp' # Absent
  BY <1>2, ContentsAssumption DEF TypeFiles
<1>5. TypeLogs'
  BY <1>2 DEF TypeLogs
<1>6. OneWriter' /\ \A u \in Logs : FilesAt(u)'
  BY <1>4 DEF OneWriter, FilesAt, Critical, TypePc
<1>7. CopyExists'
  BY DEF CopyExists
<1>8. QED
  BY <1>1, <1>3, <1>4, <1>5, <1>6, <1>7

(* A read fails: the rest is left out.                                     *)
LEMMA ReadFailsStep ==
    ASSUME IInv, UNCHANGED given, NEW t \in Logs, ReadFails(t)
    PROVE  IInv'
<1> USE ConstantsAssumption DEF IInv, ReadFails, Fault, local, files, logs
<1>1. TypePc'
  BY DEF TypePc, Critical
<1>2. TypeCall'
  <2>1. k' \in Nat \ {0}
    BY CfgTyped DEF TypeFiles
  <2>2. found' \in BOOLEAN /\ cut' \in BOOLEAN /\ UNCHANGED <<msg, st, mutex>>
    BY DEF TypeCall
  <2>3. QED
    BY <2>1, <2>2 DEF TypeCall
<1>3. TypeFiles'
  BY DEF TypeFiles
<1>4. TypeLogs'
  BY DEF TypeLogs
<1>5. OneWriter' /\ \A u \in Logs : FilesAt(u)'
  BY DEF OneWriter, FilesAt, Critical, TypePc
<1>6. CopyExists'
  BY DEF CopyExists
<1>7. QED
  BY <1>1, <1>2, <1>3, <1>4, <1>5, <1>6

(* What is written for log t at the end, or instead of the copy.           *)
LEMMA StartedWritten ==
    ASSUME IInv, NEW t \in Logs, tmp # Absent,
           Write(Started(t)) \/ UNCHANGED <<w, tmp, cut, faults>>
    PROVE  /\ w' \in Contents /\ tmp' \in Contents /\ tmp' # Absent
           /\ cut' \in BOOLEAN /\ faults' \in 0 .. MaxFaults
<1>1. w \in Contents /\ tmp \in Contents /\ cut \in BOOLEAN /\ faults \in 0 .. MaxFaults
  BY DEF IInv, TypeFiles, TypeCall, TypeLogs
<1>2. Started(t) \in Lines
  BY LinesTyped DEF IInv
<1>3. CASE Write(Started(t))
  BY <1>1, <1>2, <1>3, WriteTyped, ContentsAssumption
<1>4. CASE UNCHANGED <<w, tmp, cut, faults>>
  BY <1>1, <1>4
<1>5. QED
  BY <1>3, <1>4

(* The last line.                                                          *)
LEMMA CopyEndsStep ==
    ASSUME IInv, UNCHANGED given, NEW t \in Logs, CopyEnds(t)
    PROVE  IInv'
<1> USE ConstantsAssumption DEF IInv, CopyEnds, Goto, logs
<1>1. TypePc'
  BY DEF TypePc, Critical
<1>2. /\ w' \in Contents /\ tmp' \in Contents /\ tmp' # Absent
      /\ cut' \in BOOLEAN /\ faults' \in 0 .. MaxFaults
  <2>1. tmp # Absent
    BY DEF FilesAt
  <2>2. Write(Started(t)) \/ UNCHANGED <<w, tmp, cut, faults>>
    OBVIOUS
  <2>3. QED
    BY <2>1, <2>2, StartedWritten
<1>3. TypeCall'
  BY <1>2 DEF TypeCall
<1>4. TypeFiles'
  BY <1>2 DEF TypeFiles
<1>5. TypeLogs'
  BY <1>2 DEF TypeLogs
<1>6. OneWriter'
  BY DEF OneWriter, Critical, TypePc
<1>7. \A u \in Logs : FilesAt(u)'
  <2>1. FilesAt(t)'
    BY <1>2 DEF FilesAt, TypePc
  <2>2. QED
    BY <2>1, Alone DEF Critical
<1>8. CopyExists'
  BY DEF CopyExists
<1>9. QED
  BY <1>1, <1>3, <1>4, <1>5, <1>6, <1>7, <1>8

(* The only line.                                                          *)
LEMMA WriteAloneStep ==
    ASSUME IInv, UNCHANGED given, NEW t \in Logs, WriteAlone(t)
    PROVE  IInv'
<1> USE ConstantsAssumption DEF IInv, WriteAlone, Goto, logs
<1>1. TypePc'
  BY DEF TypePc, Critical
<1>2. /\ w' \in Contents /\ tmp' \in Contents /\ tmp' # Absent
      /\ cut' \in BOOLEAN /\ faults' \in 0 .. MaxFaults
  <2>1. tmp # Absent
    BY DEF FilesAt
  <2>2. QED
    BY <2>1, StartedWritten
<1>3. TypeCall'
  BY <1>2 DEF TypeCall
<1>4. TypeFiles'
  BY <1>2 DEF TypeFiles
<1>5. TypeLogs'
  BY <1>2 DEF TypeLogs
<1>6. OneWriter'
  BY DEF OneWriter, Critical, TypePc
<1>7. \A u \in Logs : FilesAt(u)'
  <2>1. FilesAt(t)'
    BY <1>2 DEF FilesAt, TypePc
  <2>2. QED
    BY <2>1, Alone DEF Critical
<1>8. CopyExists'
  BY DEF CopyExists
<1>9. QED
  BY <1>1, <1>3, <1>4, <1>5, <1>6, <1>7, <1>8

(* cfg becomes .bak.                                                       *)
LEMMA RenameCfgStep ==
    ASSUME IInv, UNCHANGED given, NEW t \in Logs, RenameCfg(t)
    PROVE  IInv'
<1> USE ConstantsAssumption DEF IInv, RenameCfg, Goto, NoFault, Fault, local, held, files, logs, hist
<1>1. TypePc'
  BY DEF TypePc, Critical
<1>2. TypeCall'
  BY DEF TypeCall, TypeLogs
<1>3. TypeFiles'
  BY DEF TypeFiles
<1>4. TypeLogs'
  BY DEF TypeLogs
<1>5. OneWriter'
  BY DEF OneWriter, Critical, TypePc
<1>6. \A u \in Logs : FilesAt(u)'
  <2>1. FilesAt(t)'
    BY <1>3 DEF FilesAt, TypePc
  <2>2. QED
    BY <2>1, Alone DEF Critical
<1>7. CopyExists'
  BY DEF CopyExists, FilesAt
<1>8. QED
  BY <1>1, <1>2, <1>3, <1>4, <1>5, <1>6, <1>7

(* .tmp becomes cfg.                                                       *)
LEMMA RenameTmpStep ==
    ASSUME IInv, UNCHANGED given, NEW t \in Logs, RenameTmp(t)
    PROVE  IInv'
<1> USE ConstantsAssumption DEF IInv, RenameTmp, Goto, NoFault, Fault, local, held, files, logs, hist
<1>1. TypePc'
  BY DEF TypePc, Critical
<1>2. TypeCall'
  BY DEF TypeCall, TypeLogs
<1>3. TypeFiles'
  BY DEF TypeFiles
<1>4. TypeLogs'
  <2>1. torn' \subseteq TornBy
    BY DEF TypeLogs, TornBy
  <2>2. faults' \in 0 .. MaxFaults /\ leaked' \in BOOLEAN /\ UNCHANGED logs
    BY DEF TypeLogs
  <2>3. QED
    BY <2>1, <2>2 DEF TypeLogs
<1>5. OneWriter'
  BY DEF OneWriter, Critical, TypePc
<1>6. \A u \in Logs : FilesAt(u)'
  <2>1. FilesAt(t)'
    BY <1>3 DEF FilesAt, TypePc
  <2>2. QED
    BY <2>1, Alone DEF Critical
<1>7. CopyExists'
  BY DEF CopyExists, FilesAt
<1>8. QED
  BY <1>1, <1>2, <1>3, <1>4, <1>5, <1>6, <1>7

(* The same without a .bak.                                                *)
LEMMA RenameOnlyStep ==
    ASSUME IInv, UNCHANGED given, NEW t \in Logs, RenameOnly(t)
    PROVE  IInv'
<1> USE ConstantsAssumption DEF IInv, RenameOnly, Goto, NoFault, Fault, local, held, files, logs, hist
<1>1. TypePc'
  BY DEF TypePc, Critical
<1>2. TypeCall'
  BY DEF TypeCall, TypeLogs
<1>3. TypeFiles'
  BY DEF TypeFiles
<1>4. TypeLogs'
  <2>1. torn' \subseteq TornBy
    BY DEF TypeLogs, TornBy
  <2>2. faults' \in 0 .. MaxFaults /\ leaked' \in BOOLEAN /\ UNCHANGED logs
    BY DEF TypeLogs
  <2>3. QED
    BY <2>1, <2>2 DEF TypeLogs
<1>5. OneWriter'
  BY DEF OneWriter, Critical, TypePc
<1>6. \A u \in Logs : FilesAt(u)'
  <2>1. FilesAt(t)'
    BY <1>3 DEF FilesAt, TypePc
  <2>2. QED
    BY <2>1, Alone DEF Critical
<1>7. CopyExists'
  BY DEF CopyExists, FilesAt
<1>8. QED
  BY <1>1, <1>2, <1>3, <1>4, <1>5, <1>6, <1>7

(* .bak becomes cfg again, or stays.                                       *)
LEMMA BackStep ==
    ASSUME IInv, UNCHANGED given, NEW t \in Logs, Back(t)
    PROVE  IInv'
<1> USE ConstantsAssumption DEF IInv, Back, Goto, NoFault, Fault, local, held, files, logs, hist
<1>1. TypePc'
  BY DEF TypePc, Critical
<1>2. TypeCall'
  BY DEF TypeCall, TypeLogs
<1>3. TypeFiles'
  BY DEF TypeFiles
<1>4. TypeLogs'
  <2>1. faults' \in 0 .. MaxFaults
    BY DEF TypeLogs
  <2>2. torn' \subseteq TornBy
    BY DEF TypeLogs, TornBy
  <2>3. leaked' \in BOOLEAN
    BY DEF TypeLogs
  <2>4. UNCHANGED logs
    OBVIOUS
  <2>5. QED
    BY <2>1, <2>2, <2>3, <2>4 DEF TypeLogs
<1>5. OneWriter'
  BY DEF OneWriter, Critical, TypePc
<1>6. \A u \in Logs : FilesAt(u)'
  <2>1. FilesAt(t)'
    BY <1>3 DEF FilesAt, TypePc
  <2>2. QED
    BY <2>1, Alone DEF Critical
<1>7. CopyExists'
  BY DEF CopyExists, FilesAt
<1>8. QED
  BY <1>1, <1>2, <1>3, <1>4, <1>5, <1>6, <1>7

(* .bak goes when cfg is there.                                            *)
LEMMA UnlinkBakStep ==
    ASSUME IInv, UNCHANGED given, NEW t \in Logs, UnlinkBak(t)
    PROVE  IInv'
<1> USE ConstantsAssumption DEF IInv, UnlinkBak, Goto, NoFault, Fault, local, held, files, logs, hist
<1>1. TypePc'
  BY DEF TypePc, Critical
<1>2. TypeCall'
  BY DEF TypeCall, TypeLogs
<1>3. TypeFiles'
  BY DEF TypeFiles
<1>4. TypeLogs'
  BY DEF TypeLogs
<1>5. OneWriter'
  BY DEF OneWriter, Critical, TypePc
<1>6. \A u \in Logs : FilesAt(u)'
  <2>1. FilesAt(t)'
    BY <1>3 DEF FilesAt, TypePc
  <2>2. QED
    BY <2>1, Alone DEF Critical
<1>7. CopyExists'
  BY DEF CopyExists, FilesAt
<1>8. QED
  BY <1>1, <1>2, <1>3, <1>4, <1>5, <1>6, <1>7

(* The mutex is given back.                                                *)
LEMMA UnlockStep ==
    ASSUME IInv, UNCHANGED given, NEW t \in Logs, Unlock(t)
    PROVE  IInv'
<1> USE ConstantsAssumption DEF IInv, Unlock, Goto, local, held, files, logs, hist
<1>1. TypePc'
  BY DEF TypePc, Critical
<1>2. TypeCall'
  BY DEF TypeCall, TypeLogs
<1>3. TypeFiles'
  BY DEF TypeFiles
<1>4. TypeLogs'
  BY DEF TypeLogs
<1>5. OneWriter'
  BY DEF OneWriter, Critical, TypePc
<1>6. \A u \in Logs : FilesAt(u)'
  <2>1. FilesAt(t)'
    BY <1>3 DEF FilesAt, TypePc
  <2>2. QED
    BY <2>1, Alone DEF Critical
<1>7. CopyExists'
  BY DEF CopyExists, FilesAt
<1>8. QED
  BY <1>1, <1>2, <1>3, <1>4, <1>5, <1>6, <1>7

(* A crash takes no file away; the readers take up what they find.         *)
LEMMA CrashStep ==
    ASSUME IInv, UNCHANGED given, Crash
    PROVE  IInv'
<1> USE ConstantsAssumption DEF IInv, Crash, files
<1>1. TypePc'
  BY DEF TypePc
<1>2. TypeCall'
  <2>1. UNCHANGED <<msg, st>> /\ mutex' = Absent /\ k' = 1
    OBVIOUS
  <2>2. k' \in Nat \ {0}
    BY <2>1
  <2>3. found' \in BOOLEAN /\ cut' \in BOOLEAN
    OBVIOUS
  <2>4. QED
    BY <2>1, <2>2, <2>3 DEF TypeCall
<1>3. TypeFiles'
  BY DEF TypeFiles, Empty, Contents
<1>4. TypeLogs'
  <2>1. ASSUME NEW t \in Logs, Noted(t) # {}, Cfg[First(t)].pos <= size[t]
        PROVE  Cfg[First(t)].pos \in 0 .. MaxSize
    <3>1. First(t) \in 1 .. Len(Cfg)
      BY <2>1, FirstIsNoted DEF Noted, TypeFiles
    <3>2. Cfg[First(t)] \in Lines
      BY <3>1, CfgTyped DEF TypeFiles
    <3>3. Cfg[First(t)].pos \in Nat /\ size[t] \in 0 .. MaxSize
      BY <3>2 DEF Lines, TypeLogs
    <3>4. QED
      BY <2>1, <3>3
  <2>2. read' \in [Logs -> 0 .. MaxSize]
    BY <2>1
  <2>3. torn' \subseteq TornBy
    BY DEF TypeLogs, TornBy
  <2>4. faults' \in 0 .. MaxFaults
    BY DEF TypeLogs, Fault
  <2>5. QED
    BY <2>2, <2>3, <2>4 DEF TypeLogs
<1>5. OneWriter' /\ \A t \in Logs : FilesAt(t)'
  BY DEF OneWriter, FilesAt, Critical
<1>6. CopyExists'
  BY DEF CopyExists
<1>7. QED
  BY <1>1, <1>2, <1>3, <1>4, <1>5, <1>6

-----------------------------------------------------------------------------
(* What is proved above, for every reachable state.                        *)
LEMMA Inductive == Spec => []IInv
<1>1. Init => IInv
  BY InitIInv
<1>2. IInv /\ [Next]_vars => IInv'
  <2> SUFFICES ASSUME IInv, [Next]_vars PROVE IInv'
    OBVIOUS
  <2>1. CASE UNCHANGED vars
    BY <2>1 DEF vars, local, held, files, logs, hist, IInv, TypePc, TypeCall, TypeFiles,
                TypeLogs, OneWriter, FilesAt, CopyExists
  <2>2. QED
    BY <2>1, GrowStep, RotateStep, CallStep, StatStep, LockStep, OpenStep, CopyStep,
       ReadFailsStep, CopyEndsStep, WriteAloneStep, RenameCfgStep, RenameTmpStep, RenameOnlyStep, BackStep,
       UnlinkBakStep, UnlockStep, CrashStep DEF Next, Step
<1>3. QED
  BY <1>1, <1>2, PTL DEF Spec

(* The type invariant, for any logs, sizes, rotations and faults: what is  *)
(* read back from the position file is a sequence of records.              *)
THEOREM TypeCorrect == Spec => []TypeOK
<1>1. IInv => TypeOK
  BY DEF IInv, TypeOK, TypePc, TypeCall, TypeFiles, TypeLogs, Critical
<1>2. QED
  BY <1>1, Inductive, PTL

(* The two renames of main.c 206-215 never leave the program without a     *)
(* position file, whichever calls fail and whenever it dies.               *)
THEOREM CopyExistsAlways == Spec => []CopyExists
<1>1. IInv => CopyExists
  BY DEF IInv
<1>2. QED
  BY <1>1, Inductive, PTL

(* Of the threads that are past Lock, with or without a mutex left behind  *)
(* by an open that failed (main.c 144-152), there is one: two copies are   *)
(* never mixed in .tmp.                                                    *)
THEOREM OneWriterAlways ==
    Spec => [](\A t, u \in Logs : pc[t] \in Critical /\ pc[u] \in Critical => t = u)
<1>1. IInv => \A t, u \in Logs : pc[t] \in Critical /\ pc[u] \in Critical => t = u
  BY DEF IInv, OneWriter
<1>2. QED
  BY <1>1, Inductive, PTL

-----------------------------------------------------------------------------
(* The copy, for files without comments.  While no read and no write of    *)
(* the call fails, every line becomes the line that the code writes for    *)
(* it, where it was.                                                       *)
NoComments(lines) == \A j \in 1 .. Len(lines) : lines[j].idx \in Logs
RecordsOnly == \A g \in InitCfgs \ {Absent} : NoComments(g)

Records ==
    /\ cfg # Absent => NoComments(cfg.lines)
    /\ bak # Absent => NoComments(bak.lines)
    /\ tmp # Absent => NoComments(tmp.lines)
    /\ NoComments(w.lines) /\ w.open = FALSE

NewLine(t, old) == IF old.idx = t THEN Advanced(t, old) ELSE old

(* The first n lines of old are written anew in new.                       *)
Covers(t, old, n, new) ==
    /\ n <= Len(old) /\ n <= Len(new)
    /\ \A j \in 1 .. n : new[j] = NewLine(t, old[j])

Has(lines, n, t) == \E j \in 1 .. n : lines[j].idx = t

Copying(t) == pc[t] = "copy" /\ ~cut =>
    /\ Len(w.lines) = k - 1 /\ Covers(t, Cfg, k - 1, w.lines)
    /\ found <=> Has(Cfg, k - 1, t)
    /\ k - 1 <= Len(tmp.lines) /\ \A j \in 1 .. k - 1 : tmp.lines[j] = w.lines[j]

Copied(t) ==
    /\ pc[t] = "ren1" /\ ~cut => Covers(t, cfg.lines, Len(cfg.lines), tmp.lines)
    /\ pc[t] = "ren2" /\ ~cut => Covers(t, bak.lines, Len(bak.lines), tmp.lines)

CInv == IInv /\ Records /\ (\A t \in Logs : Copying(t)) /\ (\A t \in Logs : Copied(t))

(* The thread between Lock and Unlock is the only one.                     *)
LEMMA OnlyOne ==
  ASSUME IInv, NEW t \in Logs, NEW u \in Logs, pc[t] \in Critical, pc[u] \in Critical
  PROVE u = t
BY DEF IInv, OneWriter

(* A step that touches neither the files nor the copy.                     *)
LEMMA Aside ==
  ASSUME CInv, IInv', UNCHANGED <<k, found, cut, w, files>>,
         \A t \in Logs : pc'[t] \in {"copy", "ren1", "ren2"} =>
             pc'[t] = pc[t] /\ st'[t] = st[t] /\ msg'[t] = msg[t]
  PROVE CInv'
<1>1. Records'
  BY DEF CInv, Records, files
<1>2. ASSUME NEW t \in Logs, pc'[t] \in {"copy", "ren1", "ren2"}
      PROVE \A old : NewLine(t, old)' = NewLine(t, old)
  BY <1>2 DEF NewLine, Advanced, Started, Line
<1>3. ASSUME NEW t \in Logs PROVE Copying(t)'
  BY <1>2 DEF CInv, Copying, Covers, Has, files, Cfg
<1>4. ASSUME NEW t \in Logs PROVE Copied(t)'
  BY <1>2 DEF CInv, Copied, Covers, files
<1>5. QED
  BY <1>1, <1>3, <1>4 DEF CInv

(* The line that is written for a record is a record of the same log.      *)
LEMMA NewLineTyped ==
  ASSUME IInv, NEW t \in Logs, NEW old \in Lines, old.idx \in Logs
  PROVE NewLine(t, old) \in Lines /\ NewLine(t, old).idx = old.idx
<1>1. Advanced(t, old) \in Lines /\ Started(t) \in Lines
  BY LinesTyped DEF IInv
<1>2. old.idx = t => Advanced(t, old).idx = t
  BY DEF Advanced, Started, Line, Lines
<1>3. QED
  BY <1>1, <1>2 DEF NewLine

(* What write does with a record, when no comment is about.                *)
Recorded(line) ==
    /\ w \in Contents /\ w.open = FALSE /\ tmp \in Contents
    /\ line \in Lines /\ line.idx \in Logs
    /\ Written(line)

LEMMA LineWritten ==
  ASSUME NEW line, Recorded(line)
  PROVE /\ w'.lines = Append(w.lines, line) /\ w'.open = FALSE
        /\ tmp'.lines \in Seq(Lines)
        /\ Len(tmp'.lines) >= Len(w.lines) + 1
        /\ \A j \in 1 .. Len(w.lines) + 1 : tmp'.lines[j] = w'.lines[j]
        /\ \A j \in 1 .. Len(tmp'.lines) :
             j > Len(w.lines) + 1 => j <= Len(tmp.lines) /\ tmp'.lines[j] = tmp.lines[j]
        /\ Len(tmp.lines) <= Len(w.lines) + 1 => Len(tmp'.lines) = Len(w.lines) + 1
<1>1. w'.lines = Append(w.lines, line) /\ w'.open = FALSE
  BY ConstantsAssumption DEF Recorded, Written
<1>2. w.lines \in Seq(Lines) /\ tmp.lines \in Seq(Lines) /\ line \in Lines
  BY DEF Recorded, Contents
<1> DEFINE n == Len(w.lines) + 1
           m == Len(tmp.lines)
           rest == SubSeq(tmp.lines, n + 1, m)
<1>3. w'.lines \in Seq(Lines) /\ Len(w'.lines) = n
  BY <1>1, <1>2
<1>4. n \in Nat \ {0} /\ m \in Nat /\ \A j \in 1 .. m : tmp.lines[j] \in Lines
  BY <1>2
<1>5. tmp'.lines = w'.lines \o rest
  BY <1>3 DEF Recorded, Written
<1>6. rest \in Seq(Lines) /\ Len(rest) = (IF n + 1 <= m THEN m - n ELSE 0)
      /\ \A j \in 1 .. m - n : rest[j] = tmp.lines[n + j]
  <2> HIDE DEF n, m
  <2>1. \A j \in n + 1 .. m : tmp.lines[j] \in Lines
    BY <1>4
  <2>2. n + 1 \in Int /\ m \in Int
    BY <1>4
  <2>3. rest \in Seq(Lines) /\ Len(rest) = (IF n + 1 <= m THEN m - (n + 1) + 1 ELSE 0)
        /\ \A j \in 1 .. m - (n + 1) + 1 : rest[j] = tmp.lines[n + 1 + j - 1]
    BY <2>1, <2>2, SubSeqProperties
  <2> HIDE DEF rest
  <2>4. m - (n + 1) + 1 = m - n /\ \A j \in Int : n + 1 + j - 1 = n + j
    BY <1>4
  <2>5. Len(rest) = (IF n + 1 <= m THEN m - n ELSE 0)
    BY <2>3, <2>4
  <2>6. ASSUME NEW j \in 1 .. m - n PROVE rest[j] = tmp.lines[n + j]
    <3>1. j \in Int /\ j \in 1 .. m - (n + 1) + 1
      BY <2>4
    <3>2. rest[j] = tmp.lines[n + 1 + j - 1]
      BY <2>3, <3>1
    <3>3. QED
      BY <2>4, <3>1, <3>2
  <2>7. QED
    BY <2>3, <2>5, <2>6
<1> HIDE DEF rest
<1>7. tmp'.lines \in Seq(Lines) /\ Len(tmp'.lines) = n + Len(rest)
      /\ \A j \in 1 .. n + Len(rest) :
           tmp'.lines[j] = IF j <= n THEN w'.lines[j] ELSE rest[j - n]
  <2> DEFINE a == w'.lines
  <2> HIDE DEF a
  <2>1. a \in Seq(Lines) /\ Len(a) = n /\ tmp'.lines = a \o rest
    BY <1>3, <1>5 DEF a
  <2>2. a \o rest \in Seq(Lines) /\ Len(a \o rest) = Len(a) + Len(rest)
        /\ \A j \in 1 .. Len(a) + Len(rest) :
             (a \o rest)[j] = IF j <= Len(a) THEN a[j] ELSE rest[j - Len(a)]
    BY <1>6, <2>1, ConcatProperties
  <2>3. QED
    BY <2>1, <2>2 DEF a
<1> HIDE DEF n, m
<1>8. Len(rest) \in Nat
  BY <1>6
<1>9. \A j \in 1 .. n : tmp'.lines[j] = w'.lines[j]
  BY <1>4, <1>7, <1>8
<1>10. ASSUME NEW j \in 1 .. Len(tmp'.lines), j > n
      PROVE  j <= m /\ tmp'.lines[j] = tmp.lines[j]
  <2>1. j \in Nat /\ j - n \in 1 .. m - n /\ n + 1 <= m
    BY <1>4, <1>6, <1>7, <1>10
  <2>2. tmp'.lines[j] = rest[j - n]
    BY <1>4, <1>7, <1>8, <1>10, <2>1
  <2>3. rest[j - n] = tmp.lines[n + (j - n)]
    BY <1>6, <2>1
  <2>4. n + (j - n) = j /\ j <= m
    BY <1>4, <2>1
  <2>5. QED
    BY <2>2, <2>3, <2>4
<1>11. Len(tmp'.lines) >= n /\ (m <= n => Len(tmp'.lines) = n)
  BY <1>4, <1>6, <1>7
<1>12. QED
  BY <1>1, <1>7, <1>9, <1>10, <1>11 DEF n, m

(* No comment comes in.                                                    *)
LEMMA WrittenRecords ==
  ASSUME NEW line, Recorded(line), NoComments(w.lines), NoComments(tmp.lines)
  PROVE NoComments(w'.lines) /\ w'.open = FALSE /\ NoComments(tmp'.lines)
<1>1. w.lines \in Seq(Lines) /\ tmp.lines \in Seq(Lines)
  BY DEF Recorded, Contents
<1>2. w'.lines = Append(w.lines, line) /\ w'.open = FALSE
  BY LineWritten
<1>3. \A j \in 1 .. Len(w.lines) + 1 : w'.lines[j].idx \in Logs
  BY <1>1, <1>2 DEF NoComments, Recorded
<1>4. ASSUME NEW j \in 1 .. Len(tmp'.lines) PROVE tmp'.lines[j].idx \in Logs
  <2>0. tmp'.lines \in Seq(Lines)
    BY LineWritten
  <2>1. j \in Nat /\ j > 0
    BY <2>0
  <2>2. CASE j <= Len(w.lines) + 1
    <3>1. j \in 1 .. Len(w.lines) + 1
      BY <1>1, <2>1, <2>2
    <3>2. QED
      BY <1>3, <3>1, LineWritten
  <2>3. CASE j > Len(w.lines) + 1
    <3>1. j <= Len(tmp.lines) /\ tmp'.lines[j] = tmp.lines[j]
      BY <2>3, LineWritten
    <3>2. j \in 1 .. Len(tmp.lines)
      BY <1>1, <2>1, <3>1
    <3>3. QED
      BY <3>1, <3>2 DEF NoComments
  <2>4. QED
    BY <1>1, <2>1, <2>2, <2>3
<1>5. Len(w'.lines) = Len(w.lines) + 1
  BY <1>1, <1>2
<1>6. QED
  BY <1>2, <1>3, <1>4, <1>5 DEF NoComments

(* At first the file is as it is given.                                    *)
LEMMA CopyInit ==
  ASSUME RecordsOnly, Init PROVE CInv
<1>1. IInv
  BY InitIInv
<1>2. Records
  BY ConstantsAssumption DEF Init, Records, RecordsOnly, NoComments, Empty
<1>3. QED
  BY <1>1, <1>2 DEF CInv, Init, Copying, Copied

(* The copy begins.                                                        *)
LEMMA CopyBegins ==
  ASSUME CInv, IInv', NEW t \in Logs, Open(t) PROVE CInv'
<1> USE DEF Open, Goto
<1>1. Records'
  BY DEF CInv, Records, NoComments, Empty
<1>2. ASSUME NEW u \in Logs, u # t PROVE pc'[u] \notin {"copy", "ren1", "ren2"}
  BY <1>2, OnlyOne DEF CInv, IInv, TypePc, Critical
<1>3. ASSUME NEW u \in Logs PROVE Copying(u)' /\ Copied(u)'
  <2>1. CASE u # t
    BY <1>2, <2>1 DEF Copying, Copied
  <2>2. CASE u = t
    <3>1. pc'[t] \in {"copy", "alone", "idle"}
      BY DEF CInv, IInv, TypePc
    <3>2. w'.lines = << >> /\ k' - 1 = 0 /\ found' = FALSE
      BY DEF Empty
    <3>3. Cfg' \in Seq(Lines)
      BY CfgTyped DEF CInv, IInv, TypeFiles, Cfg
    <3>4. pc'[t] = "copy" => tmp'.lines \in Seq(Lines)
      BY <3>1 DEF IInv, FilesAt, TypeFiles, Contents
    <3>5. 1 .. 0 = {}
      OBVIOUS
    <3>6. Copying(t)'
      BY <3>2, <3>3, <3>4, <3>5 DEF Copying, Covers, Has
    <3>7. Copied(t)'
      BY <3>1 DEF Copied
    <3>8. QED
      BY <2>2, <3>6, <3>7
  <2>3. QED
    BY <2>1, <2>2
<1>4. QED
  BY <1>1, <1>3 DEF CInv

(* One line more is copied.                                                *)
LEMMA LineCopied ==
  ASSUME CInv, IInv', NEW t \in Logs, Copy(t) PROVE CInv'
<1> DEFINE old == Cfg[k]
           line == NewLine(t, old)
<1>1. Cfg \in Seq(Lines) /\ k \in 1 .. Len(Cfg) /\ k \in Nat
  BY CfgTyped DEF CInv, IInv, TypeFiles, TypeCall, Copy
<1>2. old \in Lines /\ old.idx \in Logs
  BY <1>1 DEF CInv, Records, NoComments, Cfg
<1>3. line \in Lines /\ line.idx = old.idx
  BY <1>2, NewLineTyped DEF CInv
<1>4. w \in Contents /\ w.open = FALSE /\ tmp \in Contents
      /\ NoComments(w.lines) /\ NoComments(tmp.lines) /\ tmp # Absent
  BY DEF CInv, IInv, Records, TypeFiles, FilesAt, Copy
<1>5. /\ UNCHANGED <<cfg, bak>> /\ pc' = pc /\ pc[t] = "copy" /\ k' = k + 1
      /\ Write(line)
  BY DEF Copy, local, NewLine
<1>6. \A u \in Logs : pc[u] \in {"copy", "ren1", "ren2"} => u = t
  BY <1>5, OnlyOne DEF CInv, Critical
<1>7. CASE Fault /\ cut' = TRUE /\ UNCHANGED <<w, tmp>>
  BY <1>5, <1>7 DEF CInv, Records, Copying, Copied
<1>8. CASE Written(line) /\ UNCHANGED cut
  <2>1. Recorded(line)
    BY <1>2, <1>3, <1>4, <1>8 DEF Recorded
  <2>2. Records'
    BY <1>4, <1>5, <2>1, WrittenRecords DEF CInv, Records
  <2>3. ASSUME ~cut' PROVE Copying(t)'
    <3>1. Copying(t) /\ ~cut
      BY <1>8, <2>3 DEF CInv
    <3>2. w.lines \in Seq(Lines) /\ Len(w.lines) = k - 1
      BY <1>4, <1>5, <3>1 DEF Contents, Copying
    <3>3. w'.lines = Append(w.lines, line) /\ Len(tmp'.lines) >= k
          /\ \A j \in 1 .. k : tmp'.lines[j] = w'.lines[j]
      <4>1. Len(w.lines) + 1 = k
        BY <1>1, <3>2
      <4>2. QED
        BY <2>1, <4>1, LineWritten
    <3>4. \A x : NewLine(t, x)' = NewLine(t, x)
      BY DEF NewLine, Advanced, Started, Line, Copy, local
    <3>5. \A j \in 1 .. k : w'.lines[j] = NewLine(t, Cfg[j])
      <4>1. \A j \in 1 .. k - 1 : w.lines[j] = NewLine(t, Cfg[j])
        BY <1>5, <3>1 DEF Copying, Covers
      <4>2. \A j \in 1 .. k : j = k \/ j \in 1 .. k - 1
        BY <1>1
      <4>3. \A j \in 1 .. k - 1 : w'.lines[j] = w.lines[j]
        BY <1>3, <3>2, <3>3
      <4>4. w'.lines[k] = line
        BY <1>1, <1>3, <3>2, <3>3
      <4>5. QED
        BY <4>1, <4>2, <4>3, <4>4
    <3>6. Cfg' = Cfg /\ k' - 1 = k
      BY <1>1, <1>5 DEF Cfg
    <3>7. Len(w'.lines) = k
      BY <1>1, <1>3, <3>2, <3>3
    <3>8. Covers(t, Cfg, k, w'.lines)
      BY <1>1, <3>5, <3>7 DEF Covers
    <3>9. Covers(t, Cfg, k - 1, w.lines)'
      BY <3>4, <3>6, <3>8 DEF Covers
    <3>10. found' <=> Has(Cfg, k, t)
      <4>1. found <=> Has(Cfg, k - 1, t)
        BY <1>5, <3>1 DEF Copying
      <4>2. Has(Cfg, k, t) <=> Has(Cfg, k - 1, t) \/ Cfg[k].idx = t
        BY <1>1 DEF Has
      <4>3. found' <=> found \/ Cfg[k].idx = t
        BY DEF Copy
      <4>4. QED
        BY <4>1, <4>2, <4>3, Zenon
    <3>11. QED
      BY <3>3, <3>6, <3>7, <3>9, <3>10 DEF Copying
  <2>4. ASSUME NEW u \in Logs PROVE Copying(u)' /\ Copied(u)'
    BY <1>5, <1>6, <2>3 DEF Copying, Copied
  <2>5. QED
    BY <2>2, <2>4 DEF CInv
<1>9. QED
  BY <1>5, <1>7, <1>8 DEF Write

(* A read that fails: nothing is said of the copy.                         *)
LEMMA CopyCut ==
  ASSUME CInv, IInv', NEW t \in Logs, ReadFails(t) PROVE CInv'
<1>1. Records'
  BY DEF CInv, Records, ReadFails, files
<1>2. cut' = TRUE
  BY DEF ReadFails
<1>3. QED
  BY <1>1, <1>2 DEF CInv, Copying, Copied

(* The records, after the line for log t or without it.                    *)
LEMMA StartedRecords ==
  ASSUME CInv, NEW t \in Logs, tmp # Absent, UNCHANGED <<cfg, bak>>,
         Write(Started(t)) \/ UNCHANGED <<w, tmp>>
  PROVE  Records'
<1>1. w \in Contents /\ w.open = FALSE /\ tmp \in Contents
      /\ NoComments(w.lines) /\ NoComments(tmp.lines)
  BY DEF CInv, IInv, Records, TypeFiles
<1>2. Started(t) \in Lines /\ Started(t).idx \in Logs
  BY LinesTyped DEF CInv, IInv, Started, Line
<1>3. CASE Written(Started(t))
  BY <1>1, <1>2, <1>3, WrittenRecords DEF Recorded, CInv, Records
<1>4. CASE UNCHANGED <<w, tmp>>
  BY <1>4 DEF CInv, Records
<1>5. QED
  BY <1>3, <1>4 DEF Write

(* The copy is complete.                                                   *)
LEMMA CopyComplete ==
  ASSUME CInv, IInv', NEW t \in Logs, CopyEnds(t) PROVE CInv'
<1>1. /\ Cfg \in Seq(Lines) /\ k - 1 = Len(Cfg)
      /\ pc[t] = "copy" /\ pc'[t] = "ren1" /\ UNCHANGED <<cfg, bak>>
  BY CfgTyped DEF CInv, IInv, TypePc, TypeFiles, TypeCall, CopyEnds, Goto
<1>2. w \in Contents /\ w.open = FALSE /\ tmp \in Contents /\ tmp # Absent /\ cfg # Absent
  BY <1>1 DEF CInv, IInv, Records, TypeFiles, FilesAt
<1>3. Records'
  BY <1>1, <1>2, StartedRecords DEF CopyEnds
<1>4. ASSUME ~cut' PROVE Covers(t, Cfg, Len(Cfg), tmp'.lines)
  <2>1. ~cut /\ IF found THEN UNCHANGED <<w, tmp>> ELSE Written(Started(t))
    BY <1>4 DEF CopyEnds, Write
  <2>2. Copying(t) /\ w.lines \in Seq(Lines) /\ tmp.lines \in Seq(Lines)
    BY <1>2 DEF CInv, Contents
  <2>3. Len(w.lines) = Len(Cfg)
    BY <1>1, <2>1, <2>2 DEF Copying
  <2>4. Len(tmp'.lines) >= Len(Cfg) /\ \A j \in 1 .. Len(Cfg) : tmp'.lines[j] = w.lines[j]
    <3>1. CASE found
      BY <1>1, <2>1, <2>2, <3>1 DEF Copying
    <3>2. CASE ~found
      <4>1. Recorded(Started(t)) /\ Started(t) \in Lines
        BY <1>2, <2>1, <3>2, LinesTyped DEF CInv, IInv, Recorded, Started, Line
      <4>2. w'.lines = Append(w.lines, Started(t)) /\ Len(tmp'.lines) >= Len(w.lines) + 1
            /\ \A j \in 1 .. Len(w.lines) + 1 : tmp'.lines[j] = w'.lines[j]
        BY <4>1, LineWritten
      <4>3. tmp'.lines \in Seq(Lines)
        BY <4>1, LineWritten
      <4>4. \A j \in 1 .. Len(w.lines) : w'.lines[j] = w.lines[j]
        BY <2>2, <4>1, <4>2
      <4>5. Len(w.lines) \in Nat /\ Len(tmp'.lines) \in Nat
        BY <2>2, <4>3
      <4>6. Len(tmp'.lines) >= Len(Cfg)
        BY <2>3, <4>2, <4>5
      <4>7. ASSUME NEW j \in 1 .. Len(w.lines) PROVE tmp'.lines[j] = w.lines[j]
        <5>1. j \in 1 .. Len(w.lines) + 1
          BY <4>5
        <5>2. QED
          BY <4>2, <4>4, <5>1
      <4>8. QED
        BY <2>3, <4>6, <4>7
    <3>3. QED
      BY <3>1, <3>2
  <2>5. QED
    BY <1>1, <2>1, <2>2, <2>4 DEF Covers, Copying
<1>5. \A x : NewLine(t, x)' = NewLine(t, x)
  BY DEF NewLine, Advanced, Started, Line, CopyEnds
<1>6. ASSUME NEW u \in Logs PROVE Copying(u)' /\ Copied(u)'
  <2>1. u # t => pc'[u] \notin {"copy", "ren1", "ren2"}
    BY <1>1, OnlyOne DEF CInv, Critical, CopyEnds, Goto, IInv, TypePc
  <2>2. ~cut' => Covers(t, cfg.lines, Len(cfg.lines), tmp.lines)'
    BY <1>1, <1>2, <1>4, <1>5 DEF Covers, Cfg
  <2>3. QED
    BY <1>1, <2>1, <2>2 DEF Copying, Copied
<1>7. QED
  BY <1>3, <1>6 DEF CInv

(* One record is written instead of the copy.                              *)
LEMMA AloneWritten ==
  ASSUME CInv, IInv', NEW t \in Logs, WriteAlone(t) PROVE CInv'
<1>1. /\ pc[t] = "alone" /\ pc'[t] = "only" /\ UNCHANGED <<cfg, bak>>
      /\ \A u \in Logs : u # t => pc'[u] = pc[u] /\ pc[u] \notin Critical
  BY OnlyOne DEF CInv, IInv, TypePc, Critical, WriteAlone, Goto
<1>2. tmp # Absent
  BY <1>1 DEF CInv, IInv, FilesAt
<1>3. Records'
  BY <1>1, <1>2, StartedRecords DEF WriteAlone
<1>4. QED
  BY <1>1, <1>3 DEF CInv, Copying, Copied, Critical

(* The steps after the copy move whole files.                              *)
LEMMA FilesMoved ==
  ASSUME CInv, IInv', NEW t \in Logs, UNCHANGED <<msg, st, cut, w>>,
         \/ RenameCfg(t) \/ RenameTmp(t) \/ RenameOnly(t) \/ Back(t) \/ UnlinkBak(t)
  PROVE CInv'
<1> USE DEF RenameCfg, RenameTmp, RenameOnly, Back, UnlinkBak, Goto
<1>1. pc[t] \in {"ren1", "ren2", "only", "back", "unbak"}
      /\ pc'[t] \in {"ren2", "unlock", "unbak", "back"}
      /\ (pc'[t] = "ren2" => pc[t] = "ren1" /\ bak' = cfg /\ tmp' = tmp)
      /\ \A u \in Logs : u # t => pc'[u] = pc[u]
  BY DEF CInv, IInv, TypePc
<1>2. Records'
  BY DEF CInv, Records, IInv, FilesAt
<1>3. \A x : NewLine(t, x)' = NewLine(t, x)
  BY DEF NewLine, Advanced, Started, Line
<1>4. ASSUME NEW u \in Logs PROVE Copying(u)' /\ Copied(u)'
  <2>1. u # t => pc'[u] \notin {"copy", "ren1", "ren2"}
    BY <1>1, OnlyOne DEF CInv, Critical
  <2>2. pc'[t] = "ren2" /\ ~cut' => Covers(t, bak.lines, Len(bak.lines), tmp.lines)'
    BY <1>1, <1>3 DEF CInv, Copied, Covers
  <2>3. QED
    BY <1>1, <2>1, <2>2 DEF Copying, Copied
<1>5. QED
  BY <1>2, <1>4 DEF CInv

(* A crash leaves the files.                                               *)
LEMMA CrashCopies ==
  ASSUME CInv, IInv', Crash PROVE CInv'
<1>1. Records'
  BY DEF CInv, Records, Crash, files, Empty, NoComments
<1>2. QED
  BY <1>1 DEF CInv, Crash, Copying, Copied

(* The copy, whatever happens.                                             *)
LEMMA CopyNext ==
  ASSUME CInv, IInv', [Next]_vars PROVE CInv'
<1>1. CASE UNCHANGED vars
  BY <1>1, Aside DEF vars, local, held
<1>2. ASSUME NEW t \in Logs,
             Grow(t) \/ Rotate(t) \/ Call(t) \/ Stat(t) \/ Lock(t) \/ Unlock(t)
      PROVE  CInv'
  <2>1. UNCHANGED <<k, found, cut, w, files>>
    BY <1>2 DEF Grow, Rotate, Call, Stat, Lock, Unlock, held
  <2>2. ASSUME NEW u \in Logs, pc'[u] \in {"copy", "ren1", "ren2"}
        PROVE  pc'[u] = pc[u] /\ st'[u] = st[u] /\ msg'[u] = msg[u]
    <3>1. CASE Grow(t) \/ Rotate(t)
      BY <3>1 DEF Grow, Rotate, local
    <3>2. CASE Call(t)
      BY <2>2, <3>2 DEF Call, Goto, CInv, IInv, TypePc, TypeCall
    <3>3. CASE Stat(t)
      BY <2>2, <3>3 DEF Stat, Goto, CInv, IInv, TypePc, TypeCall
    <3>4. CASE Lock(t) \/ Unlock(t)
      BY <2>2, <3>4 DEF Lock, Unlock, Goto, CInv, IInv, TypePc
    <3>5. QED
      BY <1>2, <3>1, <3>2, <3>3, <3>4
  <2>3. QED
    BY <2>1, <2>2, Aside
<1>3. ASSUME NEW t \in Logs,
             RenameCfg(t) \/ RenameTmp(t) \/ RenameOnly(t) \/ Back(t) \/ UnlinkBak(t)
      PROVE  CInv'
  BY <1>3, FilesMoved DEF RenameCfg, RenameTmp, RenameOnly, Back, UnlinkBak, held
<1>4. QED
  BY <1>1, <1>2, <1>3, CopyBegins, LineCopied, CopyCut, CopyComplete,
     AloneWritten, CrashCopies DEF Next, Step

LEMMA CopyInductive == ASSUME RecordsOnly PROVE Spec => []CInv
<1>1. Init => CInv
  BY CopyInit
<1>2. CInv /\ IInv' /\ [Next]_vars => CInv'
  BY CopyNext
<1>3. QED
  BY <1>1, <1>2, Inductive, PTL DEF Spec

-----------------------------------------------------------------------------
(* A position that was there at first is in lines.                         *)
Keeps(lines) == \A i \in 1 .. Len(given) : \E j \in 1 .. Len(lines) : lines[j].idx = given[i].idx

(* Nothing is lost yet: the positions are in cfg, and between the renames  *)
(* in .bak.                                                                *)
LInv == torn = {} /\ given # Absent =>
    /\ cfg # Absent => Keeps(cfg.lines)
    /\ cfg = Absent => \E t \in Logs : pc[t] \in {"ren2", "back"}
    /\ \A t \in Logs : pc[t] \in {"ren2", "back"} => Keeps(bak.lines)

(* A copy of all lines is one of all positions.                            *)
LEMMA CopyKeeps ==
  ASSUME IInv, NEW t \in Logs, NEW old \in Seq(Lines), NEW new,
         NoComments(old), Covers(t, old, Len(old), new), Len(new) \in Nat, Keeps(old)
  PROVE Keeps(new)
<1>1. ASSUME NEW j \in 1 .. Len(old) PROVE j \in 1 .. Len(new) /\ new[j].idx = old[j].idx
  BY NewLineTyped DEF Covers, NoComments
<1>2. QED
  BY <1>1 DEF Keeps

(* The positions that are not lost yet, after a step.                      *)
LEMMA LostNext ==
  ASSUME CInv, IInv', LInv, UNCHANGED given, [Next]_vars
  PROVE LInv'
<1> DEFINE Parts == {"ren2", "back"}
<1>1. ASSUME UNCHANGED <<cfg, bak, torn>>,
             \A u \in Logs : pc'[u] # pc[u] => pc[u] \notin Parts /\ pc'[u] \notin Parts
      PROVE  LInv'
  BY <1>1 DEF LInv, Keeps
<1>2. ASSUME NEW t \in Logs, NEW from, NEW to, Goto(t, from, to)
      PROVE  pc'[t] = to /\ \A u \in Logs : u # t => pc'[u] = pc[u]
  BY <1>2 DEF Goto, CInv, IInv, TypePc
<1>3. CASE UNCHANGED vars
  BY <1>1, <1>3 DEF vars, local, files, hist
<1>4. ASSUME NEW t \in Logs, Grow(t) \/ Rotate(t) \/ Call(t) \/ Stat(t) \/ Lock(t) \/ Unlock(t)
      PROVE  LInv'
  <2>1. UNCHANGED <<cfg, bak, torn>>
    BY <1>4 DEF Grow, Rotate, Call, Stat, Lock, Unlock, files, hist
  <2>2. \A u \in Logs : pc'[u] # pc[u] => pc[u] \notin Parts /\ pc'[u] \notin Parts
    BY <1>4, <1>2 DEF Grow, Rotate, Call, Stat, Lock, Unlock, Goto, local
  <2>3. QED
    BY <1>1, <2>1, <2>2
<1>5. ASSUME NEW t \in Logs,
             Open(t) \/ Copy(t) \/ ReadFails(t) \/ CopyEnds(t) \/ WriteAlone(t)
      PROVE  LInv'
  <2>1. UNCHANGED <<cfg, bak, torn>>
    BY <1>5 DEF Open, Copy, ReadFails, CopyEnds, WriteAlone, files
  <2>2. \A u \in Logs : pc'[u] # pc[u] => pc[u] \notin Parts /\ pc'[u] \notin Parts
    <3>1. CASE Copy(t) \/ ReadFails(t)
      BY <3>1 DEF Copy, ReadFails, local
    <3>2. CASE Open(t)
      BY <1>2, <3>2 DEF Open, Goto
    <3>3. CASE CopyEnds(t)
      BY <1>2, <3>3 DEF CopyEnds, Goto
    <3>4. CASE WriteAlone(t)
      BY <1>2, <3>4 DEF WriteAlone, Goto
    <3>5. QED
      BY <1>5, <3>1, <3>2, <3>3, <3>4
  <2>3. QED
    BY <1>1, <2>1, <2>2
<1>6. ASSUME NEW t \in Logs, RenameCfg(t) PROVE LInv'
  <2>1. pc[t] = "ren1" /\ cfg # Absent /\ UNCHANGED torn
        /\ \A u \in Logs : u # t => pc'[u] = pc[u] /\ pc[u] \notin Critical
    BY <1>2, <1>6, OnlyOne DEF RenameCfg, Goto, CInv, IInv, FilesAt, Critical
  <2>2. CASE pc'[t] = "ren2" /\ bak' = cfg /\ cfg' = Absent
    BY <2>1, <2>2 DEF LInv, Keeps, Critical
  <2>3. CASE pc'[t] = "unlock" /\ UNCHANGED <<cfg, bak>>
    BY <2>1, <2>3 DEF LInv, Keeps, Critical
  <2>4. QED
    BY <1>2, <1>6, <2>2, <2>3 DEF RenameCfg
<1>7. ASSUME NEW t \in Logs, RenameTmp(t) PROVE LInv'
  <2>1. pc[t] = "ren2" /\ bak # Absent /\ tmp # Absent /\ UNCHANGED bak
        /\ \A u \in Logs : u # t => pc'[u] = pc[u] /\ pc[u] \notin Critical
    BY <1>2, <1>7, OnlyOne DEF RenameTmp, Goto, CInv, IInv, FilesAt, Critical
  <2>2. CASE pc'[t] = "unbak" /\ cfg' = tmp /\ torn' = IF cut THEN torn \cup {"cut"} ELSE torn
    <3>1. bak.lines \in Seq(Lines) /\ NoComments(bak.lines) /\ Len(tmp.lines) \in Nat
      BY <2>1 DEF CInv, IInv, TypeFiles, Contents, Records
    <3>2. ~cut => Covers(t, bak.lines, Len(bak.lines), tmp.lines)
      BY <2>1 DEF CInv, Copied
    <3>3. ~cut /\ Keeps(bak.lines) => Keeps(tmp.lines)
      BY <3>1, <3>2, CopyKeeps DEF CInv
    <3>4. torn' = {} => ~cut /\ torn = {}
      BY <2>2
    <3>5. QED
      BY <2>1, <2>2, <3>3, <3>4 DEF LInv, Keeps, Critical
  <2>3. CASE pc'[t] = "back" /\ UNCHANGED <<cfg, torn>>
    BY <2>1, <2>3 DEF LInv, Keeps, Critical
  <2>4. QED
    BY <1>2, <1>7, <2>2, <2>3 DEF RenameTmp
<1>8. ASSUME NEW t \in Logs, RenameOnly(t) PROVE LInv'
  <2>1. pc[t] = "only" /\ pc'[t] = "unlock" /\ UNCHANGED bak
        /\ \A u \in Logs : u # t => pc'[u] = pc[u] /\ pc[u] \notin Critical
    <3>1. Goto(t, "only", "unlock") /\ UNCHANGED bak
      BY <1>8 DEF RenameOnly
    <3>2. pc[t] = "only" /\ pc[t] \in Critical
      BY <3>1 DEF Goto, Critical
    <3>3. \A u \in Logs : u # t => pc[u] \notin Critical
      BY <3>2, OnlyOne DEF CInv
    <3>4. QED
      BY <1>2, <3>1, <3>2, <3>3
  <2>2. CASE torn' = IF cfg = Absent THEN torn ELSE torn \cup {"unread"}
    <3>1. torn' = {} => torn = {} /\ cfg = Absent
      BY <2>2
    <3>2. \A u \in Logs : pc[u] \notin {"ren2", "back"}
      BY <2>1 DEF Critical
    <3>3. torn' = {} => given = Absent
      BY <3>1, <3>2 DEF LInv
    <3>4. QED
      BY <3>3 DEF LInv
  <2>3. CASE UNCHANGED <<cfg, torn>>
    BY <2>1, <2>3 DEF LInv, Keeps, Critical
  <2>4. QED
    BY <1>8, <2>2, <2>3 DEF RenameOnly
<1>9. ASSUME NEW t \in Logs, Back(t) PROVE LInv'
  <2>1. pc[t] = "back" /\ pc'[t] = "unlock" /\ bak # Absent
        /\ \A u \in Logs : u # t => pc'[u] = pc[u] /\ pc[u] \notin Critical
    BY <1>2, <1>9, OnlyOne DEF Back, Goto, CInv, IInv, FilesAt, Critical
  <2>2. CASE cfg' = bak /\ UNCHANGED torn
    BY <2>1, <2>2 DEF LInv, Keeps, Critical
  <2>3. CASE torn' = torn \cup {"between"}
    BY <2>3 DEF LInv
  <2>4. QED
    BY <1>9, <2>2, <2>3 DEF Back
<1>10. ASSUME NEW t \in Logs, UnlinkBak(t) PROVE LInv'
  <2>1. pc[t] = "unbak" /\ pc'[t] = "unlock" /\ UNCHANGED <<cfg, torn>>
        /\ \A u \in Logs : u # t => pc'[u] = pc[u] /\ pc[u] \notin Critical
    BY <1>2, <1>10, OnlyOne DEF UnlinkBak, Goto, CInv, Critical
  <2>2. QED
    BY <2>1 DEF LInv, Keeps, Critical
<1>11. CASE Crash
  <2>1. UNCHANGED <<cfg, bak>> /\ (torn' = {} => torn = {} /\ \A t \in Logs : pc[t] \notin {"ren2", "back"})
        /\ \A t \in Logs : pc'[t] = "idle"
    BY <1>11 DEF Crash, files
  <2>2. QED
    BY <2>1 DEF LInv, Keeps
<1>12. QED
  BY <1>3, <1>4, <1>5, <1>6, <1>7, <1>8, <1>9, <1>10, <1>11 DEF Next, Step

(* What LInv says of the positions, in the words of FilePosition.          *)
LEMMA KeptNoted == ASSUME IInv, LInv PROVE LostOnlyIfTorn
<1>1. CASE torn = {} /\ given # Absent /\ cfg # Absent
  <2>1. \A i \in 1 .. Len(given) : \E j \in 1 .. Len(Cfg) : Cfg[j].idx = given[i].idx
    BY <1>1 DEF LInv, Keeps, Cfg
  <2>2. QED
    BY <2>1 DEF LostOnlyIfTorn, Noted
<1>2. QED
  BY <1>1 DEF LostOnlyIfTorn

LEMMA LostInit == ASSUME Init PROVE LInv
<1>1. ASSUME given # Absent PROVE cfg # Absent /\ Keeps(cfg.lines)
  <2>1. cfg = [lines |-> given, open |-> FALSE] /\ given \in Seq(Lines)
    BY <1>1, ContentsAssumption DEF Init
  <2>2. cfg \in Contents
    BY <2>1 DEF Contents
  <2>3. QED
    BY <2>1, <2>2, ContentsAssumption DEF Keeps
<1>2. \A t \in Logs : pc[t] = "idle"
  BY DEF Init
<1>3. QED
  BY <1>1, <1>2 DEF LInv

(* writePositionConf (main.c 123-232): each log that had a position keeps  *)
(* one, whichever calls fail and whenever the process dies, but for the    *)
(* three reasons of LostOnlyIfTorn; for every number of logs, of failing   *)
(* calls and of crashes.                                                   *)
THEOREM LostOnlyIfTornAlways ==
    ASSUME RecordsOnly PROVE Spec => []LostOnlyIfTorn
<1>1. CInv /\ CInv' /\ LInv /\ [Next]_vars => LInv'
  BY LostNext DEF CInv, Next, vars
<1>2. CInv /\ LInv => LostOnlyIfTorn
  BY KeptNoted DEF CInv
<1>3. QED
  BY <1>1, <1>2, LostInit, CopyInductive, PTL DEF Spec

-----------------------------------------------------------------------------
(* Where nothing fails.  The lines that count: cfg, and between the        *)
(* renames .bak.                                                           *)
Now == IF cfg # Absent THEN cfg.lines ELSE IF bak # Absent THEN bak.lines ELSE <<>>

(* The first line of log t, which the program looks for (main.c 176).      *)
IsFirst(lines, t, i) ==
    /\ i \in 1 .. Len(lines) /\ lines[i].idx = t
    /\ \A j \in 1 .. i - 1 : lines[j].idx # t

(* The lines say of log t that r bytes of the file x are read.             *)
Says(lines, t, x, r) ==
    /\ \A i \in 1 .. Len(lines) : IsFirst(lines, t, i) /\ lines[i].ino = x => lines[i].pos = r
    /\ r > 0 => \E i \in 1 .. Len(lines) : IsFirst(lines, t, i) /\ lines[i].ino = x

(* A whole copy of the lines old.                                          *)
Whole(t, old, new) ==
    /\ Covers(t, old, Len(old), new)
    /\ Has(old, Len(old), t) => Len(new) = Len(old)
    /\ ~Has(old, Len(old), t) => Len(new) = Len(old) + 1 /\ new[Len(old) + 1] = Started(t)

(* What is noted of log t, at each place in the function.                  *)
Told(t) ==
    /\ pc[t] \in {"idle", "unbak", "unlock"} => Says(Now, t, ino[t], read[t])
    /\ pc[t] = "stat" => msg[t] <= read[t] /\ Says(Now, t, ino[t], read[t] - msg[t])
    /\ pc[t] \in {"lock", "open", "copy", "alone", "ren1", "ren2", "only"} =>
         IF ino[t] = st[t].ino
         THEN /\ msg[t] <= read[t] /\ read[t] - msg[t] <= st[t].size
              /\ Says(Now, t, ino[t], read[t] - msg[t])
         ELSE read[t] = 0

(* No file has an inode yet that a rotation will give.                     *)
Inodes ==
    /\ \A t \in Logs : /\ ino[t] <= FirstInode + rotations
                       /\ st[t].ino <= FirstInode + rotations
    /\ \A j \in 1 .. Len(Now) : Now[j].ino <= FirstInode + rotations

AInv ==
    /\ Inodes
    /\ \A t \in Logs : pc[t] # "back" /\ read[t] <= size[t] /\ Told(t)
    /\ tmp # Absent => \E t \in Logs : pc[t] \in {"copy", "alone", "ren1", "ren2", "only"}
    /\ bak # Absent => \E t \in Logs : pc[t] \in {"ren2", "unbak"}
    /\ ~cut
    /\ \A t \in Logs : pc[t] = "copy" => Len(tmp.lines) = k - 1
    /\ \A t \in Logs : pc[t] = "alone" => cfg = Absent /\ w.lines = <<>> /\ tmp.lines = <<>>
    /\ \A t \in Logs : pc[t] \in {"ren1", "ren2", "only"} => Whole(t, Now, tmp.lines)

(* Inodes that an int holds, and a file that says nothing is read yet.     *)
SmallInodes == FirstInode + MaxRotations < IntHalf
FromTheStart == \A g \in InitCfgs \ {Absent} : \A j \in 1 .. Len(g) :
    g[j].ino <= FirstInode /\ g[j].pos = 0

LEMMA MsgTyped ==
  ASSUME IInv, NEW t \in Logs PROVE msg[t] \in Nat
<1>1. msg[t] \in Messages \cup {0}
  BY DEF IInv, TypeCall
<1>2. Messages \cup {0} \subseteq Nat
  BY ConstantsAssumption
<1>3. QED
  BY <1>1, <1>2

LEMMA PrintedSame ==
  ASSUME IInv, Inodes, SmallInodes, NEW t \in Logs
  PROVE  Printed(st[t].ino) = st[t].ino
<1>1. st[t].ino \in Nat /\ rotations \in Nat /\ rotations <= MaxRotations
  BY ConstantsAssumption DEF IInv, TypeCall, TypeLogs
<1>2. st[t].ino < IntHalf
  BY <1>1, ConstantsAssumption DEF Inodes, SmallInodes
<1>3. QED
  BY <1>2 DEF Printed

LEMMA NowTyped ==
  ASSUME IInv, Records PROVE Now \in Seq(Lines) /\ NoComments(Now)
<1>1. Now \in Seq(Lines)
  BY DEF Now, IInv, TypeFiles, Contents
<1>2. NoComments(Now)
  BY DEF Now, Records, NoComments
<1>3. QED
  BY <1>1, <1>2

(* A log that has a line has a first one.                                  *)
LEMMA HasFirst ==
  ASSUME NEW t, NEW lines, Len(lines) \in Nat, Has(lines, Len(lines), t)
  PROVE  \E i \in 1 .. Len(lines) : IsFirst(lines, t, i)
<1> DEFINE R == OpToRel(<, Nat)
           S == {i \in 1 .. Len(lines) : lines[i].idx = t}
<1>1. IsWellFoundedOn(R, Nat)
  BY NatLessThanWellFounded
<1>2. S \subseteq Nat /\ S # {}
  BY DEF Has
<1>3. \A x, y \in Nat : <<x, y>> \in R <=> x < y
  BY DEF OpToRel
<1> HIDE DEF R
<1>4. PICK i \in S : \A y \in S : ~ (<<y, i>> \in R)
  BY <1>1, <1>2, WFMin
<1>5. ASSUME NEW j \in 1 .. i - 1 PROVE lines[j].idx # t
  <2>1. j \in Nat /\ i \in Nat /\ j < i /\ j \in 1 .. Len(lines)
    BY <1>2
  <2>2. j \notin S
    BY <1>2, <1>3, <1>4, <2>1
  <2>3. QED
    BY <2>1, <2>2
<1>6. QED
  BY <1>5 DEF IsFirst

(* Which is the only one.                                                  *)
LEMMA FirstIsOne ==
  ASSUME NEW t, NEW lines, NEW i \in Int, NEW j \in Int, IsFirst(lines, t, i), IsFirst(lines, t, j)
  PROVE  i = j
BY DEF IsFirst

(* What a whole copy says of the other logs.                               *)
LEMMA OtherLogs ==
  ASSUME IInv, NEW t \in Logs, NEW u \in Logs, u # t, NEW old \in Seq(Lines), NoComments(old),
         NEW new, Len(new) \in Nat, Whole(t, old, new), NEW x, NEW r, Says(old, u, x, r)
  PROVE  Says(new, u, x, r)
<1>0. Len(old) \in Nat
  OBVIOUS
<1>1. ASSUME NEW j \in 1 .. Len(old)
      PROVE  /\ j \in 1 .. Len(new) /\ new[j].idx = old[j].idx
             /\ old[j].idx # t => new[j] = old[j]
  BY NewLineTyped DEF Whole, Covers, NoComments, NewLine
<1>2. ASSUME NEW j \in 1 .. Len(new), new[j].idx = u PROVE j \in 1 .. Len(old)
  <2>1. j # Len(old) + 1 \/ Len(new) = Len(old)
    BY <1>2 DEF Whole, Started, Line
  <2>2. Len(new) \in {Len(old), Len(old) + 1}
    BY DEF Whole
  <2>3. QED
    BY <1>0, <2>1, <2>2
<1>3. ASSUME NEW i \in 1 .. Len(new), IsFirst(new, u, i)
      PROVE  i \in 1 .. Len(old) /\ IsFirst(old, u, i) /\ new[i] = old[i]
  <2>1. i \in 1 .. Len(old) /\ new[i] = old[i]
    BY <1>1, <1>2, <1>3 DEF IsFirst
  <2>2. \A j \in 1 .. i - 1 : j \in 1 .. Len(old)
    BY <1>0, <2>1
  <2>3. QED
    BY <1>1, <1>3, <2>1, <2>2 DEF IsFirst
<1>4. ASSUME NEW i \in 1 .. Len(old), IsFirst(old, u, i)
      PROVE  i \in 1 .. Len(new) /\ IsFirst(new, u, i) /\ new[i] = old[i]
  <2>1. i \in 1 .. Len(new) /\ new[i] = old[i]
    BY <1>1, <1>4 DEF IsFirst
  <2>2. \A j \in 1 .. i - 1 : j \in 1 .. Len(old)
    BY <1>0
  <2>3. QED
    BY <1>1, <1>4, <2>1, <2>2 DEF IsFirst
<1>5. QED
  BY <1>3, <1>4 DEF Says

(* And of log t: that all that is read is read.                            *)
LEMMA OwnLog ==
  ASSUME IInv, Inodes, SmallInodes, NEW t \in Logs, NEW old \in Seq(Lines), NoComments(old),
         NEW new, Len(new) \in Nat, Whole(t, old, new),
         IF ino[t] = st[t].ino
         THEN /\ msg[t] <= read[t] /\ read[t] - msg[t] <= st[t].size
              /\ Says(old, t, ino[t], read[t] - msg[t])
         ELSE read[t] = 0
  PROVE  Says(new, t, ino[t], read[t])
<1> DEFINE s == Started(t)
<1>0. Len(old) \in Nat /\ msg[t] \in Nat /\ read[t] \in Nat /\ st[t].size \in Nat
  <2>2. msg[t] \in Nat
    BY MsgTyped
  <2>3. read[t] \in Nat /\ st[t].size \in Nat
    BY ConstantsAssumption DEF IInv, TypeCall, TypeLogs
  <2>4. QED
    BY <2>2, <2>3
<1>1. s.idx = t /\ s.ino = st[t].ino /\ s.pos = msg[t]
  BY PrintedSame DEF Started, Line
<1>2. ASSUME NEW j \in 1 .. Len(old)
      PROVE  /\ j \in 1 .. Len(new) /\ new[j].idx = old[j].idx
             /\ old[j].idx = t => new[j] = Advanced(t, old[j])
  BY NewLineTyped DEF Whole, Covers, NoComments, NewLine
<1>3. ASSUME NEW i \in 1 .. Len(old), old[i].idx = t PROVE Advanced(t, old[i]).ino = st[t].ino
  <2>1. old[i] \in Lines
    OBVIOUS
  <2>2. QED
    BY <1>1, <2>1 DEF Advanced, Lines
<1>4. CASE Has(old, Len(old), t)
  <2>1. Len(new) = Len(old)
    BY <1>4 DEF Whole
  <2>2. PICK f \in 1 .. Len(old) : IsFirst(old, t, f)
    BY <1>0, <1>4, HasFirst
  <2>3. IsFirst(new, t, f) /\ new[f] = Advanced(t, old[f])
    <3>1. \A j \in 1 .. f - 1 : j \in 1 .. Len(old)
      BY <1>0
    <3>2. QED
      BY <1>2, <2>2, <3>1 DEF IsFirst
  <2>4. \A i \in 1 .. Len(new) : IsFirst(new, t, i) => i = f
    BY <2>3, FirstIsOne
  <2>5. \A i \in 1 .. Len(old) : IsFirst(old, t, i) => i = f
    BY <2>2, FirstIsOne
  <2>6. new[f].ino = st[t].ino
    BY <1>3, <2>2, <2>3 DEF IsFirst
  <2>7. CASE ino[t] # st[t].ino
    BY <1>0, <2>4, <2>6, <2>7 DEF Says
  <2>8. CASE ino[t] = st[t].ino
    <3>1. new[f].pos = read[t]
      <4>1. CASE old[f].ino = st[t].ino
        <5>1. old[f].pos = read[t] - msg[t]
          BY <2>2, <2>8, <4>1 DEF Says
        <5>2. old[f] \in Lines
          OBVIOUS
        <5>3. Advanced(t, old[f]).pos = old[f].pos + msg[t]
          BY <2>8, <4>1, <5>1, <5>2 DEF Advanced, Lines
        <5>4. QED
          BY <1>0, <2>3, <5>1, <5>3
      <4>2. CASE old[f].ino # st[t].ino
        <5>1. ~ (read[t] - msg[t] > 0)
          BY <2>5, <2>8, <4>2 DEF Says
        <5>2. Advanced(t, old[f]) = s
          BY <4>2 DEF Advanced
        <5>3. QED
          BY <1>0, <1>1, <2>3, <2>8, <5>1, <5>2
      <4>3. QED
        BY <4>1, <4>2
    <3>2. QED
      BY <1>2, <2>3, <2>4, <2>6, <2>8, <3>1 DEF Says
  <2>9. QED
    BY <2>7, <2>8
<1>5. CASE ~Has(old, Len(old), t)
  <2> DEFINE f == Len(old) + 1
  <2>1. Len(new) = f /\ new[f] = s
    BY <1>5 DEF Whole
  <2>2. \A j \in 1 .. Len(old) : new[j].idx # t
    BY <1>2, <1>5 DEF Has
  <2>3. \A i \in 1 .. Len(new) : IsFirst(new, t, i) => i = f
    BY <1>0, <2>1, <2>2 DEF IsFirst
  <2>4. IsFirst(new, t, f) /\ f \in 1 .. Len(new)
    BY <1>0, <1>1, <2>1, <2>2 DEF IsFirst
  <2>5. CASE ino[t] # st[t].ino
    BY <1>0, <1>1, <2>1, <2>3, <2>5 DEF Says
  <2>6. CASE ino[t] = st[t].ino
    <3>1. ~ (read[t] - msg[t] > 0)
      BY <1>5, <2>6 DEF Says, IsFirst, Has
    <3>2. s.pos = read[t]
      BY <1>0, <1>1, <2>6, <3>1
    <3>3. QED
      BY <1>1, <2>1, <2>3, <2>4, <2>6, <3>2 DEF Says
  <2>7. QED
    BY <2>5, <2>6
<1>6. QED
  BY <1>4, <1>5

(* A whole copy holds no inode that is not in use yet.                     *)
LEMMA OldInodes ==
  ASSUME IInv, Inodes, SmallInodes, NEW t \in Logs, Now \in Seq(Lines),
         NEW new, Len(new) \in Nat, Whole(t, Now, new)
  PROVE  \A j \in 1 .. Len(new) : new[j].ino <= FirstInode + rotations
<1>1. Started(t).ino <= FirstInode + rotations
  BY PrintedSame DEF Started, Line, Inodes
<1>2. ASSUME NEW j \in 1 .. Len(Now) PROVE NewLine(t, Now[j]).ino <= FirstInode + rotations
  <2>1. Now[j] \in Lines /\ Now[j].ino <= FirstInode + rotations
    BY DEF Inodes
  <2>2. [Now[j] EXCEPT !.pos = @ + msg[t]].ino = Now[j].ino
    BY <2>1 DEF Lines
  <2>3. QED
    BY <1>1, <2>1, <2>2 DEF NewLine, Advanced
<1>3. ASSUME NEW j \in 1 .. Len(new) PROVE new[j].ino <= FirstInode + rotations
  <2>1. Len(Now) \in Nat
    OBVIOUS
  <2>2. Len(new) \in {Len(Now), Len(Now) + 1}
    BY DEF Whole
  <2>3. j \in 1 .. Len(Now) \/ (j = Len(Now) + 1 /\ Len(new) # Len(Now))
    BY <2>1, <2>2
  <2>4. QED
    BY <1>1, <1>2, <2>3 DEF Whole, Covers
<1>4. QED
  BY <1>3

-----------------------------------------------------------------------------
(* Between two renames nothing is read: a step that moves no position.     *)
LEMMA SameNow ==
  ASSUME AInv, Now' = Now, UNCHANGED <<ino, read, size, st, msg, rotations>>
  PROVE  Inodes' /\ \A u \in Logs : pc'[u] = pc[u] =>
             pc'[u] # "back" /\ read'[u] <= size'[u] /\ Told(u)'
<1>1. Inodes'
  BY DEF AInv, Inodes
<1>2. ASSUME NEW u \in Logs, pc'[u] = pc[u]
      PROVE  pc'[u] # "back" /\ read'[u] <= size'[u] /\ Told(u)'
  BY <1>2 DEF AInv, Told, Says, IsFirst
<1>3. QED
  BY <1>1, <1>2

(* What is noted of a log stays noted.                                     *)
LEMMA StillTold ==
  ASSUME NEW u \in Logs, Told(u), Now' = Now, pc'[u] = pc[u], msg'[u] = msg[u],
         st'[u] = st[u], ino'[u] = ino[u], read'[u] = read[u]
  PROVE  Told(u)'
BY DEF Told, Says, IsFirst

(* Nor does a step inside the function that leaves cfg or moves it to .bak *)
(* change what is noted.                                                   *)
LEMMA ToldOn ==
  ASSUME NEW t \in Logs, AInv, Now' = Now, UNCHANGED <<msg, st, ino, read, size>>,
         \/ /\ pc[t] \in {"lock", "open", "copy", "alone", "ren1"}
            /\ pc'[t] \in {"open", "copy", "alone", "ren1", "ren2", "only"}
         \/ pc[t] \in {"unbak", "unlock"} /\ pc'[t] \in {"unlock", "idle"}
  PROVE  pc'[t] # "back" /\ read'[t] <= size'[t] /\ Told(t)'
<1>1. /\ Says(Now, t, ino[t], read[t])' <=> Says(Now, t, ino[t], read[t])
      /\ Says(Now, t, ino[t], read[t] - msg[t])' <=> Says(Now, t, ino[t], read[t] - msg[t])
  BY DEF Says, IsFirst
<1>2. Told(t) /\ read[t] <= size[t]
  BY DEF AInv
<1>3. Told(t)'
  BY <1>1, <1>2 DEF Told
<1>4. QED
  BY <1>2, <1>3

(* A step outside of the function, or to its door.                         *)
LEMMA OutsideKeeps ==
  ASSUME AInv, UNCHANGED <<k, cut, w, files>>,
         \A u \in Logs : pc'[u] = pc[u] \/
             /\ pc[u] \notin {"copy", "alone", "ren1", "ren2", "only", "unbak"}
             /\ pc'[u] \notin {"copy", "alone", "ren1", "ren2", "only", "unbak"},
         \A u \in Logs : pc[u] \in {"ren1", "ren2", "only"} => st'[u] = st[u] /\ msg'[u] = msg[u],
         Inodes',
         \A u \in Logs : pc'[u] # "back" /\ read'[u] <= size'[u] /\ Told(u)'
  PROVE  AInv'
<1>1. Now' = Now
  BY DEF Now, files
<1>2. tmp' # Absent => \E t \in Logs : pc'[t] \in {"copy", "alone", "ren1", "ren2", "only"}
  BY DEF AInv, files
<1>3. bak' # Absent => \E t \in Logs : pc'[t] \in {"ren2", "unbak"}
  BY DEF AInv, files
<1>4. /\ ~cut'
      /\ \A t \in Logs : pc'[t] = "copy" => Len(tmp'.lines) = k' - 1
      /\ \A t \in Logs : pc'[t] = "alone" => cfg' = Absent /\ w'.lines = <<>> /\ tmp'.lines = <<>>
  BY DEF AInv, files
<1>5. ASSUME NEW t \in Logs, pc'[t] \in {"ren1", "ren2", "only"}
      PROVE  Whole(t, Now, tmp.lines)'
  <2>1. pc[t] = pc'[t] /\ tmp' = tmp /\ st'[t] = st[t] /\ msg'[t] = msg[t]
    BY <1>5 DEF files
  <2>2. Whole(t, Now, tmp.lines)
    BY <1>5, <2>1 DEF AInv
  <2>3. Started(t)' = Started(t) /\ \A x : NewLine(t, x)' = NewLine(t, x)
    BY <2>1 DEF NewLine, Advanced, Started, Line
  <2>4. QED
    BY <1>1, <2>1, <2>2, <2>3 DEF Whole, Covers, Has
<1>6. QED
  BY <1>2, <1>3, <1>4, <1>5 DEF AInv

(* A log grows.                                                            *)
LEMMA GrowKeeps ==
  ASSUME CInv, AInv, NEW t \in Logs, Grow(t) PROVE AInv'
<1>1. UNCHANGED <<pc, msg, st, k, cut, w, files, ino, read, rotations>> /\ Now' = Now
  BY DEF Grow, local, held, Now, files
<1>2. Inodes'
  BY <1>1 DEF AInv, Inodes
<1>3. ASSUME NEW u \in Logs PROVE size[u] <= size'[u] /\ size[u] \in Nat /\ size'[u] \in Nat /\ read[u] \in Nat
  BY ConstantsAssumption DEF Grow, CInv, IInv, TypeLogs
<1>4. ASSUME NEW u \in Logs PROVE pc'[u] # "back" /\ read'[u] <= size'[u] /\ Told(u)'
  <2>1. read'[u] <= size'[u]
    BY <1>1, <1>3 DEF AInv
  <2>2. Told(u)'
    BY <1>1 DEF AInv, Told, Says, IsFirst
  <2>3. QED
    BY <1>1, <2>1, <2>2 DEF AInv
<1>5. QED
  BY <1>1, <1>2, <1>4, OutsideKeeps

(* A rotation gives an inode of which nothing is noted.                    *)
LEMMA RotateKeeps ==
  ASSUME CInv, AInv, NEW t \in Logs, Rotate(t) PROVE AInv'
<1>1. UNCHANGED <<pc, msg, st, k, cut, w, files>> /\ Now' = Now /\ rotations' = rotations + 1
  BY DEF Rotate, local, held, Now, files
<1>2. rotations \in Nat /\ FirstInode \in Nat
  BY ConstantsAssumption DEF CInv, IInv, TypeLogs
<1>3. ino'[t] = FirstInode + rotations' /\ size'[t] = 0 /\ read'[t] = 0
      /\ \A u \in Logs : u # t => ino'[u] = ino[u] /\ size'[u] = size[u] /\ read'[u] = read[u]
  BY DEF Rotate, CInv, IInv, TypeLogs
<1>4. Now \in Seq(Lines)
  BY NowTyped DEF CInv
<1>5. ASSUME NEW u \in Logs PROVE ino[u] \in Nat /\ st[u].ino \in Nat
  BY DEF CInv, IInv, TypeLogs, TypeCall
<1>6. ASSUME NEW j \in 1 .. Len(Now) PROVE Now[j].ino \in Int /\ Now[j].ino <= FirstInode + rotations
  <2>1. Now[j] \in Lines
    BY <1>4
  <2>2. QED
    BY <2>1 DEF AInv, Inodes, Lines
<1>7. Inodes'
  <2>1. ASSUME NEW u \in Logs
        PROVE  ino'[u] <= FirstInode + rotations' /\ st'[u].ino <= FirstInode + rotations'
    BY <1>1, <1>2, <1>3, <1>5 DEF AInv, Inodes
  <2>2. \A j \in 1 .. Len(Now) : Now[j].ino <= FirstInode + rotations'
    BY <1>1, <1>2, <1>6
  <2>3. QED
    BY <1>1, <2>1, <2>2 DEF Inodes
<1>8. ASSUME NEW u \in Logs PROVE pc'[u] # "back" /\ read'[u] <= size'[u] /\ Told(u)'
  <2>1. CASE u # t
    BY <1>1, <1>3, <2>1, StillTold DEF AInv
  <2>2. CASE u = t
    <3>1. st[t].ino # ino'[t] /\ \A j \in 1 .. Len(Now) : Now[j].ino # ino'[t]
      BY <1>1, <1>2, <1>3, <1>5, <1>6 DEF AInv, Inodes
    <3>2. Says(Now, t, ino'[t], 0)
      BY <3>1 DEF Says
    <3>3. Says(Now, t, ino[t], read[t])'
      BY <1>1, <1>3, <3>2 DEF Says, IsFirst
    <3>4. pc'[t] # "stat"
      BY <1>1 DEF Rotate
    <3>5. Told(t)'
      BY <1>1, <1>3, <3>1, <3>3, <3>4 DEF Told
    <3>6. QED
      BY <1>1, <1>3, <2>2, <3>5 DEF AInv
  <2>3. QED
    BY <2>1, <2>2
<1>9. QED
  BY <1>1, <1>7, <1>8, OutsideKeeps

(* A message is read.                                                      *)
LEMMA CallKeeps ==
  ASSUME CInv, AInv, NEW t \in Logs, Call(t) PROVE AInv'
<1>1. UNCHANGED <<st, k, cut, w, files, ino, size, rotations>> /\ Now' = Now
  BY DEF Call, held, Now, files
<1>2. PICK n \in Messages : read[t] + n <= size[t] /\ msg' = [msg EXCEPT ![t] = n]
                            /\ read' = [read EXCEPT ![t] = @ + n]
  BY DEF Call
<1>3. pc[t] = "idle" /\ pc'[t] = "stat" /\ msg'[t] = n /\ read'[t] = read[t] + n
      /\ \A u \in Logs : u # t => pc'[u] = pc[u] /\ msg'[u] = msg[u] /\ read'[u] = read[u]
  BY <1>2 DEF Call, Goto, CInv, IInv, TypePc, TypeCall, TypeLogs
<1>4. n \in Nat /\ read[t] \in Nat
  BY ConstantsAssumption DEF CInv, IInv, TypeLogs
<1>5. Inodes'
  BY <1>1 DEF AInv, Inodes
<1>6. ASSUME NEW u \in Logs PROVE pc'[u] # "back" /\ read'[u] <= size'[u] /\ Told(u)'
  <2>1. CASE u # t
    BY <1>1, <1>3, <2>1, StillTold DEF AInv
  <2>2. CASE u = t
    <3>1. Says(Now, t, ino[t], read[t])
      BY <1>3 DEF AInv, Told
    <3>2. read'[t] - msg'[t] = read[t] /\ msg'[t] <= read'[t] /\ read'[t] <= size'[t]
      BY <1>1, <1>2, <1>3, <1>4
    <3>3. Says(Now, t, ino[t], read[t] - msg[t])'
      BY <1>1, <3>1, <3>2 DEF Says, IsFirst
    <3>4. QED
      BY <1>3, <2>2, <3>2, <3>3 DEF Told
  <2>3. QED
    BY <2>1, <2>2
<1>7. \A u \in Logs : pc[u] \in {"ren1", "ren2", "only"} => st'[u] = st[u] /\ msg'[u] = msg[u]
  BY <1>1, <1>3
<1>8. \A u \in Logs : pc'[u] = pc[u] \/
        /\ pc[u] \notin {"copy", "alone", "ren1", "ren2", "only", "unbak"}
        /\ pc'[u] \notin {"copy", "alone", "ren1", "ren2", "only", "unbak"}
  BY <1>3
<1>9. QED
  BY <1>1, <1>5, <1>6, <1>7, <1>8, OutsideKeeps

(* The file that the message is from.                                      *)
LEMMA StatKeeps ==
  ASSUME CInv, AInv, NEW t \in Logs, Stat(t), faults' = faults PROVE AInv'
<1>1. UNCHANGED <<msg, k, cut, w, files, ino, size, read, rotations>> /\ Now' = Now
  BY DEF Stat, held, Now, files, logs
<1>2. ~Fault
  BY ConstantsAssumption DEF Fault, CInv, IInv, TypeLogs
<1>3. pc[t] = "stat" /\ pc'[t] = "lock" /\ st'[t] = [ino |-> ino[t], size |-> size[t]]
      /\ \A u \in Logs : u # t => pc'[u] = pc[u] /\ st'[u] = st[u]
  BY <1>2 DEF Stat, Goto, CInv, IInv, TypePc, TypeCall
<1>4. Inodes'
  BY <1>1, <1>3 DEF AInv, Inodes
<1>5. ASSUME NEW u \in Logs PROVE pc'[u] # "back" /\ read'[u] <= size'[u] /\ Told(u)'
  <2>1. CASE u # t
    BY <1>1, <1>3, <2>1, StillTold DEF AInv
  <2>2. CASE u = t
    <3>0. msg[t] \in Nat /\ read[t] \in Nat /\ size[t] \in Nat
      BY MsgTyped, ConstantsAssumption DEF CInv, IInv, TypeLogs
    <3>1. msg[t] <= read[t] /\ Says(Now, t, ino[t], read[t] - msg[t]) /\ read[t] <= size[t]
      BY <1>3 DEF AInv, Told
    <3>2. read[t] - msg[t] <= size[t]
      BY <3>0, <3>1
    <3>3. Says(Now, t, ino[t], read[t] - msg[t])'
      BY <1>1, <3>1 DEF Says, IsFirst
    <3>4. QED
      BY <1>1, <1>3, <2>2, <3>1, <3>2, <3>3 DEF Told
  <2>3. QED
    BY <2>1, <2>2
<1>6. \A u \in Logs : pc[u] \in {"ren1", "ren2", "only"} => st'[u] = st[u] /\ msg'[u] = msg[u]
  BY <1>1, <1>3
<1>7. \A u \in Logs : pc'[u] = pc[u] \/
        /\ pc[u] \notin {"copy", "alone", "ren1", "ren2", "only", "unbak"}
        /\ pc'[u] \notin {"copy", "alone", "ren1", "ren2", "only", "unbak"}
  BY <1>3
<1>8. QED
  BY <1>1, <1>4, <1>5, <1>6, <1>7, OutsideKeeps

(* The mutex is taken, or given back.                                      *)
LEMMA MutexKeeps ==
  ASSUME CInv, AInv, NEW t \in Logs, Lock(t) \/ Unlock(t) PROVE AInv'
<1>1. UNCHANGED <<msg, st, k, cut, w, files, ino, size, read, rotations>> /\ Now' = Now
  BY DEF Lock, Unlock, Now, files, logs
<1>2. <<pc[t], pc'[t]>> \in {<<"lock", "open">>, <<"unlock", "idle">>}
      /\ \A u \in Logs : u # t => pc'[u] = pc[u]
  BY DEF Lock, Unlock, Goto, CInv, IInv, TypePc
<1>3. Inodes' /\ \A u \in Logs : u # t => pc'[u] # "back" /\ read'[u] <= size'[u] /\ Told(u)'
  BY <1>1, <1>2, SameNow
<1>4. pc'[t] # "back" /\ read'[t] <= size'[t] /\ Told(t)'
  BY <1>1, <1>2, ToldOn
<1>5. \A u \in Logs : pc'[u] = pc[u] \/
        /\ pc[u] \notin {"copy", "alone", "ren1", "ren2", "only", "unbak"}
        /\ pc'[u] \notin {"copy", "alone", "ren1", "ren2", "only", "unbak"}
  BY <1>2
<1>6. QED
  BY <1>1, <1>3, <1>4, <1>5, OutsideKeeps

(* .tmp is a new file.                                                     *)
LEMMA OpenKeeps ==
  ASSUME CInv, AInv, IInv', NEW t \in Logs, Open(t), faults' = faults PROVE AInv'
<1>1. UNCHANGED <<msg, st, cfg, bak, ino, size, read, rotations>> /\ Now' = Now
  BY DEF Open, Now, logs
<1>2. ~Fault
  BY ConstantsAssumption DEF Fault, CInv, IInv, TypeLogs
<1>3. pc[t] = "open" /\ pc'[t] \in {"copy", "alone"} /\ (pc'[t] = "alone" => cfg' = Absent)
      /\ \A u \in Logs : u # t => pc'[u] = pc[u] /\ pc[u] \notin Critical
  BY <1>2, OnlyOne DEF Open, Goto, CInv, IInv, TypePc, Critical
<1>4. tmp = Absent /\ bak = Absent
  BY <1>3 DEF AInv, Critical
<1>5. tmp'.lines = <<>> /\ w'.lines = <<>> /\ Len(tmp'.lines) = k' - 1 /\ ~cut'
  BY <1>2, <1>3, <1>4 DEF Open, Empty
<1>6. Inodes' /\ \A u \in Logs : u # t => pc'[u] # "back" /\ read'[u] <= size'[u] /\ Told(u)'
  BY <1>1, <1>3, SameNow
<1>7. pc'[t] # "back" /\ read'[t] <= size'[t] /\ Told(t)'
  BY <1>1, <1>3, ToldOn
<1>8. QED
  BY <1>1, <1>3, <1>4, <1>5, <1>6, <1>7 DEF AInv, Critical

(* A line is written at the end of it.                                     *)
LEMMA LineKeeps ==
  ASSUME CInv, AInv, IInv', NEW t \in Logs, Copy(t), faults' = faults PROVE AInv'
<1>0. ~Fault
  BY ConstantsAssumption DEF Fault, CInv, IInv, TypeLogs
<1>1. UNCHANGED <<pc, msg, st, cfg, bak, ino, size, read, rotations>> /\ Now' = Now /\ pc[t] = "copy"
  BY DEF Copy, Now, logs, local
<1>2. \A u \in Logs : u # t => pc[u] \notin Critical
  BY <1>1, OnlyOne DEF CInv, Critical
<1>3. Cfg \in Seq(Lines) /\ k \in 1 .. Len(Cfg) /\ k' = k + 1
  BY CfgTyped DEF CInv, IInv, TypeFiles, TypeCall, Copy
<1>4. Cfg[k] \in Lines /\ Cfg[k].idx \in Logs
  BY <1>3 DEF CInv, Records, NoComments, Cfg
<1>5. w \in Contents /\ w.open = FALSE /\ tmp \in Contents
  BY <1>1 DEF CInv, IInv, Records, TypeFiles, FilesAt
<1>6. Recorded(NewLine(t, Cfg[k]))
  BY <1>0, <1>4, <1>5, NewLineTyped DEF CInv, Copy, NewLine, Recorded, Write
<1>7. Len(w.lines) = k - 1 /\ Len(tmp.lines) = k - 1 /\ ~cut'
  BY <1>0, <1>1 DEF CInv, Copying, AInv, Copy, Write
<1>8. Len(tmp'.lines) = k
  <2>1. Len(tmp.lines) <= Len(w.lines) + 1 /\ Len(w.lines) + 1 = k
    BY <1>3, <1>7
  <2>2. QED
    BY <1>6, <2>1, LineWritten
<1>9. Inodes' /\ \A u \in Logs : pc'[u] # "back" /\ read'[u] <= size'[u] /\ Told(u)'
  BY <1>1, SameNow
<1>10. Len(tmp'.lines) = k' - 1
  BY <1>3, <1>8
<1>11. bak' # Absent => \E u \in Logs : pc'[u] \in {"ren2", "unbak"}
  BY <1>1 DEF AInv
<1>12. QED
  BY <1>1, <1>2, <1>7, <1>9, <1>10, <1>11 DEF AInv, Critical

(* The copy is a whole one.                                                *)
LEMMA CopyEndsKeeps ==
  ASSUME CInv, CInv', AInv, NEW t \in Logs, CopyEnds(t), faults' = faults PROVE AInv'
<1>0. ~Fault /\ ~cut /\ ~cut'
  BY ConstantsAssumption DEF Fault, CInv, IInv, TypeLogs, AInv, CopyEnds, Write
<1>1. UNCHANGED <<msg, st, cfg, bak, ino, size, read, rotations>> /\ Now' = Now
  BY DEF CopyEnds, Now, logs
<1>2. pc[t] = "copy" /\ pc'[t] = "ren1"
      /\ \A u \in Logs : u # t => pc'[u] = pc[u] /\ pc[u] \notin Critical
  BY OnlyOne DEF CopyEnds, Goto, CInv, IInv, TypePc, Critical
<1>3. bak = Absent /\ Now = Cfg
  BY <1>2 DEF AInv, Critical, Now, Cfg
<1>4. Cfg \in Seq(Lines) /\ k - 1 = Len(Cfg) /\ Len(w.lines) = Len(Cfg) /\ Len(tmp.lines) = Len(Cfg)
  BY <1>0, <1>2, CfgTyped DEF CInv, IInv, TypeFiles, TypeCall, CopyEnds, Copying, AInv
<1>5. Copying(t) /\ w \in Contents /\ w.open = FALSE /\ tmp \in Contents /\ w.lines \in Seq(Lines)
  BY <1>2 DEF CInv, IInv, Records, TypeFiles, FilesAt, Contents
<1>6. found <=> Has(Cfg, Len(Cfg), t)
  BY <1>0, <1>2, <1>4, <1>5 DEF Copying
<1>7. \A j \in 1 .. Len(Cfg) : tmp.lines[j] = NewLine(t, Cfg[j]) /\ w.lines[j] = NewLine(t, Cfg[j])
  BY <1>0, <1>2, <1>4, <1>5 DEF Copying, Covers
<1>8. Whole(t, Cfg, tmp'.lines)
  <2>1. CASE found
    <3>1. tmp' = tmp
      BY <2>1 DEF CopyEnds
    <3>2. Len(Cfg) \in Nat
      BY <1>4
    <3>3. QED
      BY <1>4, <1>6, <1>7, <2>1, <3>1, <3>2 DEF Whole, Covers
  <2>2. CASE ~found
    <3>1. Recorded(Started(t))
      BY <1>0, <1>5, <2>2, LinesTyped DEF CInv, IInv, CopyEnds, Recorded, Started, Line, Write
    <3>2. Len(w.lines) + 1 = Len(Cfg) + 1 /\ Len(tmp.lines) <= Len(w.lines) + 1 /\ Len(Cfg) \in Nat
      BY <1>4
    <3>3. Len(tmp'.lines) = Len(Cfg) + 1 /\ w'.lines = Append(w.lines, Started(t))
          /\ \A j \in 1 .. Len(Cfg) + 1 : tmp'.lines[j] = w'.lines[j]
      BY <3>1, <3>2, LineWritten
    <3>4. ASSUME NEW j \in 1 .. Len(Cfg) PROVE tmp'.lines[j] = NewLine(t, Cfg[j])
      <4>1. j \in 1 .. Len(Cfg) + 1 /\ j \in 1 .. Len(w.lines)
        BY <1>4, <3>2
      <4>2. Append(w.lines, Started(t))[j] = w.lines[j]
        BY <1>5, <4>1
      <4>3. tmp'.lines[j] = Append(w.lines, Started(t))[j]
        BY <3>3, <4>1
      <4>4. w.lines[j] = NewLine(t, Cfg[j])
        BY <1>7
      <4>5. QED
        BY <4>2, <4>3, <4>4
    <3>5. tmp'.lines[Len(Cfg) + 1] = Started(t)
      BY <1>4, <1>5, <3>2, <3>3
    <3>6. QED
      BY <1>6, <2>2, <3>2, <3>3, <3>4, <3>5 DEF Whole, Covers
  <2>3. QED
    BY <2>1, <2>2
<1>9. Whole(t, Now, tmp.lines)'
  <2>1. Started(t)' = Started(t) /\ \A x : NewLine(t, x)' = NewLine(t, x)
    BY <1>1 DEF NewLine, Advanced, Started, Line
  <2>2. QED
    BY <1>1, <1>3, <1>8, <2>1 DEF Whole, Covers, Has
<1>10. Inodes' /\ \A u \in Logs : u # t => pc'[u] # "back" /\ read'[u] <= size'[u] /\ Told(u)'
  BY <1>1, <1>2, SameNow
<1>11. pc'[t] # "back" /\ read'[t] <= size'[t] /\ Told(t)'
  BY <1>1, <1>2, ToldOn
<1>12. QED
  BY <1>0, <1>1, <1>2, <1>3, <1>9, <1>10, <1>11 DEF AInv, Critical

(* Without a file, one record is the whole copy.                           *)
LEMMA AloneKeeps ==
  ASSUME CInv, AInv, IInv', NEW t \in Logs, WriteAlone(t), faults' = faults PROVE AInv'
<1>1. Written(Started(t)) /\ ~cut'
  <2>1. ~Fault
    BY ConstantsAssumption DEF Fault, CInv, IInv, TypeLogs
  <2>2. QED
    BY <2>1 DEF WriteAlone, Write, AInv
<1>2. UNCHANGED <<msg, st, cfg, bak, ino, size, read, rotations>> /\ Now' = Now
  BY DEF WriteAlone, Now, logs
<1>3. pc[t] = "alone" /\ pc'[t] = "only"
      /\ \A u \in Logs : u # t => pc'[u] = pc[u] /\ pc[u] \notin Critical
  BY OnlyOne DEF WriteAlone, Goto, CInv, IInv, TypePc, Critical
<1>4. cfg = Absent /\ bak = Absent /\ Now = <<>> /\ w.lines = <<>> /\ tmp.lines = <<>>
  BY <1>3 DEF AInv, Critical, Now
<1>5. Recorded(Started(t)) /\ Started(t) \in Lines
  BY <1>1, <1>3, LinesTyped
     DEF CInv, IInv, TypeFiles, FilesAt, Records, Recorded, Started, Line
<1>6. Len(tmp'.lines) = 1 /\ tmp'.lines[1] = Started(t)
  <2>1. Len(w.lines) = 0 /\ Len(tmp.lines) = 0
    BY <1>4
  <2>2. /\ w'.lines = Append(w.lines, Started(t))
        /\ \A j \in 1 .. Len(w.lines) + 1 : tmp'.lines[j] = w'.lines[j]
        /\ Len(tmp.lines) <= Len(w.lines) + 1 => Len(tmp'.lines) = Len(w.lines) + 1
    BY <1>5, LineWritten
  <2>3. Len(tmp'.lines) = 1 /\ tmp'.lines[1] = w'.lines[1]
    BY <2>1, <2>2
  <2>4. QED
    BY <1>4, <2>2, <2>3
<1>7. Whole(t, Now, tmp.lines)'
  <2>1. Started(t)' = Started(t)
    BY <1>2 DEF Started, Line
  <2>2. Now' = <<>> /\ Len(Now') = 0
    BY <1>2, <1>4
  <2>3. QED
    BY <1>6, <2>1, <2>2 DEF Whole, Covers, Has
<1>8. Inodes' /\ \A u \in Logs : u # t => pc'[u] # "back" /\ read'[u] <= size'[u] /\ Told(u)'
  BY <1>2, <1>3, SameNow
<1>9. pc'[t] # "back" /\ read'[t] <= size'[t] /\ Told(t)'
  BY <1>2, <1>3, ToldOn
<1>10. QED
  BY <1>1, <1>2, <1>3, <1>4, <1>7, <1>8, <1>9 DEF AInv, Critical

(* What was in cfg is in .bak.                                             *)
LEMMA RenameCfgKeeps ==
  ASSUME CInv, AInv, IInv', NEW t \in Logs, RenameCfg(t), faults' = faults PROVE AInv'
<1>1. ~Fault
  BY ConstantsAssumption DEF Fault, CInv, IInv, TypeLogs
<1>2. UNCHANGED <<msg, st, cut, tmp, ino, size, read, rotations>> /\ bak' = cfg /\ cfg' = Absent
  BY <1>1 DEF RenameCfg, held, logs
<1>3. pc[t] = "ren1" /\ pc'[t] = "ren2"
      /\ \A u \in Logs : u # t => pc'[u] = pc[u] /\ pc[u] \notin Critical
  BY <1>1, OnlyOne DEF RenameCfg, Goto, CInv, IInv, TypePc, Critical
<1>4. cfg # Absent
  BY <1>3 DEF CInv, IInv, FilesAt
<1>5. Now' = Now
  BY <1>2, <1>4 DEF Now
<1>6. Whole(t, Now, tmp.lines)'
  <2>1. Started(t)' = Started(t) /\ \A x : NewLine(t, x)' = NewLine(t, x)
    BY <1>2 DEF NewLine, Advanced, Started, Line
  <2>2. Whole(t, Now, tmp.lines)
    BY <1>3 DEF AInv
  <2>3. QED
    BY <1>2, <1>5, <2>1, <2>2 DEF Whole, Covers, Has
<1>7. Inodes' /\ \A u \in Logs : u # t => pc'[u] # "back" /\ read'[u] <= size'[u] /\ Told(u)'
  BY <1>2, <1>3, <1>5, SameNow
<1>8. pc'[t] # "back" /\ read'[t] <= size'[t] /\ Told(t)'
  BY <1>2, <1>3, <1>5, ToldOn
<1>9. QED
  BY <1>2, <1>3, <1>6, <1>7, <1>8 DEF AInv, Critical

(* The copy takes the place of the file.                                   *)
LEMMA CopyCounts ==
  ASSUME CInv, AInv, SmallInodes, IInv', NEW t \in Logs,
         pc[t] \in {"ren2", "only"}, pc'[t] \in {"unbak", "unlock"},
         \A u \in Logs : u # t => pc'[u] = pc[u],
         UNCHANGED <<msg, st, ino, size, read, rotations>>, cfg' = tmp
  PROVE  /\ Inodes'
         /\ \A u \in Logs : pc'[u] # "back" /\ read'[u] <= size'[u] /\ Told(u)'
<1> DEFINE new == tmp.lines
<1>1. tmp # Absent /\ new \in Seq(Lines) /\ Len(new) \in Nat
  BY DEF CInv, IInv, FilesAt, TypeFiles, Contents
<1>2. Now \in Seq(Lines) /\ NoComments(Now) /\ Whole(t, Now, new)
  BY NowTyped DEF CInv, AInv
<1>3. Now' = new
  BY <1>1 DEF Now
<1> HIDE DEF new
<1>4. \A j \in 1 .. Len(new) : new[j].ino <= FirstInode + rotations
  BY <1>1, <1>2, OldInodes DEF CInv, AInv
<1>5. Inodes'
  BY <1>3, <1>4 DEF AInv, Inodes
<1>6. ASSUME NEW u \in Logs, u # t PROVE Told(u)'
  <2>1. \A x, r : Says(Now, u, x, r) => Says(new, u, x, r)
    BY <1>1, <1>2, <1>6, OtherLogs DEF CInv
  <2>2. \A x, r : Says(Now, u, x, r)' <=> Says(new, u, x, r)
    BY <1>3 DEF Says, IsFirst
  <2>3. Told(u)
    BY DEF AInv
  <2>4. CASE pc[u] \in {"idle", "unbak", "unlock"}
    <3>1. Says(new, u, ino[u], read[u])
      BY <2>1, <2>3, <2>4 DEF Told
    <3>2. Says(Now, u, ino[u], read[u])'
      BY <1>3, <3>1 DEF Says, IsFirst
    <3>3. QED
      BY <1>6, <2>4, <3>2 DEF Told
  <2>5. CASE pc[u] \in {"stat", "lock", "open", "copy", "alone", "ren1", "ren2", "only"}
            /\ (pc[u] = "stat" \/ ino[u] = st[u].ino)
    <3>1. Says(new, u, ino[u], read[u] - msg[u])
      BY <2>1, <2>3, <2>5 DEF Told
    <3>2. Says(Now, u, ino[u], read[u] - msg[u])'
      BY <1>3, <3>1 DEF Says, IsFirst
    <3>3. QED
      BY <1>6, <2>3, <2>5, <3>2 DEF Told
  <2>6. CASE pc[u] \in {"lock", "open", "copy", "alone", "ren1", "ren2", "only"} /\ ino[u] # st[u].ino
    BY <1>6, <2>3, <2>6 DEF Told
  <2>7. CASE pc[u] = "back"
    BY <2>7 DEF AInv
  <2>8. QED
    BY <2>4, <2>5, <2>6, <2>7 DEF CInv, IInv, TypePc, Critical
<1>7. Told(t)'
  <2>1. IF ino[t] = st[t].ino
        THEN /\ msg[t] <= read[t] /\ read[t] - msg[t] <= st[t].size
             /\ Says(Now, t, ino[t], read[t] - msg[t])
        ELSE read[t] = 0
    BY DEF AInv, Told
  <2>2. Says(new, t, ino[t], read[t])
    BY <1>1, <1>2, <2>1, OwnLog DEF CInv, AInv
  <2>3. Says(Now, t, ino[t], read[t])'
    BY <1>3, <2>2 DEF Says, IsFirst
  <2>4. QED
    BY <2>3 DEF Told
<1>8. QED
  BY <1>5, <1>6, <1>7 DEF AInv

LEMMA RenameTmpKeeps ==
  ASSUME CInv, AInv, SmallInodes, IInv', NEW t \in Logs,
         RenameTmp(t) \/ RenameOnly(t), faults' = faults
  PROVE  AInv'
<1>1. ~Fault
  BY ConstantsAssumption DEF Fault, CInv, IInv, TypeLogs
<1>2. UNCHANGED <<msg, st, cut, bak, ino, size, read, rotations>> /\ cfg' = tmp /\ tmp' = Absent
  BY <1>1 DEF RenameTmp, RenameOnly, held, logs
<1>3. /\ <<pc[t], pc'[t]>> \in {<<"ren2", "unbak">>, <<"only", "unlock">>}
      /\ \A u \in Logs : u # t => pc'[u] = pc[u] /\ pc[u] \notin Critical
  BY <1>1, OnlyOne DEF RenameTmp, RenameOnly, Goto, CInv, IInv, TypePc, Critical
<1>4. Inodes' /\ \A u \in Logs : pc'[u] # "back" /\ read'[u] <= size'[u] /\ Told(u)'
  BY <1>2, <1>3, CopyCounts
<1>5. bak' # Absent => pc'[t] = "unbak"
  BY <1>2, <1>3 DEF AInv, Critical
<1>6. QED
  BY <1>2, <1>3, <1>4, <1>5 DEF AInv, Critical

(* .bak no longer counts.                                                  *)
LEMMA UnlinkKeeps ==
  ASSUME CInv, AInv, IInv', NEW t \in Logs, UnlinkBak(t), faults' = faults PROVE AInv'
<1>0. ~Fault
  BY ConstantsAssumption DEF Fault, CInv, IInv, TypeLogs
<1>1. UNCHANGED <<msg, st, cfg, tmp, k, cut, ino, size, read, rotations>> /\ bak' = Absent
  BY <1>0 DEF UnlinkBak, held, logs
<1>2. pc[t] = "unbak" /\ pc'[t] = "unlock"
      /\ \A u \in Logs : u # t => pc'[u] = pc[u] /\ pc[u] \notin Critical
  BY OnlyOne DEF UnlinkBak, Goto, CInv, IInv, TypePc, Critical
<1>3. cfg # Absent /\ tmp = Absent
  BY <1>2 DEF CInv, IInv, FilesAt, AInv, Critical
<1>4. Now' = Now
  BY <1>1, <1>3 DEF Now
<1>5. Inodes' /\ \A u \in Logs : u # t => pc'[u] # "back" /\ read'[u] <= size'[u] /\ Told(u)'
  BY <1>1, <1>2, <1>4, SameNow
<1>6. pc'[t] # "back" /\ read'[t] <= size'[t] /\ Told(t)'
  BY <1>1, <1>2, <1>4, ToldOn
<1>7. QED
  BY <1>1, <1>2, <1>3, <1>5, <1>6 DEF AInv, Critical

(* At first nothing is read, and the file says so.                         *)
LEMMA PositionInit ==
  ASSUME Init, FromTheStart PROVE AInv
<1>1. FirstInode \in Nat
  BY ConstantsAssumption
<1>2. Now = IF given = Absent THEN <<>> ELSE given
  <2>1. CASE given # Absent
    <3>1. cfg = [lines |-> given, open |-> FALSE] /\ given \in Seq(Lines)
      BY <2>1, ContentsAssumption DEF Init
    <3>2. cfg \in Contents
      BY <3>1 DEF Contents
    <3>3. QED
      BY <2>1, <3>1, <3>2, ContentsAssumption DEF Now
  <2>2. CASE given = Absent
    BY <2>2 DEF Init, Now
  <2>3. QED
    BY <2>1, <2>2
<1>3. \A j \in 1 .. Len(Now) : Now[j].ino <= FirstInode /\ Now[j].pos = 0
  BY <1>2 DEF Init, FromTheStart
<1>4. Inodes
  BY <1>1, <1>3 DEF Init, Inodes
<1>5. \A t \in Logs : pc[t] # "back" /\ read[t] <= size[t] /\ Told(t)
  <2> SUFFICES ASSUME NEW t \in Logs
               PROVE  pc[t] # "back" /\ read[t] <= size[t] /\ Told(t)
    OBVIOUS
  <2>1. pc[t] = "idle" /\ read[t] = 0 /\ size[t] = 0
    BY DEF Init
  <2>2. Says(Now, t, ino[t], 0)
    BY <1>3 DEF Says
  <2>3. QED
    BY <2>1, <2>2 DEF Told
<1>6. QED
  BY <1>4, <1>5 DEF Init, AInv

(* A step that does not fail.                                              *)
LEMMA PositionNext ==
  ASSUME CInv, CInv', AInv, SmallInodes, [Next]_vars, faults' = faults PROVE AInv'
<1>0. IInv'
  BY DEF CInv
<1>1. CASE UNCHANGED vars
  <2>1. UNCHANGED <<pc, msg, st, k, cut, w, files, ino, size, read, rotations>> /\ Now' = Now
    BY <1>1 DEF vars, local, held, files, logs, Now
  <2>2. QED
    BY <2>1, SameNow, OutsideKeeps
<1>2. ~Crash
  BY ConstantsAssumption DEF Crash, Fault, CInv, IInv, TypeLogs
<1>3. ASSUME NEW t \in Logs, Back(t) \/ ReadFails(t) PROVE FALSE
  BY <1>3, ConstantsAssumption DEF Back, Goto, AInv, ReadFails, Fault, CInv, IInv, TypeLogs
<1>4. QED
  BY <1>0, <1>1, <1>2, <1>3, GrowKeeps, RotateKeeps, CallKeeps, StatKeeps, MutexKeeps, OpenKeeps,
     LineKeeps, CopyEndsKeeps, AloneKeeps, RenameCfgKeeps, RenameTmpKeeps, UnlinkKeeps DEF Next, Step

(* What AInv says of a log, in the words of FilePosition.                  *)
LEMMA ToldIsTrue ==
  ASSUME CInv, AInv PROVE PositionTrue
<1> SUFFICES ASSUME NEW t \in Logs, mutex = Absent, pc[t] = "idle", read[t] > 0
             PROVE  Noted(t) # {} /\ Cfg[First(t)].ino = ino[t] /\ Cfg[First(t)].pos = read[t]
  BY DEF PositionTrue
<1>1. \A u \in Logs : pc[u] \notin Critical
  BY ContentsAssumption DEF CInv, IInv, OneWriter
<1>2. Now = Cfg
  BY <1>1 DEF AInv, Now, Cfg, Critical
<1>3. Says(Cfg, t, ino[t], read[t])
  BY <1>2 DEF AInv, Told
<1>4. PICK i \in 1 .. Len(Cfg) : IsFirst(Cfg, t, i) /\ Cfg[i].ino = ino[t]
  BY <1>3 DEF Says
<1>5. i \in Noted(t) /\ \A j \in Noted(t) : i <= j
  <2>1. i \in Int /\ \A j \in Noted(t) : j \in 1 .. Len(Cfg) /\ j \notin 1 .. i - 1
    BY <1>4 DEF Noted, IsFirst
  <2>2. QED
    BY <1>4, <2>1 DEF Noted, IsFirst
<1>6. First(t) \in Noted(t) /\ \A j \in Noted(t) : First(t) <= j
  BY <1>5 DEF First
<1>7. First(t) = i
  <2>1. First(t) \in Int /\ i \in Int
    BY <1>6 DEF Noted
  <2>2. QED
    BY <1>5, <1>6, <2>1
<1>8. QED
  BY <1>3, <1>4, <1>5, <1>7 DEF Says

(* main.c 187-192, 224-232: while no call fails, a file of records says of *)
(* each log, whenever nobody rewrites it, how far its thread has read it,  *)
(* through every order of calls, growths and rotations.                    *)
THEOREM PositionTrueAlways ==
    ASSUME RecordsOnly, FromTheStart, SmallInodes
    PROVE  Spec /\ [](faults = 0) => []PositionTrue
<1>1. CInv /\ CInv' /\ AInv /\ faults = 0 /\ (faults = 0)' /\ [Next]_vars => AInv'
  BY PositionNext
<1>2. Init => AInv
  BY PositionInit
<1>3. CInv /\ AInv => PositionTrue
  BY ToldIsTrue
<1>4. QED
  BY <1>1, <1>2, <1>3, CopyInductive, PTL DEF Spec

(* Both together, of the programs that MC_Files runs.                      *)
THEOREM PositionsKeptAlways ==
    ASSUME RecordsOnly, FromTheStart, SmallInodes
    PROVE  FilesSpec => []PositionsKept
<1> DEFINE Grows == program = "growing" => faults = 0 /\ AInv
<1>1. FilesInit => Init
  BY DEF FilesInit
<1>2. [FilesNext]_allVars => [Next]_vars
  BY DEF FilesNext, Faulty, Growing, allVars
<1>3. FilesSpec => Spec
  BY <1>1, <1>2, PTL DEF FilesSpec, Spec
<1>4. FilesInit => Grows
  BY PositionInit DEF FilesInit, Init
<1>5. CInv /\ CInv' /\ Grows /\ [FilesNext]_allVars => Grows'
  <2> SUFFICES ASSUME CInv, CInv', Grows, [FilesNext]_allVars, program' = "growing"
               PROVE  faults' = 0 /\ AInv'
    OBVIOUS
  <2>1. program = "growing" /\ faults' = faults
    BY DEF FilesNext, Growing, allVars, vars, hist
  <2>2. QED
    BY <1>2, <2>1, PositionNext
<1>6. Init => LInv
  BY LostInit
<1>7. CInv /\ CInv' /\ LInv /\ [Next]_vars => LInv'
  BY LostNext DEF CInv, Next, vars
<1>8. CInv /\ LInv /\ Grows => PositionsKept
  BY ToldIsTrue, KeptNoted DEF CInv, PositionsKept
<1> HIDE DEF Grows
<1>9. QED
  BY <1>1, <1>2, <1>3, <1>4, <1>5, <1>6, <1>7, <1>8, CopyInductive, PTL DEF FilesSpec, Spec

-----------------------------------------------------------------------------
(* A call comes to its end: the safety half of CallReturns.                *)

(* A bound on the steps of a thread until it gives the mutex back.         *)
ToReturn(t) ==
    CASE pc[t] = "open" -> Len(Cfg) + 7
      [] pc[t] = "copy" -> Len(Cfg) + 6 - k
      [] pc[t] = "alone" -> 5
      [] pc[t] \in {"ren1", "only"} -> 4
      [] pc[t] = "ren2" -> 3
      [] pc[t] \in {"unbak", "back"} -> 2
      [] pc[t] = "unlock" -> 1
      [] OTHER -> 0

(* k is in the file or behind its last line; and a mutex that is taken is  *)
(* with a thread between Lock and Unlock, unless one was left behind.      *)
LineInFile == \A t \in Logs : pc[t] = "copy" => k <= Len(Cfg) + 1
GivenBack == mutex # Absent /\ ~leaked => pc[mutex] \in Critical

ReturnInv == IInv /\ LineInFile /\ GivenBack

(* A step of the thread brings it nearer to its end, and no other thread   *)
(* puts it back.                                                           *)
CallNearer == \A t \in Logs : pc[t] \in Critical =>
    /\ ToReturn(t) \in Nat
    /\ ToReturn(t)' <= ToReturn(t)
    /\ Step(t) => ToReturn(t)' < ToReturn(t)

LEMMA LinesCounted ==
  ASSUME IInv PROVE Len(Cfg) \in Nat /\ k \in Nat \ {0}
<1>1. Cfg \in Seq(Lines)
  BY CfgTyped DEF IInv, TypeFiles
<1>2. QED
  BY <1>1 DEF IInv, TypeCall

(* Where the steps of the function lead.                                   *)
LEMMA StepGoes ==
  ASSUME IInv, NEW t \in Logs, pc[t] \in Critical, Step(t)
  PROVE  \/ pc[t] = "open" /\ pc'[t] = "copy" /\ k' = 1 /\ cfg' = cfg
         \/ pc[t] = "open" /\ pc'[t] = "alone"
         \/ pc[t] = "open" /\ pc'[t] = "idle" /\ leaked'
         \/ pc[t] = "copy" /\ pc'[t] = "copy" /\ k < k' /\ k' \in 1 .. Len(Cfg) + 1 /\ cfg' = cfg
         \/ pc[t] = "copy" /\ pc'[t] = "ren1" /\ k = Len(Cfg) + 1
         \/ pc[t] = "alone" /\ pc'[t] = "only"
         \/ pc[t] = "ren1" /\ pc'[t] \in {"ren2", "unlock"}
         \/ pc[t] = "ren2" /\ pc'[t] \in {"unbak", "back"}
         \/ pc[t] \in {"only", "back", "unbak"} /\ pc'[t] = "unlock"
         \/ pc[t] = "unlock" /\ pc'[t] = "idle" /\ mutex' = Absent
<1> USE DEF Goto, IInv, TypePc
<1>1. ~Stat(t) /\ ~Lock(t)
  BY DEF Stat, Lock, Critical
<1>2. CASE Open(t)
  BY <1>2 DEF Open
<1>3. CASE Copy(t) \/ ReadFails(t)
  <2>1. Len(Cfg) \in Nat /\ k \in Nat \ {0}
    BY CfgTyped DEF TypeFiles, TypeCall
  <2>2. QED
    BY <1>3, <2>1 DEF Copy, ReadFails, local, files
<1>4. CASE CopyEnds(t) \/ WriteAlone(t)
  BY <1>4 DEF CopyEnds, WriteAlone
<1>5. CASE RenameCfg(t)
  BY <1>5 DEF RenameCfg
<1>6. CASE RenameTmp(t)
  BY <1>6 DEF RenameTmp
<1>7. CASE RenameOnly(t)
  BY <1>7 DEF RenameOnly
<1>8. CASE Back(t)
  BY <1>8 DEF Back
<1>9. CASE UnlinkBak(t)
  BY <1>9 DEF UnlinkBak
<1>10. CASE Unlock(t)
  BY <1>10 DEF Unlock
<1>11. QED
  BY <1>1, <1>2, <1>3, <1>4, <1>5, <1>6, <1>7, <1>8, <1>9, <1>10 DEF Step

(* A step of the thread with the mutex keeps the mutex until it is given   *)
(* back.                                                                   *)
LEMMA StepHolds ==
  ASSUME NEW t \in Logs, Step(t), pc[t] \in Critical
  PROVE  /\ mutex' = mutex \/ mutex' = Absent
         /\ leaked => leaked'
         /\ pc' = [pc EXCEPT ![t] = pc'[t]] \/ pc' = pc
BY DEF Step, Stat, Lock, Open, Copy, ReadFails, CopyEnds, WriteAlone, RenameCfg, RenameTmp, RenameOnly, Back,
       UnlinkBak, Unlock, Goto, local, held, hist, Critical

(* Outside of Lock and Unlock nothing of the copy is touched.              *)
Outside(t) == Grow(t) \/ Rotate(t) \/ Call(t) \/ Stat(t) \/ Lock(t)

LEMMA OutsideTouchesNothing ==
  ASSUME IInv, NEW t \in Logs, Outside(t)
  PROVE  /\ k' = k /\ cfg' = cfg /\ leaked' = leaked
         /\ \A u \in Logs : pc[u] \in Critical => pc'[u] = pc[u]
         /\ \A u \in Logs : pc'[u] \in Critical => pc'[u] = pc[u] \/ pc'[u] = "open"
         /\ mutex' = mutex \/ (mutex' = t /\ pc'[t] = "open")
<1> USE DEF Goto, IInv, TypePc, held, local, files, hist
<1>1. CASE Grow(t) \/ Rotate(t)
  BY <1>1 DEF Grow, Rotate
<1>2. CASE Call(t)
  BY <1>2 DEF Call, Critical
<1>3. CASE Stat(t)
  BY <1>3 DEF Stat, Critical
<1>4. CASE Lock(t)
  BY <1>4 DEF Lock, Critical
<1>5. QED
  BY <1>1, <1>2, <1>3, <1>4 DEF Outside

(* A step of Next is one of these.                                         *)
LEMMA WhoSteps ==
  ASSUME Next
  PROVE  \/ Crash
         \/ \E t \in Logs : Outside(t)
         \/ \E t \in Logs : Step(t) /\ pc[t] \in Critical
BY DEF Next, Outside, Step, Open, Copy, ReadFails, CopyEnds, WriteAlone, RenameCfg, RenameTmp, RenameOnly, Back,
       UnlinkBak, Unlock, Goto, Critical

LEMMA ReturnNext ==
  ASSUME ReturnInv, IInv', [Next]_vars
  PROVE  ReturnInv'
<1>1. IInv /\ LineInFile /\ GivenBack
  BY DEF ReturnInv
<1>2. CASE UNCHANGED vars
  BY <1>1, <1>2 DEF ReturnInv, LineInFile, GivenBack, vars, local, held, files, hist, Cfg
<1>3. CASE Crash
  BY <1>3 DEF ReturnInv, LineInFile, GivenBack, Crash
<1>4. ASSUME NEW t \in Logs, Outside(t) PROVE ReturnInv'
  <2>1. LineInFile'
    BY <1>1, <1>4, OutsideTouchesNothing DEF LineInFile, Cfg, Critical
  <2>2. GivenBack'
    BY <1>1, <1>4, OutsideTouchesNothing DEF GivenBack, Critical, IInv, TypeCall
  <2>3. QED
    BY <2>1, <2>2 DEF ReturnInv
<1>5. ASSUME NEW t \in Logs, Step(t), pc[t] \in Critical PROVE ReturnInv'
  <2>1. /\ pc \in [Logs -> Critical \cup {"idle", "stat", "lock"}]
        /\ pc' \in [Logs -> Critical \cup {"idle", "stat", "lock"}]
        /\ mutex = t
    BY <1>1, <1>5 DEF IInv, TypePc, OneWriter
  <2>2. \A u \in Logs : u # t => pc'[u] = pc[u] /\ pc[u] \notin Critical
    BY <1>1, <1>5, <2>1, StepHolds, OnlyOne
  <2>3. LineInFile'
    <3> SUFFICES ASSUME NEW u \in Logs, pc'[u] = "copy" PROVE (k <= Len(Cfg) + 1)'
      BY DEF LineInFile
    <3>1. u = t
      BY <2>2 DEF Critical
    <3>2. cfg' = cfg /\ (k' = 1 \/ k' \in 1 .. Len(Cfg) + 1)
      BY <1>1, <1>5, <3>1, StepGoes
    <3>3. Cfg' = Cfg
      BY <3>2 DEF Cfg
    <3>4. QED
      BY <1>1, <3>2, <3>3, LinesCounted
  <2>4. GivenBack'
    <3>1. mutex' = t \/ mutex' = Absent
      BY <1>5, <2>1, StepHolds
    <3>2. pc'[t] \in Critical \/ leaked' \/ mutex' = Absent
      BY <1>1, <1>5, StepGoes DEF Critical
    <3>3. QED
      BY <3>1, <3>2 DEF GivenBack
  <2>5. QED
    BY <2>3, <2>4 DEF ReturnInv
<1>6. QED
  BY <1>2, <1>3, <1>4, <1>5, WhoSteps

LEMMA StepNearer ==
  ASSUME ReturnInv, NEW t \in Logs, Step(t), pc[t] \in Critical
  PROVE  ToReturn(t)' \in Nat /\ ToReturn(t)' < ToReturn(t)
<1>1. Len(Cfg) \in Nat /\ k \in Nat \ {0}
  BY LinesCounted DEF ReturnInv
<1>2. IInv
  BY DEF ReturnInv
<1> DEFINE n == Len(Cfg)
<1>3. cfg' = cfg => n' = n
  BY DEF Cfg
<1>4. CASE pc[t] = "open" /\ pc'[t] = "copy" /\ k' = 1 /\ cfg' = cfg
  BY <1>1, <1>3, <1>4 DEF ToReturn
<1>5. CASE pc[t] = "open" /\ pc'[t] = "idle"
  BY <1>1, <1>5 DEF ToReturn
<1>6. CASE pc[t] = "copy" /\ pc'[t] = "copy" /\ k < k' /\ k' \in 1 .. n + 1 /\ cfg' = cfg
  BY <1>1, <1>3, <1>6 DEF ToReturn
<1>7. CASE \/ pc[t] = "copy" /\ pc'[t] = "ren1" /\ k = n + 1
           \/ pc[t] = "open" /\ pc'[t] = "alone"
           \/ pc[t] = "alone" /\ pc'[t] = "only"
  BY <1>1, <1>7 DEF ToReturn
<1>8. CASE \/ pc[t] = "ren1" /\ pc'[t] \in {"ren2", "unlock"}
           \/ pc[t] = "ren2" /\ pc'[t] \in {"unbak", "back"}
           \/ pc[t] \in {"only", "back", "unbak"} /\ pc'[t] = "unlock"
           \/ pc[t] = "unlock" /\ pc'[t] = "idle"
  BY <1>8 DEF ToReturn
<1>9. QED
  BY <1>2, <1>4, <1>5, <1>6, <1>7, <1>8, StepGoes

LEMMA NearerNext ==
  ASSUME ReturnInv, Next
  PROVE  CallNearer
<1> SUFFICES ASSUME NEW t \in Logs, pc[t] \in Critical
             PROVE  /\ ToReturn(t) \in Nat
                    /\ ToReturn(t)' <= ToReturn(t)
                    /\ Step(t) => ToReturn(t)' < ToReturn(t)
  BY DEF CallNearer
<1>1. Len(Cfg) \in Nat /\ k \in Nat \ {0} /\ (pc[t] = "copy" => k <= Len(Cfg) + 1)
  BY LinesCounted DEF ReturnInv, LineInFile
<1>2. ToReturn(t) \in Nat
  BY <1>1 DEF ToReturn, Critical
<1>3. Step(t) => ToReturn(t)' < ToReturn(t)
  BY StepNearer
<1>4. CASE Crash
  <2>1. ToReturn(t)' = 0
    BY <1>4 DEF Crash, ToReturn
  <2>2. QED
    BY <1>2, <1>3, <2>1
<1>5. ASSUME NEW u \in Logs, Outside(u) PROVE ToReturn(t)' = ToReturn(t)
  <2>1. pc'[t] = pc[t] /\ k' = k /\ cfg' = cfg
    BY <1>5, OutsideTouchesNothing DEF ReturnInv
  <2>2. QED
    BY <2>1 DEF ToReturn, Cfg
<1>6. CASE \E u \in Logs : Outside(u)
  BY <1>2, <1>3, <1>5, <1>6
<1>7. CASE \E u \in Logs : Step(u) /\ pc[u] \in Critical
  <2>1. Step(t)
    BY <1>7, OnlyOne DEF ReturnInv
  <2>2. ToReturn(t)' \in Nat /\ ToReturn(t)' < ToReturn(t)
    BY <2>1, StepNearer
  <2>3. QED
    BY <1>2, <2>2
<1>8. QED
  BY <1>4, <1>6, <1>7, WhoSteps

(* A call comes to its end (main.c 123-232): unless an open of .tmp has    *)
(* failed and left the mutex behind, a mutex that is taken is with a       *)
(* thread in the function; each of its steps brings it nearer to giving it *)
(* back, and no other thread and nothing a log does puts that off.         *)
THEOREM CallNearerAlways == Spec => []GivenBack /\ [][CallNearer]_vars
<1>1. Init => LineInFile /\ GivenBack
  BY DEF Init, LineInFile, GivenBack
<1>2. IInv /\ LineInFile /\ GivenBack /\ IInv' /\ [Next]_vars => (LineInFile /\ GivenBack)'
  BY ReturnNext DEF ReturnInv
<1>3. IInv /\ LineInFile /\ GivenBack /\ [Next]_vars => [CallNearer]_vars
  BY NearerNext DEF ReturnInv
<1>4. QED
  BY <1>1, <1>2, <1>3, Inductive, PTL DEF Spec

-----------------------------------------------------------------------------
(* The receiver of files.  Its types, without the rows; the places of the  *)
(* counter; and where each name of the list comes from: some site had it   *)
(* listed, and takes it out of its list only after the file has moved.     *)
NasTyped ==
    /\ nas_pc \in {"sleep", "site", "work", "fetch", "rename", "rm", "insert", "overflow"}
    /\ nas_i \in 0 .. NSites + MaxNames /\ site \in Nas!Sites
    /\ nas_pc \in {"fetch", "rename", "rm", "insert"} => nas_i < Len(fileName)
    /\ nas_pc = "work" => nas_i <= Len(fileName)
    /\ fileName \in Seq(Files) /\ Len(fileName) <= MaxNames
    /\ source \in Nas!Directory /\ ends \in Nas!Directory /\ backup \in Nas!Directory
    /\ target \in Nas!Directory /\ made \in Nas!Directory
    /\ rows \in [Nas!Sites -> [Files -> {0, 1}]]
    /\ errors \in 0 .. MaxErrors /\ lost \subseteq Nas!Sites \X Files

(* The file a child is at, and where it is by then.                        *)
AtWork ==
    /\ nas_pc = "rename" => Nas!f \in source[site] /\ Nas!f \in target[site]
    /\ nas_pc \in {"rm", "insert"} =>
         Nas!f \in backup[site] /\ Nas!f \in target[site] /\ rows[site][Nas!f] = 0

Marked == \A s \in Nas!Sites : ends[s] \subseteq made[s]

Names == \A n \in 1 .. Len(fileName) : \E s \in Nas!Sites :
    fileName[n] \in made[s] /\ (fileName[n] \in source[s] => fileName[n] \in ends[s])

NasInv == NasTyped /\ Marked /\ AtWork /\ Names /\ Nas!RowsTellTheTruth /\ Nas!BackedUpHasRow

(* The file of a child is one of the names.                                *)
LEMMA ChildsFile ==
  ASSUME NasTyped, nas_pc \in {"fetch", "rename", "rm", "insert"}
  PROVE Nas!f \in Files /\ nas_i + 1 \in 1 .. Len(fileName) /\ nas_i \in Nat
BY DEF NasTyped, Nas!f

(* An order of a finite set of names is a sequence of them.                *)
LEMMA OrdersAreNames ==
  ASSUME NEW S \in SUBSET Files, NEW q \in Nas!Orders(S)
  PROVE q \in Seq(S) /\ q \in Seq(Files) /\ Len(q) \in Nat
<1>1. Nas!Cardinality(S) = Cardinality(S)
  BY DEF Nas!Cardinality, Cardinality
<1>2. Cardinality(S) \in Nat
  BY NasAssumption, FS_Subset, FS_CardinalityType
<1>3. q \in [1 .. Cardinality(S) -> S]
  BY <1>1 DEF Nas!Orders
<1>4. QED
  BY <1>2, <1>3

(* Names are added to a list only while their site has them marked.        *)
LEMMA NamesAdded ==
  ASSUME NasTyped, Marked, Names, NEW s \in Nas!Sites, NEW q \in Seq(ends[s]),
         fileName' = fileName \o q, UNCHANGED <<made, source, ends>>
  PROVE Names'
<1> SUFFICES ASSUME NEW n \in 1 .. Len(fileName')
             PROVE \E t \in Nas!Sites :
                     /\ fileName'[n] \in made[t]
                     /\ fileName'[n] \in source[t] => fileName'[n] \in ends[t]
  BY DEF Names
<1>1. fileName \in Seq(Files) /\ q \in Seq(Files)
  <2>1. ends[s] \subseteq Files
    BY DEF NasTyped, Nas!Directory
  <2>2. QED
    BY <2>1 DEF NasTyped
<1>2. CASE n <= Len(fileName)
  <2>1. fileName'[n] = fileName[n] /\ n \in 1 .. Len(fileName)
    BY <1>1, <1>2
  <2>2. QED
    BY <2>1 DEF Names
<1>3. CASE ~(n <= Len(fileName))
  <2>1. fileName'[n] = q[n - Len(fileName)] /\ n - Len(fileName) \in 1 .. Len(q)
    BY <1>1, <1>3
  <2>2. fileName'[n] \in ends[s]
    BY <2>1
  <2>3. QED
    BY <2>2 DEF Marked
<1>4. QED
  BY <1>2, <1>3

(* A step of a site or of a child leaves directories.                      *)
LEMMA Directories ==
  ASSUME NEW dir \in Nas!Directory, NEW s \in Nas!Sites, NEW g \in Files
  PROVE Nas!Add(dir, s, g) \in Nas!Directory /\ Nas!Remove(dir, s, g) \in Nas!Directory
BY DEF Nas!Directory, Nas!Add, Nas!Remove

(* A site delivers a file.                                                 *)
LEMMA DeliverStep ==
  ASSUME NasInv, NEW s \in Nas!Sites, NEW g \in Files, Nas!Deliver(s, g)
  PROVE NasInv'
<1> USE NasAssumption DEF NasInv, Nas!Deliver, Nas!Add, Nas!loop, Nas!here
<1>1. NasTyped'
  BY DEF NasTyped, Nas!Directory
<1>2. Marked'
  BY DEF NasTyped, Nas!Directory, Marked, Nas!RowsTellTheTruth
<1>3. AtWork'
  BY DEF NasTyped, Nas!Directory, AtWork, Nas!f
<1>4. Names'
  BY DEF NasTyped, Names, Nas!Directory
<1>5. Nas!RowsTellTheTruth'
  BY DEF NasTyped, Nas!Directory, Nas!RowsTellTheTruth
<1>6. Nas!BackedUpHasRow'
  BY DEF NasTyped, Nas!Directory, Nas!BackedUpHasRow, Nas!f
<1>7. QED
  BY <1>1, <1>2, <1>3, <1>4, <1>5, <1>6

(* As above.                                                               *)
LEMMA MarkEndStep ==
  ASSUME NasInv, NEW s \in Nas!Sites, NEW g \in Files, Nas!MarkEnd(s, g)
  PROVE NasInv'
<1> USE NasAssumption DEF NasInv, Nas!MarkEnd, Nas!Add, Nas!loop, Nas!here
<1>1. NasTyped'
  BY DEF NasTyped, Nas!Directory
<1>2. Marked'
  BY DEF NasTyped, Nas!Directory, Marked, Nas!RowsTellTheTruth
<1>3. AtWork'
  BY DEF NasTyped, Nas!Directory, AtWork, Nas!f
<1>4. Names'
  BY DEF NasTyped, Names, Nas!Directory
<1>5. Nas!RowsTellTheTruth'
  BY DEF NasTyped, Nas!Directory, Nas!RowsTellTheTruth
<1>6. Nas!BackedUpHasRow'
  BY DEF NasTyped, Nas!Directory, Nas!BackedUpHasRow, Nas!f
<1>7. QED
  BY <1>1, <1>2, <1>3, <1>4, <1>5, <1>6

(* The batch wakes up, goes to sleep, or goes on with the next name.       *)
LEMMA WakeStep ==
  ASSUME NasInv, Nas!Wake
  PROVE NasInv'
<1> USE NasAssumption DEF NasInv, Nas!Wake, Nas!Goto, Nas!nas, Nas!here
<1>1. NasTyped'
  BY DEF NasTyped, Nas!Directory
<1>2. Marked'
  BY DEF NasTyped, Nas!Directory, Marked, Nas!RowsTellTheTruth
<1>3. AtWork'
  BY DEF NasTyped, Nas!Directory, AtWork, Nas!f
<1>4. Names'
  BY DEF NasTyped, Names, Nas!Directory
<1>5. Nas!RowsTellTheTruth'
  BY DEF NasTyped, Nas!Directory, Nas!RowsTellTheTruth
<1>6. Nas!BackedUpHasRow'
  BY DEF NasTyped, Nas!Directory, Nas!BackedUpHasRow, Nas!f
<1>7. QED
  BY <1>1, <1>2, <1>3, <1>4, <1>5, <1>6

(* As above.                                                               *)
LEMMA RoundEndsStep ==
  ASSUME NasInv, Nas!RoundEnds
  PROVE NasInv'
<1> USE NasAssumption DEF NasInv, Nas!RoundEnds, Nas!Goto, Nas!nas, Nas!here
<1>1. NasTyped'
  BY DEF NasTyped, Nas!Directory
<1>2. Marked'
  BY DEF NasTyped, Nas!Directory, Marked, Nas!RowsTellTheTruth
<1>3. AtWork'
  BY DEF NasTyped, Nas!Directory, AtWork, Nas!f
<1>4. Names'
  BY DEF NasTyped, Names, Nas!Directory
<1>5. Nas!RowsTellTheTruth'
  BY DEF NasTyped, Nas!Directory, Nas!RowsTellTheTruth
<1>6. Nas!BackedUpHasRow'
  BY DEF NasTyped, Nas!Directory, Nas!BackedUpHasRow, Nas!f
<1>7. QED
  BY <1>1, <1>2, <1>3, <1>4, <1>5, <1>6

(* As above.                                                               *)
LEMMA WorkStep ==
  ASSUME NasInv, Nas!Work
  PROVE NasInv'
<1> USE NasAssumption DEF NasInv, Nas!Work, Nas!Goto, Nas!cnt, Nas!nas, Nas!here
<1>1. NasTyped'
  BY DEF NasTyped, Nas!Directory
<1>2. Marked'
  BY DEF NasTyped, Nas!Directory, Marked, Nas!RowsTellTheTruth
<1>3. AtWork'
  BY DEF NasTyped, Nas!Directory, AtWork, Nas!f
<1>4. Names'
  BY DEF NasTyped, Names, Nas!Directory
<1>5. Nas!RowsTellTheTruth'
  BY DEF NasTyped, Nas!Directory, Nas!RowsTellTheTruth
<1>6. Nas!BackedUpHasRow'
  BY DEF NasTyped, Nas!Directory, Nas!BackedUpHasRow, Nas!f
<1>7. QED
  BY <1>1, <1>2, <1>3, <1>4, <1>5, <1>6

(* The child downloads.                                                    *)
LEMMA FetchStep ==
  ASSUME NasInv, Nas!Fetch
  PROVE NasInv'
<1> USE NasAssumption DEF NasInv, Nas!Fetch, Nas!Error, Nas!ChildEnds, Nas!nas
<1>0. /\ Nas!f \in Files /\ nas_i + 1 \in 1 .. Len(fileName) /\ site \in Nas!Sites
      /\ nas_i + 1 \in 0 .. NSites + MaxNames
  BY ChildsFile DEF NasTyped
<1>1. NasTyped'
  <2>1. /\ source' \in Nas!Directory /\ ends' \in Nas!Directory /\ backup' \in Nas!Directory
        /\ target' \in Nas!Directory /\ made' \in Nas!Directory
    BY <1>0, Directories DEF NasTyped
  <2>2. /\ nas_pc' \in {"sleep", "site", "work", "fetch", "rename", "rm", "insert", "overflow"}
        /\ nas_i' \in 0 .. NSites + MaxNames /\ site' \in Nas!Sites
        /\ nas_pc' \in {"fetch", "rename", "rm", "insert"} => nas_i' < Len(fileName')
        /\ nas_pc' = "work" => nas_i' <= Len(fileName')
    BY <1>0 DEF NasTyped
  <2>3. /\ fileName' \in Seq(Files) /\ Len(fileName') <= MaxNames
        /\ rows' \in [Nas!Sites -> [Files -> {0, 1}]]
        /\ errors' \in 0 .. MaxErrors /\ lost' \subseteq Nas!Sites \X Files
    BY <1>0 DEF NasTyped
  <2>4. QED
    BY <2>1, <2>2, <2>3 DEF NasTyped
<1>2. Marked'
  BY <1>0 DEF NasTyped, Nas!Directory, Marked, Nas!RowsTellTheTruth, Nas!Add
<1>3. AtWork'
  BY <1>0 DEF NasTyped, Nas!Directory, AtWork, Nas!f, Nas!Add
<1>4. Names'
  BY <1>0 DEF NasTyped, Names, Nas!Directory, Nas!Add
<1>5. Nas!RowsTellTheTruth'
  <2>1. \A s \in Nas!Sites : target[s] \subseteq target'[s]
    BY <1>0 DEF NasTyped, Nas!Directory, Nas!Add
  <2>2. UNCHANGED <<source, backup, made, rows>>
    OBVIOUS
  <2>3. QED
    BY <2>1, <2>2 DEF Nas!RowsTellTheTruth
<1>6. Nas!BackedUpHasRow'
  BY <1>0 DEF NasTyped, Nas!Directory, Nas!BackedUpHasRow, Nas!f, Nas!Add
<1>7. QED
  BY <1>1, <1>2, <1>3, <1>4, <1>5, <1>6

(* The child moves the file.                                               *)
LEMMA RenameStep ==
  ASSUME NasInv, Nas!Rename
  PROVE NasInv'
<1> USE NasAssumption DEF NasInv, Nas!Rename, Nas!Error, Nas!ChildEnds, Nas!here
<1>0. /\ Nas!f \in Files /\ nas_i + 1 \in 1 .. Len(fileName) /\ site \in Nas!Sites
      /\ nas_i + 1 \in 0 .. NSites + MaxNames
  BY ChildsFile DEF NasTyped
<1>1. NasTyped'
  <2>1. /\ source' \in Nas!Directory /\ ends' \in Nas!Directory /\ backup' \in Nas!Directory
        /\ target' \in Nas!Directory /\ made' \in Nas!Directory
    BY <1>0, Directories DEF NasTyped
  <2>2. /\ nas_pc' \in {"sleep", "site", "work", "fetch", "rename", "rm", "insert", "overflow"}
        /\ nas_i' \in 0 .. NSites + MaxNames /\ site' \in Nas!Sites
        /\ nas_pc' \in {"fetch", "rename", "rm", "insert"} => nas_i' < Len(fileName')
        /\ nas_pc' = "work" => nas_i' <= Len(fileName')
    BY <1>0 DEF NasTyped
  <2>3. /\ fileName' \in Seq(Files) /\ Len(fileName') <= MaxNames
        /\ rows' \in [Nas!Sites -> [Files -> {0, 1}]]
        /\ errors' \in 0 .. MaxErrors /\ lost' \subseteq Nas!Sites \X Files
    BY <1>0 DEF NasTyped
  <2>4. QED
    BY <2>1, <2>2, <2>3 DEF NasTyped
<1>2. Marked'
  BY <1>0 DEF NasTyped, Nas!Directory, Marked, Nas!RowsTellTheTruth, Nas!Add, Nas!Remove
<1>3. AtWork'
  <2>1. CASE UNCHANGED <<source, backup>> /\ nas_pc' = "work"
    BY <2>1 DEF AtWork
  <2>2. CASE backup' = Nas!Add(backup, site, Nas!f) /\ UNCHANGED <<nas_i, fileName, rows>>
    <3>1. Nas!f' = Nas!f
      BY <2>2 DEF Nas!f
    <3>2. rows[site][Nas!f] = 0
      BY <1>0 DEF NasTyped, Nas!Directory, AtWork, Nas!RowsTellTheTruth
    <3>3. Nas!f \in backup'[site] /\ nas_pc' = "rm" /\ site' = site /\ target' = target
      BY <1>0, <2>2 DEF NasTyped, Nas!Directory, Nas!Add
    <3>4. QED
      BY <1>0, <2>2, <3>1, <3>2, <3>3 DEF AtWork
  <2>3. QED
    BY <2>1, <2>2
<1>4. Names'
  BY <1>0 DEF NasTyped, Names, Nas!Directory, Nas!Add, Nas!Remove
<1>5. Nas!RowsTellTheTruth'
  <2>1. CASE UNCHANGED <<source, backup>>
    BY <2>1 DEF Nas!RowsTellTheTruth
  <2>2. CASE backup' = Nas!Add(backup, site, Nas!f) /\ source' = Nas!Remove(source, site, Nas!f)
    <3>1. \A s \in Nas!Sites :
            /\ backup'[s] = IF s = site THEN backup[s] \cup {Nas!f} ELSE backup[s]
            /\ source'[s] = IF s = site THEN source[s] \ {Nas!f} ELSE source[s]
      BY <1>0, <2>2 DEF NasTyped, Nas!Directory, Nas!Add, Nas!Remove
    <3>2. Nas!f \in source[site]
      BY DEF AtWork
    <3>3. \A s \in Nas!Sites : /\ source'[s] \cap backup'[s] = {}
                              /\ source'[s] \cup backup'[s] = made[s]
      <4> SUFFICES ASSUME NEW s \in Nas!Sites
                   PROVE source'[s] \cap backup'[s] = {} /\ source'[s] \cup backup'[s] = made[s]
        OBVIOUS
      <4>1. source[s] \cap backup[s] = {} /\ source[s] \cup backup[s] = made[s]
        BY <1>0 DEF Nas!RowsTellTheTruth
      <4>2. CASE s = site
        BY <3>1, <3>2, <4>1, <4>2
      <4>3. CASE s # site
        BY <3>1, <4>1, <4>3
      <4>4. QED
        BY <4>2, <4>3
    <3>4. \A s \in Nas!Sites : backup[s] \subseteq backup'[s]
      BY <3>1
    <3>5. QED
      BY <3>3, <3>4 DEF Nas!RowsTellTheTruth
  <2>3. QED
    BY <2>1, <2>2
<1>6. Nas!BackedUpHasRow'
  BY <1>0 DEF NasTyped, Nas!Directory, Nas!BackedUpHasRow, Nas!f, Nas!Add, Nas!Remove
<1>7. QED
  BY <1>1, <1>2, <1>3, <1>4, <1>5, <1>6

(* The child removes the .end file.                                        *)
LEMMA RmEndStep ==
  ASSUME NasInv, Nas!RmEnd
  PROVE NasInv'
<1> USE NasAssumption DEF NasInv, Nas!RmEnd, Nas!Fails, Nas!Error, Nas!ChildEnds, Nas!here
<1>0. /\ Nas!f \in Files /\ nas_i + 1 \in 1 .. Len(fileName) /\ site \in Nas!Sites
      /\ nas_i + 1 \in 0 .. NSites + MaxNames
  BY ChildsFile DEF NasTyped
<1>1. NasTyped'
  <2>1. /\ source' \in Nas!Directory /\ ends' \in Nas!Directory /\ backup' \in Nas!Directory
        /\ target' \in Nas!Directory /\ made' \in Nas!Directory
    BY <1>0, Directories DEF NasTyped
  <2>2. /\ nas_pc' \in {"sleep", "site", "work", "fetch", "rename", "rm", "insert", "overflow"}
        /\ nas_i' \in 0 .. NSites + MaxNames /\ site' \in Nas!Sites
        /\ nas_pc' \in {"fetch", "rename", "rm", "insert"} => nas_i' < Len(fileName')
        /\ nas_pc' = "work" => nas_i' <= Len(fileName')
    BY <1>0 DEF NasTyped
  <2>3. /\ fileName' \in Seq(Files) /\ Len(fileName') <= MaxNames
        /\ rows' \in [Nas!Sites -> [Files -> {0, 1}]]
        /\ errors' \in 0 .. MaxErrors /\ lost' \subseteq Nas!Sites \X Files
    BY <1>0 DEF NasTyped
  <2>4. QED
    BY <2>1, <2>2, <2>3 DEF NasTyped
<1>2. Marked'
  BY <1>0 DEF NasTyped, Nas!Directory, Marked, Nas!RowsTellTheTruth, Nas!Remove
<1>3. AtWork'
  BY <1>0 DEF NasTyped, Nas!Directory, AtWork, Nas!f, Nas!Remove
<1>4. Names'
  <2>1. Nas!f \notin source[site]
    BY <1>0 DEF AtWork, Nas!RowsTellTheTruth
  <2>2. UNCHANGED <<fileName, made, source>>
    OBVIOUS
  <2>3. \A s \in Nas!Sites : \A g \in source[s] : g \in ends[s] => g \in ends'[s]
    BY <1>0, <2>1 DEF NasTyped, Nas!Directory, Nas!Remove
  <2>4. QED
    BY <2>2, <2>3 DEF Names
<1>5. Nas!RowsTellTheTruth'
  BY <1>0 DEF NasTyped, Nas!Directory, Nas!RowsTellTheTruth, Nas!Remove
<1>6. Nas!BackedUpHasRow'
  BY <1>0 DEF NasTyped, Nas!Directory, Nas!BackedUpHasRow, Nas!f, Nas!Remove
<1>7. QED
  BY <1>1, <1>2, <1>3, <1>4, <1>5, <1>6

(* The child inserts the row.                                              *)
LEMMA InsertStep ==
  ASSUME NasInv, Nas!Insert
  PROVE NasInv'
<1> USE NasAssumption DEF NasInv, Nas!Insert, Nas!Fails, Nas!Error, Nas!ChildEnds, Nas!nas
<1>0. /\ Nas!f \in Files /\ nas_i + 1 \in 1 .. Len(fileName) /\ site \in Nas!Sites
      /\ nas_i + 1 \in 0 .. NSites + MaxNames
  BY ChildsFile DEF NasTyped
<1>00. rows \in [Nas!Sites -> [Files -> {0, 1}]] /\ rows[site][Nas!f] = 0
  BY DEF NasTyped, AtWork
<1>01. \/ rows' = [rows EXCEPT ![site] = [rows[site] EXCEPT ![Nas!f] = 1]]
       \/ rows' = rows /\ <<site, Nas!f>> \in lost'
  BY <1>00
<1>1. NasTyped'
  <2>1. rows' \in [Nas!Sites -> [Files -> {0, 1}]]
    BY <1>00, <1>01
  <2>2. QED
    BY <1>0, <2>1 DEF NasTyped
<1>2. Marked'
  BY <1>0 DEF NasTyped, Nas!Directory, Marked, Nas!RowsTellTheTruth
<1>3. AtWork'
  BY <1>0 DEF NasTyped, Nas!Directory, AtWork, Nas!f
<1>4. Names'
  BY <1>0 DEF NasTyped, Names, Nas!Directory
<1>5. Nas!RowsTellTheTruth'
  <2>1. \A s \in Nas!Sites, g \in Files : rows'[s][g] = 1 =>
          rows[s][g] = 1 \/ (s = site /\ g = Nas!f)
    BY <1>00, <1>01
  <2>2. \A s \in Nas!Sites, g \in Files : rows'[s][g] <= 1
    BY <1>1 DEF NasTyped
  <2>3. Nas!f \in backup[site] /\ Nas!f \in target[site]
    BY DEF AtWork
  <2>4. QED
    BY <2>1, <2>2, <2>3 DEF Nas!RowsTellTheTruth
<1>6. Nas!BackedUpHasRow'
  <2>1. \A s \in Nas!Sites, g \in Files : rows[s][g] = 1 => rows'[s][g] = 1
    BY <1>00, <1>01
  <2>2. rows'[site][Nas!f] = 1 \/ <<site, Nas!f>> \in lost'
    BY <1>0, <1>00, <1>01 DEF NasTyped
  <2>3. lost \subseteq lost' /\ backup' = backup
    OBVIOUS
  <2>4. QED
    BY <2>1, <2>2, <2>3 DEF Nas!BackedUpHasRow
<1>7. QED
  BY <1>1, <1>2, <1>3, <1>4, <1>5, <1>6

(* The list of a site: the names are added to those that are there.        *)
LEMMA CheckEndFileStep ==
  ASSUME NasInv, Nas!CheckEndFile
  PROVE NasInv'
<1> USE NasAssumption DEF NasInv, Nas!CheckEndFile, Nas!cnt, Nas!nas, Nas!here
<1>1. nas_i \in Nas!Sites /\ ends[nas_i] \in SUBSET Files
  BY DEF NasTyped, Nas!Sites, Nas!Directory
<1>2. PICK p \in Seq(ends[nas_i]) :
        /\ p \in Seq(Files)
        /\ fileName' = fileName \o p
        /\ Len(fileName') <= MaxNames
        /\ \/ nas_pc' = "overflow" /\ nas_i' = nas_i /\ UNCHANGED errors
           \/ nas_pc' = "work" /\ nas_i' = 0 /\ UNCHANGED errors
           \/ nas_pc' = "site" /\ nas_i' = nas_i + 1 /\ (UNCHANGED errors \/ Nas!Error)
  <2>1. PICK q \in Nas!Orders(ends[nas_i]) :
         \/ /\ Len(fileName) + Len(q) > MaxNames
            /\ nas_pc' = "overflow"
            /\ UNCHANGED <<nas_i, fileName, errors>>
         \/ /\ Len(fileName) + Len(q) <= MaxNames
            /\ fileName' = fileName \o q
            /\ IF fileName' = <<>>
               THEN nas_i' = nas_i + 1 /\ UNCHANGED nas_pc
               ELSE nas_i' = 0 /\ nas_pc' = "work"
            /\ UNCHANGED errors
         \/ /\ Nas!Error
            /\ \E n \in 0 .. Len(q) :
                 Len(fileName) + n <= MaxNames /\ fileName' = fileName \o SubSeq(q, 1, n)
            /\ nas_i' = nas_i + 1 /\ UNCHANGED nas_pc
    OBVIOUS
  <2>2. q \in Seq(ends[nas_i]) /\ q \in Seq(Files) /\ Len(q) \in Nat
    BY <1>1, OrdersAreNames
  <2>3. fileName \in Seq(Files) /\ Len(fileName) <= MaxNames
    BY DEF NasTyped
  <2>4. CASE Len(fileName) + Len(q) > MaxNames /\ UNCHANGED <<nas_i, fileName, errors>>
             /\ nas_pc' = "overflow"
    <3>1. fileName' = fileName \o <<>> /\ <<>> \in Seq(ends[nas_i]) /\ <<>> \in Seq(Files)
      BY <2>3, <2>4
    <3>2. QED
      BY <2>3, <2>4, <3>1
  <2>5. CASE Len(fileName) + Len(q) <= MaxNames /\ fileName' = fileName \o q /\ UNCHANGED errors
             /\ IF fileName' = <<>>
                THEN nas_i' = nas_i + 1 /\ UNCHANGED nas_pc
                ELSE nas_i' = 0 /\ nas_pc' = "work"
    <3>1. Len(fileName') <= MaxNames
      BY <2>2, <2>3, <2>5
    <3>2. QED
      BY <2>2, <2>5, <3>1
  <2>6. CASE /\ Nas!Error
             /\ \E n \in 0 .. Len(q) :
                  Len(fileName) + n <= MaxNames /\ fileName' = fileName \o SubSeq(q, 1, n)
             /\ nas_i' = nas_i + 1 /\ UNCHANGED nas_pc
    <3>1. PICK n \in 0 .. Len(q) :
            Len(fileName) + n <= MaxNames /\ fileName' = fileName \o SubSeq(q, 1, n)
      BY <2>6
    <3>2. /\ SubSeq(q, 1, n) \in Seq(ends[nas_i]) /\ SubSeq(q, 1, n) \in Seq(Files)
          /\ Len(SubSeq(q, 1, n)) = n
      <4>1. ASSUME NEW S, q \in Seq(S)
            PROVE SubSeq(q, 1, n) \in Seq(S) /\ Len(SubSeq(q, 1, n)) = n
        <5>1. n \in Nat /\ \A j \in 1 .. n : q[j] \in S
          BY <2>2, <4>1
        <5>2. QED
          BY <5>1, SubSeqProperties
      <4>2. QED
        BY <2>2, <4>1
    <3>3. Len(fileName') <= MaxNames
      BY <2>3, <3>1, <3>2
    <3>4. QED
      BY <2>6, <3>1, <3>2, <3>3
  <2>7. QED
    BY <2>1, <2>4, <2>5, <2>6
<1>3. fileName' \in Seq(Files)
  BY <1>2 DEF NasTyped
<1>4. site' \in Nas!Sites /\ nas_i' \in 0 .. NSites + MaxNames
  BY <1>1, <1>2 DEF Nas!Sites
<1>5. nas_pc' = "work" => nas_i' <= Len(fileName')
  BY <1>2, <1>3
<1>6. NasTyped'
  <2>1. UNCHANGED <<source, ends, backup, target, made, rows, lost>>
    OBVIOUS
  <2>2. /\ nas_pc' \in {"sleep", "site", "work", "fetch", "rename", "rm", "insert", "overflow"}
        /\ ~(nas_pc' \in {"fetch", "rename", "rm", "insert"})
    BY <1>2
  <2>3. errors' \in 0 .. MaxErrors
    BY <1>2 DEF NasTyped, Nas!Error
  <2>4. QED
    BY <1>2, <1>3, <1>4, <1>5, <2>1, <2>2, <2>3 DEF NasTyped
<1>7. Names'
  BY <1>1, <1>2, NamesAdded
<1>8. Marked' /\ AtWork' /\ Nas!RowsTellTheTruth'
  BY <1>2 DEF Marked, AtWork, Nas!RowsTellTheTruth
<1>9. Nas!BackedUpHasRow'
  BY DEF Nas!BackedUpHasRow
<1>10. QED
  BY <1>6, <1>7, <1>8, <1>9

(* sftp_lib.c, auto_recv_nas_sftp.c 120-134, for any number of sites, files *)
(* and errors and any length of the list: a file is in one place and has   *)
(* one row, a true one; one without a row was left by a child that failed; *)
(* only a name from elsewhere is fetched too early.                        *)
THEOREM RowsTellTheTruthAlways == Nas!Spec => []RowsTellTheTruth
<1>1. Nas!Init => NasInv
  <2> SUFFICES ASSUME Nas!Init PROVE NasInv
    OBVIOUS
  <2>1. /\ 0 \in 0 .. NSites + MaxNames /\ 0 \in Nas!Sites /\ 0 \in 0 .. MaxErrors
        /\ <<>> \in Seq(Files) /\ Len(<<>>) = 0 /\ 0 <= MaxNames
    BY NasAssumption DEF Nas!Sites
  <2>2. fileName \in Seq(Files) /\ Len(fileName) = 0
    BY <2>1 DEF Nas!Init
  <2>3. NasTyped
    BY <2>1, <2>2 DEF Nas!Init, NasTyped, Nas!Directory
  <2>4. Names
    BY <2>2 DEF Names
  <2>5. Marked /\ AtWork /\ Nas!RowsTellTheTruth /\ Nas!BackedUpHasRow
    BY DEF Nas!Init, Marked, AtWork, Nas!RowsTellTheTruth, Nas!BackedUpHasRow
  <2>6. QED
    BY <2>3, <2>4, <2>5 DEF NasInv
<1>2. NasInv /\ [Nas!Next]_(Nas!vars) => NasInv'
  <2> SUFFICES ASSUME NasInv, [Nas!Next]_(Nas!vars) PROVE NasInv'
    OBVIOUS
  <2>1. CASE UNCHANGED Nas!vars
    BY <2>1 DEF Nas!vars, Nas!loop, Nas!nas, Nas!here, NasInv, NasTyped, Marked, AtWork, Names,
                Nas!f, Nas!RowsTellTheTruth, Nas!BackedUpHasRow
  <2>2. CASE Nas!Next
    BY <2>2, DeliverStep, MarkEndStep, WakeStep, RoundEndsStep, CheckEndFileStep, WorkStep,
       FetchStep, RenameStep, RmEndStep, InsertStep DEF Nas!Next, Nas!Receiver
  <2>3. QED
    BY <2>1, <2>2
<1>3. NasInv => RowsTellTheTruth
  <2> SUFFICES ASSUME NasInv PROVE RowsTellTheTruth
    OBVIOUS
  <2>1. Nas!TypeOK
    BY DEF NasInv, NasTyped, Nas!TypeOK, Nas!cnt
  <2>2. Nas!EarlyOnlyByStaleName
    <3> SUFFICES ASSUME nas_pc = "rename", Nas!f \notin ends[site]
                 PROVE \E s \in Nas!Sites \ {site} : Nas!f \in made[s]
      BY DEF Nas!EarlyOnlyByStaleName
    <3>1. PICK s \in Nas!Sites :
            Nas!f \in made[s] /\ (Nas!f \in source[s] => Nas!f \in ends[s])
      BY ChildsFile DEF NasInv, Names, Nas!f
    <3>2. Nas!f \in source[site]
      BY DEF NasInv, AtWork
    <3>3. QED
      BY <3>1, <3>2
  <2>3. QED
    BY <2>1, <2>2 DEF NasInv, RowsTellTheTruth
<1>4. QED
  BY <1>1, <1>2, <1>3, PTL DEF Nas!Spec

=============================================================================
