---------------------------- MODULE FilePosition ----------------------------
(***************************************************************************)
(* writePositionConf (test_file_position/main.c): a log reader notes how   *)
(* far it has read a log.  The file with the positions is copied to a .tmp *)
(* with one line changed; then cfg becomes .bak and .tmp becomes cfg, all  *)
(* under a mutex of the process.  One thread reads each log.               *)
(*                                                                         *)
(* pc: idle   not in the function          ren1   cfg is renamed next      *)
(*     stat   the message has been read    ren2   .tmp is renamed next     *)
(*     lock   waits for the mutex          unbak  .bak is removed next     *)
(*     open   opens .tmp and cfg           back   .bak is renamed back     *)
(*     copy   copies line k                alone  writes one record only   *)
(*     unlock returns next                 only   renames it over any cfg  *)
(* A line is one record or one comment, lines have the same width, and a   *)
(* message counts iMsgSize + 1 bytes.  A comment is written back without   *)
(* its newline: what is written next becomes part of it.                   *)
(* Any call may fail.  A write that fails writes nothing: one that is cut  *)
(* short leaves a part of a line, which is not followed further.           *)
(***************************************************************************)
EXTENDS Integers, Sequences

CONSTANTS
    Logs,           \* the logs, each with its index in the file and its thread
    Comment,        \* stands for the index of a comment line
    Absent,         \* a file that does not exist
    InitCfgs,       \* what may be the lines of the file at first, or Absent
    Messages,       \* what a message counts
    FirstInode,     \* inode of every log at first
    IntHalf,        \* 2^31: what an int no longer holds
    MaxSize,        \* bound: bytes in a log
    MaxRotations,   \* bound: log rotations
    MaxFaults       \* bound: failing calls and crashes

ASSUME ConstantsAssumption ==
    /\ Messages \subseteq Nat \ {0} /\ FirstInode \in Nat /\ IntHalf \in Nat
    /\ MaxSize \in Nat /\ MaxRotations \in Nat /\ MaxFaults \in Nat
    /\ Comment \notin Logs

(* What a line holds, and what a file holds: open is set when its last     *)
(* line has no newline.                                                    *)
Lines == [idx : Logs \cup {Comment}, ino : Int, pos : Nat]
Contents == [lines : Seq(Lines), open : BOOLEAN]

ASSUME ContentsAssumption ==
    /\ Absent \notin Contents /\ Absent \notin Logs
    /\ InitCfgs \subseteq Seq(Lines) \cup {Absent}

VARIABLES
    pc, msg, st,        \* per thread: where it is, iMsgSize + 1, struct stat
    mutex,              \* the thread that has positionFile_lock, or Absent
    k, found,           \* line of cfg being copied, iWriteFlag
    cut,                \* history: a read or write has failed since .tmp was opened
    w,                  \* what has been written since .tmp was opened
    given,              \* history: the lines of the file at first, or Absent
    cfg, tmp, bak,      \* the files: Absent or [lines, open]
    ino, size, read,    \* per log: inode, bytes in it, bytes its thread has read
    rotations,
    faults,             \* failing calls and crashes so far
    torn,               \* history: what has made cfg incomplete, see TornBy
    leaked              \* history: a call has returned with the mutex

local == <<pc, msg, st>>
held == <<mutex, k, found, cut, w>>
files == <<cfg, tmp, bak>>
logs == <<ino, size, read, rotations>>
hist == <<faults, torn, leaked>>
vars == <<local, held, given, files, logs, hist>>

(* A crash or a fault between the two renames; a cfg that was there, could *)
(* not be opened and was replaced by one record; a read or a write that    *)
(* failed in the call that replaced it.                                    *)
TornBy == {"between", "unread", "cut"}

Line(t, inode, pos) == [idx |-> t, ino |-> inode, pos |-> pos]
Empty == [lines |-> <<>>, open |-> FALSE]

Init ==
    /\ pc = [t \in Logs |-> "idle"]
    /\ msg = [t \in Logs |-> 0]
    /\ st = [t \in Logs |-> [ino |-> 0, size |-> 0]]
    /\ mutex = Absent /\ k = 1 /\ found = FALSE /\ cut = FALSE /\ w = Empty
    /\ given \in InitCfgs
    /\ cfg = IF given = Absent THEN Absent ELSE [lines |-> given, open |-> FALSE]
    /\ tmp = Absent /\ bak = Absent
    /\ ino = [t \in Logs |-> FirstInode]
    /\ size = [t \in Logs |-> 0] /\ read = [t \in Logs |-> 0]
    /\ rotations = 0 /\ faults = 0 /\ torn = {} /\ leaked = FALSE

Goto(t, from, to) == pc[t] = from /\ pc' = [pc EXCEPT ![t] = to]

-----------------------------------------------------------------------------
(* The logs and their readers.                                             *)
Grow(t) ==
    /\ size[t] < MaxSize
    /\ size' = [size EXCEPT ![t] = @ + 1]
    /\ UNCHANGED <<local, held, files, ino, read, rotations, hist>>

(* A new file takes the name of the log.  Between the read of a message    *)
(* and stat this is left out: the message would count for the new file.    *)
Rotate(t) ==
    /\ rotations < MaxRotations /\ pc[t] # "stat"
    /\ rotations' = rotations + 1
    /\ ino' = [ino EXCEPT ![t] = FirstInode + rotations']
    /\ size' = [size EXCEPT ![t] = 0] /\ read' = [read EXCEPT ![t] = 0]
    /\ UNCHANGED <<local, held, files, hist>>

(* A thread reads a message and calls writePositionConf.                   *)
Call(t) ==
    /\ Goto(t, "idle", "stat")
    /\ \E n \in Messages :
         /\ read[t] + n <= size[t]
         /\ msg' = [msg EXCEPT ![t] = n]
         /\ read' = [read EXCEPT ![t] = @ + n]
    /\ UNCHANGED <<st, held, files, ino, size, rotations, hist>>

Fault == faults < MaxFaults /\ faults' = faults + 1
NoFault == UNCHANGED faults

-----------------------------------------------------------------------------
(* writePositionConf.                                                      *)
Stat(t) ==
    /\ \/ /\ Goto(t, "stat", "lock")
          /\ st' = [st EXCEPT ![t] = [ino |-> ino[t], size |-> size[t]]]
          /\ NoFault
       \/ Fault /\ Goto(t, "stat", "idle") /\ UNCHANGED st
    /\ UNCHANGED <<msg, held, files, logs, torn, leaked>>

Lock(t) ==
    /\ mutex = Absent
    /\ Goto(t, "lock", "open")
    /\ mutex' = t
    /\ UNCHANGED <<msg, st, k, found, cut, w, files, logs, hist>>

(* open with O_CREAT, without O_TRUNC: an older .tmp keeps its lines.  If  *)
(* it fails the function returns with the mutex.  A cfg that cannot be     *)
(* opened (a new file has whatever mode is on the stack) is taken for one  *)
(* that does not exist.                                                    *)
Open(t) ==
    /\ \/ /\ \/ cfg # Absent /\ Goto(t, "open", "copy") /\ NoFault
             \/ cfg = Absent /\ Goto(t, "open", "alone") /\ NoFault
             \/ cfg # Absent /\ Goto(t, "open", "alone") /\ Fault
          /\ tmp' = IF tmp = Absent THEN Empty ELSE tmp
          /\ UNCHANGED leaked
       \/ Fault /\ Goto(t, "open", "idle") /\ leaked' = TRUE /\ UNCHANGED tmp
    /\ k' = 1 /\ found' = FALSE /\ cut' = FALSE /\ w' = Empty
    /\ UNCHANGED <<msg, st, mutex, cfg, bak, logs, torn>>

(* write to .tmp, over the older lines; nobody looks whether it succeeds.  *)
Written(line) ==
    /\ w' = [lines |-> IF w.open THEN w.lines ELSE Append(w.lines, line),
             open  |-> line.idx = Comment]
    /\ LET n == Len(w'.lines) IN
       tmp' = [lines |-> w'.lines \o SubSeq(tmp.lines, n + 1, Len(tmp.lines)),
               open  |-> w'.open /\ n >= Len(tmp.lines)]

Write(line) ==
    \/ Written(line) /\ NoFault /\ UNCHANGED cut
    \/ Fault /\ cut' = TRUE /\ UNCHANGED <<w, tmp>>

(* %d of an inode, read back into an int.                                  *)
Printed(inode) == IF inode < IntHalf THEN inode ELSE inode - 2 * IntHalf

Started(t) == Line(t, Printed(st[t].ino), msg[t])

(* The line for log t that takes the place of its old one: the same file   *)
(* counts on, another one, or one that is shorter now, starts anew.        *)
Advanced(t, old) ==
    IF old.ino = st[t].ino /\ old.pos <= st[t].size
    THEN [old EXCEPT !.pos = @ + msg[t]]
    ELSE Started(t)

Cfg == IF cfg = Absent THEN <<>> ELSE cfg.lines

(* Mutant of Copy: every line is advanced.                                 *)
CopyAll(t) ==
    /\ pc[t] = "copy" /\ k <= Len(Cfg)
    /\ k' = k + 1
    /\ found' = TRUE
    /\ Write(Advanced(t, Cfg[k]))
    /\ UNCHANGED <<local, mutex, cfg, bak, logs, torn, leaked>>

Copy(t) ==
    /\ pc[t] = "copy" /\ k <= Len(Cfg)
    /\ k' = k + 1
    /\ found' = (found \/ Cfg[k].idx = t)
    /\ Write(IF Cfg[k].idx = t THEN Advanced(t, Cfg[k]) ELSE Cfg[k])
    /\ UNCHANGED <<local, mutex, cfg, bak, logs, torn, leaked>>

(* A read that fails is taken for the end of the file.                     *)
ReadFails(t) ==
    /\ pc[t] = "copy" /\ k <= Len(Cfg)
    /\ Fault
    /\ k' = Len(Cfg) + 1 /\ cut' = TRUE
    /\ UNCHANGED <<local, mutex, found, w, files, logs, torn, leaked>>

(* The end of the copy; an index that was not found is added.              *)
CopyEnds(t) ==
    /\ k = Len(Cfg) + 1
    /\ Goto(t, "copy", "ren1")
    /\ IF found THEN UNCHANGED <<w, tmp, cut, faults>> ELSE Write(Started(t))
    /\ UNCHANGED <<msg, st, mutex, k, found, cfg, bak, logs, torn, leaked>>

(* The branch without a cfg to read.                                       *)
WriteAlone(t) ==
    /\ Goto(t, "alone", "only")
    /\ Write(Started(t))
    /\ UNCHANGED <<msg, st, mutex, k, found, cfg, bak, logs, torn, leaked>>

(* Mutant of RenameCfg: cfg is removed instead.                            *)
RemoveCfg(t) ==
    /\ Goto(t, "ren1", "ren2")
    /\ cfg' = Absent
    /\ UNCHANGED <<msg, st, held, tmp, bak, logs, hist>>

(* rename(cfg, .bak); if it fails .tmp is removed, which may fail too.     *)
RenameCfg(t) ==
    /\ \/ /\ Goto(t, "ren1", "ren2")
          /\ bak' = cfg /\ cfg' = Absent /\ NoFault /\ UNCHANGED tmp
       \/ /\ Fault /\ Goto(t, "ren1", "unlock")
          /\ tmp' \in {Absent, tmp} /\ UNCHANGED <<cfg, bak>>
    /\ UNCHANGED <<msg, st, held, logs, torn, leaked>>

(* rename(.tmp, cfg); if it fails .bak is to be renamed back.              *)
RenameTmp(t) ==
    /\ \/ /\ Goto(t, "ren2", "unbak")
          /\ cfg' = tmp /\ tmp' = Absent /\ NoFault
          /\ torn' = IF cut THEN torn \cup {"cut"} ELSE torn
       \/ /\ Fault /\ Goto(t, "ren2", "back")
          /\ UNCHANGED <<cfg, tmp, torn>>
    /\ UNCHANGED <<msg, st, held, bak, logs, leaked>>

(* rename(.tmp, cfg) over a cfg that could not be opened, if there is one; *)
(* if it fails .tmp is removed, which may fail too.                        *)
RenameOnly(t) ==
    /\ Goto(t, "only", "unlock")
    /\ \/ /\ cfg' = tmp /\ tmp' = Absent /\ NoFault
          /\ torn' = IF cfg = Absent THEN torn ELSE torn \cup {"unread"}
       \/ Fault /\ tmp' \in {Absent, tmp} /\ UNCHANGED <<cfg, torn>>
    /\ UNCHANGED <<msg, st, held, bak, logs, leaked>>

Back(t) ==
    /\ Goto(t, "back", "unlock")
    /\ \/ cfg' = bak /\ bak' = Absent /\ NoFault /\ UNCHANGED torn
       \/ Fault /\ torn' = torn \cup {"between"} /\ UNCHANGED <<cfg, bak>>
    /\ UNCHANGED <<msg, st, held, tmp, logs, leaked>>

UnlinkBak(t) ==
    /\ Goto(t, "unbak", "unlock")
    /\ \/ bak' = Absent /\ NoFault
       \/ Fault /\ UNCHANGED bak
    /\ UNCHANGED <<msg, st, held, cfg, tmp, logs, torn, leaked>>

(* Mutant of Unlock: a call that returns does not give the mutex back.     *)
UnlockForgotten(t) ==
    /\ Goto(t, "unlock", "idle")
    /\ UNCHANGED <<msg, st, held, files, logs, hist>>

Unlock(t) ==
    /\ Goto(t, "unlock", "idle")
    /\ mutex' = Absent
    /\ UNCHANGED <<msg, st, k, found, cut, w, files, logs, hist>>

(* The process dies; the readers start again where the file says.          *)
Noted(t) == {i \in 1 .. Len(Cfg) : Cfg[i].idx = t}
First(t) == CHOOSE i \in Noted(t) : \A j \in Noted(t) : i <= j

Crash ==
    /\ Fault
    /\ pc' = [t \in Logs |-> "idle"]
    /\ mutex' = Absent
    /\ k' = 1 /\ found' = FALSE /\ cut' = FALSE /\ w' = Empty
    /\ torn' = IF \E t \in Logs : pc[t] \in {"ren2", "back"}
               THEN torn \cup {"between"} ELSE torn
    /\ leaked' = FALSE
    /\ read' = [t \in Logs |->
                  IF Noted(t) # {} /\ Cfg[First(t)].ino = ino[t] /\ Cfg[First(t)].pos <= size[t]
                  THEN Cfg[First(t)].pos ELSE 0]
    /\ UNCHANGED <<msg, st, files, ino, size, rotations>>

Step(t) ==
    \/ Stat(t) \/ Lock(t) \/ Open(t) \/ Copy(t) \/ ReadFails(t) \/ CopyEnds(t)
    \/ WriteAlone(t) \/ RenameCfg(t) \/ RenameTmp(t) \/ RenameOnly(t)
    \/ Back(t) \/ UnlinkBak(t) \/ Unlock(t)

Next ==
    /\ UNCHANGED given
    /\ \/ \E t \in Logs : Grow(t) \/ Rotate(t) \/ Call(t) \/ Step(t)
       \/ Crash

Spec == Init /\ [][Next]_vars

(* Threads are scheduled, and the mutex is not withheld from one for ever. *)
FairSpec ==
    /\ Spec
    /\ \A t \in Logs :
         WF_vars(Step(t) /\ UNCHANGED given) /\ SF_vars(Lock(t) /\ UNCHANGED given)

-----------------------------------------------------------------------------
(* Type invariant.                                                         *)
TypeOK ==
    /\ pc \in [Logs -> {"idle", "stat", "lock", "open", "copy", "ren1", "ren2",
                        "alone", "only", "unbak", "back", "unlock"}]
    /\ msg \in [Logs -> Messages \cup {0}]
    /\ st \in [Logs -> [ino : Nat, size : 0 .. MaxSize]]
    /\ mutex \in Logs \cup {Absent}
    /\ k \in Nat \ {0} /\ found \in BOOLEAN /\ cut \in BOOLEAN /\ w \in Contents
    /\ given \in InitCfgs
    /\ cfg \in Contents \cup {Absent}
    /\ tmp \in Contents \cup {Absent} /\ bak \in Contents \cup {Absent}
    /\ ino \in [Logs -> Nat] /\ size \in [Logs -> 0 .. MaxSize]
    /\ read \in [Logs -> 0 .. MaxSize]
    /\ rotations \in 0 .. MaxRotations /\ faults \in 0 .. MaxFaults
    /\ torn \subseteq TornBy /\ leaked \in BOOLEAN

(* "The same file counts on, a different file counts from the start"       *)
(* (main.c 187, 192): when a thread is not in the function and nobody       *)
(* rewrites the file, it says how far the thread has read its log.         *)
PositionTrue == \A t \in Logs :
    mutex = Absent /\ pc[t] = "idle" /\ read[t] > 0 =>
        /\ Noted(t) # {}
        /\ Cfg[First(t)].ino = ino[t] /\ Cfg[First(t)].pos = read[t]

(* main.c 206-217: a position file that was there once is there as cfg or  *)
(* .bak at every moment, whatever fails or crashes.                        *)
CopyExists == given # Absent => cfg # Absent \/ bak # Absent

(* The position of a log is lost for three reasons only: a crash or a      *)
(* failing rename back came between the two renames (main.c 206-213); a    *)
(* cfg that is there could not be opened (128) and gave way to one record  *)
(* (218-224); or the .tmp that replaced it lacks what a failing read or    *)
(* write left out (75-79, 132-202).  A crash or a failing call anywhere    *)
(* else, a remainder of an older .tmp included, loses none.                *)
LostOnlyIfTorn ==
    torn = {} /\ given # Absent /\ cfg # Absent =>
        \A i \in 1 .. Len(given) : Noted(given[i].idx) # {}

(* A call ends (main.c 123-232), unless one before it has failed to open   *)
(* .tmp and kept the mutex.                                                *)
CallReturns == \A t \in Logs : (pc[t] = "lock") ~> (pc[t] = "idle" \/ leaked)
=============================================================================
