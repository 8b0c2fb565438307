------------------------------ MODULE MC_Files ------------------------------
(***************************************************************************)
(* The programs that keep their progress on disk, for TLC: the position of *)
(* the log readers, once with failing calls and crashes, once with larger  *)
(* logs, a rotation and a log that is new to the file; and the receiver of *)
(* files over SFTP.  The first state says which one runs, the others stay  *)
(* as they start.  The definitions of FilePosition have their own names.   *)
(***************************************************************************)
EXTENDS FilePosition, FiniteSets

CONSTANTS Files,      \* what the sites of the receiver deliver
          NSites, MaxNames,     \* its sites, and the length of its array
          MaxErrors,            \* bound: transfers and calls of it that fail
          MaxDelivered          \* bound: what its sites deliver in all

ASSUME NasAssumption ==
    /\ IsFiniteSet(Files)
    /\ NSites \in Nat \ {0} /\ MaxNames \in Nat /\ MaxErrors \in Nat
    /\ MaxDelivered \in Nat

(* A file with both logs at their start, and one with the first only.      *)
Plain == << [idx |-> 1, ino |-> FirstInode, pos |-> 0],
            [idx |-> 2, ino |-> FirstInode, pos |-> 0] >>
OneLog == << Plain[1] >>
PlainOrOneLog == {Plain, OneLog}

VARIABLES
    program,
    nas_pc, nas_i, site, fileName, source, ends, backup, target, rows, made, errors, lost

nasVars == <<nas_pc, nas_i, site, fileName, source, ends, backup, target, rows, made,
             errors, lost>>
allVars == <<program, vars, nasVars>>

Nas == INSTANCE NasReceiver WITH pc <- nas_pc, i <- nas_i

(* Two ways to bound the readers: with faults the logs stay small and are  *)
(* not rotated, without faults they grow as far as the constants let them. *)
Faulty == Next /\ rotations' = 0 /\ \A t \in Logs : size'[t] <= 2 /\ msg'[t] <= 1
Growing == Next /\ faults' = 0

(* The receiver is bounded by what there is to receive.                    *)
FewDelivered ==
    Cardinality({d \in Nas!Sites \X Files : d[2] \in made[d[1]]}) <= MaxDelivered

FilesInit ==
    /\ program \in {"faulty", "growing", "nas"}
    /\ Init
    /\ given = IF program = "growing" THEN OneLog ELSE Plain
    /\ Nas!Init

FilesNext ==
    /\ UNCHANGED program
    /\ \/ program = "faulty" /\ Faulty /\ UNCHANGED nasVars
       \/ program = "growing" /\ Growing /\ UNCHANGED nasVars
       \/ program = "nas" /\ Nas!Next /\ FewDelivered' /\ UNCHANGED vars

(* The fairness of the program that runs.                                  *)
Reader(A) == program = "faulty" /\ A /\ UNCHANGED <<program, given, nasVars>>

FilesSpec ==
    /\ FilesInit /\ [][FilesNext]_allVars
    /\ \A t \in Logs : WF_allVars(Reader(Step(t))) /\ SF_allVars(Reader(Lock(t)))
    /\ WF_allVars(program = "nas" /\ Nas!Receiver /\ UNCHANGED <<program, vars>>)

-----------------------------------------------------------------------------
(* main.c 123-232: without faults the file says how far each log was read, *)
(* and with them a position is lost for the reasons in torn only.          *)
PositionsKept ==
    /\ program = "growing" => PositionTrue
    /\ program = "faulty" => LostOnlyIfTorn

(* sftp_lib.c, auto_recv_nas_sftp.c 120-134: one row per file, and a true  *)
(* one; a file without a row in the backup directory is that of a child    *)
(* that failed, and only a name left from before is fetched too early.     *)
RowsTellTheTruth ==
    /\ Nas!TypeOK /\ Nas!RowsTellTheTruth
    /\ Nas!BackedUpHasRow /\ Nas!EarlyOnlyByStaleName

(* main.c 123-232: a call returns, unless .tmp could not be opened; and a  *)
(* marked file of the first site is received, unless a round never ends or *)
(* the array of names is full (auto_recv_nas_sftp.c 86).                   *)
CallsReturn ==
    /\ program = "faulty" => CallReturns
    /\ program = "nas" => Nas!FirstSiteReceived
=============================================================================
