------------------------------- MODULE MC_PCC -------------------------------
(* Small instances of PCC for TLC.                                         *)
EXTENDS PCC, TLC

(* process_info without a section: every program is started by a request,  *)
(* and their names are interchangeable                                     *)
MCNoInfo == <<>>
Symmetry == Permutations(Names)

(* Requests that name a program.  KILL_PROCESS with the empty name, which  *)
(* finds the free slots, is left to the other instance: marking these DOWN *)
(* nearly doubles the states of this one.                                  *)
NamedSpec == Init /\ [][Next /\ (op' = "D" => arg' # NoName)]_vars

(* process_info with every kind of section: one copy for P_GUBUN 0, CNT    *)
(* copies for 1, none for 5; a section without P_GUBUN ends the reading    *)
MCInfo == << [name |-> "a", cnt |-> 7, gubun |-> 0],
             [name |-> "a", cnt |-> 1, gubun |-> 1],
             [name |-> "a", cnt |-> 5, gubun |-> 5],
             [name |-> "a", cnt |-> 5, gubun |-> NoGubun],
             [name |-> "a", cnt |-> 5, gubun |-> 1] >>
=============================================================================
