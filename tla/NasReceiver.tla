---------------------------- MODULE NasReceiver ----------------------------
(***************************************************************************)
(* The batch that fetches files from NAS sites                             *)
(* (test_sftp/test_curllib/auto_recv_nas_sftp): sub_main goes through the  *)
(* sites; for each it lists the .end files, and forks one child per name,  *)
(* which downloads the file, moves it to the backup directory, removes the *)
(* .end file and inserts a row.  Both loops of sub_main use the same i,    *)
(* and the names (fileName, cnt) are never cleared.                        *)
(*                                                                         *)
(* pc: sleep  between two rounds     rename  child: rename is next         *)
(*     site   at the outer loop      rm      child: rm of .end is next     *)
(*     work   at the inner loop      insert  child: the row is next        *)
(*     fetch  child: the download is next    overflow: past fileName       *)
(***************************************************************************)
EXTENDS Naturals, Sequences, FiniteSets

CONSTANTS Files,        \* names; each is delivered once by a site
          NSites,       \* loop_cnt
          MaxNames,     \* the length of the array fileName, 100
          MaxErrors     \* bound: transfers and calls that fail

Sites == 0 .. NSites - 1

VARIABLES
    pc, i, site,    \* site: the one whose section was read last
    fileName,       \* with cnt its length
    source, ends, backup,   \* per site: files, their .end files, backup files
    target,         \* per site: files in the local directory
    rows,           \* rows[s][f]: rows in TRCV_INFO
    made,           \* per site: files that are or were being delivered
    errors,
    lost            \* history: <<s, f>> whose child failed after the rename

loop == <<pc, i, site, fileName>>
nas == <<source, ends, backup, made>>
here == <<target, rows>>
vars == <<loop, nas, here, errors, lost>>

cnt == Len(fileName)

Init ==
    /\ pc = "sleep" /\ i = 0 /\ site = 0 /\ fileName = <<>>
    /\ source = [s \in Sites |-> {}] /\ ends = [s \in Sites |-> {}]
    /\ backup = [s \in Sites |-> {}] /\ made = [s \in Sites |-> {}]
    /\ target = [s \in Sites |-> {}]
    /\ rows = [s \in Sites |-> [f \in Files |-> 0]]
    /\ errors = 0 /\ lost = {}

Error == errors < MaxErrors /\ errors' = errors + 1
Goto(from, to) == pc = from /\ pc' = to
Add(dir, s, f) == [dir EXCEPT ![s] = @ \cup {f}]
Remove(dir, s, f) == [dir EXCEPT ![s] = @ \ {f}]

-----------------------------------------------------------------------------
(* A site delivers a file: first the file, then its .end file.             *)
Deliver(s, f) ==
    /\ f \notin made[s]
    /\ made' = Add(made, s, f)
    /\ source' = Add(source, s, f)
    /\ UNCHANGED <<loop, ends, backup, here, errors, lost>>

MarkEnd(s, f) ==
    /\ f \in source[s] /\ f \notin ends[s]
    /\ ends' = Add(ends, s, f)
    /\ UNCHANGED <<loop, source, backup, made, here, errors, lost>>

-----------------------------------------------------------------------------
(* sub_main is called again after its sleep.                               *)
Wake ==
    /\ Goto("sleep", "site")
    /\ i' = 0
    /\ UNCHANGED <<site, fileName, nas, here, errors, lost>>

RoundEnds ==
    /\ i >= NSites
    /\ Goto("site", "sleep")
    /\ UNCHANGED <<i, site, fileName, nas, here, errors, lost>>

Orders(S) == {q \in [1 .. Cardinality(S) -> S] : \A a, b \in DOMAIN q : q[a] = q[b] => a = b}

(* checkEndFile: the names of the .end files are appended, in some order;  *)
(* a connection that breaks leaves the first of them.  Without any name,   *)
(* or after an error, the site is skipped.  What happens once names are    *)
(* written past the array is undefined; the model stops there.             *)
CheckEndFile ==
    /\ pc = "site" /\ i < NSites
    /\ site' = i
    /\ \E q \in Orders(ends[i]) :
         \/ /\ cnt + Len(q) > MaxNames
            /\ pc' = "overflow"
            /\ UNCHANGED <<i, fileName, errors>>
         \/ /\ cnt + Len(q) <= MaxNames
            /\ fileName' = fileName \o q
            /\ IF fileName' = <<>>
               THEN i' = i + 1 /\ UNCHANGED pc
               ELSE i' = 0 /\ pc' = "work"
            /\ UNCHANGED errors
         \/ /\ Error
            /\ \E n \in 0 .. Len(q) :
                 cnt + n <= MaxNames /\ fileName' = fileName \o SubSeq(q, 1, n)
            /\ i' = i + 1 /\ UNCHANGED pc
    /\ UNCHANGED <<nas, here, lost>>

(* The inner loop: doWork forks a child for the next name, or the outer    *)
(* loop goes on, with the i that the inner one has left.                   *)
Work ==
    /\ IF i < cnt
       THEN Goto("work", "fetch") /\ UNCHANGED i
       ELSE Goto("work", "site") /\ i' = i + 1
    /\ UNCHANGED <<site, fileName, nas, here, errors, lost>>

-----------------------------------------------------------------------------
(* The child; f is its file.  When it ends the inner loop goes on.         *)
f == fileName[i + 1]

ChildEnds == pc' = "work" /\ i' = i + 1

(* The download: without the file the child fails, with it the transfer    *)
(* may fail half-way.                                                      *)
Fetch ==
    /\ pc = "fetch"
    /\ \/ /\ f \in source[site]
          /\ target' = Add(target, site, f)
          /\ pc' = "rename" /\ UNCHANGED <<i, errors>>
       \/ /\ f \notin source[site]
          /\ ChildEnds /\ UNCHANGED <<target, errors>>
       \/ /\ f \in source[site] /\ Error
          /\ target' \in {target, Add(target, site, f)}
          /\ ChildEnds
    /\ UNCHANGED <<site, fileName, nas, rows, lost>>

(* The rename to the backup directory.                                     *)
Rename ==
    /\ pc = "rename"
    /\ \/ /\ backup' = Add(backup, site, f) /\ source' = Remove(source, site, f)
          /\ pc' = "rm" /\ UNCHANGED <<i, errors>>
       \/ /\ Error /\ ChildEnds
          /\ UNCHANGED <<backup, source>>
    /\ UNCHANGED <<site, fileName, ends, made, here, lost>>

Fails == Error /\ ChildEnds /\ lost' = lost \cup {<<site, f>>}

(* Mutant of RmEnd: the child ends after the transfer.                     *)
RmEndExits ==
    /\ pc = "rm"
    /\ ends' = Remove(ends, site, f)
    /\ ChildEnds
    /\ UNCHANGED <<site, fileName, source, backup, made, here, errors, lost>>

(* The rm of the .end file, which fails if there is none.                  *)
RmEnd ==
    /\ pc = "rm"
    /\ \/ /\ f \in ends[site]
          /\ ends' = Remove(ends, site, f)
          /\ pc' = "insert" /\ UNCHANGED <<i, errors, lost>>
       \/ /\ f \notin ends[site]
          /\ ChildEnds /\ lost' = lost \cup {<<site, f>>}
          /\ UNCHANGED <<ends, errors>>
       \/ Fails /\ UNCHANGED ends
    /\ UNCHANGED <<site, fileName, source, backup, made, here>>

(* TRCV_INFO_insert: three tries, then the child gives up.                 *)
Insert ==
    /\ pc = "insert"
    /\ \/ /\ rows' = [rows EXCEPT ![site][f] = @ + 1]
          /\ ChildEnds /\ UNCHANGED <<errors, lost>>
       \/ Fails /\ UNCHANGED rows
    /\ UNCHANGED <<site, fileName, nas, target>>

Receiver ==
    \/ Wake \/ RoundEnds \/ CheckEndFile \/ Work
    \/ Fetch \/ Rename \/ RmEnd \/ Insert

Next ==
    \/ \E s \in Sites, g \in Files : Deliver(s, g) \/ MarkEnd(s, g)
    \/ Receiver

Spec == Init /\ [][Next]_vars

(* The batch is scheduled and called again after every round.              *)
FairSpec == Spec /\ WF_vars(Receiver)

-----------------------------------------------------------------------------
(* Type invariant.                                                         *)
Directory == [Sites -> SUBSET Files]

TypeOK ==
    /\ pc \in {"sleep", "site", "work", "fetch", "rename", "rm", "insert",
              "overflow"}
    /\ i \in 0 .. (NSites + MaxNames) /\ site \in Sites
    /\ (pc \in {"fetch", "rename", "rm", "insert"} => i < cnt)
    /\ fileName \in Seq(Files) /\ cnt <= MaxNames
    /\ source \in Directory /\ ends \in Directory /\ backup \in Directory
    /\ target \in Directory /\ made \in Directory
    /\ rows \in [Sites -> [Files -> {0, 1}]]
    /\ errors \in 0 .. MaxErrors /\ lost \subseteq Sites \X Files

(* A file is in exactly one place of its site, and its row says so: a row  *)
(* is inserted once, only for a file that was downloaded and backed up,    *)
(* although names are tried again in every later round and at every site.  *)
RowsTellTheTruth == \A s \in Sites, g \in Files :
    /\ source[s] \cap backup[s] = {}
    /\ source[s] \cup backup[s] = made[s]
    /\ rows[s][g] <= 1
    /\ rows[s][g] = 1 => g \in target[s] /\ g \in backup[s]

(* sftp_lib.c 123-141, auto_recv_nas_sftp.c 120-134: a file that has been  *)
(* moved has its row, or its child is at work, or failed after the rename; *)
(* then nothing will ever insert the row.                                  *)
BackedUpHasRow == \A s \in Sites, g \in Files :
    g \in backup[s] =>
        \/ rows[s][g] = 1
        \/ <<s, g>> \in lost
        \/ pc \in {"rm", "insert"} /\ s = site /\ g = f

(* A file is only fetched once its .end file is there (checkEndFile); one  *)
(* that is fetched earlier had its name in the list from somewhere else.   *)
EarlyOnlyByStaleName ==
    pc = "rename" /\ f \notin ends[site] =>
        \E s \in Sites \ {site} : f \in made[s]

(* The inner loop leaves i = cnt: the outer one goes on at site cnt + 1,   *)
(* which is the same one every time while no name is added.                *)
StaysBehind == 0 < cnt /\ cnt + 1 < NSites

(* auto_recv_nas_sftp.c 86: a file of the first site with its .end file is *)
(* received in the end, if nothing fails any more, unless the outer loop   *)
(* comes back to a later site for ever (the round never ends: with three   *)
(* sites or more), or the names, which are never removed, come to the end  *)
(* of their array.                                                         *)
FirstSiteReceived == \A g \in Files :
    (g \in source[0] /\ g \in ends[0]) ~>
        (g \notin source[0] \/ pc = "overflow" \/ []StaysBehind)
=============================================================================
