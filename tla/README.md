# Verification of the supervisors, servers and small programs of this repository

The repository is a collection of C, C++ and C# programs under `src/test_*`. Most are
demonstrations of one library call or one algorithm. A few are long-running servers made
of several processes that share semaphores, shared memory, files and signals, and those
hold the logic that tests hardly reach. This project models them in TLA+, checks small
instances with TLC and proves the main results for all sizes with TLAPS. The programs that
compute one result from their input (sorting, searching, matching, the fee search) are
checked against reference definitions.

## 1. Inventory

| Part | Source | State it keeps | Operations | What is hard |
|---|---|---|---|---|
| PCC, the process control centre | `test_signal/PCC/pcc.c` | PROCESSPOOL segment (Name, Pid, UpDown per slot), children, SIGCHLD, a semaphore and a port against a second PCC | boot from `process_info`; requests start, down, all down, restart, kill-all; reaping and restarting | `sig_chld` interrupts the kill loops; signals coalesce; PCC dies and comes back on the old segment; two PCCs start at once |
| System V lock server | `test_semaphore/system_semaphore/Semaphore_Server` | one kernel semaphore per key, `initialize.ini` | lock, unlock | one process per connection; semaphore created on first use; handlers die; answers are lost; unlocked file updates |
| Shared-memory lock server | `test_sharedMemory/Shared_Server` | a byte per segment, SEM_UNDO semaphores, `initialize.ini` | lock, unlock, start | test and set are two critical sections; EINTR; killed handlers; a restart clears everything |
| POSIX named-semaphore lock server and client | `test_semaphore/posix_semaphore` | named semaphore, key file | lock; unlock in the earlier version | value tested, then a blocking wait; the client's unlock sends nothing |
| Supervisor and listening socket | `S/main.c`, `LibSrc/tcp_lib.c` of the lock servers | child pid, exit status, bind attempts | fork, wait, bind, listen | exit status protocol, bounded retries, handlers that inherit the socket |
| Bypass (line-check) daemon | `S/temp` of the System V server (not built) | shared 8-bit run count, list of servers | count up and down, failover | unlocked counter, killed handlers |
| Echo servers | `test_tcpip` | descriptor tables, epoll's ready list | select, edge-triggered epoll, blocking with and without a timeout | descriptors reused, lost edges, starvation |
| File-position reader | `test_file_position` | position file, `.tmp`, `.bak` | note a position | two renames, failing calls, crashes, rotation |
| NAS receiver | `test_sftp/test_curllib/auto_recv_nas_sftp` | names seen, files and rows | fetch, move, insert | state that is never reset, failures between the steps |
| Algorithms | `test_sort`, `test_search`, `test_wildcard`, `test_calculateFee` | none | pure functions | boundaries, termination |
| The rest | vendored net-snmp, zlib, SEED, cJSON; Pro\*C output; HTTP, SMTP, FTP, SMS, database demos | none of their own | single calls | |

The parts interact through the operating system only: the supervised programs of PCC enter
themselves in PROCESSPOOL; the handlers of a lock server share the kernel's semaphores,
the segments and `initialize.ini`; clients talk to PCC and to the servers over TCP, one
request per connection. The clients of the System V and shared-memory servers, the
programs supervised by PCC, the readers that call `writePositionConf` and the sites of the
NAS receiver are not in the repository; their steps are modelled from how the code uses
them and are marked external in `PROJECT.json`.

What makes each part correct:

* PCC: a killed program stays down unless a newcomer takes its slot, every target of a kill
  request is reached, no child is left unreaped, at most one process is started for each that
  died; one PCC runs at a time.
* Lock servers: a key is held by at most one client, no key becomes unavailable without a
  reason, and the file tells the truth about the locks.
* Supervisors: the server is running again after its child died, unless it asked to stop.
* Echo servers: what arrives is read, nobody is passed over for ever but by a client that
  keeps the read loop of the server around `select` busy, descriptors that are watched are open.
* Progress on disk: a position or a row is true, and is not lost except at known points.
* Algorithms: the answer is that of the reference definition, or wrong only in a named case.

`PROJECT.json` lists the hazards at their lines, with the properties that cover them.

## 2. Modules

| Module | Contents |
|---|---|
| `PCC`, `PCC_proofs` | the process control centre, its signal handler, its children |
| `PccSingleton`, `PccSingleton_proofs` | several PCCs: who may start, and how one ends |
| `KeyNames` | `changeCharToNumber`, shared by two lock servers |
| `LockService` | what a lock server promises: an abstract specification |
| `SysVSemServer`, `SysVSemServer_proofs` | the System V lock server; refines `LockService` |
| `ShmLockServer`, `ShmLockServer_proofs` | the shared-memory lock server |
| `NamedSemServer` | the POSIX lock server and its client; refines `LockService` |
| `ServerDaemon` | the supervisor and the listening socket of the lock servers |
| `BypassDaemon` | the bypass daemon, its run count and its round over the servers |
| `SelectServer` | the echo server around `select` |
| `EpollServer`, `OioServer` | the edge-triggered and the two blocking echo servers |
| `FilePosition` | `writePositionConf` |
| `NasReceiver` | the receiver over SFTP |
| `BinarySearch`, `Sorting`, `WildcardMatch`, `FeeSearch` | the algorithms |
| `LockDaemons_proofs` | proofs about `NamedSemServer`, `ServerDaemon` and the round of `BypassDaemon` |
| `EchoServers_proofs` | proofs about the echo servers |
| `Files_proofs` | proofs about `FilePosition` and `NasReceiver` |
| `Algorithms_proofs` | proofs about `BinarySearch`, `Sorting`, `WildcardMatch` and `FeeSearch` |
| `MC_*` | values of the constants for TLC |

Definitions named as mutants in their comments are altered versions of the definition
after them, as a plausible mistake in the code would alter it. They are not part of any
specification; each shows that a property can fail.

Several `MC_*` modules put small systems side by side: their first state says which one
runs, all others stay as they start, and no variable is shared. A behaviour of such a
module is a behaviour of one of its systems, so a property that holds there holds of the
system alone. The invariants of an instantiated system, its type invariant among them, are
gathered under one name there (`SortsRight`, `NothingOverlooked`, `CountKept`), as are
liveness properties that ask the same of several systems (`TurnComes`, `AllEnd`). The
fairness is that of each system's `FairSpec`, restricted to the system that runs.

`TypeOK` is proved (section 4) of every module, as are some invariants that no run repeats: `PoolConsistent`, `BinarySemaphore`, `FoundIsRight` and `Halves`.

The modules `MC_EchoServers`, `MC_Files`, `MC_LockDaemons`, `MC_SharedData` and
`MC_Algorithms` take the sizes of their systems as constants with named assumptions; only
the `.cfg` files give them values. `SysVSemServer_proofs` (which holds the proof of
the run count too) and the four modules named after an `MC_*` module extend that
module, so that what they prove of its properties is not tied to those values.

### PCC

The main program advances by one statement that touches shared state (`pc`); the handler
(`EnterHandler` to `LeaveHandler`) may run between any two of them, and nothing of
the main program runs inside it. A kill loop is `ScanSkip`/`ScanHit`, `KillRead` (only in
KILL_PROCESS, which reads the pid after the comparison), `KillMark` (`UpDown[i] = DOWN`),
`KillSig` (`kill`). `kill` with pid -1 is kept as a distinct outcome. The handler has a place
of its own (`hpc`): `Reap` is `waitpid`, the search and the copy of the name; `ClearPid`
(line 861, 894 for a VAN slot), `WipeName` (862, 895) and `AGAIN_RUN`, the test of UpDown and
the fork (864, 897), are steps of their own, because a slot whose Pid is cleared is free for a
program that enters itself meanwhile. Search and copy are one step with `waitpid`: until it is
cleared, the slot of a dead child is nobody else's. Nothing turns UpDown from UP to DOWN
between the test and the fork, which therefore are one step.
`Crash` covers every way out of `main` and fatal signals, at any of these places: the children
go to init, the segment stays. `Register` and `Die` are the supervised programs, which run at
any time. The order in which a program writes its slot is not in the repository; `Register` is
one step.

Abstracted: slot 0 of the arrays is slot 1 of the model; Id, Status and the sequence
numbers, which PCC only writes; the text of requests and replies (the reply code is
`result`); the blacklist (a refused connection changes nothing). Pids are never
reused. `VangrpAttached = FALSE` is `pcc.c`, where the vangrp pointer stays NULL and
RESTART_PROCESS ends in a crash; `TRUE` is the older `pcc_main.c`, which attaches the
segment in the same place.

### SysVSemServer

A handler's `pc` is the system call it is about to make. Semaphores come into being with
value 0 (`SemGet`) and are set to 1 by their creator (`SetVal`). `initialize.ini` is a
sequence of records: stdio buffers what `writeInitFile` prints, so a record is one write
at the offset `fseek` found, and it replaces the record another handler put there
meanwhile. `MarkWrite` with no record found writes into the head of the file (`garbled`).
`Die` may strike anywhere and undoes nothing, since the semops are made without SEM_UNDO.
The clients are assumed to unlock only what they hold. `RetryUnlock` decides whether they
repeat an unlock that was not answered.

History variables: `owner` (whose semop took the key), `lost` (the unit went down with a
handler, an answer or a failed `init_ipc`), `raced` (two handlers recorded different keys
at once), `disturbed` (requests overlapped, or a handler died or failed).

Abstracted: the JSON text is the pair (name, flag); a name is a sequence of bytes.
`fopen` of `initialize.ini` is taken to succeed. All records have one length, as they have
when the semaphore ids have the same number of digits.

### ShmLockServer

`semadj` is the kernel's undo count of a handler; ending a handler adds it to the
semaphore, cut off at 0. `sem_lockInterrupted` is the EINTR that the SIG_DEBUG handler
causes and the code ignores. `Restart` is `init_ipc` after the whole server was killed. The history
variable `stale` collects the segments that were set on the strength of an old value, or
cleared by a restart while a client held them. `isShared` starts a handler at 0 whatever
the code leaves in it: it is read only after `getShmSegData` set it.

### NamedSemServer

A handler's `pc` is the call it is about to make: `sem_open`, `sem_getvalue`, `sem_wait`,
the key file, `sem_post`, the answer. `UnlockServed = FALSE` is `S/ServerMain.c`, which has
the call of `reqUnlockSem` in a comment; its client's `unlockSem` sends nothing and returns
0 (`UnlockSem`). `TRUE` is the version in `S/backup`, which serves unlocks and writes no key
file. `Wait` blocks while the semaphore is 0. Handlers die anywhere but before the request
is read, clients are restarted while they wait. `lost` collects the keys whose unit went
down with a handler, an answer, a failed key file or an empty unlock. Key file names and
JSON are abstracted. `ServerMain.c` as committed calls `makeKey4Res` with two arguments
against a prototype of four; the model takes the call as it is meant.

### ServerDaemon

`sup[s]` is the parent in `S/main.c`, `daemon[s]` its child from `Open_Server_Socket` to the
accept loop, `handler[h]` a forked handler, which has the listening socket until it closes
it. `status` keeps what `wait` left, or nothing when `fork` failed. With SO_REUSEADDR a
socket that is only bound does not stop another bind; one that listens does. The three lock
servers have the same supervisor.

### BypassDaemon

One action is one access to the run count, or one call that waits: the load, the store and
the second load of `incRunCnt` are three actions, as are load and store of `decRunCnt`.
`ByteMax` stands for 255, `ForkWrap` for 100000. `why` collects what has made the count
wrong (a lost update, a full byte, a killed handler, a new daemon). `Try` is one round of
the loop over the servers, which go up and down at any time; connects and reads end after
`tmout` seconds, so a handler is never stuck. `max_server_cnt` is positive: with 0, the
value without MAX_SERVER_CNT in the ini file, every handler divides by it.

### SelectServer, EpollServer, OioServer

`SelectServer`: descriptor 0 stands for `listen_fd`; connections get the lowest free
descriptor. A round is `Select`, then `Accept` (which ends the round), or the scan: read,
write, count, each one action. Clients connect, send, close and reset for ever: a chunk can be
sent whenever the receive buffer has room (`RecvBuf`), a connection made whenever the
backlog has (`Backlog`). So one client can keep the read loop of line 122 going and the server
from everybody else; `DataServed` and `DeadDoNotPileUp` say what holds if none does
(`ReadLoopEnds`, part of both). Accept without a free descriptor and SIGPIPE on a write
lead to `exit`.

`EpollServer`: `ready` is epoll's ready list, modelled from the kernel's documented
behaviour and marked external; an edge puts a descriptor on it, `Wait` takes up to
`MaxEvents` off it. One accept and one recv of at most `RecvMax` pieces are made per event.
`Only` keeps the descriptors of a sequence that are still of interest, and is a recursive
function over its places. `merged` counts connections whose edge fell together with an earlier one, `left` marks
descriptors whose last recv did not take everything. `send` takes `strlen` of a cleared
buffer and sends nothing, as in the code.

`OioServer`: one connection from accept to close; `HasTimeout` selects the version.

### FilePosition

One action is one call that another thread, a failing call or a crash can come between:
the read of a message, `stat`, the mutex, opening the files, the copy of a line, the two
renames, the removal and the rename back. A file is a sequence of lines of one width; a
line is a record (index, inode, position) or a comment. A comment is written back without
its newline, and the next line becomes part of it. `.tmp` is opened without O_TRUNC.
`IntHalf` stands for 2^31. Every call but those on the mutex may fail: `stat`, the two opens,
each read, each write, the renames and the removals. A read that fails ends the copy, a write
that fails leaves its line out; the code looks at neither, and `cut` remembers it. A position
file that cannot be opened (no descriptor is left, or its mode forbids it: `.tmp` is created
without a mode argument, so with whatever mode bits are on the stack) is taken for one that
does not exist, and `alone` writes one record, which replaces the whole file. `torn` is the set
of what has made the position file incomplete (`TornBy`): a crash or a failing rename back
between the two renames, a file that could not be opened and was replaced, a copy with a
failed read or write. A write that is cut short is not followed: it would leave a part of a
line. A log is not rotated between the read of a message and the `stat`:
the function could not tell, only a caller that passed its open file could.

### NasReceiver

`sub_main` is called again and again in one process, as the batch library that it belongs
to does; so `fileName` and `cnt` keep their contents. Both loops use the same `i`: after the
inner one it is `cnt`, and the outer one goes on at site `cnt + 1`, with three sites or more
the same one for ever once `cnt` no longer changes (`StaysBehind`). The
child's steps between the download, the rename to the backup directory, the removal of the
`.end` file and the row may each fail. `overflow` is reached when a name is written past
the array; the model stops there.

### BinarySearch, Sorting, WildcardMatch, FeeSearch

One action is one round of a loop. `quickSort` is a stack of segments still to be sorted;
memory in front of the array, which its unbounded search may read, holds any value. Both
`is_match` share one module: `Version` selects `do`/`while` and the test at the end.
Dereferencing NULL is the outcome `crash`. Lines are made of any characters but the terminator
(`InputsAssumption`), patterns of these and `?` and `*`. `Matches` is the reference
definition. The fees are positive and ascending, as the comments in `main.c` assume; sums are
folds of the community modules.

## 3. Runs

| Run | Instance | Distinct states | What it shows |
|---|---|---|---|
| `pcc_safety` | 2 programs started by requests, 2 slots, 3 forks, `pcc.c`, requests that name a program | 5.6 million (symmetry) | the kill loops against the handler, and the handler against programs that enter the pool: `KilledRestartedOnlyByRace`, `KillCoversTargets`, `OneForOne` |
| `pcc_crash` | a program in every kind of `process_info` section and one started by requests, 2 slots, 2 forks, 3 starts, vangrp attached | 4.1 million | PCC dies, also inside its handler, and starts on the old segment, and RESTART_PROCESS clears the pool under live children: `NoLostSigchld`, `StaleSlotsAreOrphans`; SIGTERM to every process only by `BroadcastOnlyByRace` |
| `pcc_live` | `PCC`: 1 program, 2 slots, 2 forks; `PccSingleton`: 2 PCCs, 4 starts | 230 thousand | `ZombiesReaped`, `RequestAnswered` (kill-all ends a PCC included); `OneActive`, `StartsSafely` |
| `sysv_lock` | 2 clients, 3 connections, 1 key | 225 thousand (symmetry) | `MutualExclusion`, `NoLockLeaked`, the refinement `ImplementsLockService` |
| `sysv_file` | the System V server with 1 client, 2 connections, 2 keys, 4 names; the bypass daemon with 2 handlers, at most 1 admitted, `ByteMax` 2 | 2.3 million (symmetry) | `HeadIntact`, `StatusTruthful`; `CountKept`: the run count is exact until one of the named races, and only a wrong count lets too many handlers in |
| `sysv_retry` | 2 clients, 2 connections, 1 key, repeated unlocks | violation | two holders after a repeated unlock |
| `shm_lock` | 2 clients, 2 connections, 2 semaphores, 1 segment | 318 thousand | `DoubleGrantOnlyByStaleCheck`, `StatusTruthful`, `CriticalSection`, `UndoRight` (units are conserved), `NeverStuck` |
| `shm_race` | 2 clients, 2 connections | violation | two clients lock one segment |
| `lock_daemons` | the POSIX server in both versions with 3 clients, 2 connections, 1 key; 2 supervised servers, 1 handler, 3 kills; the bypass daemon's round over 3 servers | 101 thousand | `NoLockLeaked`, the refinement `ImplementsLockService`, `AnsweredWhereServed`; `OneSurvives`; `EveryServerTried`; `ServiceRestored`: a supervisor stops only when asked, somebody accepts again, handlers end |
| `echo_servers` | select: 3 descriptors, a backlog of 1, buffers of 1 chunk, connections and sends without end; epoll: 2 descriptors, 3 connections, 2 sends; both blocking servers: 2 clients | 135 thousand | `CountsTheRest` and `DataServed` (if no client that keeps sending holds the read loop) of select; `NothingOverlooked`: what is watched is open, edges of epoll are not lost but by one accept or a short recv, prompt data is answered; `TurnComes` |
| `files` | position file: 2 logs, 2 faults; and without faults, larger logs, 1 rotation and a log that is new to the file; receiver: 3 sites, 2 files, 3 deliveries, array of 3 names, 1 error | 397 thousand | `CopyExists`; `PositionsKept`: true without faults, with them lost for the reasons in `torn` only; `RowsTellTheTruth`: one true row per file, and who is to blame for a missing one; `CallsReturn`: a call of the position file ends, and a marked file of the first site is received unless the round never ends or the array is full |
| `algorithms` | arrays of up to 7 (search) and 5 (sorts) elements, lines and patterns of up to 4 characters, up to 5 fees | 774 thousand | `MissedOnlyLast`, `SortsRight`, `MatchesRight`, `FeesRight`, `AllEnd` |

Why the bounds are enough to be interesting. PCC: two slots let a kill loop be interrupted
before, at and after the slot the handler rewrites; three forks give a process, its
replacement and a further start; two programs separate KILL_PROCESS by name from the loops
over all slots. Three starts give two crashes, two forks a process left behind by one PCC and
one of the next. `NamedSpec` of `pcc_safety` leaves out a KILL_PROCESS with the empty name, which
marks free slots DOWN; `pcc_crash` has it, and the theorems hold with it. Four starts of two PCCs give a running one, one
that is turned away, a crash and a recovery. Lock servers: keys do not interact except in
the file, so mutual exclusion is checked with one key and three handlers (one creating the
semaphore, one locking, one unlocking), the file with two keys and two handlers; the POSIX
server needs two handlers for the race between test and wait, and a third client that holds
the key. Supervisors: two servers on one port, `MaxTry` 1 gives the three outcomes of the
retry. The count: `ByteMax` 2 with two handlers reaches a full byte, a wrap-around and a
lost update. Select: three descriptors let the one being closed lie below, at and above
others that are ready, and are exhausted by a fourth connection; a buffer that holds one chunk
is filled again between a read and the next, which is all that keeps the loop going. Epoll: a receive limit of one
piece makes every second piece a remainder. Files: two logs share one file, two faults
allow a crash or failure between the renames and another before or after it, a failing open
after a failing write, and two crashes. Three sites are the fewest with which the outer loop
of the receiver comes back to a later one for ever; three deliveries give the same file at
two sites, and one more.
Algorithms: three values with repetition order every pair of places of five; four pattern
characters hold two stars with something behind each.

`MaxForks`, `MaxStarts`, `MaxKills`, `MaxConns` and `MaxSends` (of `EpollServer`), `MaxSize`,
`MaxRotations`, `MaxFaults`, `MaxErrors` and `MaxDelivered` are the only bounds in guards. A fork beyond `MaxForks` looks
like a failed fork, which the code ignores as well. Symmetry is used only in runs without
liveness properties: clients, connections and, with an empty `process_info`, program
names are interchangeable there. Runs that do not check for deadlock have systems that may
really stop: a PCC whose starts are used up, a handler of the POSIX server that waits for a
unit nobody posts, a daemon that ended by exit(9), a program that has returned.

### Fairness

* `PCC`: weak fairness of the main program's steps and of the handler's steps. Both are one
  process that the kernel schedules; nothing they do blocks except `select` and `recv`
  between requests, which are not steps of `MainStep`. Requests, registrations, deaths and
  crashes are not fair.
* `PccSingleton`: weak fairness of the steps of a PCC and of requests; a program that was
  told to end does end; a reply that is sent again and again succeeds in the end (strong
  fairness of `SendOk`), which the part of `RequestAnswered` about kill-all needs because a failed reply keeps PCC alive.
* `ShmLockServer`: weak fairness of a handler's own steps, strong fairness of `sem_lock`,
  because the kernel wakes the processes that wait for a semaphore in the order of their
  arrival. Kills, restarts and signals are not fair.
* `NamedSemServer`: weak fairness of accept and of a handler's steps, strong fairness of
  `Wait` for the same reason. `AnsweredWhereServed` also assumes that clients send the
  unlock of what they hold (strong fairness of `SendUnlock`); without it nothing can be
  promised to a handler in `sem_wait`.
* `ServerDaemon`: weak fairness of a supervisor with its daemon, and of a handler that
  closes the listening socket it inherited. Kills and failed forks are not fair.
* `BypassDaemon`: weak fairness of a handler.
* Echo servers, `NasReceiver` and the algorithms: weak fairness of the one process there is.
  What is promised of the server around `select` has the hypothesis `ReadLoopEnds`: the code does
  not see to it that a client stops sending.
* `FilePosition`: weak fairness of a thread's steps, strong fairness of the mutex.

No liveness is claimed of `SysVSemServer`, whose handlers never wait.

### Findings

* `sysv_retry`: `setUnLockSemaphore` adds a unit however often it is asked. If the answer
  to an unlock is lost and the client repeats it, the semaphore is 2 and two clients hold
  the key. Comment at `LibSrc/ipc.c:104`: the function realises mutual exclusion.
* `shm_race`: the byte is tested in one critical section and set in another. Two
  handlers both find it free. Comments at `LibSrc/ipc.c:107` and `:126`: mutual exclusion
  by means of the semaphore. `DoubleGrantOnlyByStaleCheck` shows that, restarts aside,
  nothing else breaks the lock.

Other places where the models follow the code and not a comment or a message beside it.
No run checks these; the properties named here say what holds in spite of them.

* `namedSemaphoreServer/S/ServerMain.c:111`: without the semaphore an error is sent and no
  operation is made on it. The value is tested before a blocking `sem_wait`; a handler that
  loses the race waits, in the committed version for ever (`AnsweredWhereServed`).
* `test_select/server.c:34`: "non blocking server". The connections are non-blocking, but line
  122 reads one of them until there is nothing left: a client that keeps sending is the only one
  served. Without `ReadLoopEnds` TLC shows this of `DataServed` in a cycle of three steps: read, send, write.
* `test_select/server.c:139`: a connection that ended is closed. The break on `--fd_num`
  comes first, and the highest ready descriptor is spared (`DeadDoNotPileUp` in `TurnComes`).
* `pcc.c:580`: a second PCC is told that one is running. When KILL_ALL removes the semaphore
  between `semget` and `sem_p`, line 523 lets it pass without one (`OneActive`).
* `pcc.c:217`: DOWN is stored so that a killed program is not started again. Between lines 861
  and 864 the slot is free already: a program that enters it and sets it UP makes the handler
  start the killed one again, and its own name is wiped at 862, so that no request finds it by
  name and, when it dies, `./` is executed (`KilledRestartedOnlyByRace`, `PoolConsistent`).
* `pcc.c:216`: the pid is read after the name was compared; the handler may clear it in between,
  and a PCC that dies between 861 and 862 leaves a name without a pid. `kill` then gets -1
  (`BroadcastOnlyByRace`).
* `pcc.c:598`: "execution complete" is printed before the port is bound. Programs forked by
  a PCC that died keep its listening socket, and bind is retried for as long as one runs.
* `test_file_position/main.c:192`: the count of one file is cumulative. A comment line
  swallows the record behind it, and an inode from 2^31 on never compares equal; both start
  the position anew. `PositionTrue` (in `PositionsKept`) is checked for files without comments
  and small inodes.
* `test_file_position/main.c:218`: the branch for the case that there is no file to read, which
  only writes. It is also taken when the file is there and cannot be opened; the positions of all
  other logs are lost then (`"unread"` in `torn`, `LostOnlyIfTorn`).
* `test_wildcard/match2/main.c:88`: "* in the path, process die". This version never reads
  NULL: it goes back only after the first character behind a `*` was matched, and that has set
  `last_line_start`. The version in `match` does read NULL, for a line with a `*` in it
  (`CrashOnlyByStarInLine`, in `MatchesRight`, says which of them dies and when).
* `test_wildcard/match/main.c:6-7`: returns 1 if there is a match. One `?` or `*` left at the
  end of the line counts as one, whatever follows it (`NoMatchMissed`, in `MatchesRight`, is the
  direction that holds).
* `test_search/binary_search/main.c:36`: "the value does not exist". The last element left
  is not compared (`MissedOnlyLast`).
* `test_calculateFee/main.c:59`: "no found the result". A fee that fits is always taken; of
  2, 2, 3, 3, 7 the search misses 7 + 2 + 2 = 11 (`SimpleAnswersFound`, in
  `FeesRight`, says which are found).

## 4. Proofs

All theorems hold for every value of the constants that satisfies the named assumptions of
the modules: `ConstantsOK` (`PCC`), `MaxStartsAssumption` (`PccSingleton`), `KeysAssumption`,
`NoneAssumption`, `SemvmxAssumption`, `RetryAssumption`, `NamesAssumption` and
`NameKeysAssumption` (`SysVSemServer`), `KeyAssumption` and `ConnsAssumption`
(`ShmLockServer`), `NoneAssumption`, `MaxValueAssumption` and `VersionAssumption`
(`NamedSemServer`), `SupervisorAssumption` and `FailoverAssumption` (`MC_LockDaemons`),
`BypassAssumption` (`MC_SharedData`), `BoundsAssumption` (`SelectServer`), `EpollAssumption`
(`MC_EchoServers`), `ConstantsAssumption` and `ContentsAssumption` (`FilePosition`),
`NasAssumption` (`MC_Files`), `ArraysAssumption` (`BinarySearch`), `InputsAssumption`
(`MC_Algorithms`). TLC evaluates them in the runs.

Hypotheses beyond these are part of the statements. Mutual exclusion, `NoLockLeaked`,
`StatusTruthful` and the refinement of `SysVSemServer` need that unlocks are not
repeated; with repeated ones `sysv_retry` refutes the first. What is said of the positions
of logs needs a first file without comments (`RecordsOnly`), and that they are true needs in
addition that this file says nothing is read yet (`FromTheStart`), that the inodes stay
below 2^31 (`SmallInodes`) and that no call fails; section 3 names what the code does otherwise.

| Module | Theorem | States |
|---|---|---|
| `PCC` | `PccTypeCorrect` | `Spec => []TypeOK` |
| `PCC` | `PccPoolConsistent` | `Spec => []PoolConsistent` |
| `PCC` | `PccKilledRestartedOnlyByRace` | `Spec => KilledRestartedOnlyByRace` |
| `PCC` | `PccNoLostSigchld` | `Spec => []NoLostSigchld` |
| `PCC` | `PccStaleSlotsAreOrphans` | `Spec => []StaleSlotsAreOrphans` |
| `PCC` | `PccBroadcastOnlyByRace` | `Spec => []BroadcastOnlyByRace` |
| `PCC` | `PccKillCoversTargets` | `Spec => []KillCoversTargets` |
| `PCC` | `PccOneForOne` | `Spec => OneForOne` |
| `SysVSemServer` | `SysVTypeCorrect` | `Spec => []TypeOK` |
| `SysVSemServer` | `SysVMutualExclusion` | `ASSUME ~RetryUnlock PROVE Spec => []MutualExclusion` |
| `SysVSemServer` | `SysVNoLockLeaked` | `ASSUME ~RetryUnlock PROVE Spec => []NoLockLeaked` |
| `SysVSemServer` | `SysVImplementsLockService` | `ASSUME ~RetryUnlock PROVE Spec => ImplementsLockService` |
| `SysVSemServer` | `SysVHeadIntact` | `Spec => []HeadIntact` |
| `SysVSemServer` | `SysVStatusTruthful` | `ASSUME ~RetryUnlock PROVE Spec => []StatusTruthful` |
| `PccSingleton` | `TypeCorrect` | `Spec => []TypeOK` |
| `PccSingleton` | `OneActiveAlways` | `Spec => []OneActive` |
| `PccSingleton` | `TakenBySomebodyAlways` | `Spec => []TakenBySomebody` |
| `PccSingleton` | `PoolNotPulledAlways` | `Spec => []PoolNotPulled` |
| `PccSingleton` | `StartsSafelyAlways` | `Spec => []StartsSafely` |
| `SelectServer` | `TypeCorrect` | `Spec => []TypeOK` |
| `SelectServer` | `WatchedAreOpenAlways` | `Spec => []WatchedAreOpen` |
| `SelectServer` | `CountsTheRestAlways` | `Spec => []CountsTheRest` |
| `SelectServer`, `EpollServer`, `OioServer` | `NothingOverlookedAlways` | `EchoSpec => []NothingOverlooked` |
| `FilePosition` | `TypeCorrect` | `Spec => []TypeOK` |
| `FilePosition` | `CopyExistsAlways` | `Spec => []CopyExists` |
| `FilePosition` | `OneWriterAlways` | `Spec => [](\A t, u \in Logs : pc[t] \in Critical /\ pc[u] \in Critical => t = u)` |
| `FilePosition` | `LostOnlyIfTornAlways` | `ASSUME RecordsOnly PROVE Spec => []LostOnlyIfTorn` |
| `FilePosition` | `PositionTrueAlways` | `ASSUME RecordsOnly, FromTheStart, SmallInodes PROVE Spec /\ [](faults = 0) => []PositionTrue` |
| `FilePosition` | `PositionsKeptAlways` | the same hypotheses: `FilesSpec => []PositionsKept` |
| `FilePosition` | `CallNearerAlways` | `Spec => []GivenBack /\ [][CallNearer]_vars` |
| `NasReceiver` | `RowsTellTheTruthAlways` | `Nas!Spec => []RowsTellTheTruth` |
| `NamedSemServer` | `TypeCorrect` | `Spec => []TypeOK` |
| `NamedSemServer` | `MutualExclusionAlways` | `Spec => []MutualExclusion` |
| `NamedSemServer` | `NoLockLeakedAlways` | `Spec => []NoLockLeaked` |
| `NamedSemServer` | `BinarySemaphoreAlways` | `Spec => []BinarySemaphore` |
| `NamedSemServer` | `Refinement` | `Spec => ImplementsLockService` |
| `ShmLockServer` | `CriticalSectionAlways` | `Spec => []CriticalSection` |
| `ShmLockServer` | `DoubleGrantOnlyByStaleCheckAlways` | `Spec => []DoubleGrantOnlyByStaleCheck` |
| `ShmLockServer` | `StatusTruthfulAlways` | `Spec => []StatusTruthful` |
| `ShmLockServer` | `UndoRightAlways` | `Spec => []UndoRight` |
| `ServerDaemon` | `OneSurvivesAlways` | `Supervisor!Spec => []OneSurvives` |
| `ServerDaemon` | `StopsOnlyWhenAskedAlways` | `Supervisor!Spec => Supervisor!StopsOnlyWhenAsked` |
| `BypassDaemon` | `EveryServerTriedAlways` | `Failover!Spec => []EveryServerTried` |
| `BypassDaemon` | `CountKeptAlways` | `Bypass!Spec => []CountKept` |
| `BinarySearch` | `TypeCorrect` | `Spec => []TypeOK` |
| `BinarySearch` | `FoundIsRightAlways` | `Spec => []FoundIsRight` |
| `BinarySearch` | `MissedOnlyLastAlways` | `Spec => []MissedOnlyLast` |
| `BinarySearch` | `HalvesAlways` | `Spec => Halves` |
| `Sorting` | `SortsRightAlways` | `AlgorithmsSpec => []SortsRight` |
| `FeeSearch` | `FeesRightAlways` | `AlgorithmsSpec => []FeesRight` |
| `WildcardMatch` | `MatchesRightAlways` | `AlgorithmsSpec => []MatchesRight` |
| all of `MC_Algorithms` | `EveryStepNearerAlways` | `IsWellFoundedOn(Fewer, [1 .. 4 -> Nat]) /\ (AlgorithmsSpec => [][Nearer]_allVars)` |

The inductive invariant of a component (`IInv`, or named after the component where a module
proves about several) is preserved action by action. Where a property of an `MC_*` module is
proved of an instance alone (`Nas!Spec`, `Supervisor!Spec`, `Failover!Spec`, `Bypass!Spec`),
the other systems of that module play no part: no variable is shared.

PCC. What keeps the handler from restarting a child that was signalled is that its slot is
down (`KilledSlotsDown`). This is not inductive alone: the loop holds the
pid in a local variable between reading and signalling it, and the handler may move things
meanwhile. `PoolInv` adds that pids in the pool belong to processes that registered, that no
pid is in two slots (`PoolConsistent`), that the local pid is in no slot but slot `i`, and
that slot `i`, once marked, is down as long as it still holds that pid (`LocalPid`).
Because a process registers at most once, a signalled pid can never appear in another
slot later. `InHand` follows the child through the handler: its slot holds it until it is
cleared, no slot does afterwards, and if it was signalled, the slot stays down as long as
nobody else has entered it, which is the exception of `KilledRestartedOnlyByRace`. With
`OffIdle` (no handler without a PCC) these are `IInv`. Further invariants carry the other
theorems. `SigInv`: with the handler at rest and no signal pending, the zombies of PCC are only
those that died before the handler was installed. `StaleSlotsAreOrphans` is inductive itself.
`BroadcastInv`: a loop reads pid -1 only for KILL_PROCESS with the empty name or with the name
of a reaped process, which rests on the names of free slots being those of reaped processes
(`FreeSlotsReaped`). `TargetInv` and `CoverInv`: a target of a kill loop that was not signalled
is still ahead of the loop, and whoever takes the slot in the handler's hands is no target.
`OneForOne` compares numbers of processes before and after a step: the one that is forked
takes the place of the child in the handler's hands.

PccSingleton. `IInv` adds to the types that ids are fresh (`Fresh`), that one process at most
holds the unit or is about to set it, and the value is 0 then (`OneUnit`), which calls a
starting process has behind it (`Local`, `Taken`), and that, unless a PCC went on without the
semaphore (`blind`), the segment of a serving PCC is the one under the key (`Pool`).
`StartsSafely` is the conjunction of what follows from it.

SysVSemServer. `Core` follows the unit of each semaphore. It is in the semaphore
(`InSemaphore`), or with its creator before SETVAL (`Setters`), or with a client that was
told so (`Holders`), or with one handler that took it or will give it back (`Agents`,
`Alone`). Mutual exclusion alone is not inductive: a handler about to answer would break
it. With repeated unlocks two handlers may carry the same unit and `Agents` fails, which
is what `sysv_retry` exhibits. The refinement needs `Core` too: a grant needs a free key,
a release a key its owner gave up. `HeadIntact` rests on `Filed`: without a race, the place
a handler is about to write to is the end of the file or a record of its own key, so a key
recorded once stays recorded until its mark is written. `StatusTruthful` rests on `Quiet`:
while one handler is at work at a time, a key has one record, which is true of every key
but that handler's, and of its own at each point where `UnderwayOf` says so.

NamedSemServer. The same argument with the creator gone, since `sem_open` creates and
initialises at once, and one step more: a handler that has read the value may act late.
`Carried` says that whoever carries the unit of an unlock is the only one to have it, so the
value it read is still 0 when it posts; this is why reading and raising in two calls is harmless there.

ShmLockServer. `IInv` states what the kernel's undo counts mean (`Kernel`), which semaphore
a handler is inside (`Held`), and that until a signal interrupts a `sem_lock` the units of a
semaphore are with one handler or in it. `StatusTruthful` rests on `Quiet`: while requests do
not overlap, the file and the byte differ only for the handler that is between the two.
`UndoRight` says that the value of a semaphore and what the kernel owes it for its handlers
add up to 1. Which sum a step changes is a lemma about sums over finite sets (`SumOver`);
`Owing` bounds what is owed for one handler by its place, `Room` the value by the number of
handlers, those inside included.

Supervisor. Unless excused, a daemon gives up only while another one listens. `Attended` and
`Served` say that a daemon that lives has a supervisor waiting for it, and `Survivor` that as
long as an exit(9) has not been waited for, another supervisor is there whose daemon did not
give up: between the exit and the wait the server that listened may be killed, but its
supervisor stays.

Bypass daemon. For `CountKept`, `CountInv` adds to the exact count that no more handlers are let
in than the limit: one that is let in found room when it counted itself, and the others have at
most given up their places since. For `EveryServerTried`, `Loop` says that the servers found out
of reach are those whose turn came, and `AllTurns` that `max_server_cnt` turns in a row,
whatever the first, are all of them.

SelectServer. `CountsTheRest` equates `fd_num` with the cardinality of the ready descriptors
ahead of the loop; every action that removes the current one needs the lemma that the set
loses exactly one element.

EpollServer and OioServer. `EpollInv` follows each connection from the backlog to the ready
list: who is in which sequence, once (`EpollQueues`); a descriptor is on the ready list, among
the events in hand, or owes its silence to an accept or a recv that left something. The
lemmas about sequences say what an element appended, taken from the front, cut off or filtered by
`Only` does to membership. `OioInv` says what has become of what was there at accept. The server
without a timeout makes the same steps but for accept (`SameSteps`).

FilePosition. `FilesAt` says which of the three files exist at each `pc` of the thread that
is between `Lock` and `Unlock` (`OneWriter`). For `LostOnlyIfTorn`, `CInv` says what the copy
has done so far (`Copying`, `Copied`), while none of its reads and writes has failed: line by line it
is the old file with the line of the thread's log renewed. Once something is in `torn` nothing is
claimed of the lines. For `PositionTrue`, `AInv` says what every log is told at each place in the
function (`Told`), by its first line, which is the one the program looks for; inodes are never
handed out twice (`Inodes`). `CallNearerAlways` is the safety half of `CallReturns`: a mutex
that is taken is with a thread in the function, unless an open failed (`GivenBack`), and
`ToReturn` bounds the steps it still makes, from its place and the lines still to be copied
(`LineInFile`); nobody else changes the file it copies.

NasReceiver. The two loops share `i`, and `fileName` keeps old names, so where a name came from
is the invariant (`Names`): some site has made the file, and has its end mark as long as the
file is there. `AtWork` is what the child may rely on at each step.

BinarySearch. The key, if present, stays between `lower` and `upper` (`KeyInRange`), for sorted
arrays.

Sorting. Every action leaves the array a rearrangement of the one that was passed (`SortKept`,
by a bijection of its indices, from which the numbers of equal elements follow).
The three simple sorts keep `RoundsSettle`; for `bubbleSort` the inner loop, a recursive function,
is shown by induction to bring the largest element to the end (`BubbledIs`). For `quickSort` the
invariant is about all calls still to be made: they do not overlap, and two elements in the wrong
order are both within one of them. A step that moves elements only inside the first call's
segment cannot break the others (`OrderElsewhere`), and after `Split` the two new segments
suffice because what is left of the key is not larger and what is right of it not smaller (`LoopsStop`
says what the two loops have passed when they stop).

FeeSearch. That what is printed adds up rests on `Picks`: the taken fees come from different
places of `tempList`, all of them behind `j`, so none is taken twice. That no simple answer is
missed is said for the part of the search that is over (`Before`: no single fee, no two and
not all of them, without the fee of any step that is through) and for the row in hand. The row
with all of `tempList` finds a single fee, and all of them together because each fits as
long as the rest has its place (`FullRow`). Two fees are found by the row whose last element
is the greater one: it is taken first, and everything between the two is too large
(`PairRow`). Every one and every two of at least three fees are among those of some step,
and with two fees they are all of them.

WildcardMatch. A match is told by places: a function gives for every character of the pattern
the place in the line before which it is done (`Way`); such a way can be taken apart at its first and at
its last step (`WayFirst`, `WayLast`), and that the sets of `Matches` and the table of
`memoization` say which ways there are follows by induction over the pattern and over what
is left of both strings (`ReachIs`, `MemoIs`). The invariant of the loop is `MatchInv`. The
one hard part is that going back to the *last* star misses nothing. `NoneLost`: if the line
matches, the match goes on from the pointers, or from the last star at `last_line_start`.
`Shifted`: between the last star and `p` there is no star, so what matches behind the star
from some place on matches at `p` as many characters later; hence a match that is lost at `l`
can only be one that the star takes further, and when a later star is reached, every match
that goes on from `last_line_start` goes on from here too (`Later`). `Came` is the other
direction, for `match2`: what has been passed of the line matches what has been passed of the
pattern. For a line with a star `match` keeps only its types, and may read NULL.

Termination. `EveryStepNearerAlways` is the safety half of `AllEnd`: every step lowers `ToDo`,
four numbers compared from the first on, and that order has no endless descent. For both
`is_match` these are the pattern behind the last star, the line behind the place where the
present attempt starts, the rest of that attempt, and the place in the loop: going back to a
star starts behind where the last attempt started, also for a line with a star, where only
`Ahead` is left of the invariant. For `quickSort` they are the number of elements in the segments
of the calls, the calls, and the loop of the first call: `Split` leaves the key in none of
them, because the calls are apart. For the fee search they are the steps, the rows and the
places of a row. What remains with TLC is that a program that has not ended has a step to take
(ENABLED), and the passage from there to `<>`.

Recursive functions over numbers and sums over finite sets are proved about by
induction over a set: the set of the numbers for which the statement holds, 0, the step, and
the well-founded order of the numbers (`NatSetInduction`); sums by the same over the subsets of
a finite set (`SubsetInduction`).

Only model-checked:

* all liveness properties (fairness and ENABLED are beyond the prover): `ZombiesReaped`,
  `RequestAnswered`, `NeverStuck`, `AnsweredWhereServed`, `DataServed`, `TurnComes`,
  `CallsReturn`, `AllEnd`, and of `ServiceRestored` all but the part
  `StopsOnlyWhenAskedAlways` proves. Of `AllEnd` and of the `CallReturns` in `CallsReturn` the
  part without fairness is proved: every step lowers a measure (`EveryStepNearerAlways`,
  `CallNearerAlways`).

## 5. Not modelled

* `vangrp` is never attached in `pcc.c`: a restart request ends PCC by SIGSEGV at line 197
  after the children were signalled. `pcc_safety` follows this (`VangrpAttached = FALSE`); no
  property is about it.
* `recv` on a connection accepted by PCC has no timeout (`pcc.c:816`): a silent client keeps
  PCC from others. `PCC` takes accept and recv as one step, so a request is seen only once it
  has arrived.
* `unnamedSemaphore/main.c` ends with `exit(0)` at line 24, before the semaphore and the
  threads exist: nothing of it runs.
* The state bytes of the servers in `S/temp/line_check.c` (`setErrorShmLineInfo`,
  `getErrorServer`, `getNormalServer`) have no caller.
* `test_poll`, `test_epoll2` and the inotify demonstrations watch standard input or a
  directory and keep no state. `sequential_search` is one loop over an array. `real.c` and
  `real2.c` are earlier forms of the fee search.
* The client `Process_StartDown` of PCC sends one request and waits ten seconds; in `PCC` a
  reply that is not sent changes nothing but `flag` (`PccSingleton`, `SendOk`).
* Vendored and generated code (net-snmp, zlib, SEED, cJSON, Pro\*C output), by far most of
  the lines of the repository, the ciphers, and the protocol and database demonstrations have no
  state of their own that a model would follow.
* Logging, message texts and JSON syntax are left out everywhere. `PROJECT.json` gives the
  reason for each part.
