# Verification of hsed / hsedd

`hsedd` (C, `backend/src`) is a privileged daemon that finds deleted files
still held open, truncates them, signals their holders, and streams what is
written to them by tracing the holder with `ptrace`. `hsed` (Go, `tui`) is the
terminal client that talks to it over a Unix socket. This directory models the
parts whose correctness depends on interleavings, on the kernel's rules or on
partial failure, checks them with TLC on small instances, and proves their safety
for every instance with TLAPS.

## The system

| Part | State | Operations | What makes it hard | What makes it correct |
| --- | --- | --- | --- | --- |
| Stream (`tracer.c`) | `tids[]` with `in_syscall`, `capturing`; the kernel's attachments | seize, interrupt, wait, resume, handle a stop, detach | threads that clone, exit and are killed under it; `waitpid(-1)` shared by all connections; blocking waits | every stopped thread is resumed, every traced thread is stepped, the two flags follow the system calls, the stream ends |
| Scan (`proc_scan.c`) | pid list, one record per worker | list, cut, spawn, scan, join, merge, sort | processes exit and fds close meanwhile; threads, memory and descriptors may not be available | what was seen is listed once, nothing else is, in order, never partial |
| Terminal UI (`tui/ui`) | stack of screens, `pending`, timer | keys, push, pop, results, ticks | messages arrive later and go to whoever is on top | an action is what was confirmed; ticks do not multiply |
| Server (`server.c`) | one thread per connection | accept, read a command, call, reply, poll for STOP | clients that leave or do not read, sends that block while a thread of the target is stopped | every command is answered, no thread is left behind, STOP is heard, the target goes on |
| Go client (`client.go`) | one connection per request, or per stream | request and reply with a deadline, read events, close | connections that break off in the middle of a line | success means done, a table is whole, a session has one reader and is closed |
| Reclaim (`reclaim.c`) | none | stat, open, ftruncate; kill | the file grows or is truncated by its holder, pid and fd are used again in between, two callers | what is reported freed was freed, unless somebody else cut the file |
| Wire format (`protocol.c`, `base64.c`, `util.c`) | none | escape, format, send, encode | fixed buffers | no byte beyond the buffer, nothing half escaped, what arrives is what was sent |
| Start-up and shutdown (`hsed.c`, `hsed_server_run`) | socket name, pidfile, `shutdown` flag | fork, write pidfile, unlink, bind, listen, end | killed and restarted anywhere; two daemons at once | the one that runs can be reached; one that ends leaves nothing |
| Logging, styles, packaging | - | - | - | not modelled |

Connection threads share nothing in user space, but they do share the process's
tracees: the kernel lets any thread of `hsedd` reap the events of tracees of any
other, while only the thread that seized one may resume it. The UI shares nothing
with its commands but the messages they send back. The scan shares the worker
records between caller and workers until the join.

## Modules

**`PtraceKernel`** is external: the part of Linux the tracer is written against.
`task[t]` is a thread of a target: running or in a ptrace-stop (`enter`, `exit`,
`clone`, `event`, `signal`), whether the stop has been reaped, who traces it, how
it was resumed, the system call it is in. Threads call, clone, get signals, exit
and are killed at any moment. The rules that matter: a request other than SEIZE
and INTERRUPT needs the tracer and a stopped thread; `waitpid` sees all tracees of
the process; a leader's end is reported only after all its other threads are
released; a thread cloned by a tracee is attached with a stop pending; an exiting
tracer thread lets go of everything. Left out: group-stops, `execve`, pid reuse,
uninterruptible sleep.

**`Tracer`** is `hsed_trace_fd` with the part of `server.c` that starts and ends
it. `sess[s]` is one connection thread with the locals of the function. `pc` names
the system call about to be made, so that the target runs between any two of
them. Actions in the order of the code: `Stream` (discovery), `Seize` with the
bounded retry, `Interrupt`, `WaitStop`, `Adopt` (first resume), `AllSeized`,
`Alloc`, the main loop (`LoopReap`, `LoopPoll`, `LoopNoChild`), one `Handle...`
action for each branch of it, the detach loop (`DetachInterrupt`, `DetachWait`,
`Drop`, `DetachDone`) and `ConnExit`. The two detach loops of the code are one
here. `ptrace` may always fail because the thread has been killed; the effect is
then the code's. `skew` is history: the threads whose first resume happened inside
a system call (the stop that the seizing loop waits for is the clone event of a
thread that was creating another). `WriteCb` enters `write_cb` and `HandleSyscall`
comes back from it: in between, and in `Alloc`, which calls `attached_cb`, the thread
is in `send`, and `Blocked` says that it may stay there for as long as the client is
connected. `usleep` changes nothing that is modelled. The seizing loop asks
`find_or_add_tid` for room like the main loop; `Adopt` has the branch without room,
and `RoomToAdopt` of `TracerProofs` shows that it is never taken.

**`ProcScan`** is one call of `hsed_scan` or `hsed_scan_stats`: the caller's steps,
one step per process for each worker, and processes that exit at any time. `Init`
chooses the arguments and the processes that exist. `scan_one_pid` gets to see some of
the fds it should keep (`Seen`: any of them of a process that is there, none of one that
is gone) and says nothing of the others, whether the process exited, the fd was closed,
or `opendir`, `readlink` or `stat` failed; `missed` is history, what it passed over.
Failures that are
reported, of `opendir` in `gather_pids`, `calloc`, `pthread_create` and `realloc`, are
alternatives of the steps that make the calls. The merge is one step per
worker, as its loop is; `readdir` enumerates in some order (`Entries`), and `qsort`
may return any order of equal sizes (`Qsort` is the set of its results).

**`TuiApp`** is `App.Update`, the `Update` of every screen and the commands they
return. A command in flight is a member of the bag `cmds` and is delivered at any
time; keys come at any time. `by`, `live` and `hasty` are history: who answered a
question, whether a stream was open when a read began, and whether the user ever
pressed a key while a screen was about to be pushed or popped or an action was
unanswered. Table contents, tree folding, cursors and layout are left out.

**`StreamService`** is the abstract specification: what a STREAM promises its
connection. It is asked for, is refused or begins with a set of watched threads,
follows writes of watched threads only, each from its beginning to one report, and
leaves nothing when it is over. `Tracer` and `StreamLink` both implement it
(`ImplementsService`, a refinement mapping in each). That relates each of them to the
promise and not to one another: `StreamLink` has one thread to trace and a simple
detach, and what it shows of the connection is shown for such a target; what the
tracer does with many threads, and the failures of its detach, are in `Tracer` only.

**`Wire`** holds the pure functions of the protocol: `hsed_json_escape` over classes
of characters (plain, escaped with a backslash, control) into a buffer of any size,
the length of an entry line from the sizes of its fields, `capture_writev` over
iovecs that are only partly mapped, base64 with its padding, the clamp of
`--max-capture` and the length of a write event. Loops over data are recursive
functions of the number of rounds. **`WireCalls`** calls them with every
argument of small sets; the base64 code is compared with its decoder, the capture
with the concatenation of the segments.

**`StreamLink`** is a stream from the write of the target to the screen: the writer
thread (`Write`, `Die`), the connection thread with `handle_stream` and its three
callbacks (`Attach`, `Alloc`, `Reap`, `Resume`, `Poll`, `Detach`, `TargetGone`) and
`hsed_send_line` as two `send` calls on a socket that holds `Capacity` of them
(`Send` blocks, and fails when the client has gone), and at the other end either the
event loop of `hsed` with its stream screens (`KeyStream`, `Push`, `Open`,
`Attached`, `Event`, `End`, `KeyEsc`, `Pop`, `Quit`; `Read` is a goroutine in
`StreamSession.Next`) or a client of its own that sends PING up to twice and STOP in
one write or in two (`RawSend`, `RawRead`, `RawClose`). What is sent arrives in pieces,
STOP being two of them; `stream_poll_cb` takes at most `PollRoom` pieces, which stand for
its 256 bytes, and what it takes is gone. `Patient` says whether the user waits for the
screen to follow a key.

**`Mailbox`** is external: the commands and messages in flight in Bubble Tea, as a bag,
and the one operation on it, which takes out what is delivered and puts in what is
started. `TuiApp` and `StreamLink` use it.

**`Daemon`** is `hsedd` as a process: `main` and `hsed_server_run` around the accept
loop, one action per system call that other processes can see. Daemons are started
one after the other or on top of each other, get SIGTERM, and are killed at any
point. `hsed_strlcpy` cuts the path for `bind` and not for `unlink`, and is modelled
by the length it copies. `alone` is history: no two daemons ever overlapped.

**`Reclaim`** is `hsed_truncate_fd` call by call and `hsed_send_signal`, by several
callers, over a process that writes, truncates its file, gives its fd to another file,
exits, and whose pid is used again. `hit`, `ino`, `bytes` and `cut` are history: what was
acted upon, what `stat` was about, how much was really there, and the calls whose file
somebody else has cut since they measured it.

**`Requests`** composes the two with the socket and `client.go`: `Ask` is
`Client.connect` and the request, `Accept` to `Send` are the connection thread with
every command but STREAM, `Read`, `Eof` and `Deadline` are `readEnvelope`, which
parses a last line without its newline too. `left` is the budget of an execution:
how many daemons are started and ended, how many requests of which kinds are made,
how often the process changes.

`MCTracer`, `MCProcScan`, `MCTuiApp`, `MCWireCalls`, `MCStreamLink` and `MCRequests`
give the constants values for TLC. `TracerProofs`,
`TracerStreamProofs`, `RequestsProofs`, `StreamLinkProofs`, `TuiAppProofs`,
`ProcScanProofs` and `WireProofs` hold the theorems, `DataLemmas` what they need about
numbers, loops and bags. Operators whose comment begins with
"Mutant of" are plausible mistakes in the code, kept to show that each
property notices one.

## Runs

| Run | Instance | Shows |
| --- | --- | --- |
| `single` | 1 session, 1 process of 2 threads and a third to be cloned, room for all | `TypeOK`, `NoOrphanStop`, `SteppedTracees`, `Lockstep`, `CaptureSync` |
| `full` | 1 session, 2 threads, room for 1, SIGHUP and SIGSTOP | `TableBound`, `HupKept`, `DetachReturns`, `DeadTargetEndsStream`, `QuietClientGoneNoticed`, `ImplementsService` |
| `two` | 2 sessions on 2 processes | `NoOrphanStop` fails |
| `frozen` | 1 session, a thread cloned during the detach | `StoppedOnlyWhileStreamed` fails |
| `skew` | 1 session, a thread that is cloning when it is interrupted | `InSyscallExpects` fails |
| `link` | 2 connections, a socket of 2 sends, reads of 3 pieces, captures of 1461 and of 100000 bytes, which are clamped to 65536, failing and large writes, a patient user or a client of its own | `TypeOK`, `LinesWhole`, `NoStrayStream`, `OneReader`, `TargetResumed`, `StopHeard`, `ImplementsService` |
| `wire` | texts of up to 5 characters, fields empty, of 1 byte and at their limits, iovecs of up to 3 segments and one of 17, up to 4 bytes of 5 values | `EscapeExact`, `EntryWhole`, `Base64RoundTrip`, `CaptureExact` |
| `unread` | 1 connection, a user who does not wait | `TargetResumed` fails |
| `requests` | 2 requests, 2 daemons, 2 files, a path of 107 or 108 bytes, a socket of 1 send | `TypeOK`, `Reachable`, `NothingLeft`, `FreedHonest`, `SuccessMeansDone`, `ScanWhole`, `ShutdownEnds`, `Answered`, `ThreadsEnd` |
| `scan` | 4 processes, 2 users, thread counts 0, 1, 3, 9 | `TypeOK`, `ScanExact`, `StatsExact`, `NoPartialResult`, `Terminates` |
| `keys` | stack of 4, 3 commands in flight, 1 stream | `TypeOK`, `ActsConfirmed`, `OneTick`, `PendingMatches` |
| `stray` | the same as `keys` | `KillTyped` fails |

Bounds. Three threads are a creator, its child and a bystander, the most that one
decision of `hsed_trace_fd` involves; `MaxTracked` 1 with two threads makes
the full table happen at once. Two attempts to seize are enough to see both the
retry and its end. Four processes over three workers leave a remainder; nine
requested threads exceed the processes; three CPUs exceed `MaxThreads` 2. Any
of the five fds that match may be passed over.
A stack of four is table, tree, detail and a question or a stream; three commands
in flight are the timer and two that race.
Two connections are a stream and its successor, which is what late messages and a
target that is still traced need; a socket of two sends fills up after one line and
one of a single send after half of one, so that every send blocks in some behaviour. A
read of three pieces holds a STOP behind one PING and parts one behind two. 1461
bytes are the most whose event fits into 2048 bytes, 65536 is the clamp. Texts of
five characters and buffers of up to 13 bytes put the end of the buffer before, in
and after every escape; 17 iovecs are one more than `MAX_WRITEV_IOVECS`; `Lengths` has
the limits of the four fields of an entry, 511, 90, 2047 and 8191 bytes. 107 bytes
of path fit into `sun_path`, 108 do not. `requests` begins with one of four budgets:
two acts that race for a process which changes once; any request to a daemon that
may end; a daemon replaced in the middle of a scan; two daemons in any mode. They are
not combined further: connection threads share nothing but the process they act
upon, and daemons only the names. Deadlock is not checked: an idle daemon,
a scan that is done, and a UI that has quit are final.

Fairness. `Tracer`: each connection thread takes a step when it can and is not
`Blocked` in a send, of which nothing is assumed while the client is connected; and the kernel
finishes what it has begun (`KernelProgress`: a pending trap is taken, an
interrupted call returns, a clone and an exit complete). Nothing makes a
target call into the kernel, a client leave, or a target die. `LoopReap` and
`LoopPoll` share one weak fairness condition, as they share one loop: it does not
say that `poll_cb` gets its turn. `ProcScan`: the caller and each worker are
scheduled. `TuiApp` has safety properties only. `StreamLink`: connection threads
are scheduled, Bubble Tea delivers every message and runs every command it is given,
and a client of its own reads what it is sent; nobody has to write, press a key,
leave or die. `Requests`: main threads, connection threads and the client's reads.
The 5 s deadline may pass at any time and is not needed for anything to be answered.

## What the failing runs show

- `two`: the main loop of session 1 reaps a stop of session 2's thread, adds it to
  its own table and cannot resume it. Its tracer never sees the event.
- `frozen`: a thread cloned during the detach is attached and stopped and is in no
  table; it stays stopped until the connection is closed.
- `skew`: a thread stops for the clone event of its own `clone` before it stops for the
  interrupt, and is resumed from there; the exit-stop that follows is taken for an
  enter-stop, against the comment of `in_syscall`. `Lockstep` and `CaptureSync` are
  stated for the others.
- `unread`: Esc before the stream screen has its session closes nothing; the session
  then belongs to no screen, nobody reads from it, and when the socket is full
  `hsedd` blocks in `send` with the target stopped in its write.
- `stray`: `t` and `k` before the first question appears leave `pending` at
  `kill` below the truncate question; `y` then sends SIGKILL.

Five more things the models do contradict what the repository says; the properties are
stated for what is left, and no run repeats them:

- `README.md:133-135` and the comment at `tracer.c:151-154` say that the TID of a thread
  that is no leader narrows a stream to it. `/proc/<tid>/task` lists the whole group, so
  `discover_tids` lists, and the session seizes, every thread.
- `README.md:127`, `CHANGELOG.md:12-14` and the comment at `tracer.c:191-195` say that
  every thread is followed, those created later included. The list is read once, so a
  thread created after it by one that is not yet seized is never attached
  (`SteppedTracees` is about the attached ones).
- `README.md:109-111` says that a stream shows exactly the bytes that are written. A
  `writev` that wrote less than it was given is captured in full, as `capture_writev`
  does not look at the result (`CaptureExact` is about what was given).
- `README.md:92-93` says that SCAN lists every unlinked file that is open. When `opendir`,
  `readlink` or `stat` fails on a process that is there, `scan_one_pid` goes on and the
  SCAN succeeds (`ScanExact` and `StatsExact` except what was passed over).
- `CHANGELOG.md:36-38` gives a detach a latency of about 15 ms. When the process is killed
  during it, `waitpid` on the leader waits for siblings that nobody reaps
  (`DetachReturns` is about a leader that lives).

Also met while modelling, and not checked by a run of their own:

- Tracer. `poll_cb` runs only when no event is pending, so
  a target that never pauses hides the client's STOP
  (`QuietClientGoneNoticed` and `StopHeard` except it). A thread left over by
  `find_or_add_tid` when the table is full is resumed with `PTRACE_CONT` and later
  tracked out of step. A SIGHUP for which a thread has just stopped is dropped by
  the first resume and by the detach. A client that stays and does not read keeps
  the connection thread in `send`: the end of the target is then not noticed either
  (`DeadTargetEndsStream` excepts it).
- Stream. With `--max-capture` above 1461 a large write makes a line that is cut at
  2048 bytes, is no JSON, and ends the stream on the screen without closing it. A
  STOP that two reads part, because it was sent in two writes or behind more than 252
  bytes of other requests, is lost (`StopHeard` excepts it). Events that arrive after Esc may make a
  newer screen read from a nil session or read twice (`OneReader` holds for a
  user who waits).
- Requests. TRUNCATE names pid and fd and no inode; another file may be behind them
  by then. Two callers that truncate the same file both report its size as freed, and
  so does one whose file its holder truncates between `stat` and `ftruncate`. A
  command whose client has given up after 5 s is still carried out.
- Daemon. A second daemon takes the name of a running one, and either removes the
  other's socket and pidfile when it ends (`Reachable` holds for daemons that do not
  overlap). A socket path of 108 bytes or more is bound under a cut name and never
  unlinked.
- Timer. A tick that is delivered while another screen than the table is on top is the
  last one: only the table schedules the next, so the auto-rescan ends for good.
- Scan. A failed scan of one pid leaks its list.

## Proofs

TLAPS checks 31 theorems, for any sets of threads, sessions, processes, files, daemons,
callers, requests, connections and streams, any sizes of tables, sockets, stacks
and budgets, and texts, data and lists of any length. They rest on the named assumptions about the constants and on nothing
else: `KernelAssumption` and `TracerAssumption` (marks for "none" differ from what
they mark, threads are finitely many and grouped under leaders, sizes are positive),
`DaemonAssumption`, `ReclaimAssumption`, `RequestsAssumption` and `BudgetsAssumption`
(numbers are numbers), `LinkAssumption` and `TuiAssumption` (the same),
`ScanAssumption` (processes and their files are finitely many, and there is at least one
process, as `hsedd` is one; it need not be among those listed) and `WireAssumption`
(characters are of the three kinds, bytes are bytes, buffers are not empty, no more of
a segment is mapped than there is). Every run
evaluates the ones its module has. Five theorems about the tracer and the two about
the patient user have a hypothesis as well (one session, `Room`, `Patient`): without it
the property is false, for the reason given with the theorem.

Each proof but those about `Wire`, which has no state, has the same shape: an inductive
invariant, a lemma per action that says
what the action does to the one record it changes, a lemma per action that the
invariant is kept, and a last step that puts them together with PTL.

**`TracerProofs`.**

- `TypeCorrect`: `TypeOK` of `Tracer`. It is not inductive: a session passes
  `cur` to the kernel and copies the thread's state to `status`. `TypeInv` adds
  that `cur` is a thread wherever the code uses it (`CurOK`), that kernel states
  are consistent (`KernelOK`: an announced child is a thread, only traced threads
  are stopped, ...) and what a session knows of the thread it holds (`HeldOK`).
- `OneSessionNoOrphan`: with one session, `NoOrphanStop`. A thread becomes a reaped
  stop only by a wait of the session, which then holds it and resumes it next. The
  run `two` shows that the hypothesis is needed.

For the next two, `TracerInv` adds `TablesOK` to `TypeInv`: the threads seized and the
threads still to be seized together fit into the table, and what is captured is
tracked.

- `TableBounded`: `TableBound`. Both loops take a place only when `find_or_add_tid`
  has one. The seizing loop never finds the table full, because the list it walks was
  cut to it, which is what `TablesOK` adds (`RoomToAdopt`).
- `StreamPromised`: `Tracer` implements `StreamService`, step by step. Each step
  `Follows`: it is one of the seven abstract steps, or the mapped state stays.

**`TracerStreamProofs`**, for one session. `StreamInv` adds to `TracerInv`, for each
thread (`ThreadsOK`): a tracee in the table is resumed for system-call-stops or has its
first stop still to come; `in_syscall` of a thread not in `skew` says which stop is next;
`capturing` says that it is in a write; a tracee outside the table is about to
stop for the first time, or is the one the seizing loop is at. `HeirsOK` says that an
announced child is born, so that the table never holds a thread that is not.

- `ThreadsStepped`, `InSyscallFollows`, `CaptureFollows`: `SteppedTracees`,
  `Lockstep` and `CaptureSync`, when the table has room for every thread (`Room`).
  Without room the code resumes a thread with `PTRACE_CONT` and tracks it later out
  of step; with a second session the first reaps its stops.
- `HupsKept`: `HupKept`, an action property, with any table. A session that reaps a
  SIGHUP stop of another's tracee cannot pass it on.

**`RequestsProofs`.** The invariant `Inv` has a part for each of the composed modules.
`DaemonInv`: what a process that was not killed can have left at the path and in the
pidfile at each label, and, as long as no two overlapped, that the one that runs owns
both. `ReclaimInv`: what a call has measured is still in the file, unless somebody has
cut it since, the process or another call, and `cut` says so; a step `Spares` a call when
it keeps that. `RequestInv`: how much of an answer is read, in the socket, and still to be
sent, as one equation over pieces of lines, so that a prefix is always a prefix of
the same answer; and a result is anywhere on its way only when the call succeeded.

- `RequestsTypeCorrect`, `DaemonReachable`, `DaemonLeavesNothing`,
  `TruncationHonest`, `ActionsDone`, `TablesWhole`: `TypeOK`, `Reachable`,
  `NothingLeft`, `FreedHonest`, `SuccessMeansDone` and `ScanWhole`.

**`StreamLinkProofs`.** `LinkInv` adds to `TypeOK` that the target is traced exactly
by the thread whose label says so and that a connection nobody opened has no thread.

- `LinkTypeCorrect`, `WritesWhole`: `TypeOK` and `LinesWhole`. The second computes
  that the base64 of 1461 bytes with the rest of the event is below 2048.
- `LinkPromised`: `StreamLink` implements `StreamService`, for any number of
  connections.
- `StreamsKept`, `ReadersAlone`: `NoStrayStream` and `OneReader` for a patient user.
  `PatientInv` says that the client is then in one of five stages (no stream, asked
  for, screen without a session, connecting, showing), each with exactly the messages
  in flight it needs and at most one open connection. The bag of messages must be
  counted, not only looked into: two copies of an event are two readers. TLC checked
  `PatientInv` on the instance of `link` first.

**`TuiAppProofs`.** `TuiInv` adds to the types that the root of the stack is the
table, that every `yes` in flight was given by a question, that nothing is in flight
when the program has ended, and, as long as the user was never hasty, `CalmAt`: at
most one change of the stack is in flight and in one copy, it is one that the screen
on top has asked for, and each screen waits for exactly what the one above it asks.
`PendingMatches` alone is not inductive, as it says nothing between a key and the
screen it brings. `Effect` is what all key handlers have in common.

- `TuiTypeCorrect`, `TickAlone`, `ActionsConfirmed`, `PendingMatched`: `TypeOK`,
  `OneTick`, `ActsConfirmed` and `PendingMatches`. Nothing is assumed of the user but
  in the parts of the properties that say so; the run `stray` shows what a hasty one
  can do.

**`ProcScanProofs`.** The argument follows the entries. Between the processes and the
result, a worker holds a list or sums and the caller what it has merged; each is `Held`
of the processes behind it: there is a set of entries, all that match and were not passed
over (`missed`) and none but those that match, that is in the list
exactly once, or whose count and sum the sums are. `IInv` has six parts. `Typed` and
`Shape`: types, and which parts are in use at which label. `Cut`: worker `i` has the
slice that begins at `Start(i, n, npids)`, the closed form that solves the recursion of
`Offset`, and holds what it has scanned of it. `Started`: every worker the caller is
past runs in a thread that will be joined or has ended, so that all have ended when it
merges. `Merging` and `Finished`: what is merged, and what is returned, is `Held`.
`ScanExact` alone speaks of the end only; that nothing is there twice needs that the
slices follow each other in a list without repetition, and that nothing is missing that
together they are the list. What is passed over grows while the scan runs, so `Held` of one
worker is kept by the steps of the others (`HeldFewer`).

- `ScanTypeOK`, `ScanNoPartialResult`: `TypeOK` and `NoPartialResult`.
- `ScanIsExact`, `StatsAreExact`: `ScanExact` and `StatsExact`. The second needs that
  `Total` adds up over disjoint sets in whatever order its `CHOOSE` takes the entries,
  by induction on cardinality.

**`WireProofs`.** Each theorem is a fact about one function, which `WireCalls` then
calls. Texts, segments and data have any length.

- `EscapeIsExact`: `EscapeExact`. After every round of the loop the position is below
  the size of the buffer; without control characters it is at most twice the number of
  characters read, and all of them are kept.
- `EntryIsWhole`: `EntryWhole`, from the limits of the fields.
- `Base64RoundTrips`: `Base64RoundTrip`. Four symbols are the digits of a group to base
  64, three bytes its digits to base 256; the pads are as many as bytes are missing in
  the last group.
- `CaptureIsExact`: `CaptureExact`. After every segment the capture is the beginning
  of what the segments so far hold, cut at the buffer.

**`DataLemmas`** says what delivering and starting commands does to the number of
copies of each, which both UI proofs use, and has induction over the numbers. The
library's induction theorems take an operator, which the provers cannot instantiate.
`Least` gets a least element from the well-foundedness of strict inclusion on finite
sets, which the library has for sets; `Induct` and `Iterates` (a loop has a value after
every round, so a recursive function over its rounds satisfies its equation) follow,
with a set in place of the predicate.

Only model-checked: all liveness (`DetachReturns`, `DeadTargetEndsStream`,
`QuietClientGoneNoticed`, `TargetResumed`, `StopHeard`, `ShutdownEnds`, `Answered`,
`ThreadsEnd`, `Terminates`), which is outside the prover's reach, as is ENABLED, and the
five properties that are violated. Every invariant and every safety property that a
passing run checks is a theorem.

## Not modelled

Logging; the texts of an entry (comm, cmdline, owner, mode) and how they are read
from `/proc`; option parsing beyond the clamp of `--max-capture`; `--scan-once` and
`--stats-once`, which print what `ProcScan` returns and exit; `BuildPathTree`, tree
folding, cursors, styles and layout of the UI, which change only what is shown;
build and packaging. None of them has state that another part depends on. Of the
kernel: group-stops, `execve` under trace, uninterruptible sleep.

## Plan

Done: all components but the ones under "Not modelled", and a proof of every safety
property that a passing run checks. Left for who changes the code:

1. A change of `hsed_trace_fd` that waits for its own threads only would remove the
   hypothesis of one session from five theorems; the run `two` would then pass.
2. A change of the stream screen that closes a session delivered after Esc would remove
   the hypothesis `Patient` from `StreamsKept`, and of `App` that ignores keys while
   a screen is pushed the exception for a hasty user from `PendingMatches`.
3. `--scan-once` and `--stats-once` call `ProcScan` directly and could be composed with
   it if they come to do more than print.
