---------------------------- MODULE PtraceKernel ----------------------------
(***************************************************************************)
(* External: the part of Linux that hsed_trace_fd is written against.  The *)
(* threads of the target processes run, call into the kernel, clone, exit  *)
(* and are killed; ptrace(2) and wait(2) are the operators below, one for  *)
(* each request the code makes.  A tracer is one thread of the daemon.     *)
(*                                                                         *)
(* A write() on the streamed fd is a system call of kind "write"; every    *)
(* other call, a write to another fd included, is "other", "clone" or      *)
(* "exit".  Group-stops, execve(2), pid reuse and uninterruptible sleep    *)
(* are left out.                                                           *)
(***************************************************************************)
EXTENDS Integers, FiniteSets

CONSTANTS Tids,          \* thread ids of the target processes
          NoTid,         \* no thread
          LeaderOf,      \* the thread-group leader (the pid) of each thread
          Alive,         \* the threads that exist at the start
          Quits,         \* the threads that may end by themselves (pthread_exit)
          Signals,       \* the signals somebody may send
          Sessions,      \* connection threads of the daemon
          NoSession      \* not traced

ASSUME KernelAssumption ==
  /\ NoTid \notin Tids
  /\ NoSession \notin Sessions
  /\ LeaderOf \in [Tids -> Tids]
  /\ \A t \in Tids : LeaderOf[LeaderOf[t]] = LeaderOf[t]
  /\ IsFiniteSet(Tids)
  /\ Alive \subseteq Tids
  /\ Quits \subseteq Tids
  /\ Signals \subseteq {"HUP", "STOP"}

VARIABLE task   \* the kernel's view of each thread

Stopped == {"enter", "exit", "clone", "event", "signal"}  \* ptrace-stops
Live    == Stopped \cup {"run"}
SysKind == {"write", "other", "clone", "exit"}

Task == [st     : Live \cup {"unborn", "zombie", "gone"},
         evt    : BOOLEAN,                        \* a wait event nobody has reaped
         tracer : Sessions \cup {NoSession},
         mode   : {"cont", "syscall"},            \* how it was last resumed
         sys    : SysKind \cup {"user"},          \* the system call it is in
         trap   : BOOLEAN,                        \* pending PTRACE_EVENT_STOP
         child  : Tids \cup {NoTid},              \* child not yet announced
         sig    : {"none", "HUP", "STOP", "delivered", "lost"}]

TaskTypeOK == task \in [Tids -> Task]

----------------------------------------------------------------------------
(* The kernel: what ptrace(2), wait(2) and exit do to one thread. *)

IsLeader(t) == LeaderOf[t] = t
Group(t)    == {u \in Tids : LeaderOf[u] = LeaderOf[t]}

\* Any trap clears a pending PTRACE_INTERRUPT.
StoppedAt(k, kind) == [k EXCEPT !.st = kind, !.evt = TRUE, !.trap = FALSE]

\* PTRACE_SYSCALL and PTRACE_CONT; inject says whether a signal is passed on.
Resumed(k, m, inject) ==
  [k EXCEPT !.st    = "run",
            !.evt   = FALSE,
            !.mode  = m,
            !.sys   = IF k.st = "exit" THEN "user" ELSE @,
            !.child = IF k.st = "clone" THEN NoTid ELSE @,
            !.sig   = IF k.st # "signal" THEN @
                      ELSE IF inject THEN "delivered" ELSE "lost"]

Untraced(k) == [k EXCEPT !.tracer = NoSession, !.trap = FALSE, !.child = NoTid]

\* PTRACE_DETACH with no signal, as every call in the code has it.
Detached(k) == Untraced(Resumed(k, "cont", FALSE))

\* What wait(2) leaves of a thread it reports: an ended thread is released, an
\* ended leader is handed back to its real parent.
Reaped(k, leader) ==
  IF k.st # "zombie" THEN [k EXCEPT !.evt = FALSE]
  ELSE [Untraced(k) EXCEPT !.evt = FALSE, !.st = IF leader THEN "zombie" ELSE "gone"]

Ended(k, leader) ==
  [k EXCEPT !.st   = IF k.tracer = NoSession /\ ~leader THEN "gone" ELSE "zombie",
            !.evt  = k.tracer # NoSession,
            !.trap = FALSE]

\* The tracer thread is gone: exit_ptrace() lets go of every tracee.
Abandoned(k, leader) ==
  CASE k.st \in Stopped -> Untraced(Resumed(k, "cont", k.evt))
    [] k.st = "zombie"  -> Reaped(k, leader)
    [] OTHER            -> Untraced(k)

Traced(t) == task[t].tracer # NoSession

\* wait(2) called by any thread of the daemon sees the tracees of all of them.
\* A leader's end is only reported once every other thread has been released.
Waitable(t) ==
  /\ Traced(t) /\ task[t].evt
  /\ task[t].st = "zombie" /\ IsLeader(t) =>
       \A u \in Group(t) \ {t} : task[u].st \in {"unborn", "gone"}

\* A ptrace request by s on t other than PTRACE_SEIZE and PTRACE_INTERRUPT
\* succeeds only for the tracer of a stopped thread.
Controls(s, t) == task[t].tracer = s /\ task[t].st \in Stopped

SetTask(t, k) == task' = [task EXCEPT ![t] = k]

\* ptrace(req, t, ..) by s with its result ignored.
Ptrace(s, t, k) == SetTask(t, IF Controls(s, t) THEN k ELSE task[t])

----------------------------------------------------------------------------
(* Threads of the targets *)


\* t calls into the kernel; a call to exit(2) is the thread's own decision.
SysEnter(t, kind) ==
  /\ task[t].st = "run" /\ task[t].sys = "user" /\ ~task[t].trap
  /\ kind = "exit" => t \in Quits
  /\ kind = "clone" => \E c \in Group(t) : task[c].st = "unborn"
  /\ SetTask(t, LET k == [task[t] EXCEPT !.sys = kind]
                IN  IF Traced(t) /\ k.mode = "syscall" THEN StoppedAt(k, "enter") ELSE k)

SysExit(t) ==
  /\ task[t].st = "run" /\ task[t].sys \notin {"user", "exit"} /\ task[t].child = NoTid
  /\ SetTask(t, IF Traced(t) /\ task[t].mode = "syscall"
                THEN StoppedAt(task[t], "exit")
                ELSE [task[t] EXCEPT !.sys = "user"])

\* clone(2) makes thread c.  PTRACE_O_TRACECLONE attaches it to the parent's
\* tracer, with a stop pending before its first instruction.
CloneChild(t, c) ==
  /\ task[t].st = "run" /\ task[t].sys = "clone" /\ ~task[t].trap
  /\ c \in Group(t) /\ task[c].st = "unborn"
  /\ task' = [task EXCEPT ![t].sys    = "other",
                          ![t].child  = IF Traced(t) THEN c ELSE NoTid,
                          ![c].st     = "run",
                          ![c].tracer = task[t].tracer,
                          ![c].trap   = Traced(t)]

\* PTRACE_EVENT_CLONE, reported by the parent while it is still in clone(2).
CloneEvent(t) ==
  /\ task[t].st = "run" /\ task[t].child # NoTid
  /\ SetTask(t, StoppedAt(task[t], "clone"))

\* PTRACE_EVENT_STOP: the pending trap is taken on the way to user mode.
TrapStop(t) ==
  /\ task[t].st = "run" /\ task[t].sys = "user" /\ task[t].trap
  /\ SetTask(t, StoppedAt(task[t], "event"))

SigQueue(t, sig) ==
  /\ task[t].st \in Live /\ task[t].sig = "none"
  /\ sig = "STOP" => Traced(t)
  /\ SetTask(t, [task[t] EXCEPT !.sig = sig])

\* Signal delivery: a signal-delivery-stop when traced, the handler otherwise.
SigDeliver(t) ==
  /\ task[t].st = "run" /\ task[t].sys = "user" /\ ~task[t].trap
  /\ task[t].sig \in {"HUP", "STOP"}
  /\ SetTask(t, IF Traced(t) THEN StoppedAt(task[t], "signal")
                ELSE [task[t] EXCEPT !.sig = "delivered"])

ThreadExit(t) ==
  /\ task[t].st = "run" /\ task[t].sys = "exit"
  /\ SetTask(t, Ended(task[t], IsLeader(t)))

\* SIGKILL or exit_group(2): all threads of the process end, stopped or not.
KillGroup(p) ==
  /\ IsLeader(p) /\ \E t \in Group(p) : task[t].st \in Live
  /\ task' = [t \in Tids |-> IF t \in Group(p) /\ task[t].st \in Live
                             THEN Ended(task[t], IsLeader(t)) ELSE task[t]]

\* The real parent collects a process that nobody traces.
ParentReap(p) ==
  /\ IsLeader(p) /\ task[p].st = "zombie" /\ ~Traced(p)
  /\ \A u \in Group(p) \ {p} : task[u].st \in {"unborn", "gone"}
  /\ SetTask(p, [task[p] EXCEPT !.st = "gone"])

----------------------------------------------------------------------------
KernelInit ==
  task = [t \in Tids |->
            [st |-> IF t \in Alive THEN "run" ELSE "unborn", evt |-> FALSE,
             tracer |-> NoSession, mode |-> "cont", sys |-> "user", trap |-> FALSE,
             child |-> NoTid, sig |-> "none"]]

ThreadStep(t) ==
  \/ \E kind \in SysKind : SysEnter(t, kind)
  \/ \E c \in Tids : CloneChild(t, c)
  \/ \E sig \in Signals : SigQueue(t, sig)
  \/ SysExit(t) \/ CloneEvent(t) \/ TrapStop(t) \/ SigDeliver(t)
  \/ ThreadExit(t) \/ KillGroup(t) \/ ParentReap(t)

\* What the kernel brings about by itself: a pending trap is taken, the call a
\* trap interrupts returns, a clone and an exit once begun are finished.
KernelProgress(t) ==
  TrapStop(t) \/ (task[t].trap /\ SysExit(t)) \/ CloneEvent(t) \/ ThreadExit(t)
=============================================================================
