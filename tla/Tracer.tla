------------------------------ MODULE Tracer ------------------------------
(***************************************************************************)
(* STREAM sessions of hsedd: hsed_trace_fd (backend/src/tracer.c), run by  *)
(* one connection thread per client (backend/src/server.c).  A session is  *)
(* identified with its connection thread, which is the ptrace tracer of    *)
(* everything it seizes.  Arrays of the code are sets here: discovered[]   *)
(* and tids[] are walked in an arbitrary order.                            *)
(***************************************************************************)
EXTENDS PtraceKernel

CONSTANTS MaxTracked,    \* MAX_TRACKED_TIDS
          SeizeAttempts  \* PTRACE_SEIZE attempts per thread

ASSUME TracerAssumption ==
  MaxTracked \in Nat \ {0} /\ SeizeAttempts \in Nat \ {0}

VARIABLE sess   \* each connection thread, with the locals of hsed_trace_fd

vars == <<task, sess>>

PC == {"idle", "seize", "interrupt", "wait", "adopt", "alloc", "loop",
       "handle", "detach", "dwait", "drop", "exited"}

Session == [pc      : PC,
            pid     : Tids \cup {NoTid},          \* the argument of STREAM
            todo    : SUBSET Tids,                \* left to seize, or to detach
            cur     : Tids \cup {NoTid},
            status  : Stopped \cup {"none", "zombie"},  \* what waitpid reported
            attempt : 0 .. SeizeAttempts,
            tids    : SUBSET Tids,                \* tids[], ntids
            insys   : SUBSET Tids,                \* in_syscall
            capt    : SUBSET Tids,                \* capturing
            skew    : SUBSET Tids,  \* history: first tracked inside a system call
            sending : BOOLEAN,                    \* in write_cb
            rc      : {"none", "ok", "error"},    \* what hsed_trace_fd returned
            client  : {"open", "stop", "closed"}] \* what the socket has to say

TypeOK == TaskTypeOK /\ sess \in [Sessions -> Session]

----------------------------------------------------------------------------
(* The client of a session *)

\* Sends "STOP" into a running stream.
ClientStop(s) ==
  /\ sess[s].client = "open" /\ sess[s].pc \notin {"idle", "exited"}
  /\ sess' = [sess EXCEPT ![s].client = "stop"]
  /\ UNCHANGED task

ClientClose(s) ==
  /\ sess[s].client # "closed" /\ sess[s].pc # "exited"
  /\ sess' = [sess EXCEPT ![s].client = "closed"]
  /\ UNCHANGED task

----------------------------------------------------------------------------
(* The connection thread *)

At(s, label) == sess[s].pc = label
SetSess(s, m) == sess' = [sess EXCEPT ![s] = m]

\* hsed_trace_fd returns to handle_stream; its locals die with it.  A STOP the
\* stream did not consume is read as an unknown command.
Returned(m, rc) ==
  [m EXCEPT !.pc = "idle", !.rc = rc, !.todo = {}, !.cur = NoTid, !.status = "none",
            !.attempt = 0, !.tids = {}, !.insys = {}, !.capt = {}, !.skew = {},
            !.sending = FALSE, !.client = IF @ = "stop" THEN "open" ELSE @]

\* "continue" of the seizing loop.
NextThread(m) ==
  [m EXCEPT !.pc = "seize", !.todo = @ \ {m.cur}, !.cur = NoTid, !.status = "none",
            !.attempt = 0]

\* Mutant of Retried: the attempts are not counted out.
RetriedForever(m) == [m EXCEPT !.attempt = @ + 1]

\* The bounded retry after EPERM.
Retried(m) ==
  IF m.attempt + 1 < SeizeAttempts THEN [m EXCEPT !.attempt = @ + 1] ELSE NextThread(m)

\* /proc/<pid>/task lists the whole group, whichever of its threads is named.
discover_tids(pid) ==
  IF task[pid].st \in {"unborn", "gone"} THEN {}
  ELSE {u \in Group(pid) : task[u].st \notin {"unborn", "gone"}}

\* STREAM <pid> <fd>: the call of hsed_trace_fd up to the seizing loop.
Stream(s, pid) ==
  /\ At(s, "idle") /\ sess[s].client = "open"
  /\ LET listed == discover_tids(pid)
     IN  \/ /\ listed = {}
            /\ SetSess(s, Returned([sess[s] EXCEPT !.pid = pid], "error"))
         \/ /\ listed # {}
            /\ \E D \in SUBSET listed :
                 /\ IF Cardinality(listed) <= MaxTracked THEN D = listed
                    ELSE Cardinality(D) = MaxTracked
                 /\ SetSess(s, [sess[s] EXCEPT !.pc = "seize", !.pid = pid,
                                               !.todo = D, !.rc = "none"])
  /\ UNCHANGED task

\* One PTRACE_SEIZE.  EPERM (already traced, or a zombie) is retried.
Seize(s, t) ==
  /\ At(s, "seize") /\ t \in sess[s].todo /\ sess[s].cur \in {NoTid, t}
  /\ \/ /\ task[t].st \in Live /\ ~Traced(t)
        /\ SetTask(t, [task[t] EXCEPT !.tracer = s, !.mode = "cont"])
        /\ SetSess(s, [sess[s] EXCEPT !.pc = "interrupt", !.cur = t])
     \/ /\ task[t].st # "gone"
        /\ Traced(t) \/ task[t].st = "zombie"
        /\ SetSess(s, Retried([sess[s] EXCEPT !.cur = t]))
        /\ UNCHANGED task
     \/ /\ task[t].st = "gone"
        /\ SetSess(s, NextThread([sess[s] EXCEPT !.cur = t]))
        /\ UNCHANGED task

\* PTRACE_INTERRUPT by the tracer succeeds on everything not yet released, an
\* ended thread too.
CanInterrupt(s, t) == task[t].tracer = s /\ task[t].st # "gone"
Interrupted(t) == [task[t] EXCEPT !.trap = (task[t].st \in Live)]

Interrupt(s) ==
  /\ At(s, "interrupt")
  /\ LET t == sess[s].cur
     IN  IF CanInterrupt(s, t)
         THEN SetTask(t, Interrupted(t)) /\ SetSess(s, [sess[s] EXCEPT !.pc = "wait"])
         ELSE UNCHANGED task /\ SetSess(s, NextThread(sess[s]))

\* waitpid(tid, &status, 0): blocks until t has something to report, or fails
\* with ECHILD when it is no tracee of the daemon any more.
WaitFor(s, t, m, failed) ==
  \/ /\ Waitable(t)
     /\ SetTask(t, Reaped(task[t], IsLeader(t)))
     /\ SetSess(s, [m EXCEPT !.status = task[t].st])
  \/ /\ ~Traced(t)
     /\ SetSess(s, failed)
     /\ UNCHANGED task

WaitStop(s) ==
  /\ At(s, "wait")
  /\ WaitFor(s, sess[s].cur, [sess[s] EXCEPT !.pc = "adopt"], NextThread(sess[s]))

\* Mutant of HasRoom: off by one.
HasRoomForOneMore(m) == Cardinality(m.tids) <= MaxTracked

\* find_or_add_tid: room in tids[], and the entry of a tid it does not hold yet.
HasRoom(m) == Cardinality(m.tids) < MaxTracked
Tracked(m, t) ==
  [m EXCEPT !.tids = @ \cup {t}, !.insys = @ \ {t}, !.capt = @ \ {t},
            !.skew = IF m.status \in {"clone", "enter"} THEN @ \cup {t} ELSE @ \ {t}]
remove_tid(m, t) ==
  [m EXCEPT !.tids = @ \ {t}, !.insys = @ \ {t}, !.capt = @ \ {t}, !.skew = @ \ {t}]

\* The first resume.  A thread that has ended, or has been killed since, is
\* skipped; one for which tids[] has no room would be let go.
Adopt(s) ==
  LET t    == sess[s].cur
      room == t \in sess[s].tids \/ HasRoom(sess[s])
  IN  /\ At(s, "adopt")
      /\ Ptrace(s, t, IF room THEN Resumed(task[t], "syscall", FALSE) ELSE Detached(task[t]))
      /\ SetSess(s, NextThread(IF room /\ Controls(s, t) THEN Tracked(sess[s], t)
                               ELSE sess[s]))

\* Mutant of AllSeized: ntids = 0 is not looked at.
AllSeizedNone(s) ==
  /\ At(s, "seize") /\ sess[s].todo = {}
  /\ SetSess(s, [sess[s] EXCEPT !.pc = "alloc"])
  /\ UNCHANGED task

AllSeized(s) ==
  /\ At(s, "seize") /\ sess[s].todo = {}
  /\ SetSess(s, IF sess[s].tids = {} THEN Returned(sess[s], "error")
                ELSE [sess[s] EXCEPT !.pc = "alloc"])
  /\ UNCHANGED task

\* attached_cb, then malloc of the capture buffer.
Alloc(s) ==
  /\ At(s, "alloc")
  /\ \/ SetSess(s, [sess[s] EXCEPT !.pc = "loop"])
     \/ SetSess(s, [sess[s] EXCEPT !.pc = "detach", !.todo = sess[s].tids, !.rc = "error"])
  /\ UNCHANGED task

\* Mutant of LoopReap: waits only for the threads in tids[].
LoopReapTracked(s, t) ==
  /\ At(s, "loop") /\ Waitable(t) /\ t \in sess[s].tids
  /\ SetTask(t, Reaped(task[t], IsLeader(t)))
  /\ SetSess(s, [sess[s] EXCEPT !.pc = "handle", !.cur = t, !.status = task[t].st])

\* waitpid(-1, &status, __WALL | WNOHANG) > 0
LoopReap(s, t) ==
  /\ At(s, "loop") /\ Waitable(t)
  /\ SetTask(t, Reaped(task[t], IsLeader(t)))
  /\ SetSess(s, [sess[s] EXCEPT !.pc = "handle", !.cur = t, !.status = task[t].st])

\* Mutant of LoopPoll: a closed connection is taken for one with nothing to read.
LoopPollStopOnly(s) ==
  /\ At(s, "loop") /\ sess[s].client = "stop"
  /\ (\E t \in Tids : Traced(t)) /\ \A t \in Tids : ~Waitable(t)
  /\ SetSess(s, [sess[s] EXCEPT !.pc = "detach", !.todo = sess[s].tids, !.client = "open"])
  /\ UNCHANGED task

\* waitpid = 0 and poll_cb says the client is gone or has sent STOP.  (With
\* nothing to read the loop sleeps and changes nothing.)
LoopPoll(s) ==
  /\ At(s, "loop") /\ sess[s].client # "open"
  /\ (\E t \in Tids : Traced(t)) /\ \A t \in Tids : ~Waitable(t)
  /\ SetSess(s, [sess[s] EXCEPT !.pc = "detach", !.todo = sess[s].tids,
                                !.client = IF @ = "stop" THEN "open" ELSE @])
  /\ UNCHANGED task

\* waitpid fails with ECHILD.
LoopNoChild(s) ==
  /\ At(s, "loop") /\ \A t \in Tids : ~Traced(t)
  /\ SetSess(s, Returned(sess[s], "ok"))
  /\ UNCHANGED task

\* The next round of the main loop.
Back(m) == [m EXCEPT !.pc = "loop", !.cur = NoTid, !.status = "none", !.sending = FALSE]

HandleUntracked(s) ==
  LET t == sess[s].cur
  IN  /\ At(s, "handle") /\ t \notin sess[s].tids /\ ~HasRoom(sess[s])
      /\ Ptrace(s, t, Resumed(task[t], "cont", FALSE))
      /\ SetSess(s, Back(sess[s]))

HandleExited(s) ==
  LET t == sess[s].cur
      m == remove_tid(sess[s], t)
  IN  /\ At(s, "handle") /\ (t \in sess[s].tids \/ HasRoom(sess[s]))
      /\ sess[s].status = "zombie"
      /\ SetSess(s, IF m.tids = {} THEN Returned(m, "ok") ELSE Back(m))
      /\ UNCHANGED task

\* Mutant of HandleNew: a new thread is continued, not stepped.
HandleNewCont(s) ==
  LET t == sess[s].cur
  IN  /\ At(s, "handle") /\ t \notin sess[s].tids /\ HasRoom(sess[s])
      /\ sess[s].status # "zombie"
      /\ Ptrace(s, t, Resumed(task[t], "cont", FALSE))
      /\ SetSess(s, Back(Tracked(sess[s], t)))

HandleNew(s) ==
  LET t == sess[s].cur
  IN  /\ At(s, "handle") /\ t \notin sess[s].tids /\ HasRoom(sess[s])
      /\ sess[s].status # "zombie"
      /\ Ptrace(s, t, Resumed(task[t], "syscall", FALSE))
      /\ SetSess(s, Back(Tracked(sess[s], t)))

\* Mutant of Toggled: in_syscall stays set after the exit-stop.
ToggledOnce(s, t) ==
  LET m == sess[s]
  IN  IF t \notin m.insys
      THEN [m EXCEPT !.insys = @ \cup {t},
                     !.capt  = IF Controls(s, t) /\ task[t].sys = "write"
                               THEN @ \cup {t} ELSE @ \ {t}]
      ELSE [m EXCEPT !.capt = @ \ {t}]

\* Mutant of Toggled: the call and its fd are not looked at.
ToggledAnyCall(s, t) ==
  LET m == sess[s]
  IN  IF t \notin m.insys
      THEN [m EXCEPT !.insys = @ \cup {t}, !.capt = @ \cup {t}]
      ELSE [m EXCEPT !.insys = @ \ {t}, !.capt = @ \ {t}]

\* in_syscall and capturing after a system-call-stop.  The registers name the
\* call in progress unless the thread has been killed under the handler.
Toggled(s, t) ==
  LET m == sess[s]
  IN  IF t \notin m.insys
      THEN [m EXCEPT !.insys = @ \cup {t},
                     !.capt  = IF Controls(s, t) /\ task[t].sys = "write"
                               THEN @ \cup {t} ELSE @ \ {t}]
      ELSE [m EXCEPT !.insys = @ \ {t}, !.capt = @ \ {t}]

\* The stop ends a write to the streamed fd, and its result can be read.
Reports(s) == sess[s].cur \in sess[s].insys \cap sess[s].capt /\ Controls(s, sess[s].cur)
AtSyscallStop(s) ==
  /\ At(s, "handle") /\ sess[s].cur \in sess[s].tids
  /\ sess[s].status \in {"enter", "exit"}

\* write_cb: the thread is in send, with the target stopped.
WriteCb(s) ==
  /\ AtSyscallStop(s) /\ Reports(s) /\ ~sess[s].sending
  /\ SetSess(s, [sess[s] EXCEPT !.sending = TRUE])
  /\ UNCHANGED task

\* Nothing to report, or send has returned.
HandleSyscall(s) ==
  LET t == sess[s].cur
  IN  /\ AtSyscallStop(s) /\ (sess[s].sending \/ ~Reports(s))
      /\ Ptrace(s, t, Resumed(task[t], "syscall", FALSE))
      /\ SetSess(s, Back(Toggled(s, t)))

\* PTRACE_EVENT_CLONE: the child is tracked before its own first stop, if it
\* is not tracked already and there is room.
HandleClone(s) ==
  LET t == sess[s].cur
      c == task[t].child
      m == Back(sess[s])
  IN  /\ At(s, "handle") /\ t \in sess[s].tids /\ sess[s].status = "clone"
      /\ Ptrace(s, t, Resumed(task[t], "syscall", FALSE))
      /\ SetSess(s, IF Controls(s, t) /\ c \notin m.tids /\ HasRoom(m)
                    THEN Tracked(m, c) ELSE m)

\* Mutant of HandleTrap: the thread is not resumed.
HandleTrapForgotten(s) ==
  /\ At(s, "handle") /\ sess[s].cur \in sess[s].tids /\ sess[s].status = "event"
  /\ SetSess(s, Back(sess[s]))
  /\ UNCHANGED task

HandleTrap(s) ==
  LET t == sess[s].cur
  IN  /\ At(s, "handle") /\ t \in sess[s].tids /\ sess[s].status = "event"
      /\ Ptrace(s, t, Resumed(task[t], "syscall", FALSE))
      /\ SetSess(s, Back(sess[s]))

\* Mutant of HandleSignal: no signal is injected again.
HandleSignalSwallowed(s) ==
  LET t == sess[s].cur
  IN  /\ At(s, "handle") /\ t \in sess[s].tids /\ sess[s].status = "signal"
      /\ Ptrace(s, t, Resumed(task[t], "syscall", FALSE))
      /\ SetSess(s, Back(sess[s]))

\* SIGSTOP is swallowed, any other signal is injected again.
HandleSignal(s) ==
  LET t == sess[s].cur
  IN  /\ At(s, "handle") /\ t \in sess[s].tids /\ sess[s].status = "signal"
      /\ Ptrace(s, t, Resumed(task[t], "syscall", task[t].sig # "STOP"))
      /\ SetSess(s, Back(sess[s]))

\* Mutant of DetachInterrupt: waits without PTRACE_INTERRUPT.
DetachUninterrupted(s, t) ==
  /\ At(s, "detach") /\ t \in sess[s].todo
  /\ SetSess(s, IF CanInterrupt(s, t) THEN [sess[s] EXCEPT !.pc = "dwait", !.cur = t]
                ELSE [sess[s] EXCEPT !.todo = @ \ {t}])
  /\ UNCHANGED task

\* The detach loop: INTERRUPT, wait for a stop, DETACH; a thread that cannot be
\* interrupted cannot be detached either.
DetachInterrupt(s, t) ==
  /\ At(s, "detach") /\ t \in sess[s].todo
  /\ IF CanInterrupt(s, t)
     THEN /\ SetTask(t, Interrupted(t))
          /\ SetSess(s, [sess[s] EXCEPT !.pc = "dwait", !.cur = t])
     ELSE /\ UNCHANGED task
          /\ SetSess(s, [sess[s] EXCEPT !.todo = @ \ {t}])

DetachWait(s) ==
  LET m == [sess[s] EXCEPT !.pc = "drop"]
  IN  At(s, "dwait") /\ WaitFor(s, sess[s].cur, m, m)

Drop(s) ==
  LET t == sess[s].cur
  IN  /\ At(s, "drop")
      /\ Ptrace(s, t, Detached(task[t]))
      /\ SetSess(s, [sess[s] EXCEPT !.pc = "detach", !.todo = @ \ {t}, !.cur = NoTid,
                                    !.status = "none"])

DetachDone(s) ==
  /\ At(s, "detach") /\ sess[s].todo = {}
  /\ SetSess(s, Returned(sess[s], IF sess[s].rc = "error" THEN "error" ELSE "ok"))
  /\ UNCHANGED task

\* recv_line sees the closed socket: the connection thread ends, and with it
\* every ptrace attachment it still holds.
ConnExit(s) ==
  /\ At(s, "idle") /\ sess[s].client = "closed"
  /\ SetSess(s, [sess[s] EXCEPT !.pc = "exited"])
  /\ task' = [t \in Tids |-> IF task[t].tracer = s THEN Abandoned(task[t], IsLeader(t))
                             ELSE task[t]]

----------------------------------------------------------------------------
Init ==
  /\ KernelInit
  /\ sess = [s \in Sessions |->
               [pc |-> "idle", pid |-> NoTid, todo |-> {}, cur |-> NoTid,
                status |-> "none", attempt |-> 0, tids |-> {}, insys |-> {},
                capt |-> {}, skew |-> {}, sending |-> FALSE, rc |-> "none", client |-> "open"]]

\* What the daemon does by itself once a stream has been asked for.
SessionStep(s) ==
  \/ \E t \in Tids : Seize(s, t) \/ LoopReap(s, t) \/ DetachInterrupt(s, t)
  \/ Interrupt(s) \/ WaitStop(s) \/ Adopt(s) \/ AllSeized(s) \/ Alloc(s)
  \/ LoopPoll(s) \/ LoopNoChild(s)
  \/ HandleUntracked(s) \/ HandleExited(s) \/ HandleNew(s)
  \/ WriteCb(s) \/ HandleSyscall(s) \/ HandleClone(s) \/ HandleTrap(s) \/ HandleSignal(s)
  \/ DetachWait(s) \/ Drop(s) \/ DetachDone(s) \/ ConnExit(s)

ClientStep(s) == ClientStop(s) \/ ClientClose(s) \/ \E t \in Tids : Stream(s, t)

Next ==
  \/ \E s \in Sessions : SessionStep(s) \/ ClientStep(s)
  \/ \E t \in Tids : ThreadStep(t) /\ UNCHANGED sess

\* In the send of attached_cb or of write_cb, which waits for as long as a client
\* that does not read keeps its connection open.
Blocked(s) == (At(s, "alloc") \/ sess[s].sending) /\ sess[s].client # "closed"

\* A connection thread is never descheduled for good, nor is the kernel; nothing
\* is assumed of a send.
Fairness ==
  /\ \A s \in Sessions : WF_vars(~Blocked(s) /\ SessionStep(s))
  /\ \A t \in Tids : WF_vars(KernelProgress(t) /\ UNCHANGED sess)

Spec == Init /\ [][Next]_vars /\ Fairness

----------------------------------------------------------------------------
(* Properties *)

Streaming(s) == sess[s].pc \notin {"idle", "exited"}
InLoop(s)    == sess[s].pc \in {"loop", "handle"}

\* A stop that has been reaped belongs to the session that traces the thread and
\* is about to resume it: waitpid never takes a stop whose thread is then
\* left frozen (the main loop and both waitpid(tid) calls of hsed_trace_fd).
NoOrphanStop ==
  \A t \in Tids :
    task[t].st \in Stopped /\ ~task[t].evt =>
      \E s \in Sessions : /\ task[t].tracer = s /\ sess[s].cur = t
                          /\ sess[s].pc \in {"adopt", "handle", "drop"}

\* While the main loop runs, no attached thread runs unobserved: it is in tids[]
\* and steps from system call to system call, or a stop is still pending.
SteppedTracees ==
  \A s \in Sessions, t \in Tids :
    InLoop(s) /\ task[t].tracer = s /\ task[t].st = "run" =>
      task[t].trap \/ (t \in sess[s].tids /\ task[t].mode = "syscall")

\* The kernel will report the end of the call t is in before its next start.
ExitDue(t) == task[t].sys # "user" /\ task[t].st # "enter"

\* in_syscall of a live thread says which of the two stops comes next, whatever
\* clones, signals, interrupts and kills come in between, once the thread was
\* first tracked outside a system call (the toggle of hsed_trace_fd).
Lockstep ==
  \A s \in Sessions : \A t \in sess[s].tids \ sess[s].skew :
    task[t].st \in Live /\ task[t].tracer = s => (t \in sess[s].insys) = ExitDue(t)

\* capturing is set exactly while a write to the streamed fd is in progress, so
\* write_cb reports every such write of a thread in step and nothing else.
CaptureSync ==
  \A s \in Sessions : \A t \in sess[s].tids \ sess[s].skew :
    task[t].st \in Live /\ task[t].tracer = s =>
      (t \in sess[s].capt) = (ExitDue(t) /\ task[t].sys = "write")

\* tids[] never holds more than MAX_TRACKED_TIDS entries: find_or_add_tid asks for
\* room in the seizing loop, for a stop of a new thread and for a cloned child.
TableBound == \A s \in Sessions : Cardinality(sess[s].tids) <= MaxTracked

\* A SIGHUP on its way to a thread in tids[] is not lost by the main loop: only
\* the first resume of a thread and its detach drop the signal it stopped for.
HupKept ==
  [][\A t \in Tids :
       task[t].sig = "HUP" /\ task'[t].sig = "lost" =>
         \E s \in Sessions : /\ sess[s].cur = t
                             /\ \/ sess[s].pc \in {"adopt", "drop"}
                                \/ sess[s].pc = "handle" /\ t \notin sess[s].tids]_vars

\* Once the detach loop has begun hsed_trace_fd returns, unless the leader of the
\* target ends meanwhile: each waitpid(tid) gets its stop.
DetachReturns ==
  \A s \in Sessions :
    (sess[s].pc = "detach") ~> \/ ~Streaming(s)
                              \/ task[LeaderOf[sess[s].pid]].st \notin Live

\* When the target process dies under the main loop the stream ends by itself,
\* however many stops are still to be reaped, unless write_cb is waiting for a
\* client that stays and does not read; one that has left holds nothing up.
DeadTargetEndsStream ==
  \A s \in Sessions :
    (InLoop(s) /\ \A t \in Group(sess[s].pid) : task[t].st \notin Live) ~>
      (~Streaming(s) \/ Blocked(s))

\* A client that stops or leaves is noticed by the main loop unless the target
\* always has another stop ready: poll_cb has its turn as soon as waitpid has
\* nothing to report.
QuietClientGoneNoticed ==
  \A s \in Sessions :
    (sess[s].pc = "loop" /\ sess[s].client # "open") ~>
      (~InLoop(s) \/ \E t \in Tids : task[t].evt)

\* hsed_trace_fd as its caller sees it: one attach, writes of tracked threads with
\* at most one report each, one end (handle_stream and its callbacks).
PhaseOf(s) ==
  CASE ~Streaming(s) -> "idle"
    [] InLoop(s) -> "streaming"
    [] sess[s].pc \in {"detach", "dwait", "drop"} -> "closing"
    [] OTHER -> "attaching"
InStream(s, S) == IF PhaseOf(s) \in {"streaming", "closing"} THEN S ELSE {}

Service == INSTANCE StreamService
  WITH phase   <- [s \in Sessions |-> PhaseOf(s)],
       watched <- [s \in Sessions |-> InStream(s, sess[s].tids)],
       writing <- [s \in Sessions |-> InStream(s, sess[s].capt)]

\* Every step of hsed_trace_fd is a step of that service or none: a stream never
\* begins without a thread, reports no write twice and leaves nothing behind.
ImplementsService == Service!Spec

\* README: hsedd "only interrupts each thread briefly": no thread is held in a
\* ptrace-stop by a session whose stream is over.
StoppedOnlyWhileStreamed ==
  \A t \in Tids : task[t].st \in Stopped => Streaming(task[t].tracer)

\* tracer.c, of in_syscall: "0 = expecting enter-stop, 1 = expecting exit-stop",
\* of every thread in tids[].
InSyscallExpects ==
  \A s \in Sessions : \A t \in sess[s].tids :
    task[t].st \in Live /\ task[t].tracer = s => (t \in sess[s].insys) = ExitDue(t)
============================================================================
