---------------------------- MODULE TracerProofs ----------------------------
(***************************************************************************)
(* Proofs about Tracer: type correctness for every value of the constants; *)
(* for a daemon with a single connection thread, that no thread is left in *)
(* a stop that has been reaped; and for any number of connections what     *)
(* hsed_trace_fd does with its table: tids[] never overflows, and the      *)
(* detailed tracer implements the stream that StreamService promises.  The *)
(* last two do not depend on what the threads of the target, the other     *)
(* sessions or the clients do meanwhile, so their argument is about one    *)
(* session record at a time.                                               *)
(***************************************************************************)
EXTENDS Tracer, TLAPS, FiniteSetTheorems

----------------------------------------------------------------------------
(* What the operators on one record return. *)

LEMMA StoppedAtType ==
  ASSUME NEW k \in Task, NEW kind \in Stopped
  PROVE  StoppedAt(k, kind) \in Task
BY DEF StoppedAt, Task, Live, Stopped

LEMMA ResumedType ==
  ASSUME NEW k \in Task, NEW m \in {"cont", "syscall"}, NEW inject \in BOOLEAN
  PROVE  Resumed(k, m, inject) \in Task
<1> DEFINE sys   == IF k.st = "exit" THEN "user" ELSE k.sys
           child == IF k.st = "clone" THEN NoTid ELSE k.child
           sig   == IF k.st # "signal" THEN k.sig
                    ELSE IF inject THEN "delivered" ELSE "lost"
<1>1. /\ sys \in SysKind \cup {"user"}
      /\ child \in Tids \cup {NoTid}
      /\ sig \in {"none", "HUP", "STOP", "delivered", "lost"}
  BY DEF Task
<1>2. Resumed(k, m, inject) = [k EXCEPT !.st = "run", !.evt = FALSE, !.mode = m,
                                        !.sys = sys, !.child = child, !.sig = sig]
  BY DEF Resumed
<1> HIDE DEF sys, child, sig
<1> QED
  BY <1>1, <1>2 DEF Task, Live

LEMMA InterruptedType ==
  ASSUME TaskTypeOK, NEW t \in Tids
  PROVE  Interrupted(t) \in Task
<1> DEFINE live == task[t].st \in Live
<1>1. task[t] \in Task /\ live \in BOOLEAN /\ Interrupted(t) = [task[t] EXCEPT !.trap = live]
  BY DEF TaskTypeOK, Interrupted
<1> HIDE DEF live
<1> QED
  BY <1>1 DEF Task

LEMMA UntracedType ==
  ASSUME NEW k \in Task
  PROVE  Untraced(k) \in Task
BY DEF Untraced, Task

LEMMA DetachedType ==
  ASSUME NEW k \in Task
  PROVE  Detached(k) \in Task
BY ResumedType, UntracedType DEF Detached

LEMMA ReapedType ==
  ASSUME NEW k \in Task, NEW leader \in BOOLEAN
  PROVE  Reaped(k, leader) \in Task
BY DEF Reaped, Untraced, Task, Live, Stopped

LEMMA EndedType ==
  ASSUME NEW k \in Task, NEW leader \in BOOLEAN
  PROVE  Ended(k, leader) \in Task
BY DEF Ended, Task, Live, Stopped

LEMMA AbandonedType ==
  ASSUME NEW k \in Task, NEW leader \in BOOLEAN
  PROVE  Abandoned(k, leader) \in Task
<1>1. k.evt \in BOOLEAN
  BY DEF Task
<1>2. Untraced(Resumed(k, "cont", k.evt)) \in Task
  BY <1>1, ResumedType, UntracedType
<1> QED
  BY <1>2, ReapedType, UntracedType DEF Abandoned

LEMMA ReturnedType ==
  ASSUME NEW m \in Session, NEW rc \in {"ok", "error"}
  PROVE  Returned(m, rc) \in Session
<1> DEFINE client == IF m.client = "stop" THEN "open" ELSE m.client
<1>1. client \in {"open", "stop", "closed"} /\ 0 \in 0 .. SeizeAttempts
  BY TracerAssumption DEF Session
<1> DEFINE m1 == [m EXCEPT !.pc = "idle", !.rc = rc, !.todo = {}, !.cur = NoTid,
                         !.status = "none", !.attempt = 0]
           m2 == [m1 EXCEPT !.tids = {}, !.insys = {}, !.capt = {}, !.skew = {},
                          !.sending = FALSE, !.client = client]
<1>2. m1 \in Session
  BY <1>1 DEF Session, PC
<1>3. m2 \in Session
  <2> HIDE DEF m1, client
  <2> QED
    BY <1>1, <1>2 DEF Session
<1>4. Returned(m, rc) = m2
  BY DEF Returned, Session
<1> QED
  BY <1>3, <1>4

LEMMA NextThreadType ==
  ASSUME NEW m \in Session
  PROVE  NextThread(m) \in Session
<1>1. m.todo \ {m.cur} \in SUBSET Tids /\ 0 \in 0 .. SeizeAttempts
  BY TracerAssumption DEF Session
<1>2. NextThread(m) =
        [m EXCEPT !.pc = "seize", !.todo = m.todo \ {m.cur}, !.cur = NoTid,
                  !.status = "none", !.attempt = 0]
  BY DEF NextThread
<1> QED
  BY <1>1, <1>2 DEF Session, PC

LEMMA RetriedType ==
  ASSUME NEW m \in Session
  PROVE  Retried(m) \in Session
<1>1. CASE m.attempt + 1 < SeizeAttempts
  BY <1>1, TracerAssumption DEF Retried, Session
<1> QED
  BY <1>1, NextThreadType DEF Retried

LEMMA TrackedType ==
  ASSUME NEW m \in Session, NEW t \in Tids
  PROVE  Tracked(m, t) \in Session /\ remove_tid(m, t) \in Session
BY DEF Tracked, remove_tid, Session

LEMMA BackType ==
  ASSUME NEW m \in Session
  PROVE  Back(m) \in Session
BY DEF Back, Session, PC, Stopped

\* One record of an array of records changes.
LEMMA SetTaskType ==
  ASSUME TaskTypeOK, NEW t \in Tids, NEW k \in Task, SetTask(t, k)
  PROVE  TaskTypeOK'
BY DEF TaskTypeOK, SetTask

LEMMA PtraceType ==
  ASSUME TaskTypeOK, NEW s \in Sessions, NEW t \in Tids, NEW k \in Task,
         Ptrace(s, t, k)
  PROVE  TaskTypeOK'
BY DEF TaskTypeOK, Ptrace, SetTask

LEMMA SetSessType ==
  ASSUME TypeOK, NEW s \in Sessions, NEW m \in Session, SetSess(s, m)
  PROVE  sess' \in [Sessions -> Session]
BY DEF TypeOK, SetSess

----------------------------------------------------------------------------
(* Type correctness *)

LEMMA InitType == Init => TypeOK
BY KernelAssumption, TracerAssumption
   DEF Init, KernelInit, TypeOK, TaskTypeOK, Task, Session, PC, Live, Stopped, SysKind

LEMMA ThreadStepType ==
  ASSUME TypeOK, NEW t \in Tids, ThreadStep(t)
  PROVE  TaskTypeOK'
<1> USE DEF TypeOK
<1>t. task[t] \in Task /\ IsLeader(t) \in BOOLEAN
  BY DEF TaskTypeOK, IsLeader
<1>1. ASSUME NEW kind \in SysKind, SysEnter(t, kind)
      PROVE  TaskTypeOK'
  <2> DEFINE k == [task[t] EXCEPT !.sys = kind]
  <2>1. k \in Task
    BY <1>t DEF Task
  <2>2. StoppedAt(k, "enter") \in Task
    BY <2>1, StoppedAtType DEF Stopped
  <2>3. SetTask(t, k) \/ SetTask(t, StoppedAt(k, "enter"))
    BY <1>1 DEF SysEnter
  <2> QED
    BY <2>1, <2>2, <2>3, SetTaskType
<1>2. ASSUME NEW c \in Tids, CloneChild(t, c)
      PROVE  TaskTypeOK'
  <2> DEFINE child == IF Traced(t) THEN c ELSE NoTid
             a == [task[t] EXCEPT !.sys = "other", !.child = child]
             b == [task[c] EXCEPT !.st = "run", !.tracer = task[t].tracer,
                                  !.trap = Traced(t)]
  <2>1. child \in Tids \cup {NoTid} /\ Traced(t) \in BOOLEAN
    BY DEF Traced
  <2>2. a \in Task
    <3> HIDE DEF child
    <3> QED BY <1>t, <2>1 DEF Task, SysKind
  <2>3. b \in Task
    BY <1>t, <2>1 DEF Task, TaskTypeOK, Live
  <2>4. t # c
    BY <1>2 DEF CloneChild
  <2>5. task' = [u \in Tids |-> IF u = c THEN b ELSE IF u = t THEN a ELSE task[u]]
    BY <1>2, <2>4 DEF CloneChild, TaskTypeOK
  <2> HIDE DEF a, b
  <2> QED
    BY <2>2, <2>3, <2>5 DEF TaskTypeOK
<1>3. ASSUME NEW sig \in Signals, SigQueue(t, sig)
      PROVE  TaskTypeOK'
  <2>1. [task[t] EXCEPT !.sig = sig] \in Task
    BY <1>t, KernelAssumption DEF Task
  <2> QED
    BY <1>3, <2>1, SetTaskType DEF SigQueue
<1>4. CASE SysExit(t)
  <2>1. /\ StoppedAt(task[t], "exit") \in Task
        /\ [task[t] EXCEPT !.sys = "user"] \in Task
    BY <1>t, StoppedAtType DEF Stopped, Task
  <2> QED
    BY <1>4, <2>1, SetTaskType DEF SysExit
<1>5. CASE CloneEvent(t) \/ TrapStop(t)
  <2>1. StoppedAt(task[t], "clone") \in Task /\ StoppedAt(task[t], "event") \in Task
    BY <1>t, StoppedAtType DEF Stopped
  <2> QED
    BY <1>5, <2>1, SetTaskType DEF CloneEvent, TrapStop
<1>6. CASE SigDeliver(t)
  <2>1. /\ StoppedAt(task[t], "signal") \in Task
        /\ [task[t] EXCEPT !.sig = "delivered"] \in Task
    BY <1>t, StoppedAtType DEF Stopped, Task
  <2> QED
    BY <1>6, <2>1, SetTaskType DEF SigDeliver
<1>7. CASE ThreadExit(t)
  BY <1>7, <1>t, EndedType, SetTaskType DEF ThreadExit
<1>8. CASE KillGroup(t)
  <2>1. \A u \in Tids : task[u] \in Task /\ Ended(task[u], IsLeader(u)) \in Task
    BY EndedType DEF TaskTypeOK, IsLeader
  <2> QED
    BY <1>8, <2>1 DEF KillGroup, TaskTypeOK
<1>9. CASE ParentReap(t)
  <2>1. [task[t] EXCEPT !.st = "gone"] \in Task
    BY <1>t DEF Task
  <2> QED
    BY <1>9, <2>1, SetTaskType DEF ParentReap
<1> QED
  BY <1>1, <1>2, <1>3, <1>4, <1>5, <1>6, <1>7, <1>8, <1>9 DEF ThreadStep

LEMMA ClientStepType ==
  ASSUME TypeOK, NEW s \in Sessions, ClientStep(s)
  PROVE  TypeOK'
<1> USE DEF TypeOK
<1>s. sess[s] \in Session
  OBVIOUS
<1>1. CASE ClientStop(s) \/ ClientClose(s)
  BY <1>1, <1>s DEF ClientStop, ClientClose, TaskTypeOK, Session
<1>2. ASSUME NEW pid \in Tids, Stream(s, pid)
      PROVE  TypeOK'
  <2>1. UNCHANGED task
    BY <1>2 DEF Stream
  <2>2. discover_tids(pid) \subseteq Tids
    BY DEF discover_tids, Group
  <2>3. CASE SetSess(s, Returned([sess[s] EXCEPT !.pid = pid], "error"))
    <3>1. [sess[s] EXCEPT !.pid = pid] \in Session
      BY <1>s DEF Session
    <3>2. Returned([sess[s] EXCEPT !.pid = pid], "error") \in Session
      BY <3>1, ReturnedType
    <3> QED
      BY <2>1, <2>3, <3>2, SetSessType DEF TaskTypeOK
  <2>4. ASSUME NEW D \in SUBSET discover_tids(pid),
               SetSess(s, [sess[s] EXCEPT !.pc = "seize", !.pid = pid, !.todo = D,
                                          !.rc = "none"])
        PROVE  TypeOK'
    <3>1. [sess[s] EXCEPT !.pc = "seize", !.pid = pid, !.todo = D, !.rc = "none"]
            \in Session
      BY <1>s, <2>2 DEF Session, PC
    <3> QED
      BY <2>1, <2>4, <3>1, SetSessType DEF TaskTypeOK
  <2> QED
    BY <1>2, <2>3, <2>4 DEF Stream
<1> QED
  BY <1>1, <1>2 DEF ClientStep

\* The facts beside TypeOK that keep the tables of a session well typed.
\* Of one thread: a clone stop names its child, only a stop or an end can be
\* waited for, and only a traced thread stops, is waited for or is about to stop.
Sound(k) ==
  /\ k.st = "clone" => k.child \in Tids
  /\ k.evt => k.st \in Stopped \cup {"zombie"}
  /\ k.st \in Stopped \/ k.evt \/ k.trap \/ k.child # NoTid => k.tracer # NoSession
  /\ k.st = "unborn" => k.child = NoTid /\ k.tracer = NoSession

KernelOK == \A t \in Tids : Sound(task[t])

\* cur is a thread that has been born wherever the code uses it.
Cur(s) ==
  sess[s].pc \in {"interrupt", "wait", "adopt", "handle", "dwait", "drop"} =>
    sess[s].cur \in Tids /\ task[sess[s].cur].st # "unborn"

\* While a session holds a reaped thread of its own, only SIGKILL moves it.
Holding == {"adopt", "handle", "drop"}
Held(s) ==
  sess[s].pc \in Holding /\ task[sess[s].cur].tracer = s =>
    task[sess[s].cur].st \in {sess[s].status, "zombie", "gone"}

CurOK  == \A s \in Sessions : Cur(s)
HeldOK == \A s \in Sessions : Held(s)

TypeInv == TypeOK /\ KernelOK /\ CurOK /\ HeldOK

LEMMA WaitForType ==
  ASSUME TypeOK, KernelOK, NEW s \in Sessions, NEW t \in Tids, NEW m \in Session,
         NEW failed \in Session, WaitFor(s, t, m, failed)
  PROVE  TypeOK'
<1>t. task[t] \in Task /\ IsLeader(t) \in BOOLEAN
  BY DEF TypeOK, TaskTypeOK, IsLeader
<1>1. CASE Waitable(t) /\ SetTask(t, Reaped(task[t], IsLeader(t)))
           /\ SetSess(s, [m EXCEPT !.status = task[t].st])
  <2>1. TaskTypeOK'
    BY <1>t, <1>1, ReapedType, SetTaskType DEF TypeOK
  <2>2. task[t].st \in Stopped \cup {"zombie"}
    BY <1>1 DEF Waitable, KernelOK, Sound
  <2>3. [m EXCEPT !.status = task[t].st] \in Session
    BY <2>2 DEF Session
  <2> QED
    BY <1>1, <2>1, <2>3, SetSessType DEF TypeOK
<1> QED
  BY <1>1, SetSessType DEF WaitFor, TypeOK, TaskTypeOK

LEMMA AttachType ==
  ASSUME TypeInv, NEW s \in Sessions,
         \/ \E t \in Tids : Seize(s, t)
         \/ Interrupt(s) \/ WaitStop(s) \/ Adopt(s) \/ AllSeized(s) \/ Alloc(s)
  PROVE  TypeOK'
<1> USE DEF TypeOK, TypeInv
<1>s. sess[s] \in Session
  OBVIOUS
<1>t. \A t \in Tids : task[t] \in Task
  BY DEF TaskTypeOK
<1>1. ASSUME NEW t \in Tids, Seize(s, t)
      PROVE  TypeOK'
  <2>1. [task[t] EXCEPT !.tracer = s, !.mode = "cont"] \in Task
    BY <1>t DEF Task
  <2>2. [sess[s] EXCEPT !.cur = t] \in Session
    BY <1>s DEF Session
  <2>3. [sess[s] EXCEPT !.pc = "interrupt", !.cur = t] \in Session
    BY <1>s DEF Session, PC
  <2>4. /\ Retried([sess[s] EXCEPT !.cur = t]) \in Session
        /\ NextThread([sess[s] EXCEPT !.cur = t]) \in Session
    BY <2>2, RetriedType, NextThreadType
  <2> QED
    BY <1>1, <2>1, <2>3, <2>4, SetTaskType, SetSessType DEF Seize, TaskTypeOK
<1>2. CASE Interrupt(s)
  <2>1. sess[s].cur \in Tids
    BY <1>2 DEF Interrupt, At, CurOK, Cur
  <2>2. Interrupted(sess[s].cur) \in Task
    BY <2>1, InterruptedType
  <2>3. [sess[s] EXCEPT !.pc = "wait"] \in Session
    BY <1>s DEF Session, PC
  <2> QED
    BY <1>2, <1>s, <2>1, <2>2, <2>3, SetTaskType, SetSessType, NextThreadType
       DEF Interrupt, TaskTypeOK
<1>3. CASE WaitStop(s)
  <2>1. sess[s].cur \in Tids
    BY <1>3 DEF WaitStop, At, CurOK, Cur
  <2>2. [sess[s] EXCEPT !.pc = "adopt"] \in Session /\ NextThread(sess[s]) \in Session
    BY <1>s, NextThreadType DEF Session, PC
  <2> QED
    BY <1>3, <2>1, <2>2, WaitForType DEF WaitStop
<1>4. CASE Adopt(s)
  <2> DEFINE t == sess[s].cur
  <2>1. t \in Tids
    BY <1>4 DEF Adopt, At, CurOK, Cur
  <2>2. Resumed(task[t], "syscall", FALSE) \in Task /\ Detached(task[t]) \in Task
    BY <2>1, <1>t, ResumedType, DetachedType
  <2>3. /\ NextThread(Tracked(sess[s], t)) \in Session
        /\ NextThread(sess[s]) \in Session
    BY <1>s, <2>1, TrackedType, NextThreadType
  <2>4. /\ \/ Ptrace(s, t, Resumed(task[t], "syscall", FALSE))
           \/ Ptrace(s, t, Detached(task[t]))
        /\ SetSess(s, NextThread(Tracked(sess[s], t))) \/ SetSess(s, NextThread(sess[s]))
    BY <1>4 DEF Adopt
  <2> QED
    BY <2>1, <2>2, <2>3, <2>4, PtraceType, SetSessType
<1>5. CASE AllSeized(s)
  <2>1. [sess[s] EXCEPT !.pc = "alloc"] \in Session
    BY <1>s DEF Session, PC
  <2> QED
    BY <1>5, <1>s, <2>1, ReturnedType, SetSessType DEF AllSeized, TaskTypeOK
<1>6. CASE Alloc(s)
  <2>1. /\ [sess[s] EXCEPT !.pc = "loop"] \in Session
        /\ [sess[s] EXCEPT !.pc = "detach", !.todo = sess[s].tids, !.rc = "error"]
              \in Session
    BY <1>s DEF Session, PC
  <2> QED
    BY <1>6, <2>1, SetSessType DEF Alloc, TaskTypeOK
<1> QED
  BY <1>1, <1>2, <1>3, <1>4, <1>5, <1>6

LEMMA LoopType ==
  ASSUME TypeInv, NEW s \in Sessions,
         \/ \E t \in Tids : LoopReap(s, t)
         \/ LoopPoll(s) \/ LoopNoChild(s) \/ HandleUntracked(s) \/ HandleExited(s)
         \/ HandleNew(s) \/ WriteCb(s) \/ HandleSyscall(s) \/ HandleClone(s)
         \/ HandleTrap(s) \/ HandleSignal(s)
  PROVE  TypeOK'
<1> USE DEF TypeOK, TypeInv
<1>s. sess[s] \in Session
  OBVIOUS
<1>t. \A t \in Tids : task[t] \in Task
  BY DEF TaskTypeOK
<1>c. sess[s].pc = "handle" => sess[s].cur \in Tids
  BY DEF CurOK, Cur
<1>r. \A t \in Tids, m \in {"cont", "syscall"}, inject \in BOOLEAN :
        Ptrace(s, t, Resumed(task[t], m, inject)) => TaskTypeOK'
  BY <1>t, ResumedType, PtraceType
<1>1. ASSUME NEW t \in Tids, LoopReap(s, t)
      PROVE  TypeOK'
  <2>1. IsLeader(t) \in BOOLEAN /\ task[t].st \in Stopped \cup {"zombie"}
    BY <1>1 DEF LoopReap, Waitable, KernelOK, Sound, IsLeader
  <2>2. [sess[s] EXCEPT !.pc = "handle", !.cur = t, !.status = task[t].st] \in Session
    BY <1>s, <2>1 DEF Session, PC
  <2> QED
    BY <1>1, <1>t, <2>1, <2>2, ReapedType, SetTaskType, SetSessType DEF LoopReap
<1>2. CASE LoopPoll(s)
  <2> DEFINE client == IF sess[s].client = "stop" THEN "open" ELSE sess[s].client
             m == [sess[s] EXCEPT !.pc = "detach", !.todo = sess[s].tids,
                                  !.client = client]
  <2>1. client \in {"open", "stop", "closed"}
    BY <1>s DEF Session
  <2>2. m \in Session
    <3> HIDE DEF client
    <3> QED BY <1>s, <2>1 DEF Session, PC
  <2>3. SetSess(s, m) /\ UNCHANGED task
    BY <1>2 DEF LoopPoll
  <2> QED
    BY <2>2, <2>3, SetSessType DEF TaskTypeOK
<1>3. CASE LoopNoChild(s)
  BY <1>3, <1>s, ReturnedType, SetSessType DEF LoopNoChild, TaskTypeOK
<1>4. CASE HandleUntracked(s)
  BY <1>4, <1>s, <1>c, <1>r, BackType, SetSessType DEF HandleUntracked, At
<1>5. CASE HandleExited(s)
  <2> DEFINE m == remove_tid(sess[s], sess[s].cur)
  <2>1. Returned(m, "ok") \in Session /\ Back(m) \in Session
    BY <1>5, <1>s, <1>c, TrackedType, ReturnedType, BackType DEF HandleExited, At
  <2>2. UNCHANGED task /\ (SetSess(s, Returned(m, "ok")) \/ SetSess(s, Back(m)))
    BY <1>5 DEF HandleExited
  <2> QED
    BY <2>1, <2>2, SetSessType DEF TaskTypeOK
<1>6. CASE HandleNew(s)
  <2>1. Back(Tracked(sess[s], sess[s].cur)) \in Session
    BY <1>6, <1>s, <1>c, TrackedType, BackType DEF HandleNew, At
  <2> QED
    BY <1>6, <1>c, <1>r, <2>1, SetSessType DEF HandleNew, At
<1>7. CASE HandleSyscall(s)
  <2>1. sess[s].cur \in Tids
    BY <1>7, <1>c DEF HandleSyscall, AtSyscallStop, At
  <2>2. Toggled(s, sess[s].cur) \in Session
    BY <1>s, <2>1 DEF Toggled, Session
  <2> QED
    BY <1>7, <1>r, <2>1, <2>2, BackType, SetSessType DEF HandleSyscall
<1>8. CASE HandleClone(s)
  <2> DEFINE t == sess[s].cur
  <2>1. t \in Tids /\ Back(sess[s]) \in Session
    BY <1>8, <1>c, <1>s, BackType DEF HandleClone, At
  <2>2. Controls(s, t) => task[t].child \in Tids
    BY <1>8, <2>1 DEF HandleClone, At, Controls, HeldOK, Held, Holding, KernelOK, Sound, Stopped
  <2>3. Controls(s, t) => Tracked(Back(sess[s]), task[t].child) \in Session
    BY <2>1, <2>2, TrackedType
  <2>4. /\ Ptrace(s, t, Resumed(task[t], "syscall", FALSE))
        /\ \/ SetSess(s, Back(sess[s]))
           \/ Controls(s, t) /\ SetSess(s, Tracked(Back(sess[s]), task[t].child))
    BY <1>8 DEF HandleClone
  <2> QED
    BY <1>r, <2>1, <2>3, <2>4, SetSessType
<1>9. CASE HandleTrap(s) \/ HandleSignal(s)
  BY <1>9, <1>s, <1>c, <1>r, BackType, SetSessType DEF HandleTrap, HandleSignal, At
<1>10. CASE WriteCb(s)
  <2>1. [sess[s] EXCEPT !.sending = TRUE] \in Session
    BY <1>s DEF Session
  <2> QED
    BY <1>10, <2>1, SetSessType DEF WriteCb, TaskTypeOK
<1> QED
  BY <1>1, <1>2, <1>3, <1>4, <1>5, <1>6, <1>7, <1>8, <1>9, <1>10

LEMMA DetachType ==
  ASSUME TypeInv, NEW s \in Sessions,
         \/ \E t \in Tids : DetachInterrupt(s, t)
         \/ DetachWait(s) \/ Drop(s) \/ DetachDone(s) \/ ConnExit(s)
  PROVE  TypeOK'
<1> USE DEF TypeOK, TypeInv
<1>s. sess[s] \in Session
  OBVIOUS
<1>t. \A t \in Tids : task[t] \in Task /\ IsLeader(t) \in BOOLEAN
  BY DEF TaskTypeOK, IsLeader
<1>1. ASSUME NEW t \in Tids, DetachInterrupt(s, t)
      PROVE  TypeOK'
  <2>1. /\ [sess[s] EXCEPT !.pc = "dwait", !.cur = t] \in Session
        /\ [sess[s] EXCEPT !.todo = @ \ {t}] \in Session
    BY <1>s DEF Session, PC
  <2> QED
    BY <1>1, <2>1, InterruptedType, SetTaskType, SetSessType
       DEF DetachInterrupt, TaskTypeOK
<1>2. CASE DetachWait(s)
  <2>1. [sess[s] EXCEPT !.pc = "drop"] \in Session /\ sess[s].cur \in Tids
    BY <1>2, <1>s DEF DetachWait, At, CurOK, Cur, Session, PC
  <2> QED
    BY <1>2, <2>1, WaitForType DEF DetachWait
<1>3. CASE Drop(s)
  <2> DEFINE m == [sess[s] EXCEPT !.pc = "detach", !.todo = @ \ {sess[s].cur},
                                  !.cur = NoTid, !.status = "none"]
  <2>1. m \in Session
    BY <1>s DEF Session, PC, Stopped
  <2>2. sess[s].cur \in Tids /\ Detached(task[sess[s].cur]) \in Task
    BY <1>3, <1>t, DetachedType DEF Drop, At, CurOK, Cur
  <2>3. Ptrace(s, sess[s].cur, Detached(task[sess[s].cur])) /\ SetSess(s, m)
    BY <1>3 DEF Drop
  <2> QED
    BY <2>1, <2>2, <2>3, PtraceType, SetSessType
<1>4. CASE DetachDone(s)
  BY <1>4, <1>s, ReturnedType, SetSessType DEF DetachDone, TaskTypeOK
<1>5. CASE ConnExit(s)
  <2>1. [sess[s] EXCEPT !.pc = "exited"] \in Session
    BY <1>s DEF Session, PC
  <2>2. \A t \in Tids : Abandoned(task[t], IsLeader(t)) \in Task
    BY <1>t, AbandonedType
  <2> QED
    BY <1>5, <1>t, <2>1, <2>2, SetSessType DEF ConnExit, TaskTypeOK
<1> QED
  BY <1>1, <1>2, <1>3, <1>4, <1>5

LEMMA SessionStepType ==
  ASSUME TypeInv, NEW s \in Sessions, SessionStep(s)
  PROVE  TypeOK'
BY AttachType, LoopType, DetachType DEF SessionStep

----------------------------------------------------------------------------
(* What the kernel's operators do to the fields the invariants speak of. *)

LEMMA UntracedFields ==
  ASSUME NEW k \in Task
  PROVE  LET n == Untraced(k)
         IN  /\ n.st = k.st /\ n.evt = k.evt /\ n.tracer = NoSession
             /\ n.trap = FALSE /\ n.child = NoTid
BY DEF Untraced, Task

LEMMA DetachedFields ==
  ASSUME NEW k \in Task
  PROVE  LET n == Detached(k)
         IN  /\ n.st = "run" /\ n.evt = FALSE /\ n.tracer = NoSession
             /\ n.trap = FALSE /\ n.child = NoTid
<1> DEFINE r == Resumed(k, "cont", FALSE)
<1>1. r \in Task
  BY ResumedType
<1>2. r.st = "run" /\ r.evt = FALSE
  BY DEF Resumed, Task
<1> HIDE DEF r
<1> QED
  BY <1>1, <1>2, UntracedFields DEF Detached, r

LEMMA AbandonedFields ==
  ASSUME NEW k \in Task, NEW leader \in BOOLEAN
  PROVE  LET n == Abandoned(k, leader)
         IN  /\ n.tracer = NoSession /\ n.trap = FALSE /\ n.child = NoTid
             /\ \/ k.st \in Stopped /\ n.st = "run" /\ n.evt = FALSE
                \/ k.st = "zombie" /\ n.st \in {"zombie", "gone"} /\ n.evt = FALSE
                \/ k.st \notin Stopped \cup {"zombie"} /\ n.st = k.st /\ n.evt = k.evt
<1>1. CASE k.st \in Stopped
  <2> DEFINE r == Resumed(k, "cont", k.evt)
  <2>1. r \in Task
    BY ResumedType DEF Task
  <2>2. r.st = "run" /\ r.evt = FALSE
    BY DEF Resumed, Task
  <2>3. Abandoned(k, leader) = Untraced(r)
    BY <1>1 DEF Abandoned, Stopped
  <2> HIDE DEF r
  <2> QED
    BY <1>1, <2>1, <2>2, <2>3, UntracedFields
<1>2. CASE k.st = "zombie"
  BY <1>2 DEF Abandoned, Stopped, Reaped, Untraced, Task
<1>3. CASE k.st \notin Stopped \cup {"zombie"}
  <2>1. Abandoned(k, leader) = Untraced(k)
    BY <1>3 DEF Abandoned
  <2> QED
    BY <1>3, <2>1, UntracedFields
<1> QED
  BY <1>1, <1>2, <1>3

----------------------------------------------------------------------------
(* What one step may do to thread u, seen from session r. *)

Born(u) == task[u].st # "unborn" => task'[u].st # "unborn"

\* A step of somebody else never makes u a tracee of r, except at its birth, and
\* moves a stopped tracee of r only by killing it.
Moves(r, u) ==
  /\ task[u].st # "unborn" /\ task'[u].tracer = r => task[u].tracer = r
  /\ task[u].tracer = r /\ task[u].st \in Stopped \cup {"zombie", "gone"} =>
       task'[u].st \in {task[u].st, "zombie", "gone"}

\* A thread in a reaped stop after the step was in it before the step.
NoNewReaped(u) ==
  task'[u].st \in Stopped /\ ~task'[u].evt =>
    task[u].st \in Stopped /\ ~task[u].evt /\ task'[u].tracer = task[u].tracer

LEMMA ThreadStepEffect ==
  ASSUME TypeOK, KernelOK, NEW t \in Tids, ThreadStep(t), NEW u \in Tids, NEW r
  PROVE  Sound(task'[u]) /\ Born(u) /\ Moves(r, u) /\ NoNewReaped(u)
<1> DEFINE Goal == Sound(task'[u]) /\ Born(u) /\ Moves(r, u) /\ NoNewReaped(u)
<1>t. task[t] \in Task /\ task[u] \in Task /\ task \in [Tids -> Task] /\ IsLeader(t) \in BOOLEAN
  BY DEF TypeOK, TaskTypeOK, IsLeader
<1>k. Sound(task[t]) /\ Sound(task[u])
  BY DEF KernelOK
<1>0. CASE task'[u] = task[u]
  BY <1>0, <1>k DEF Born, Moves, NoNewReaped
\* t stops, and it is traced.
<1>s. ASSUME NEW k \in Task, NEW kind \in Stopped, SetTask(t, StoppedAt(k, kind)),
             k.tracer = task[t].tracer, Traced(t), task[t].st = "run",
             kind = "clone" => k.child \in Tids
      PROVE  Goal
  <2>1. CASE u = t
    <3>1. task'[u] = StoppedAt(k, kind)
      BY <1>s, <1>t, <2>1 DEF SetTask
    <3>2. /\ task'[u].st = kind /\ task'[u].evt = TRUE /\ task'[u].tracer = task[u].tracer
          /\ task'[u].child = k.child /\ task'[u].trap = FALSE
      BY <1>s, <2>1, <3>1 DEF StoppedAt, Task
    <3>3. task[u].st = "run" /\ task[u].tracer # NoSession
      BY <1>s, <2>1 DEF Traced
    <3>4. Sound(task'[u])
      BY <1>s, <3>2, <3>3 DEF Sound, Stopped
    <3> QED
      BY <3>2, <3>3, <3>4 DEF Born, Moves, NoNewReaped, Stopped
  <2>2. CASE u # t
    BY <1>0, <1>s, <1>t, <2>2 DEF SetTask
  <2> QED BY <2>1, <2>2
\* A field changes that the invariants do not mention.
<1>q. ASSUME NEW k \in Task, SetTask(t, k), k.tracer = task[t].tracer,
             k.st = task[t].st, k.evt = task[t].evt, k.child = task[t].child,
             k.trap = task[t].trap
      PROVE  Goal
  <2>1. CASE u = t
    BY <1>q, <1>t, <1>k, <2>1 DEF SetTask, Sound, Born, Moves, NoNewReaped
  <2>2. CASE u # t
    BY <1>0, <1>q, <1>t, <2>2 DEF SetTask
  <2> QED BY <2>1, <2>2
\* u ends.
<1>e. ASSUME task'[u] = Ended(task[u], IsLeader(u)), task[u].st \in Live
      PROVE  Goal
  <2>0. IsLeader(u) \in BOOLEAN
    BY DEF IsLeader
  <2>1. /\ task'[u].tracer = task[u].tracer /\ task'[u].child = task[u].child
        /\ task'[u].trap = FALSE /\ task'[u].st \in {"zombie", "gone"}
        /\ task'[u].evt => task'[u].st = "zombie" /\ task'[u].tracer # NoSession
    BY <1>e, <1>t, <2>0 DEF Ended, Task
  <2>2. Sound(task'[u])
    BY <1>k, <2>1 DEF Sound, Stopped
  <2> QED
    BY <1>e, <2>1, <2>2 DEF Born, Moves, NoNewReaped, Stopped, Live
<1>1. ASSUME NEW kind \in SysKind, SysEnter(t, kind)
      PROVE  Goal
  <2> DEFINE k == [task[t] EXCEPT !.sys = kind]
  <2>1. /\ k \in Task /\ k.tracer = task[t].tracer /\ k.st = task[t].st
        /\ k.evt = task[t].evt /\ k.child = task[t].child
        /\ k.trap = task[t].trap
    BY <1>t DEF Task
  <2>2. \/ SetTask(t, k)
        \/ Traced(t) /\ task[t].st = "run" /\ SetTask(t, StoppedAt(k, "enter"))
    BY <1>1 DEF SysEnter
  <2> HIDE DEF k
  <2> QED
    BY <1>s, <1>q, <2>1, <2>2 DEF Stopped
<1>2. ASSUME NEW c \in Tids, CloneChild(t, c)
      PROVE  Goal
  <2>1. CASE u = c
    <3>1. /\ task'[u].st = "run" /\ task[u].st = "unborn"
          /\ task'[u].evt = task[u].evt /\ task'[u].child = task[u].child
          /\ task'[u].tracer = task[t].tracer
          /\ task'[u].trap => task[t].tracer # NoSession
      BY <1>2, <1>t, <2>1 DEF CloneChild, Task, Traced
    <3> QED
      BY <3>1, <1>k DEF Sound, Born, Moves, NoNewReaped, Stopped
  <2>2. CASE u = t /\ u # c
    <3>1. /\ task'[u].st = task[u].st /\ task[u].st = "run"
          /\ task'[u].evt = task[u].evt /\ task'[u].tracer = task[u].tracer
          /\ task'[u].trap = task[u].trap
          /\ task'[u].child # NoTid => task[u].tracer # NoSession
      BY <1>2, <1>t, <2>2 DEF CloneChild, Task, Traced
    <3> QED
      BY <3>1, <1>k DEF Sound, Born, Moves, NoNewReaped, Stopped
  <2>3. CASE u # t /\ u # c
    BY <1>0, <1>2, <1>t, <2>3 DEF CloneChild
  <2> QED BY <2>1, <2>2, <2>3
<1>3. ASSUME NEW sig \in Signals, SigQueue(t, sig)
      PROVE  Goal
  <2> DEFINE k == [task[t] EXCEPT !.sig = sig]
  <2>1. /\ k \in Task /\ k.tracer = task[t].tracer /\ k.st = task[t].st
        /\ k.evt = task[t].evt /\ k.child = task[t].child
        /\ k.trap = task[t].trap
    BY <1>t, KernelAssumption DEF Task
  <2> HIDE DEF k
  <2> QED
    BY <1>3, <1>q, <2>1 DEF SigQueue, k
<1>4. CASE SysExit(t)
  <2> DEFINE k == [task[t] EXCEPT !.sys = "user"]
  <2>1. /\ k \in Task /\ k.tracer = task[t].tracer /\ k.st = task[t].st
        /\ k.evt = task[t].evt /\ k.child = task[t].child
        /\ k.trap = task[t].trap
    BY <1>t DEF Task
  <2>2. \/ SetTask(t, k)
        \/ Traced(t) /\ task[t].st = "run" /\ SetTask(t, StoppedAt(task[t], "exit"))
    BY <1>4 DEF SysExit
  <2> HIDE DEF k
  <2> QED
    BY <1>s, <1>q, <1>t, <2>1, <2>2 DEF Stopped
<1>5. CASE SigDeliver(t)
  <2> DEFINE k == [task[t] EXCEPT !.sig = "delivered"]
  <2>1. /\ k \in Task /\ k.tracer = task[t].tracer /\ k.st = task[t].st
        /\ k.evt = task[t].evt /\ k.child = task[t].child
        /\ k.trap = task[t].trap
    BY <1>t DEF Task
  <2>2. \/ SetTask(t, k)
        \/ Traced(t) /\ task[t].st = "run" /\ SetTask(t, StoppedAt(task[t], "signal"))
    BY <1>5 DEF SigDeliver
  <2> HIDE DEF k
  <2> QED
    BY <1>s, <1>q, <1>t, <2>1, <2>2 DEF Stopped
<1>6. CASE KillGroup(t)
  <2>1. task'[u] \in {task[u], Ended(task[u], IsLeader(u))}
    BY <1>6 DEF KillGroup
  <2>2. IsLeader(u) \in BOOLEAN /\ (task'[u] # task[u] => task[u].st \in Live)
    BY <1>6 DEF KillGroup, IsLeader
  <2> QED
    BY <1>0, <1>e, <2>1, <2>2
<1>7. CASE ThreadExit(t)
  <2>1. CASE u = t
    <3>1. task'[u] = Ended(task[u], IsLeader(u))
      BY <1>7, <1>t, <2>1 DEF ThreadExit, SetTask
    <3> QED
      BY <1>t, <1>7, <1>e, <2>1, <3>1 DEF ThreadExit, Live
  <2>2. CASE u # t
    BY <1>0, <1>7, <1>t, <2>2 DEF ThreadExit, SetTask
  <2> QED BY <2>1, <2>2
<1>8. CASE ParentReap(t)
  <2>1. CASE u = t
    <3>1. /\ task'[u].st = "gone" /\ task'[u].tracer = task[u].tracer
          /\ task'[u].evt = task[u].evt /\ task'[u].tracer = NoSession
          /\ task'[u].child = task[u].child /\ task'[u].trap = task[u].trap
          /\ task[u].st = "zombie"
      BY <1>8, <1>t, <2>1 DEF ParentReap, SetTask, Task, Traced
    <3> QED
      BY <1>k, <3>1 DEF Sound, Born, Moves, NoNewReaped, Stopped
  <2>2. CASE u # t
    BY <1>0, <1>8, <1>t, <2>2 DEF ParentReap, SetTask
  <2> QED BY <2>1, <2>2
<1>9. CASE CloneEvent(t)
  BY <1>s, <1>t, <1>k, <1>9 DEF CloneEvent, Stopped, Sound, Traced, Task
<1>10. CASE TrapStop(t)
  BY <1>s, <1>t, <1>k, <1>10 DEF TrapStop, Stopped, Sound, Traced
<1> QED
  BY <1>1, <1>2, <1>3, <1>4, <1>5, <1>6, <1>7, <1>8, <1>9, <1>10 DEF ThreadStep

\* The requests of session s, one by one.
LEMMA RequestEffect ==
  ASSUME TypeOK, KernelOK, NEW s \in Sessions, NEW r \in Sessions,
         NEW t \in Tids, NEW u \in Tids,
         \/ \E m \in {"cont", "syscall"}, inject \in BOOLEAN :
              Ptrace(s, t, Resumed(task[t], m, inject))
         \/ Ptrace(s, t, Detached(task[t]))
         \/ Waitable(t) /\ SetTask(t, Reaped(task[t], IsLeader(t)))
         \/ CanInterrupt(s, t) /\ SetTask(t, Interrupted(t))
         \/ /\ task[t].st \in Live /\ ~Traced(t)
            /\ SetTask(t, [task[t] EXCEPT !.tracer = s, !.mode = "cont"])
         \/ UNCHANGED task
  PROVE  Sound(task'[u]) /\ Born(u) /\ (r # s => Moves(r, u))
<1>t. task[t] \in Task /\ task[u] \in Task /\ task \in [Tids -> Task] /\ IsLeader(t) \in BOOLEAN
  BY DEF TypeOK, TaskTypeOK, IsLeader
<1>k. Sound(task[u])
  BY DEF KernelOK
<1>n. s # NoSession /\ r # NoSession
  BY KernelAssumption
<1>0. CASE task'[u] = task[u]
  BY <1>0, <1>k DEF Born, Moves
<1>o. CASE u # t
  <2>1. task'[u] = task[u]
    BY <1>t, <1>o DEF Ptrace, SetTask
  <2> QED BY <1>0, <2>1
<1>1. ASSUME NEW m \in {"cont", "syscall"}, NEW inject \in BOOLEAN,
             Ptrace(s, t, Resumed(task[t], m, inject)), u = t, task'[u] # task[u]
      PROVE  Sound(task'[u]) /\ Born(u) /\ (r # s => Moves(r, u))
  <2>1. task'[u] = Resumed(task[u], m, inject) /\ Controls(s, u)
    BY <1>1, <1>t DEF Ptrace, SetTask
  <2>2. /\ task'[u].st = "run" /\ task'[u].evt = FALSE /\ task'[u].trap = task[u].trap
        /\ task'[u].tracer = task[u].tracer /\ task'[u].child \in {task[u].child, NoTid}
    BY <2>1, <1>t DEF Resumed, Task
  <2> QED
    BY <1>n, <1>k, <2>1, <2>2 DEF Sound, Born, Moves, Controls, Stopped
<1>2. CASE Ptrace(s, t, Detached(task[t])) /\ u = t /\ task'[u] # task[u]
  <2>1. task'[u] = Detached(task[u]) /\ Controls(s, u)
    BY <1>2, <1>t DEF Ptrace, SetTask
  <2>2. /\ task'[u].st = "run" /\ task'[u].evt = FALSE /\ task'[u].trap = FALSE
        /\ task'[u].tracer = NoSession /\ task'[u].child = NoTid
    BY <2>1, <1>t, DetachedFields
  <2> QED
    BY <1>n, <2>1, <2>2 DEF Sound, Born, Moves, Controls, Stopped
<1>3. CASE SetTask(t, Reaped(task[t], IsLeader(t))) /\ u = t
  <2>1. task'[u] = Reaped(task[u], IsLeader(u))
    BY <1>3, <1>t DEF SetTask
  <2>2. CASE task[u].st # "zombie"
    <3>1. /\ task'[u].st = task[u].st /\ task'[u].evt = FALSE
          /\ task'[u].trap = task[u].trap /\ task'[u].tracer = task[u].tracer
          /\ task'[u].child = task[u].child
      BY <2>1, <2>2, <1>t DEF Reaped, Task
    <3> QED
      BY <1>k, <3>1 DEF Sound, Born, Moves
  <2>3. CASE task[u].st = "zombie"
    <3>1. /\ task'[u].st \in {"zombie", "gone"} /\ task'[u].evt = FALSE
          /\ task'[u].trap = FALSE /\ task'[u].tracer = NoSession
          /\ task'[u].child = NoTid
      BY <2>1, <2>3, <1>t DEF Reaped, Untraced, Task
    <3> QED
      BY <1>n, <2>3, <3>1 DEF Sound, Born, Moves, Stopped
  <2> QED BY <2>2, <2>3
<1>4. CASE CanInterrupt(s, t) /\ SetTask(t, Interrupted(t)) /\ u = t
  <2>1. /\ task'[u].st = task[u].st /\ task'[u].evt = task[u].evt
        /\ task'[u].tracer = task[u].tracer /\ task'[u].child = task[u].child
    BY <1>4, <1>t DEF SetTask, Interrupted, Task
  <2> QED
    BY <1>4, <1>k, <1>n, <2>1 DEF Sound, Born, Moves, CanInterrupt
<1>5. CASE /\ task[t].st \in Live /\ ~Traced(t) /\ u = t
           /\ SetTask(t, [task[t] EXCEPT !.tracer = s, !.mode = "cont"])
  <2>1. /\ task'[u].st = task[u].st /\ task'[u].evt = task[u].evt
        /\ task'[u].tracer = s /\ task'[u].child = task[u].child
    BY <1>5, <1>t DEF SetTask, Task
  <2> QED
    BY <1>5, <1>k, <1>n, <2>1 DEF Sound, Born, Moves, Traced, Live, Stopped
<1> QED
  BY <1>0, <1>o, <1>1, <1>2, <1>3, <1>4, <1>5

LEMMA SessionStepEffect ==
  ASSUME TypeInv, NEW s \in Sessions, SessionStep(s), NEW r \in Sessions, NEW u \in Tids
  PROVE  Sound(task'[u]) /\ Born(u) /\ (r # s => Moves(r, u))
<1> USE DEF TypeInv
<1>c. Cur(s)
  BY DEF CurOK
<1>1. ASSUME NEW t \in Tids, Seize(s, t) \/ LoopReap(s, t) \/ DetachInterrupt(s, t)
      PROVE  Sound(task'[u]) /\ Born(u) /\ (r # s => Moves(r, u))
  BY <1>1, RequestEffect DEF Seize, LoopReap, DetachInterrupt
<1>2. CASE Interrupt(s)
  BY <1>2, <1>c, RequestEffect DEF Interrupt, Cur, At
<1>3. CASE WaitStop(s) \/ DetachWait(s)
  BY <1>3, <1>c, RequestEffect DEF WaitStop, DetachWait, WaitFor, Cur, At
<1>4. CASE Adopt(s) \/ HandleUntracked(s) \/ HandleNew(s) \/ HandleSyscall(s)
  BY <1>4, <1>c, RequestEffect
     DEF Adopt, HandleUntracked, HandleNew, HandleSyscall, AtSyscallStop, Cur, At
<1>5. CASE HandleClone(s) \/ HandleTrap(s) \/ HandleSignal(s)
  BY <1>5, <1>c, RequestEffect DEF HandleClone, HandleTrap, HandleSignal, Cur, At
<1>6. CASE Drop(s)
  BY <1>6, <1>c, RequestEffect DEF Drop, Cur, At
<1>7. CASE UNCHANGED task
  BY <1>7, RequestEffect
<1>8. CASE ConnExit(s)
  <2>1. task[u] \in Task /\ IsLeader(u) \in BOOLEAN /\ Sound(task[u]) /\ r # NoSession
    BY KernelAssumption DEF TypeOK, TaskTypeOK, IsLeader, KernelOK
  <2>2. CASE task[u].tracer # s
    <3>1. task'[u] = task[u]
      BY <1>8, <2>2 DEF ConnExit
    <3> QED
      BY <2>1, <3>1 DEF Born, Moves
  <2>3. CASE task[u].tracer = s
    <3> DEFINE n == Abandoned(task[u], IsLeader(u))
    <3>1. task'[u] = n
      BY <1>8, <2>3 DEF ConnExit
    <3>2. /\ n.tracer = NoSession /\ n.trap = FALSE /\ n.child = NoTid
          /\ \/ task[u].st \in Stopped /\ n.st = "run" /\ n.evt = FALSE
             \/ task[u].st = "zombie" /\ n.st \in {"zombie", "gone"} /\ n.evt = FALSE
             \/ task[u].st \notin Stopped \cup {"zombie"} /\ n.st = task[u].st
                /\ n.evt = task[u].evt
      BY <2>1, AbandonedFields
    <3> HIDE DEF n
    <3> QED
      BY <2>1, <2>3, <3>1, <3>2 DEF Sound, Born, Moves, Stopped
  <2> QED BY <2>2, <2>3
<1> QED
  BY <1>1, <1>2, <1>3, <1>4, <1>5, <1>6, <1>7, <1>8
     DEF SessionStep, AllSeized, Alloc, LoopPoll, LoopNoChild, HandleExited, WriteCb,
         DetachDone

\* The acting session: where it holds a thread, it has just reaped it.
LEMMA SessionStepSelf ==
  ASSUME TypeInv, NEW s \in Sessions, SessionStep(s)
  PROVE  Cur(s)' /\ Held(s)' /\ \A r \in Sessions \ {s} : sess'[r] = sess[r]
<1> USE DEF TypeInv, TypeOK
<1>s. sess[s] \in Session /\ sess \in [Sessions -> Session] /\ Cur(s) /\ Held(s)
  BY DEF CurOK, HeldOK
<1>t. \A t \in Tids : task[t] \in Task /\ IsLeader(t) \in BOOLEAN /\ Sound(task[t])
  BY DEF TaskTypeOK, IsLeader, KernelOK
<1>b. \A t \in Tids : task[t].st # "unborn" => task'[t].st # "unborn"
  BY SessionStepEffect DEF Born
<1> DEFINE Goal == Cur(s)' /\ Held(s)' /\ \A r \in Sessions \ {s} : sess'[r] = sess[r]
\* The session holds nothing after the step.
<1>f. ASSUME NEW m \in Session, SetSess(s, m),
             m.pc \in {"idle", "seize", "alloc", "loop", "detach", "exited"}
      PROVE  Goal
  BY <1>f, <1>s DEF SetSess, Cur, Held, Holding
\* The session has yet to wait for cur.
<1>w. ASSUME NEW m \in Session, SetSess(s, m), m.pc \in {"interrupt", "wait", "dwait"},
             m.cur \in Tids, task'[m.cur].st # "unborn"
      PROVE  Goal
  BY <1>w, <1>s DEF SetSess, Cur, Held, Holding
\* The session has reaped cur, or failed to.
<1>h. ASSUME NEW m \in Session, SetSess(s, m), m.pc \in Holding, m.cur \in Tids,
             task'[m.cur].st # "unborn",
             task'[m.cur].tracer = s => task'[m.cur].st \in {m.status, "zombie", "gone"}
      PROVE  Goal
  BY <1>h, <1>s DEF SetSess, Cur, Held, Holding
<1>1. ASSUME NEW t \in Tids, Seize(s, t)
      PROVE  Goal
  <2>1. CASE task[t].st \in Live /\ SetSess(s, [sess[s] EXCEPT !.pc = "interrupt", !.cur = t])
    <3> DEFINE m == [sess[s] EXCEPT !.pc = "interrupt", !.cur = t]
    <3>1. m \in Session /\ m.pc = "interrupt" /\ m.cur = t
      BY <1>s DEF Session, PC
    <3>2. task'[t].st # "unborn"
      BY <1>b, <2>1 DEF Live, Stopped
    <3> HIDE DEF m
    <3> QED
      BY <1>w, <2>1, <3>1, <3>2 DEF m
  <2> DEFINE m == [sess[s] EXCEPT !.cur = t]
  <2>2. m \in Session /\ m.pc = sess[s].pc
    BY <1>s DEF Session
  <2>3. /\ Retried(m) \in Session /\ NextThread(m) \in Session
        /\ NextThread(m).pc = "seize" /\ Retried(m).pc \in {"seize", m.pc}
    BY <2>2, RetriedType, NextThreadType DEF NextThread, Retried, Session
  <2>4. CASE SetSess(s, Retried(m)) \/ SetSess(s, NextThread(m))
    <3> HIDE DEF m
    <3> QED BY <1>1, <1>f, <2>2, <2>3, <2>4 DEF Seize, At
  <2> QED
    BY <1>1, <2>1, <2>4 DEF Seize
<1>2. CASE Interrupt(s)
  <2> DEFINE m == [sess[s] EXCEPT !.pc = "wait"]
  <2>1. /\ m \in Session /\ m.pc = "wait" /\ m.cur = sess[s].cur
        /\ NextThread(sess[s]) \in Session /\ NextThread(sess[s]).pc = "seize"
    BY <1>s, NextThreadType DEF Session, PC, NextThread
  <2>2. sess[s].cur \in Tids /\ task'[sess[s].cur].st # "unborn"
    BY <1>2, <1>s, <1>b DEF Interrupt, At, Cur
  <2>3. SetSess(s, m) \/ SetSess(s, NextThread(sess[s]))
    BY <1>2 DEF Interrupt
  <2> HIDE DEF m
  <2> QED
    BY <1>w, <1>f, <2>1, <2>2, <2>3
\* waitpid(cur) of the session, whatever it does next.
<1>p. ASSUME NEW m \in Session, m.pc \in Holding, m.cur = sess[s].cur, m.cur \in Tids,
             task[m.cur].st # "unborn",
             \/ /\ Waitable(m.cur) /\ m.status = task[m.cur].st
                /\ SetTask(m.cur, Reaped(task[m.cur], IsLeader(m.cur)))
             \/ ~Traced(m.cur) /\ UNCHANGED task,
             SetSess(s, m)
      PROVE  Goal
  <2>1. task'[m.cur].st # "unborn"
    BY <1>b, <1>p
  <2>2. CASE ~Traced(m.cur) /\ UNCHANGED task
    BY <1>h, <1>p, <2>1, <2>2, KernelAssumption DEF Traced
  <2>3. CASE /\ m.status = task[m.cur].st
             /\ SetTask(m.cur, Reaped(task[m.cur], IsLeader(m.cur)))
    <3>1. task'[m.cur] = Reaped(task[m.cur], IsLeader(m.cur))
      BY <1>p, <2>3 DEF SetTask, TaskTypeOK
    <3>2. task'[m.cur].st \in {task[m.cur].st, "gone"}
      BY <1>t, <1>p, <3>1 DEF Reaped, Untraced, Task
    <3> QED
      BY <1>h, <1>p, <2>1, <2>3, <3>2
  <2> QED BY <1>p, <2>2, <2>3
<1>3. CASE WaitStop(s) \/ DetachWait(s)
  <2> DEFINE t == sess[s].cur
             M(pc) == [sess[s] EXCEPT !.pc = pc]
             W(pc) == [M(pc) EXCEPT !.status = task[t].st]
  <2>1. t \in Tids /\ task[t].st # "unborn"
    BY <1>3, <1>s DEF WaitStop, DetachWait, At, Cur
  <2>2. ASSUME NEW pc \in Holding
        PROVE  /\ M(pc) \in Session /\ M(pc).pc = pc /\ M(pc).cur = t
               /\ Waitable(t) => W(pc) \in Session /\ W(pc).pc = pc /\ W(pc).cur = t
                                 /\ W(pc).status = task[t].st
    <3>1. M(pc) \in Session /\ M(pc).pc = pc /\ M(pc).cur = t
      BY <1>s, <2>2 DEF Holding, Session, PC
    <3>2. Waitable(t) => task[t].st \in Stopped \cup {"zombie"}
      BY <1>t, <2>1 DEF Waitable, Sound
    <3> HIDE DEF M
    <3> QED
      BY <3>1, <3>2 DEF Session
  <2>3. NextThread(sess[s]) \in Session /\ NextThread(sess[s]).pc = "seize"
    BY <1>s, NextThreadType DEF NextThread, Session
  <2>4. \/ /\ Waitable(t) /\ SetTask(t, Reaped(task[t], IsLeader(t)))
           /\ SetSess(s, W("adopt")) \/ SetSess(s, W("drop"))
        \/ /\ ~Traced(t) /\ UNCHANGED task
           /\ SetSess(s, NextThread(sess[s])) \/ SetSess(s, M("drop"))
    BY <1>3 DEF WaitStop, DetachWait, WaitFor
  <2> HIDE DEF M, W
  <2> QED
    BY <1>f, <1>p, <2>1, <2>2, <2>3, <2>4 DEF Holding
<1>4. ASSUME NEW t \in Tids, LoopReap(s, t)
      PROVE  Goal
  <2> DEFINE m == [sess[s] EXCEPT !.pc = "handle", !.cur = t, !.status = task[t].st]
  <2>1. task[t].st \in Stopped \cup {"zombie"}
    BY <1>4, <1>t DEF LoopReap, Waitable, Sound
  <2>2. m \in Session /\ m.pc = "handle" /\ m.cur = t /\ m.status = task[t].st
    BY <1>s, <2>1 DEF Session, PC
  <2>3. SetTask(t, Reaped(task[t], IsLeader(t))) /\ SetSess(s, m)
    BY <1>4 DEF LoopReap
  <2>4. task'[t] = Reaped(task[t], IsLeader(t))
    BY <2>3 DEF SetTask, TaskTypeOK
  <2>5. task'[t].st \in {task[t].st, "gone"} /\ task'[t].st # "unborn"
    BY <1>t, <2>1, <2>4 DEF Reaped, Untraced, Task, Stopped
  <2> HIDE DEF m
  <2> QED
    BY <1>h, <2>2, <2>3, <2>5 DEF Holding
<1>5. ASSUME NEW t \in Tids, DetachInterrupt(s, t)
      PROVE  Goal
  <2> DEFINE m == [sess[s] EXCEPT !.pc = "dwait", !.cur = t]
             n == [sess[s] EXCEPT !.todo = @ \ {t}]
  <2>1. /\ m \in Session /\ m.pc = "dwait" /\ m.cur = t
        /\ n \in Session /\ n.pc = sess[s].pc
    BY <1>s DEF Session, PC
  <2>2. \/ CanInterrupt(s, t) /\ SetSess(s, m)
        \/ SetSess(s, n) /\ sess[s].pc = "detach"
    BY <1>5 DEF DetachInterrupt, At
  <2>3. CanInterrupt(s, t) => task'[t].st # "unborn"
    BY <1>b, <1>t, KernelAssumption DEF CanInterrupt, Sound
  <2> HIDE DEF m, n
  <2> QED
    BY <1>w, <1>f, <2>1, <2>2, <2>3
\* The other steps leave the session with nothing in its hands.
<1>n. \A m \in Session :
        /\ NextThread(m) \in Session /\ NextThread(m).pc = "seize"
        /\ Back(m) \in Session /\ Back(m).pc = "loop"
        /\ \A rc \in {"ok", "error"} :
             Returned(m, rc) \in Session /\ Returned(m, rc).pc = "idle"
        /\ \A t \in Tids : /\ Tracked(m, t) \in Session /\ Tracked(m, t).pc = m.pc
                           /\ remove_tid(m, t) \in Session
  <2>1. \A m \in Session : NextThread(m).pc = "seize" /\ Back(m).pc = "loop"
    BY DEF NextThread, Back, Session
  <2>2. \A m \in Session : \A rc \in {"ok", "error"} : Returned(m, rc).pc = "idle"
    BY DEF Returned, Session
  <2>3. \A m \in Session : \A t \in Tids : Tracked(m, t).pc = m.pc
    BY DEF Tracked, Session
  <2> QED
    BY <2>1, <2>2, <2>3, NextThreadType, BackType, ReturnedType, TrackedType
<1>c. sess[s].pc \in Holding => sess[s].cur \in Tids
  BY <1>s DEF Cur, Holding
<1>6. CASE Adopt(s) \/ AllSeized(s)
  <2>1. [sess[s] EXCEPT !.pc = "alloc"] \in Session
        /\ [sess[s] EXCEPT !.pc = "alloc"].pc = "alloc"
    BY <1>s DEF Session, PC
  <2> QED
    BY <1>6, <1>f, <1>n, <1>s, <1>c, <2>1 DEF Adopt, AllSeized, At, Holding
<1>7. CASE Alloc(s) \/ LoopPoll(s)
  <2> DEFINE c == IF sess[s].client = "stop" THEN "open" ELSE sess[s].client
             a == [sess[s] EXCEPT !.pc = "loop"]
             b == [sess[s] EXCEPT !.pc = "detach", !.todo = sess[s].tids, !.rc = "error"]
             d == [sess[s] EXCEPT !.pc = "detach", !.todo = sess[s].tids, !.client = c]
  <2>1. c \in {"open", "stop", "closed"}
    BY <1>s DEF Session
  <2>2. SetSess(s, a) \/ SetSess(s, b) \/ SetSess(s, d)
    BY <1>7 DEF Alloc, LoopPoll
  <2> HIDE DEF c
  <2>3. /\ a \in Session /\ a.pc = "loop" /\ b \in Session /\ b.pc = "detach"
        /\ d \in Session /\ d.pc = "detach"
    BY <1>s, <2>1 DEF Session, PC
  <2> HIDE DEF a, b, d
  <2> QED
    BY <1>f, <2>2, <2>3
<1>8. CASE LoopNoChild(s) \/ HandleExited(s) \/ DetachDone(s)
  BY <1>8, <1>f, <1>n, <1>s, <1>c
     DEF LoopNoChild, HandleExited, DetachDone, At, Holding
<1>9. CASE HandleUntracked(s) \/ HandleNew(s) \/ HandleTrap(s) \/ HandleSignal(s)
  BY <1>9, <1>f, <1>n, <1>s, <1>c
     DEF HandleUntracked, HandleNew, HandleTrap, HandleSignal, At, Holding
<1>10. CASE HandleSyscall(s)
  <2>1. Toggled(s, sess[s].cur) \in Session
    BY <1>10, <1>s, <1>c DEF HandleSyscall, AtSyscallStop, At, Holding, Toggled, Session
  <2> QED
    BY <1>10, <1>f, <1>n, <2>1 DEF HandleSyscall
<1>11. CASE HandleClone(s)
  <2> DEFINE t == sess[s].cur
  <2>1. t \in Tids /\ sess[s].pc \in Holding /\ sess[s].status = "clone"
    BY <1>11, <1>c DEF HandleClone, At, Holding
  <2>2. Controls(s, t) => task[t].child \in Tids
    BY <1>s, <1>t, <2>1 DEF Controls, Held, Sound, Stopped
  <2>3. \/ SetSess(s, Back(sess[s]))
        \/ Controls(s, t) /\ SetSess(s, Tracked(Back(sess[s]), task[t].child))
    BY <1>11 DEF HandleClone
  <2>4. Back(sess[s]) \in Session /\ Back(sess[s]).pc = "loop"
    BY <1>n, <1>s
  <2>5. Controls(s, t) => /\ Tracked(Back(sess[s]), task[t].child) \in Session
                          /\ Tracked(Back(sess[s]), task[t].child).pc = "loop"
    BY <1>n, <2>2, <2>4
  <2> QED
    BY <1>f, <2>3, <2>4, <2>5
<1>12. CASE Drop(s) \/ ConnExit(s)
  <2> DEFINE a == [sess[s] EXCEPT !.pc = "detach", !.todo = @ \ {sess[s].cur},
                                  !.cur = NoTid, !.status = "none"]
             b == [sess[s] EXCEPT !.pc = "exited"]
  <2>1. a \in Session /\ a.pc = "detach" /\ b \in Session /\ b.pc = "exited"
    BY <1>s DEF Session, PC, Stopped
  <2>2. SetSess(s, a) \/ SetSess(s, b)
    BY <1>12 DEF Drop, ConnExit
  <2> HIDE DEF a, b
  <2> QED
    BY <1>f, <2>1, <2>2
\* write_cb: the session keeps what it has reaped.
<1>13. CASE WriteCb(s)
  <2> DEFINE m == [sess[s] EXCEPT !.sending = TRUE]
  <2>1. /\ m \in Session /\ m.pc = sess[s].pc /\ m.cur = sess[s].cur
        /\ m.status = sess[s].status
    BY <1>s DEF Session
  <2>2. SetSess(s, m) /\ UNCHANGED task /\ sess[s].pc = "handle"
    BY <1>13 DEF WriteCb, AtSyscallStop, At
  <2>3. sess[s].cur \in Tids /\ task[sess[s].cur].st # "unborn"
    BY <1>s, <2>2 DEF Cur
  <2> HIDE DEF m
  <2> QED
    BY <1>h, <1>s, <2>1, <2>2, <2>3 DEF Held, Holding
<1> QED
  BY <1>1, <1>2, <1>3, <1>4, <1>5, <1>6, <1>7, <1>8, <1>9, <1>10, <1>11, <1>12, <1>13
     DEF SessionStep

----------------------------------------------------------------------------
(* Type correctness of every reachable state. *)

LEMMA InitTypeInv == Init => TypeInv
<1> SUFFICES ASSUME Init PROVE TypeInv
  OBVIOUS
<1>1. /\ \A t \in Tids : /\ task[t].st \in {"run", "unborn"} /\ task[t].evt = FALSE
                         /\ task[t].trap = FALSE /\ task[t].child = NoTid
                         /\ task[t].tracer = NoSession
      /\ \A s \in Sessions : sess[s].pc = "idle"
  BY DEF Init, KernelInit
<1>2. KernelOK
  BY <1>1 DEF KernelOK, Sound, Stopped
<1> QED
  BY <1>1, <1>2, InitType DEF TypeInv, CurOK, HeldOK, Cur, Held, Holding

LEMMA TypeInvStep ==
  ASSUME TypeInv, [Next]_vars
  PROVE  TypeInv'
<1> USE DEF TypeInv
\* A session that does not act keeps its hold if its thread moves as it may.
<1>o. ASSUME NEW r \in Sessions, sess'[r] = sess[r],
             \A u \in Tids : Born(u) /\ Moves(r, u)
      PROVE  Cur(r)' /\ Held(r)'
  <2>1. Cur(r) /\ Held(r) /\ sess[r] \in Session
    BY DEF CurOK, HeldOK, TypeOK
  <2>2. Cur(r)'
    BY <1>o, <2>1 DEF Cur, Born
  <2>3. ASSUME sess[r].pc \in Holding, task'[sess[r].cur].tracer = r
        PROVE  task'[sess[r].cur].st \in {sess[r].status, "zombie", "gone"}
    <3>1. sess[r].cur \in Tids /\ task[sess[r].cur].st # "unborn"
      BY <2>1, <2>3 DEF Cur, Holding
    <3>2. task[sess[r].cur].tracer = r
      BY <1>o, <2>3, <3>1 DEF Moves
    <3>3. task[sess[r].cur].st \in {sess[r].status, "zombie", "gone"}
      BY <2>1, <2>3, <3>2 DEF Held
    <3>4. task[sess[r].cur].st \in Stopped \cup {"zombie", "gone"}
      BY <2>1, <3>1, <3>3 DEF Session, Task, TypeOK, TaskTypeOK, Live
    <3> QED
      BY <1>o, <3>1, <3>2, <3>3, <3>4 DEF Moves
  <2> QED
    BY <1>o, <2>2, <2>3 DEF Held
<1>1. ASSUME NEW t \in Tids, ThreadStep(t), UNCHANGED sess
      PROVE  TypeInv'
  <2>1. TypeOK'
    BY <1>1, ThreadStepType DEF TypeOK
  <2>2. \A r \in Sessions, u \in Tids : Born(u) /\ Moves(r, u)
    BY <1>1, ThreadStepEffect
  <2>3. KernelOK'
    BY <1>1, ThreadStepEffect DEF KernelOK
  <2> QED
    BY <1>1, <1>o, <2>1, <2>2, <2>3 DEF CurOK, HeldOK
<1>2. ASSUME NEW s \in Sessions, SessionStep(s)
      PROVE  TypeInv'
  <2>1. TypeOK'
    BY <1>2, SessionStepType
  <2>2. KernelOK'
    BY <1>2, SessionStepEffect DEF KernelOK
  <2>3. Cur(s)' /\ Held(s)' /\ \A r \in Sessions \ {s} : sess'[r] = sess[r]
    BY <1>2, SessionStepSelf
  <2>4. \A r \in Sessions \ {s} : \A u \in Tids : Born(u) /\ Moves(r, u)
    BY <1>2, SessionStepEffect
  <2> QED
    BY <1>o, <2>1, <2>2, <2>3, <2>4 DEF CurOK, HeldOK
<1>3. ASSUME NEW s \in Sessions, ClientStep(s)
      PROVE  TypeInv'
  <2>1. TypeOK'
    BY <1>3, ClientStepType
  <2>2. UNCHANGED task /\ \A r \in Sessions \ {s} : sess'[r] = sess[r]
    BY <1>3 DEF ClientStep, ClientStop, ClientClose, Stream, SetSess, TypeOK
  <2>3. KernelOK'
    BY <2>2 DEF KernelOK
  <2>4. Cur(s)' /\ Held(s)'
    <3>1. sess[s] \in Session /\ sess \in [Sessions -> Session] /\ Cur(s) /\ Held(s)
      BY DEF TypeOK, CurOK, HeldOK
    <3>2. CASE ClientStop(s) \/ ClientClose(s)
      <4>1. /\ sess'[s].pc = sess[s].pc /\ sess'[s].cur = sess[s].cur
            /\ sess'[s].status = sess[s].status
        BY <3>1, <3>2 DEF ClientStop, ClientClose, Session
      <4> QED
        BY <2>2, <3>1, <4>1 DEF Cur, Held
    <3>3. ASSUME NEW pid \in Tids, Stream(s, pid)
          PROVE  sess'[s].pc \in {"idle", "seize"}
      <4> DEFINE m == [sess[s] EXCEPT !.pid = pid]
                 N(D) == [sess[s] EXCEPT !.pc = "seize", !.pid = pid, !.todo = D,
                                         !.rc = "none"]
      <4>1. m \in Session
        BY <3>1 DEF Session
      <4>2. Returned(m, "error").pc = "idle" /\ \A D : N(D).pc = "seize"
        BY <3>1, <4>1 DEF Returned, Session
      <4>3. SetSess(s, Returned(m, "error")) \/ \E D : SetSess(s, N(D))
        BY <3>3 DEF Stream
      <4> HIDE DEF m, N
      <4> QED
        BY <3>1, <4>2, <4>3 DEF SetSess
    <3> QED
      BY <1>3, <3>2, <3>3 DEF ClientStep, Cur, Held, Holding
  <2> QED
    BY <1>o, <2>1, <2>2, <2>3, <2>4 DEF CurOK, HeldOK, Born, Moves
<1>4. CASE UNCHANGED vars
  BY <1>4 DEF vars, TypeOK, TaskTypeOK, KernelOK, CurOK, HeldOK, Cur, Held
<1> QED
  BY <1>1, <1>2, <1>3, <1>4 DEF Next

\* Every variable keeps its type in every reachable state, for any threads,
\* sessions, table size and number of attempts.
THEOREM TypeCorrect == Spec => []TypeOK
<1>1. TypeInv /\ [Next]_vars => TypeInv'
  BY TypeInvStep
<1>2. TypeInv => TypeOK
  BY DEF TypeInv
<1> QED
  BY InitTypeInv, <1>1, <1>2, PTL DEF Spec

----------------------------------------------------------------------------
(* A daemon with one connection never forgets a reaped stop. *)

\* The connection thread between two calls of waitpid owns no reaped stop; after
\* one it owns exactly the stop of cur.
LEMMA SingleSessionStep ==
  ASSUME TypeInv, NEW s \in Sessions, Sessions = {s}, NoOrphanStop, SessionStep(s)
  PROVE  NoOrphanStop'
<1> USE DEF TypeInv
<1>n. s # NoSession
  BY KernelAssumption
<1>k. \A u \in Tids : /\ task[u] \in Task /\ Sound(task[u])
                      /\ task[u].tracer \in {s, NoSession} /\ IsLeader(u) \in BOOLEAN
  BY DEF TypeOK, TaskTypeOK, KernelOK, Task, IsLeader
<1>s. sess \in [Sessions -> Session] /\ task \in [Tids -> Task] /\ Cur(s) /\ Held(s)
  BY DEF TypeOK, TaskTypeOK, CurOK, HeldOK
<1> DEFINE Reap(u) == task[u].st \in Stopped /\ ~task[u].evt
\* Between two calls of waitpid every stop is still to be reaped.
<1>f. sess[s].pc \notin Holding => \A u \in Tids : ~Reap(u)
  BY DEF NoOrphanStop, Holding
<1>h. \A u \in Tids : Reap(u) => u = sess[s].cur /\ task[u].tracer = s
  BY DEF NoOrphanStop
<1> SUFFICES ASSUME NEW u \in Tids, task'[u].st \in Stopped, ~task'[u].evt
             PROVE  /\ task'[u].tracer = s /\ sess'[s].cur = u
                    /\ sess'[s].pc \in Holding
  BY DEF NoOrphanStop, Holding
<1> DEFINE Goal == task'[u].tracer = s /\ sess'[s].cur = u /\ sess'[s].pc \in Holding
<1>u. Reap(u) \/ task'[u].st # task[u].st \/ task'[u].evt # task[u].evt
  OBVIOUS
\* The session resumes or detaches the thread it holds.
<1>a. ASSUME NEW k, Ptrace(s, sess[s].cur, k), k.st = "run", sess[s].cur \in Tids
      PROVE  FALSE
  <2>1. CASE u # sess[s].cur
    BY <1>a, <1>h, <1>s, <2>1 DEF Ptrace, SetTask
  <2>2. CASE u = sess[s].cur /\ Controls(s, u)
    BY <1>a, <1>s, <2>2 DEF Ptrace, SetTask, Stopped
  <2>3. CASE u = sess[s].cur /\ ~Controls(s, u)
    <3>1. task'[u] = task[u]
      BY <1>a, <1>s, <2>3 DEF Ptrace, SetTask
    <3> QED
      BY <1>h, <2>3, <3>1 DEF Controls
  <2> QED BY <2>1, <2>2, <2>3
\* The session reaps a thread.
<1>b. ASSUME NEW t \in Tids, sess[s].pc \notin Holding, Waitable(t),
             SetTask(t, Reaped(task[t], IsLeader(t))), sess'[s].cur = t,
             sess'[s].pc \in Holding
      PROVE  Goal
  <2>1. u = t
    BY <1>b, <1>f, <1>s DEF SetTask
  <2>2. task'[u] = Reaped(task[u], IsLeader(u))
    BY <1>b, <1>s, <2>1 DEF SetTask
  <2>3. task[u].st # "zombie"
    <3> SUFFICES ASSUME task[u].st = "zombie" PROVE FALSE
      OBVIOUS
    <3>1. task'[u].st \in {"zombie", "gone"}
      BY <1>k, <2>2 DEF Reaped, Untraced, Task
    <3> QED
      BY <3>1 DEF Stopped
  <2>4. task'[u].tracer = task[u].tracer
    BY <1>k, <2>2, <2>3 DEF Reaped, Task
  <2> QED
    BY <1>b, <1>k, <2>1, <2>4 DEF Waitable, Traced
\* The session changes nothing that tells whether a thread is stopped.
<1>c. ASSUME sess[s].pc \notin Holding, task'[u].st = task[u].st, task'[u].evt = task[u].evt
      PROVE  FALSE
  BY <1>c, <1>f
<1>1. ASSUME NEW t \in Tids, Seize(s, t)
      PROVE  Goal
  <2>1. task'[u].st = task[u].st /\ task'[u].evt = task[u].evt
    <3>1. CASE UNCHANGED task
      BY <3>1
    <3>2. CASE SetTask(t, [task[t] EXCEPT !.tracer = s, !.mode = "cont"])
      <4>1. CASE u = t
        BY <1>s, <1>k, <3>2, <4>1 DEF SetTask, Task
      <4>2. CASE u # t
        BY <1>s, <3>2, <4>2 DEF SetTask
      <4> QED BY <4>1, <4>2
    <3> QED
      BY <1>1, <3>1, <3>2 DEF Seize
  <2> QED
    BY <1>1, <1>c, <2>1 DEF Seize, At, Holding
<1>2. CASE Interrupt(s)
  <2>1. task'[u].st = task[u].st /\ task'[u].evt = task[u].evt
    BY <1>2, <1>s, <1>k DEF Interrupt, Interrupted, SetTask, Task
  <2> QED
    BY <1>2, <1>c, <2>1 DEF Interrupt, At, Holding
<1>3. ASSUME NEW t \in Tids, DetachInterrupt(s, t)
      PROVE  Goal
  <2>1. task'[u].st = task[u].st /\ task'[u].evt = task[u].evt
    BY <1>3, <1>s, <1>k DEF DetachInterrupt, Interrupted, SetTask, Task
  <2> QED
    BY <1>3, <1>c, <2>1 DEF DetachInterrupt, At, Holding
<1>4. CASE WaitStop(s) \/ DetachWait(s)
  <2>1. sess[s].pc \notin Holding /\ sess[s].cur \in Tids
    BY <1>4, <1>s DEF WaitStop, DetachWait, At, Cur, Holding
  <2>2. CASE UNCHANGED task
    BY <1>c, <2>1, <2>2
  <2>3. ASSUME NEW pc \in Holding, Waitable(sess[s].cur),
               SetTask(sess[s].cur, Reaped(task[sess[s].cur], IsLeader(sess[s].cur))),
               SetSess(s, [[sess[s] EXCEPT !.pc = pc]
                             EXCEPT !.status = task[sess[s].cur].st])
        PROVE  Goal
    <3>1. sess'[s].cur = sess[s].cur /\ sess'[s].pc = pc
      BY <1>s, <2>3 DEF SetSess, Session
    <3> QED
      BY <1>b, <2>1, <2>3, <3>1
  <2> QED
    BY <1>4, <2>2, <2>3 DEF WaitStop, DetachWait, WaitFor, Holding
<1>5. ASSUME NEW t \in Tids, LoopReap(s, t)
      PROVE  Goal
  <2>1. sess'[s].cur = t /\ sess'[s].pc = "handle" /\ sess[s].pc = "loop"
    BY <1>5, <1>s DEF LoopReap, SetSess, Session, At
  <2> QED
    BY <1>5, <1>b, <2>1 DEF LoopReap, Holding
<1>6. CASE \/ Adopt(s) \/ HandleUntracked(s) \/ HandleNew(s) \/ HandleSyscall(s)
           \/ HandleClone(s) \/ HandleTrap(s) \/ HandleSignal(s) \/ Drop(s)
  <2>1. sess[s].cur \in Tids
    BY <1>6, <1>s DEF Adopt, HandleUntracked, HandleNew, HandleSyscall, AtSyscallStop,
                      HandleClone, HandleTrap, HandleSignal, Drop, At, Cur
  <2>2. /\ \A m, inject : Resumed(task[sess[s].cur], m, inject).st = "run"
        /\ Detached(task[sess[s].cur]).st = "run"
    BY <1>k, <2>1, DetachedFields DEF Resumed, Task
  <2>3. \/ \E m, inject : Ptrace(s, sess[s].cur, Resumed(task[sess[s].cur], m, inject))
        \/ Ptrace(s, sess[s].cur, Detached(task[sess[s].cur]))
    BY <1>6 DEF Adopt, HandleUntracked, HandleNew, HandleSyscall, HandleClone,
                HandleTrap, HandleSignal, Drop
  <2> QED
    BY <1>a, <2>1, <2>2, <2>3
\* In write_cb the stop stays in the session's hands.
<1>7. CASE WriteCb(s)
  <2>1. /\ UNCHANGED task /\ sess[s].pc = "handle"
        /\ SetSess(s, [sess[s] EXCEPT !.sending = TRUE])
    BY <1>7 DEF WriteCb, AtSyscallStop, At
  <2>2. sess'[s].pc = "handle" /\ sess'[s].cur = sess[s].cur
    BY <1>s, <2>1 DEF SetSess, Session
  <2> QED
    BY <1>h, <2>1, <2>2 DEF Holding
<1>8. CASE HandleExited(s)
  <2>1. UNCHANGED task /\ sess[s].pc = "handle" /\ sess[s].status = "zombie"
    BY <1>8 DEF HandleExited, At
  <2> QED
    BY <1>h, <1>s, <2>1 DEF Held, Holding, Stopped
<1>9. CASE AllSeized(s) \/ Alloc(s) \/ LoopPoll(s) \/ LoopNoChild(s) \/ DetachDone(s)
  BY <1>9, <1>c DEF AllSeized, Alloc, LoopPoll, LoopNoChild, DetachDone, At, Holding
<1>10. CASE ConnExit(s)
  <2>0. sess[s].pc \notin Holding
    BY <1>10 DEF ConnExit, At, Holding
  <2>1. CASE task[u].tracer # s
    BY <1>10, <1>c, <2>0, <2>1 DEF ConnExit
  <2>2. CASE task[u].tracer = s
    <3> DEFINE n == Abandoned(task[u], IsLeader(u))
    <3>1. task'[u] = n
      BY <1>10, <2>2 DEF ConnExit
    <3>2. \/ n.st \in {"run", "zombie", "gone"}
          \/ n.st = task[u].st /\ n.evt = task[u].evt
      BY <1>k, AbandonedFields
    <3> HIDE DEF n
    <3> QED
      BY <1>c, <2>0, <3>1, <3>2 DEF Stopped
  <2> QED BY <2>1, <2>2
<1> QED
  BY <1>1, <1>2, <1>3, <1>4, <1>5, <1>6, <1>7, <1>8, <1>9, <1>10 DEF SessionStep

\* With one connection, waitpid never takes a stop whose thread is then left
\* frozen: whoever is in a reaped stop is about to be resumed by its tracer.
\* (MCTracer_two.cfg shows that a second connection breaks this.)
THEOREM OneSessionNoOrphan ==
  ASSUME NEW CONSTANT s, Sessions = {s}
  PROVE  Spec => []NoOrphanStop
<1>1. Init => NoOrphanStop
  BY DEF Init, KernelInit, NoOrphanStop, Stopped
<1>2. ASSUME TypeInv, NoOrphanStop, [Next]_vars
      PROVE  NoOrphanStop'
  <2>1. ASSUME NEW t \in Tids, ThreadStep(t), UNCHANGED sess
        PROVE  NoOrphanStop'
    <3>1. \A u \in Tids : NoNewReaped(u)
      BY <1>2, <2>1, ThreadStepEffect DEF TypeInv
    <3> QED
      BY <1>2, <2>1, <3>1 DEF NoOrphanStop, NoNewReaped
  <2>2. CASE SessionStep(s)
    BY <1>2, <2>2, SingleSessionStep
  <2>3. CASE ClientStep(s)
    <3>1. sess[s] \in Session /\ sess \in [Sessions -> Session]
      BY <1>2 DEF TypeInv, TypeOK
    <3>2. UNCHANGED task
      BY <2>3 DEF ClientStep, ClientStop, ClientClose, Stream
    <3>3. CASE ClientStop(s) \/ ClientClose(s)
      <4>1. sess'[s].pc = sess[s].pc /\ sess'[s].cur = sess[s].cur
        BY <3>1, <3>3 DEF ClientStop, ClientClose, Session
      <4> QED
        BY <1>2, <3>2, <4>1 DEF NoOrphanStop
    <3>4. CASE \E t \in Tids : Stream(s, t)
      <4>1. sess[s].pc = "idle"
        BY <3>4 DEF Stream, At
      <4>2. \A t \in Tids : ~(task[t].st \in Stopped /\ ~task[t].evt)
        BY <1>2, <4>1 DEF NoOrphanStop
      <4> QED
        BY <3>2, <4>2 DEF NoOrphanStop
    <3> QED
      BY <2>3, <3>3, <3>4 DEF ClientStep
  <2>4. CASE UNCHANGED vars
    BY <1>2, <2>4 DEF vars, NoOrphanStop
  <2> QED
    BY <1>2, <2>1, <2>2, <2>3, <2>4 DEF Next
<1>3. TypeInv /\ [Next]_vars => TypeInv'
  BY TypeInvStep
<1> QED
  BY <1>1, <1>2, <1>3, InitTypeInv, PTL DEF Spec

----------------------------------------------------------------------------
(* The session's table, label by label. *)

Attaching == {"seize", "interrupt", "wait", "adopt"}
Detaching == {"detach", "dwait", "drop"}

Fits(S) == Cardinality(S) <= MaxTracked

\* The locals of hsed_trace_fd, label by label.  While threads are being seized
\* those in tids[] and those still to come fit into the table together: that is
\* why find_or_add_tid always has room for a thread of the seizing loop.
LocalsOK(m) ==
  /\ m.pc \in {"idle", "exited"} => m.tids = {} /\ m.todo = {}
  /\ m.pc \in Attaching => m.tids \cap m.todo = {} /\ Fits(m.tids \cup m.todo)
  /\ m.pc \in Attaching \ {"seize"} => m.cur \in m.todo
  /\ m.pc \in Attaching \cup {"alloc"} => m.capt = {}
  /\ m.pc \in {"alloc", "loop", "handle"} => m.tids # {}
  /\ m.pc \in Detaching => m.todo \subseteq m.tids
  /\ m.pc \in Detaching \ {"detach"} => m.cur \in m.todo
  /\ m.capt \subseteq m.tids
  /\ Fits(m.tids)

TablesOK == \A s \in Sessions : LocalsOK(sess[s])

\* A session record as StreamService sees it.
Phase(m) ==
  CASE m.pc \in {"idle", "exited"} -> "idle"
    [] m.pc \in {"loop", "handle"} -> "streaming"
    [] m.pc \in Detaching -> "closing"
    [] OTHER -> "attaching"
Watched(m) == IF Phase(m) \in {"streaming", "closing"} THEN m.tids ELSE {}
Writing(m) == IF Phase(m) \in {"streaming", "closing"} THEN m.capt ELSE {}

Shows(m, p, w, c) == Phase(m) = p /\ Watched(m) = w /\ Writing(m) = c

\* The steps of StreamService, on one record.
Promised(m, n) ==
  \/ Shows(n, Phase(m), Watched(m), Writing(m))
  \/ Phase(m) = "idle" /\ Shows(n, "attaching", {}, {})
  \/ Phase(m) = "attaching" /\ Shows(n, "idle", {}, {})
  \/ /\ Phase(m) = "attaching"
     /\ \E W \in SUBSET Tids, p \in {"streaming", "closing"} : W # {} /\ Shows(n, p, W, {})
  \/ /\ Phase(m) = "streaming"
     /\ \E t \in Tids :
          \/ t \notin Watched(m) /\ Shows(n, "streaming", Watched(m) \cup {t}, Writing(m))
          \/ /\ t \in Watched(m) /\ Watched(m) # {t}
             /\ Shows(n, "streaming", Watched(m) \ {t}, Writing(m) \ {t})
          \/ /\ t \in Watched(m) \ Writing(m)
             /\ Shows(n, "streaming", Watched(m), Writing(m) \cup {t})
          \/ t \in Writing(m) /\ Shows(n, "streaming", Watched(m), Writing(m) \ {t})
  \/ Phase(m) = "streaming" /\ Shows(n, "closing", Watched(m), Writing(m))
  \/ Phase(m) \in {"streaming", "closing"} /\ Shows(n, "idle", {}, {})

Follows(m, n) == n \in Session /\ LocalsOK(n) /\ Promised(m, n)

----------------------------------------------------------------------------
(* The size of the table *)

LEMMA FitsSubset ==
  ASSUME NEW T \in SUBSET Tids, NEW S \in SUBSET T, Fits(T)
  PROVE  Fits(S)
<1>1. IsFiniteSet(T)
  BY KernelAssumption, FS_Subset
<1>2. Cardinality(S) <= Cardinality(T) /\ IsFiniteSet(S)
  BY <1>1, FS_Subset
<1>3. Cardinality(S) \in Nat /\ Cardinality(T) \in Nat
  BY <1>1, <1>2, FS_CardinalityType
<1> QED
  BY <1>2, <1>3, TracerAssumption DEF Fits

LEMMA FitsAdd ==
  ASSUME NEW S \in SUBSET Tids, NEW t \in Tids, Cardinality(S) < MaxTracked
  PROVE  Fits(S \cup {t})
<1>1. IsFiniteSet(S)
  BY KernelAssumption, FS_Subset
<1>2. Cardinality(S) \in Nat
  BY <1>1, FS_CardinalityType
<1>3. \/ Cardinality(S \cup {t}) = Cardinality(S)
      \/ Cardinality(S \cup {t}) = Cardinality(S) + 1
  BY <1>1, FS_AddElement
<1> QED
  BY <1>2, <1>3, TracerAssumption DEF Fits

LEMMA FitsEmpty == Fits({})
BY FS_EmptySet, TracerAssumption DEF Fits

\* The thread the seizing loop has in hand has its place in the table.
LEMMA RoomToAdopt ==
  ASSUME NEW m \in Session, LocalsOK(m), m.pc \in Attaching \ {"seize"}, m.cur \in Tids
  PROVE  HasRoom(m)
<1>1. /\ m.tids \in SUBSET Tids /\ m.todo \in SUBSET Tids /\ m.cur \in m.todo
      /\ m.cur \notin m.tids /\ Fits(m.tids \cup m.todo)
  BY DEF LocalsOK, Session
<1>2. Fits(m.tids \cup {m.cur})
  BY <1>1, FitsSubset
<1>3. IsFiniteSet(m.tids)
  BY <1>1, KernelAssumption, FS_Subset
<1>4. Cardinality(m.tids) \in Nat /\ Cardinality(m.tids \cup {m.cur}) = Cardinality(m.tids) + 1
  BY <1>1, <1>3, FS_CardinalityType, FS_AddElement
<1> QED
  BY <1>2, <1>4, TracerAssumption DEF Fits, HasRoom

----------------------------------------------------------------------------
(* The operators on a session record, field by field. *)

LEMMA ReturnedFields ==
  ASSUME NEW m \in Session, NEW rc \in {"ok", "error"}
  PROVE  /\ Returned(m, rc).pc = "idle" /\ Returned(m, rc).tids = {}
         /\ Returned(m, rc).todo = {} /\ Returned(m, rc).capt = {}
BY DEF Returned, Session

LEMMA NextThreadFields ==
  ASSUME NEW m \in Session
  PROVE  /\ NextThread(m).pc = "seize" /\ NextThread(m).cur = NoTid
         /\ NextThread(m).todo = m.todo \ {m.cur} /\ NextThread(m).tids = m.tids
         /\ NextThread(m).insys = m.insys /\ NextThread(m).capt = m.capt
         /\ NextThread(m).skew = m.skew
BY DEF NextThread, Session

LEMMA TrackedFields ==
  ASSUME NEW m \in Session, NEW t \in Tids
  PROVE  /\ Tracked(m, t).pc = m.pc /\ Tracked(m, t).cur = m.cur
         /\ Tracked(m, t).todo = m.todo /\ Tracked(m, t).tids = m.tids \cup {t}
         /\ Tracked(m, t).insys = m.insys \ {t} /\ Tracked(m, t).capt = m.capt \ {t}
         /\ Tracked(m, t).skew = IF m.status \in {"clone", "enter"} THEN m.skew \cup {t}
                                 ELSE m.skew \ {t}
BY DEF Tracked, Session

LEMMA RemovedFields ==
  ASSUME NEW m \in Session, NEW t \in Tids
  PROVE  /\ remove_tid(m, t).pc = m.pc /\ remove_tid(m, t).cur = m.cur
         /\ remove_tid(m, t).todo = m.todo /\ remove_tid(m, t).tids = m.tids \ {t}
         /\ remove_tid(m, t).insys = m.insys \ {t}
         /\ remove_tid(m, t).capt = m.capt \ {t} /\ remove_tid(m, t).skew = m.skew \ {t}
BY DEF remove_tid, Session

LEMMA BackFields ==
  ASSUME NEW m \in Session
  PROVE  /\ Back(m).pc = "loop" /\ Back(m).cur = NoTid /\ Back(m).status = "none"
         /\ Back(m).todo = m.todo /\ Back(m).tids = m.tids /\ Back(m).insys = m.insys
         /\ Back(m).capt = m.capt /\ Back(m).skew = m.skew
BY DEF Back, Session

LEMMA PhaseFacts ==
  ASSUME NEW m
  PROVE  /\ m.pc \in {"idle", "exited"} => Phase(m) = "idle"
         /\ m.pc \in {"loop", "handle"} => Phase(m) = "streaming"
         /\ m.pc \in Detaching => Phase(m) = "closing"
         /\ m.pc \in Attaching \cup {"alloc"} => Phase(m) = "attaching"
         /\ Phase(m) \in {"idle", "attaching", "streaming", "closing"}
BY DEF Phase, Attaching, Detaching

\* A step that leaves the tables of a session alone is seen by nobody.
LEMMA SamePhase ==
  ASSUME NEW m, NEW n, Phase(n) = Phase(m), n.tids = m.tids, n.capt = m.capt
  PROVE  Promised(m, n)
BY DEF Promised, Shows, Watched, Writing

\* hsed_trace_fd returns.
LEMMA ReturnFollows ==
  ASSUME NEW m \in Session, NEW p \in Session, NEW rc \in {"ok", "error"}
  PROVE  Follows(m, Returned(p, rc))
<1> DEFINE n == Returned(p, rc)
<1>1. n \in Session /\ n.pc = "idle" /\ n.tids = {} /\ n.todo = {} /\ n.capt = {}
  BY ReturnedType, ReturnedFields
<1> HIDE DEF n
<1>2. LocalsOK(n)
  BY <1>1, FitsEmpty DEF LocalsOK, Attaching, Detaching
<1>3. Shows(n, "idle", {}, {})
  BY <1>1, PhaseFacts DEF Shows, Watched, Writing
<1>4. Phase(m) \in {"idle", "attaching", "streaming", "closing"}
  BY PhaseFacts
<1>5. Phase(m) = "idle" => Watched(m) = {} /\ Writing(m) = {}
  BY DEF Watched, Writing
<1>6. Promised(m, n)
  <2>1. Phase(m) = "idle" => Shows(n, Phase(m), Watched(m), Writing(m))
    BY <1>3, <1>5
  <2> QED
    BY <1>3, <1>4, <2>1 DEF Promised
<1> QED
  BY <1>1, <1>2, <1>6 DEF Follows, n

\* The seizing loop goes on with the next thread.
LEMMA NextThreadFollows ==
  ASSUME NEW m \in Session, NEW p \in Session, LocalsOK(m), m.pc \in Attaching,
         p.todo = m.todo, p.capt = {}, p.tids \cup (m.todo \ {p.cur}) \subseteq m.tids \cup m.todo,
         p.tids \cap (m.todo \ {p.cur}) = {}
  PROVE  Follows(m, NextThread(p))
<1> DEFINE n == NextThread(p)
<1>1. /\ n \in Session /\ n.pc = "seize" /\ n.todo = m.todo \ {p.cur} /\ n.tids = p.tids
      /\ n.capt = {}
  BY NextThreadType, NextThreadFields
<1> HIDE DEF n
<1>2. Fits(m.tids \cup m.todo) /\ m.tids \cup m.todo \in SUBSET Tids
  BY DEF LocalsOK, Session
<1>3. Fits(n.tids \cup n.todo) /\ Fits(n.tids)
  BY <1>1, <1>2, FitsSubset
<1>4. LocalsOK(n)
  BY <1>1, <1>3 DEF LocalsOK, Attaching, Detaching
<1>5. /\ Phase(m) = "attaching" /\ Phase(n) = "attaching"
  BY <1>1, PhaseFacts DEF Attaching
<1>6. Promised(m, n)
  BY <1>5 DEF Promised, Shows, Watched, Writing
<1> QED
  BY <1>1, <1>4, <1>6 DEF Follows, n

\* Moves between two labels of one phase, with the tables as they are.
LEMMA MoveFollows ==
  ASSUME NEW m \in Session, NEW n \in Session, LocalsOK(m),
         n.tids = m.tids, n.capt = m.capt, n.todo = m.todo,
         \/ m.pc = n.pc /\ n.cur = m.cur
         \/ m.pc \in Attaching /\ n.pc = "seize"
         \/ m.pc \in Attaching /\ n.pc \in Attaching /\ n.cur \in m.todo
         \/ m.pc = "seize" /\ n.pc = "alloc" /\ m.tids # {}
         \/ m.pc \in {"loop", "handle"} /\ n.pc \in {"loop", "handle"}
         \/ m.pc \in Detaching /\ n.pc \in Detaching /\ n.cur \in m.todo
         \/ m.pc = "idle" /\ n.pc = "exited"
  PROVE  Follows(m, n)
<1>1. Phase(n) = Phase(m)
  <2>1. CASE m.pc = n.pc
    BY <2>1 DEF Phase
  <2> QED
    BY <2>1, PhaseFacts DEF Attaching
<1>2. LocalsOK(n)
  BY DEF LocalsOK, Attaching, Detaching
<1> QED
  BY <1>1, <1>2, SamePhase DEF Follows

LEMMA StreamFollows ==
  ASSUME TypeOK, TablesOK, NEW s \in Sessions, ClientStep(s)
  PROVE  \E n \in Session : SetSess(s, n) /\ Follows(sess[s], n)
<1>s. sess[s] \in Session /\ LocalsOK(sess[s])
  BY DEF TypeOK, TablesOK
<1>1. CASE ClientStop(s) \/ ClientClose(s)
  <2> DEFINE a == [sess[s] EXCEPT !.client = "stop"]
             b == [sess[s] EXCEPT !.client = "closed"]
  <2>1. /\ a \in Session /\ a.pc = sess[s].pc /\ a.cur = sess[s].cur
        /\ a.tids = sess[s].tids /\ a.capt = sess[s].capt /\ a.todo = sess[s].todo
        /\ b \in Session /\ b.pc = sess[s].pc /\ b.cur = sess[s].cur
        /\ b.tids = sess[s].tids /\ b.capt = sess[s].capt /\ b.todo = sess[s].todo
    BY <1>s DEF Session
  <2>2. SetSess(s, a) \/ SetSess(s, b)
    BY <1>1 DEF ClientStop, ClientClose, SetSess
  <2> HIDE DEF a, b
  <2>3. Follows(sess[s], a) /\ Follows(sess[s], b)
    BY <1>s, <2>1, MoveFollows
  <2> QED
    BY <2>1, <2>2, <2>3
<1>2. ASSUME NEW pid \in Tids, Stream(s, pid)
      PROVE  \E n \in Session : SetSess(s, n) /\ Follows(sess[s], n)
  <2> DEFINE listed == discover_tids(pid)
             p == [sess[s] EXCEPT !.pid = pid]
             N(D) == [sess[s] EXCEPT !.pc = "seize", !.pid = pid, !.todo = D, !.rc = "none"]
  <2>1. sess[s].pc = "idle" /\ sess[s].tids = {} /\ sess[s].capt = {}
    BY <1>s, <1>2 DEF Stream, At, LocalsOK
  <2>2. CASE SetSess(s, Returned(p, "error"))
    <3>1. p \in Session
      BY <1>s DEF Session
    <3> HIDE DEF p
    <3>2. Returned(p, "error") \in Session /\ Follows(sess[s], Returned(p, "error"))
      BY <1>s, <3>1, ReturnedType, ReturnFollows
    <3> QED
      BY <2>2, <3>2
  <2>3. ASSUME NEW D \in SUBSET listed, SetSess(s, N(D)),
               IF Cardinality(listed) <= MaxTracked THEN D = listed
               ELSE Cardinality(D) = MaxTracked
        PROVE  \E n \in Session : SetSess(s, n) /\ Follows(sess[s], n)
    <3>1. D \subseteq Tids
      BY DEF discover_tids, Group
    <3>2. Fits(D)
      BY <2>3, TracerAssumption DEF Fits
    <3> DEFINE n == N(D)
    <3>3. /\ n \in Session /\ n.pc = "seize" /\ n.tids = {} /\ n.capt = {} /\ n.todo = D
      BY <1>s, <2>1, <3>1 DEF Session, PC
    <3> HIDE DEF n
    <3>4. n.tids \cup n.todo = D
      BY <3>3
    <3>5. LocalsOK(n)
      BY <3>2, <3>3, <3>4, FitsEmpty DEF LocalsOK, Attaching, Detaching
    <3>6. Phase(sess[s]) = "idle" /\ Phase(n) = "attaching"
      BY <2>1, <3>3, PhaseFacts DEF Attaching
    <3>7. Promised(sess[s], n)
      BY <3>6 DEF Promised, Shows, Watched, Writing
    <3>8. SetSess(s, n)
      BY <2>3 DEF n
    <3> QED
      BY <3>3, <3>5, <3>7, <3>8 DEF Follows
  <2> QED
    BY <1>2, <2>2, <2>3 DEF Stream
<1> QED
  BY <1>1, <1>2 DEF ClientStep

\* The seizing loop.
LEMMA AttachFollows ==
  ASSUME TypeInv, TablesOK, NEW s \in Sessions,
         \/ \E t \in Tids : Seize(s, t)
         \/ Interrupt(s) \/ WaitStop(s) \/ Adopt(s) \/ AllSeized(s) \/ Alloc(s)
  PROVE  \E n \in Session : SetSess(s, n) /\ Follows(sess[s], n)
<1> DEFINE m == sess[s]
<1>s. m \in Session /\ LocalsOK(m) /\ Cur(s) /\ KernelOK
  BY DEF TypeInv, TypeOK, TablesOK, CurOK
<1> DEFINE Goal == \E n \in Session : SetSess(s, n) /\ Follows(m, n)
\* On to the next thread, with the table as it is.
<1>n. ASSUME NEW p \in Session, SetSess(s, NextThread(p)), m.pc \in Attaching,
             p.todo = m.todo, p.tids = m.tids, p.capt = m.capt
      PROVE  Goal
  <2>1. m.tids \cap m.todo = {} /\ m.capt = {}
    BY <1>n, <1>s DEF LocalsOK
  <2>2. /\ p.tids \cup (m.todo \ {p.cur}) \subseteq m.tids \cup m.todo
        /\ p.tids \cap (m.todo \ {p.cur}) = {} /\ p.capt = {}
    BY <1>n, <2>1
  <2>3. NextThread(p) \in Session /\ Follows(m, NextThread(p))
    BY <1>n, <1>s, <2>2, NextThreadType, NextThreadFollows
  <2> QED
    BY <1>n, <2>3
\* To another label.
<1>m. ASSUME NEW n \in Session, SetSess(s, n), n.tids = m.tids, n.capt = m.capt,
             n.todo = m.todo,
             \/ m.pc \in Attaching /\ n.pc = "seize"
             \/ m.pc \in Attaching /\ n.pc \in Attaching /\ n.cur \in m.todo
             \/ m.pc = "seize" /\ n.pc = "alloc" /\ m.tids # {}
      PROVE  Goal
  <2>1. Follows(m, n)
    BY <1>m, <1>s, MoveFollows
  <2> QED
    BY <1>m, <2>1
<1>1. ASSUME NEW t \in Tids, Seize(s, t)
      PROVE  Goal
  <2> DEFINE p == [m EXCEPT !.cur = t]
             q == [m EXCEPT !.pc = "interrupt", !.cur = t]
             r == [p EXCEPT !.attempt = @ + 1]
  <2>0. m.pc = "seize" /\ t \in m.todo
    BY <1>1 DEF Seize, At
  <2>1. /\ p \in Session /\ p.pc = m.pc /\ p.tids = m.tids /\ p.capt = m.capt
        /\ p.todo = m.todo /\ p.cur = t
        /\ q \in Session /\ q.pc = "interrupt" /\ q.tids = m.tids /\ q.capt = m.capt
        /\ q.todo = m.todo /\ q.cur = t
    BY <1>s DEF Session, PC
  <2>2. CASE SetSess(s, q)
    <3> HIDE DEF q
    <3> QED
      BY <1>m, <2>0, <2>1, <2>2 DEF Attaching
  <2>3. CASE SetSess(s, NextThread(p))
    <3> HIDE DEF p
    <3> QED
      BY <1>n, <2>0, <2>1, <2>3 DEF Attaching
  <2>4. CASE SetSess(s, r) /\ p.attempt + 1 < SeizeAttempts
    <3>1. r \in Session /\ r.pc = m.pc /\ r.tids = m.tids /\ r.capt = m.capt /\ r.todo = m.todo
      <4> HIDE DEF p
      <4> QED
        BY <2>1, <2>4, TracerAssumption DEF Session
    <3> HIDE DEF r
    <3> QED
      BY <1>m, <2>0, <2>4, <3>1 DEF Attaching
  <2>5. SetSess(s, q) \/ SetSess(s, Retried(p)) \/ SetSess(s, NextThread(p))
    BY <1>1 DEF Seize
  <2> QED
    BY <2>2, <2>3, <2>4, <2>5 DEF Retried
<1>2. CASE Interrupt(s)
  <2> DEFINE q == [m EXCEPT !.pc = "wait"]
  <2>0. m.pc = "interrupt" /\ m.cur \in m.todo
    BY <1>2, <1>s DEF Interrupt, At, LocalsOK, Attaching
  <2>1. /\ q \in Session /\ q.pc = "wait" /\ q.tids = m.tids /\ q.capt = m.capt
        /\ q.todo = m.todo /\ q.cur = m.cur
    BY <1>s DEF Session, PC
  <2>2. SetSess(s, q) \/ SetSess(s, NextThread(m))
    BY <1>2 DEF Interrupt
  <2> HIDE DEF q
  <2> QED
    BY <1>m, <1>n, <1>s, <2>0, <2>1, <2>2 DEF Attaching
<1>3. CASE WaitStop(s)
  <2> DEFINE q == [[m EXCEPT !.pc = "adopt"] EXCEPT !.status = task[m.cur].st]
  <2>0. m.pc = "wait" /\ m.cur \in m.todo /\ m.cur \in Tids
    BY <1>3, <1>s DEF WaitStop, At, LocalsOK, Attaching, Cur
  <2>1. Waitable(m.cur) => task[m.cur].st \in Stopped \cup {"zombie"}
    BY <1>s, <2>0 DEF Waitable, KernelOK, Sound
  <2>2. Waitable(m.cur) =>
          /\ q \in Session /\ q.pc = "adopt" /\ q.tids = m.tids /\ q.capt = m.capt
          /\ q.todo = m.todo /\ q.cur = m.cur
    BY <1>s, <2>1 DEF Session, PC
  <2>3. (Waitable(m.cur) /\ SetSess(s, q)) \/ SetSess(s, NextThread(m))
    BY <1>3 DEF WaitStop, WaitFor
  <2> HIDE DEF q
  <2> QED
    BY <1>m, <1>n, <1>s, <2>0, <2>2, <2>3 DEF Attaching
<1>4. CASE Adopt(s)
  <2>0. m.pc = "adopt" /\ m.cur \in m.todo /\ m.cur \in Tids
    BY <1>4, <1>s DEF Adopt, At, LocalsOK, Attaching, Cur
  <2> DEFINE p == Tracked(m, m.cur)
  <2>1. /\ p \in Session /\ p.tids = m.tids \cup {m.cur} /\ p.capt = m.capt \ {m.cur}
        /\ p.todo = m.todo /\ p.cur = m.cur
    BY <1>s, <2>0, TrackedType, TrackedFields
  <2>2. SetSess(s, NextThread(p)) \/ SetSess(s, NextThread(m))
    BY <1>4 DEF Adopt
  <2>3. CASE SetSess(s, NextThread(p))
    <3> HIDE DEF p
    <3>1. m.tids \cap m.todo = {} /\ m.capt = {}
      BY <1>s, <2>0 DEF LocalsOK, Attaching
    <3>2. /\ p.tids \cup (m.todo \ {p.cur}) \subseteq m.tids \cup m.todo
          /\ p.tids \cap (m.todo \ {p.cur}) = {} /\ p.capt = {}
      BY <2>0, <2>1, <3>1
    <3>3. NextThread(p) \in Session /\ Follows(m, NextThread(p))
      BY <1>s, <2>0, <2>1, <3>2, NextThreadType, NextThreadFollows DEF Attaching
    <3> QED
      BY <2>3, <3>3
  <2> HIDE DEF p
  <2> QED
    BY <1>n, <1>s, <2>0, <2>2, <2>3 DEF Attaching
<1>5. CASE AllSeized(s)
  <2> DEFINE q == [m EXCEPT !.pc = "alloc"]
  <2>1. /\ q \in Session /\ q.pc = "alloc" /\ q.tids = m.tids /\ q.capt = m.capt
        /\ q.todo = m.todo
    BY <1>s DEF Session, PC
  <2>2. /\ m.pc = "seize"
        /\ SetSess(s, Returned(m, "error")) \/ (m.tids # {} /\ SetSess(s, q))
    BY <1>5 DEF AllSeized, At
  <2>3. Returned(m, "error") \in Session /\ Follows(m, Returned(m, "error"))
    BY <1>s, ReturnedType, ReturnFollows
  <2> HIDE DEF q
  <2> QED
    BY <1>m, <2>1, <2>2, <2>3
<1>6. CASE Alloc(s)
  <2> DEFINE a == [m EXCEPT !.pc = "loop"]
             b == [m EXCEPT !.pc = "detach", !.todo = m.tids, !.rc = "error"]
  <2>0. m.pc = "alloc" /\ m.tids # {} /\ m.capt = {} /\ Fits(m.tids) /\ m.tids \in SUBSET Tids
    BY <1>6, <1>s DEF Alloc, At, LocalsOK, Session
  <2>1. /\ a \in Session /\ a.pc = "loop" /\ a.tids = m.tids /\ a.capt = m.capt
        /\ b \in Session /\ b.pc = "detach" /\ b.tids = m.tids /\ b.capt = m.capt
        /\ b.todo = m.tids
    BY <1>s DEF Session, PC
  <2>2. SetSess(s, a) \/ SetSess(s, b)
    BY <1>6 DEF Alloc
  <2> HIDE DEF a, b
  <2>3. LocalsOK(a) /\ LocalsOK(b)
    BY <2>0, <2>1 DEF LocalsOK, Attaching, Detaching
  <2>4. Phase(m) = "attaching" /\ Phase(a) = "streaming" /\ Phase(b) = "closing"
    BY <2>0, <2>1, PhaseFacts DEF Detaching
  <2>5. Shows(a, "streaming", m.tids, {}) /\ Shows(b, "closing", m.tids, {})
    BY <2>0, <2>1, <2>4 DEF Shows, Watched, Writing
  <2>6. Promised(m, a) /\ Promised(m, b)
    BY <2>0, <2>4, <2>5 DEF Promised
  <2> QED
    BY <2>1, <2>2, <2>3, <2>6 DEF Follows
<1> QED
  BY <1>1, <1>2, <1>3, <1>4, <1>5, <1>6

\* A thread enters or leaves tids[], or its write begins or ends, in the main loop.
LEMMA TableFollows ==
  ASSUME NEW m \in Session, NEW n \in Session, LocalsOK(m), m.pc = "handle", n.pc = "loop",
         NEW t \in Tids, Fits(n.tids),
         \/ t \notin m.tids /\ n.tids = m.tids \cup {t} /\ n.capt = m.capt \ {t}
         \/ m.tids # {t} /\ n.tids = m.tids \ {t} /\ n.capt = m.capt \ {t}
         \/ t \in m.tids /\ n.tids = m.tids /\ n.capt = m.capt \cup {t}
         \/ n.tids = m.tids /\ n.capt = m.capt \ {t}
  PROVE  Follows(m, n)
<1>1. Phase(m) = "streaming" /\ Phase(n) = "streaming"
  BY PhaseFacts
<1>2. /\ Watched(m) = m.tids /\ Writing(m) = m.capt
      /\ Watched(n) = n.tids /\ Writing(n) = n.capt
  BY <1>1 DEF Watched, Writing
<1>3. m.capt \subseteq m.tids /\ m.tids # {} /\ m.capt \in SUBSET Tids /\ m.tids \in SUBSET Tids
  BY DEF LocalsOK, Session
<1>4. n.capt \subseteq n.tids /\ n.tids # {}
  BY <1>3
<1>5. LocalsOK(n)
  BY <1>4 DEF LocalsOK, Attaching, Detaching
<1>6. Promised(m, n)
  <2>1. CASE t \notin m.tids /\ n.tids = m.tids \cup {t} /\ n.capt = m.capt \ {t}
    <3>1. n.capt = m.capt
      BY <1>3, <2>1
    <3> QED
      BY <1>1, <1>2, <2>1, <3>1 DEF Promised, Shows
  <2>2. CASE m.tids # {t} /\ n.tids = m.tids \ {t} /\ n.capt = m.capt \ {t}
    <3>1. CASE t \in m.tids
      BY <1>1, <1>2, <2>2, <3>1 DEF Promised, Shows
    <3>2. CASE t \notin m.tids
      <4>1. n.tids = m.tids /\ n.capt = m.capt
        BY <1>3, <2>2, <3>2
      <4> QED
        BY <1>1, <1>2, <4>1 DEF Promised, Shows
    <3> QED BY <3>1, <3>2
  <2>3. CASE t \in m.tids /\ n.tids = m.tids /\ n.capt = m.capt \cup {t}
    <3>1. CASE t \notin m.capt
      BY <1>1, <1>2, <2>3, <3>1 DEF Promised, Shows
    <3>2. CASE t \in m.capt
      <4>1. n.capt = m.capt
        BY <1>3, <2>3, <3>2
      <4> QED
        BY <1>1, <1>2, <2>3, <4>1 DEF Promised, Shows
    <3> QED BY <3>1, <3>2
  <2>4. CASE n.tids = m.tids /\ n.capt = m.capt \ {t}
    <3>1. CASE t \in m.capt
      BY <1>1, <1>2, <2>4, <3>1 DEF Promised, Shows
    <3>2. CASE t \notin m.capt
      <4>1. n.capt = m.capt
        BY <1>3, <2>4, <3>2
      <4> QED
        BY <1>1, <1>2, <2>4, <4>1 DEF Promised, Shows
    <3> QED BY <3>1, <3>2
  <2> QED BY <2>1, <2>2, <2>3, <2>4
<1> QED
  BY <1>5, <1>6 DEF Follows

LEMMA LoopFollows ==
  ASSUME TypeInv, TablesOK, NEW s \in Sessions,
         \/ \E t \in Tids : LoopReap(s, t)
         \/ LoopPoll(s) \/ LoopNoChild(s)
         \/ HandleUntracked(s) \/ HandleExited(s) \/ HandleNew(s) \/ WriteCb(s)
         \/ HandleSyscall(s) \/ HandleClone(s) \/ HandleTrap(s) \/ HandleSignal(s)
  PROVE  \E n \in Session : SetSess(s, n) /\ Follows(sess[s], n)
<1> DEFINE m == sess[s]
           t == m.cur
<1>s. m \in Session /\ LocalsOK(m) /\ Cur(s) /\ Held(s) /\ KernelOK
  BY DEF TypeInv, TypeOK, TablesOK, CurOK, HeldOK
<1>c. m.pc = "handle" => t \in Tids
  BY <1>s DEF Cur
<1>t. m.tids \in SUBSET Tids /\ Fits(m.tids)
  BY <1>s DEF LocalsOK, Session
<1>b. /\ Back(m) \in Session /\ Back(m).pc = "loop" /\ Back(m).tids = m.tids
      /\ Back(m).capt = m.capt /\ Back(m).todo = m.todo /\ Back(m).status = "none"
  BY <1>s, BackType, BackFields
<1>1. ASSUME NEW u \in Tids, LoopReap(s, u)
      PROVE  \E n \in Session : SetSess(s, n) /\ Follows(sess[s], n)
  <2> DEFINE n == [m EXCEPT !.pc = "handle", !.cur = u, !.status = task[u].st]
  <2>1. task[u].st \in Stopped \cup {"zombie"}
    BY <1>1, <1>s DEF LoopReap, Waitable, KernelOK, Sound
  <2>2. /\ n \in Session /\ n.pc = "handle" /\ n.tids = m.tids /\ n.capt = m.capt
        /\ n.todo = m.todo
    BY <1>s, <2>1 DEF Session, PC
  <2>3. m.pc = "loop" /\ SetSess(s, n)
    BY <1>1 DEF LoopReap, At
  <2> HIDE DEF n
  <2> QED
    BY <1>s, <2>2, <2>3, MoveFollows
<1>2. CASE LoopPoll(s)
  <2> DEFINE c == IF m.client = "stop" THEN "open" ELSE m.client
             n == [m EXCEPT !.pc = "detach", !.todo = m.tids, !.client = c]
  <2>1. c \in {"open", "stop", "closed"}
    BY <1>s DEF Session
  <2>2. m.pc = "loop" /\ SetSess(s, n)
    BY <1>2 DEF LoopPoll, At
  <2> HIDE DEF c
  <2>3. /\ n \in Session /\ n.pc = "detach" /\ n.tids = m.tids /\ n.capt = m.capt
        /\ n.todo = m.tids
    BY <1>s, <2>1 DEF Session, PC
  <2> HIDE DEF n
  <2>4. LocalsOK(n)
    BY <1>s, <2>3 DEF LocalsOK, Attaching, Detaching
  <2>5. Phase(m) = "streaming" /\ Phase(n) = "closing"
    BY <2>2, <2>3, PhaseFacts DEF Detaching
  <2>6. Promised(m, n)
    BY <2>3, <2>5 DEF Promised, Shows, Watched, Writing
  <2> QED
    BY <2>2, <2>3, <2>4, <2>6 DEF Follows
<1>3. CASE LoopNoChild(s)
  <2>1. Returned(m, "ok") \in Session /\ Follows(m, Returned(m, "ok"))
    BY <1>s, ReturnedType, ReturnFollows
  <2> QED
    BY <1>3, <2>1 DEF LoopNoChild
<1>4. CASE HandleUntracked(s) \/ HandleTrap(s) \/ HandleSignal(s)
  <2>1. m.pc = "handle" /\ SetSess(s, Back(m))
    BY <1>4 DEF HandleUntracked, HandleTrap, HandleSignal, At
  <2>2. Follows(m, Back(m))
    BY <1>s, <1>b, <2>1, MoveFollows
  <2> QED
    BY <1>b, <2>1, <2>2
<1>5. CASE HandleExited(s)
  <2> DEFINE p == remove_tid(m, t)
             n == Back(p)
  <2>0. m.pc = "handle" /\ t \in Tids
    BY <1>5, <1>c DEF HandleExited, At
  <2>1. p \in Session /\ p.tids = m.tids \ {t} /\ p.capt = m.capt \ {t}
    BY <1>s, <2>0, TrackedType, RemovedFields
  <2>2. SetSess(s, Returned(p, "ok")) \/ (p.tids # {} /\ SetSess(s, n))
    BY <1>5 DEF HandleExited
  <2>3. Returned(p, "ok") \in Session /\ Follows(m, Returned(p, "ok"))
    BY <1>s, <2>1, ReturnedType, ReturnFollows
  <2>4. /\ n \in Session /\ n.pc = "loop" /\ n.tids = m.tids \ {t} /\ n.capt = m.capt \ {t}
    BY <2>1, BackType, BackFields
  <2> HIDE DEF p, n
  <2>5. Fits(n.tids)
    BY <1>t, <2>4, FitsSubset
  <2>6. p.tids # {} => m.tids # {t}
    BY <2>1
  <2>7. p.tids # {} => Follows(m, n)
    BY <1>s, <2>0, <2>4, <2>5, <2>6, TableFollows
  <2> QED
    BY <2>2, <2>3, <2>4, <2>7
<1>6. CASE HandleNew(s)
  <2> DEFINE p == Tracked(m, t)
             n == Back(p)
  <2>0. /\ m.pc = "handle" /\ t \in Tids /\ t \notin m.tids
        /\ Cardinality(m.tids) < MaxTracked /\ SetSess(s, n)
    BY <1>6, <1>c DEF HandleNew, At, HasRoom
  <2>1. p \in Session /\ p.tids = m.tids \cup {t} /\ p.capt = m.capt \ {t}
    BY <1>s, <2>0, TrackedType, TrackedFields
  <2>2. /\ n \in Session /\ n.pc = "loop" /\ n.tids = m.tids \cup {t} /\ n.capt = m.capt \ {t}
    BY <2>1, BackType, BackFields
  <2> HIDE DEF p, n
  <2>3. Fits(n.tids)
    BY <1>t, <2>0, <2>2, FitsAdd
  <2>4. Follows(m, n)
    BY <1>s, <2>0, <2>2, <2>3, TableFollows
  <2> QED
    BY <2>0, <2>2, <2>4
<1>7. CASE HandleSyscall(s)
  <2> DEFINE p == Toggled(s, t)
             n == Back(p)
  <2>0. m.pc = "handle" /\ t \in Tids /\ t \in m.tids /\ SetSess(s, n)
    BY <1>7, <1>c DEF HandleSyscall, AtSyscallStop, At
  <2>1. /\ p \in Session /\ p.tids = m.tids
        /\ p.capt = m.capt \cup {t} \/ p.capt = m.capt \ {t}
    BY <1>s, <2>0 DEF Toggled, Session
  <2> HIDE DEF p
  <2>2. /\ n \in Session /\ n.pc = "loop" /\ n.tids = m.tids
        /\ n.capt = m.capt \cup {t} \/ n.capt = m.capt \ {t}
    BY <2>1, BackType, BackFields
  <2> HIDE DEF n
  <2>3. Follows(m, n)
    BY <1>s, <1>t, <2>0, <2>2, TableFollows
  <2> QED
    BY <2>0, <2>2, <2>3
<1>8. CASE HandleClone(s)
  <2> DEFINE b == Back(m)
             c == task[t].child
             n == Tracked(b, c)
  <2>0. m.pc = "handle" /\ t \in Tids /\ m.status = "clone"
    BY <1>8, <1>c DEF HandleClone, At
  <2>1. Controls(s, t) => c \in Tids
    BY <1>s, <2>0 DEF Controls, Held, Holding, KernelOK, Sound, Stopped
  <2>2. \/ SetSess(s, b)
        \/ /\ Controls(s, t) /\ c \notin b.tids /\ Cardinality(b.tids) < MaxTracked
           /\ SetSess(s, n)
    BY <1>8 DEF HandleClone, HasRoom
  <2>3. CASE SetSess(s, b)
    <3>1. Follows(m, b)
      BY <1>s, <1>b, <2>0, MoveFollows
    <3> QED
      BY <1>b, <2>3, <3>1
  <2>4. CASE c \in Tids /\ c \notin b.tids /\ Cardinality(b.tids) < MaxTracked /\ SetSess(s, n)
    <3>0. b \in Session /\ b.pc = "loop" /\ b.tids = m.tids /\ b.capt = m.capt
      BY <1>b
    <3> HIDE DEF b, c
    <3>a. n \in Session
      BY <2>4, <3>0, TrackedType
    <3>b. n.pc = b.pc /\ n.tids = b.tids \cup {c} /\ n.capt = b.capt \ {c}
      BY <2>4, <3>0, TrackedFields
    <3> HIDE DEF n
    <3>1. /\ n \in Session /\ n.pc = "loop" /\ n.tids = m.tids \cup {c}
          /\ n.capt = m.capt \ {c} /\ c \notin m.tids /\ Cardinality(m.tids) < MaxTracked
      BY <2>4, <3>0, <3>a, <3>b
    <3>2. Fits(n.tids)
      BY <1>t, <2>4, <3>1, FitsAdd
    <3>3. Follows(m, n)
      BY <1>s, <2>0, <2>4, <3>1, <3>2, TableFollows
    <3> QED
      BY <2>4, <3>1, <3>3
  <2> QED
    BY <2>1, <2>2, <2>3, <2>4
<1>9. CASE WriteCb(s)
  <2> DEFINE n == [m EXCEPT !.sending = TRUE]
  <2>1. /\ n \in Session /\ n.pc = m.pc /\ n.cur = m.cur /\ n.tids = m.tids
        /\ n.capt = m.capt /\ n.todo = m.todo
    BY <1>s DEF Session
  <2>2. SetSess(s, n)
    BY <1>9 DEF WriteCb
  <2> HIDE DEF n
  <2> QED
    BY <1>s, <2>1, <2>2, MoveFollows
<1> QED
  BY <1>1, <1>2, <1>3, <1>4, <1>5, <1>6, <1>7, <1>8, <1>9

LEMMA DetachFollows ==
  ASSUME TypeInv, TablesOK, NEW s \in Sessions,
         \/ \E t \in Tids : DetachInterrupt(s, t)
         \/ DetachWait(s) \/ Drop(s) \/ DetachDone(s) \/ ConnExit(s)
  PROVE  \E n \in Session : SetSess(s, n) /\ Follows(sess[s], n)
<1> DEFINE m == sess[s]
<1>s. m \in Session /\ LocalsOK(m) /\ Cur(s) /\ KernelOK
  BY DEF TypeInv, TypeOK, TablesOK, CurOK
\* One thread less to detach.
<1>d. ASSUME NEW n \in Session, NEW t, SetSess(s, n), m.pc \in Detaching, n.pc = "detach",
             n.tids = m.tids, n.capt = m.capt, n.todo = m.todo \ {t}
      PROVE  \E q \in Session : SetSess(s, q) /\ Follows(m, q)
  <2>1. m.todo \subseteq m.tids /\ m.capt \subseteq m.tids /\ Fits(m.tids)
    BY <1>d, <1>s DEF LocalsOK
  <2>2. LocalsOK(n)
    BY <1>d, <2>1 DEF LocalsOK, Attaching, Detaching
  <2>3. Phase(n) = Phase(m)
    BY <1>d, PhaseFacts DEF Detaching
  <2> QED
    BY <1>d, <2>2, <2>3, SamePhase DEF Follows
<1>1. ASSUME NEW t \in Tids, DetachInterrupt(s, t)
      PROVE  \E n \in Session : SetSess(s, n) /\ Follows(m, n)
  <2> DEFINE a == [m EXCEPT !.pc = "dwait", !.cur = t]
             b == [m EXCEPT !.todo = @ \ {t}]
  <2>0. m.pc = "detach" /\ t \in m.todo /\ (SetSess(s, a) \/ SetSess(s, b))
    BY <1>1 DEF DetachInterrupt, At
  <2>1. /\ a \in Session /\ a.pc = "dwait" /\ a.cur = t /\ a.tids = m.tids
        /\ a.capt = m.capt /\ a.todo = m.todo
        /\ b \in Session /\ b.pc = m.pc /\ b.tids = m.tids /\ b.capt = m.capt
        /\ b.todo = m.todo \ {t}
    BY <1>s DEF Session, PC
  <2> HIDE DEF a, b
  <2>2. Follows(m, a)
    BY <1>s, <2>0, <2>1, MoveFollows DEF Detaching
  <2>3. CASE SetSess(s, b)
    BY <1>d, <2>0, <2>1, <2>3 DEF Detaching
  <2> QED
    BY <2>0, <2>1, <2>2, <2>3
<1>2. CASE DetachWait(s)
  <2> DEFINE a == [m EXCEPT !.pc = "drop"]
             b == [a EXCEPT !.status = task[m.cur].st]
  <2>0. m.pc = "dwait" /\ m.cur \in Tids /\ m.cur \in m.todo
    BY <1>2, <1>s DEF DetachWait, At, Cur, LocalsOK, Detaching
  <2>1. Waitable(m.cur) => task[m.cur].st \in Stopped \cup {"zombie"}
    BY <1>s, <2>0 DEF Waitable, KernelOK, Sound
  <2>2. /\ a \in Session /\ a.pc = "drop" /\ a.cur = m.cur /\ a.tids = m.tids
        /\ a.capt = m.capt /\ a.todo = m.todo
        /\ Waitable(m.cur) =>
             /\ b \in Session /\ b.pc = "drop" /\ b.cur = m.cur /\ b.tids = m.tids
             /\ b.capt = m.capt /\ b.todo = m.todo
    BY <1>s, <2>1 DEF Session, PC
  <2>3. (Waitable(m.cur) /\ SetSess(s, b)) \/ SetSess(s, a)
    BY <1>2 DEF DetachWait, WaitFor
  <2> HIDE DEF a, b
  <2>4. Follows(m, a) /\ (Waitable(m.cur) => Follows(m, b))
    BY <1>s, <2>0, <2>2, MoveFollows DEF Detaching
  <2> QED
    BY <2>2, <2>3, <2>4
<1>3. CASE Drop(s)
  <2> DEFINE n == [m EXCEPT !.pc = "detach", !.todo = @ \ {m.cur}, !.cur = NoTid,
                            !.status = "none"]
  <2>1. /\ n \in Session /\ n.pc = "detach" /\ n.tids = m.tids /\ n.capt = m.capt
        /\ n.todo = m.todo \ {m.cur}
    BY <1>s DEF Session, PC
  <2>2. m.pc = "drop" /\ SetSess(s, n)
    BY <1>3 DEF Drop, At
  <2> HIDE DEF n
  <2> QED
    BY <1>d, <2>1, <2>2 DEF Detaching
<1>4. CASE DetachDone(s)
  <2>1. \A rc \in {"ok", "error"} :
          Returned(m, rc) \in Session /\ Follows(m, Returned(m, rc))
    BY <1>s, ReturnedType, ReturnFollows
  <2> QED
    BY <1>4, <2>1 DEF DetachDone
<1>5. CASE ConnExit(s)
  <2> DEFINE n == [m EXCEPT !.pc = "exited"]
  <2>1. /\ n \in Session /\ n.pc = "exited" /\ n.tids = m.tids /\ n.capt = m.capt
        /\ n.todo = m.todo
    BY <1>s DEF Session, PC
  <2>2. m.pc = "idle" /\ SetSess(s, n)
    BY <1>5 DEF ConnExit, At
  <2> HIDE DEF n
  <2>3. Follows(m, n)
    BY <1>s, <2>1, <2>2, MoveFollows
  <2> QED
    BY <2>1, <2>2, <2>3
<1> QED
  BY <1>1, <1>2, <1>3, <1>4, <1>5

\* Whatever a session or its client does, one record changes as it should and the
\* other sessions are left alone.
LEMMA SessionFollows ==
  ASSUME TypeInv, TablesOK, NEW s \in Sessions, SessionStep(s) \/ ClientStep(s)
  PROVE  /\ Follows(sess[s], sess'[s])
         /\ \A r \in Sessions \ {s} : sess'[r] = sess[r]
<1>1. \E n \in Session : SetSess(s, n) /\ Follows(sess[s], n)
  <2>1. CASE ClientStep(s)
    BY <2>1, StreamFollows DEF TypeInv
  <2>2. CASE SessionStep(s)
    BY <2>2, AttachFollows, LoopFollows, DetachFollows DEF SessionStep
  <2> QED BY <2>1, <2>2
<1>2. PICK n \in Session : SetSess(s, n) /\ Follows(sess[s], n)
  BY <1>1
<1>3. sess' = [sess EXCEPT ![s] = n] /\ sess \in [Sessions -> Session]
  BY <1>2 DEF SetSess, TypeInv, TypeOK
<1> QED
  BY <1>2, <1>3

----------------------------------------------------------------------------
(* The table, in every reachable state. *)

TracerInv == TypeInv /\ TablesOK

LEMMA TracerInvInit == Init => TracerInv
<1> SUFFICES ASSUME Init PROVE TablesOK
  BY InitTypeInv DEF TracerInv
<1> SUFFICES ASSUME NEW s \in Sessions PROVE LocalsOK(sess[s])
  BY DEF TablesOK
<1>1. /\ sess[s].pc = "idle" /\ sess[s].tids = {} /\ sess[s].todo = {} /\ sess[s].capt = {}
  BY DEF Init
<1> QED
  BY <1>1, FitsEmpty DEF LocalsOK, Attaching, Detaching

LEMMA TracerInvStep ==
  ASSUME TracerInv, [Next]_vars
  PROVE  TracerInv'
<1>1. TypeInv'
  BY TypeInvStep DEF TracerInv
<1>2. ASSUME NEW s \in Sessions, SessionStep(s) \/ ClientStep(s)
      PROVE  TablesOK'
  <2>1. LocalsOK(sess'[s]) /\ \A r \in Sessions \ {s} : sess'[r] = sess[r]
    BY <1>2, SessionFollows DEF TracerInv, Follows
  <2> QED
    BY <2>1 DEF TracerInv, TablesOK
<1>3. ASSUME UNCHANGED sess
      PROVE  TablesOK'
  BY <1>3 DEF TracerInv, TablesOK
<1> QED
  BY <1>1, <1>2, <1>3 DEF Next, vars, TracerInv

LEMMA TracerInvariant == Spec => []TracerInv
<1>1. TracerInv /\ [Next]_vars => TracerInv'
  BY TracerInvStep
<1> QED
  BY TracerInvInit, <1>1, PTL DEF Spec

\* tids[] never holds more than MAX_TRACKED_TIDS entries, for any number of
\* threads, of sessions and of threads born while the session seizes.  (A thread
\* of the seizing loop is never turned away: RoomToAdopt.)
THEOREM TableBounded == Spec => []TableBound
<1>1. TracerInv => TableBound
  BY DEF TracerInv, TablesOK, LocalsOK, Fits, TableBound
<1> QED
  BY <1>1, TracerInvariant, PTL

----------------------------------------------------------------------------
(* The refinement *)

\* The refinement mapping of Tracer, record by record.
LEMMA MappedState ==
  ASSUME NEW s \in Sessions
  PROVE  /\ PhaseOf(s) = Phase(sess[s])
         /\ InStream(s, sess[s].tids) = Watched(sess[s])
         /\ InStream(s, sess[s].capt) = Writing(sess[s])
<1>1. PhaseOf(s) = Phase(sess[s])
  BY DEF PhaseOf, Phase, Streaming, InLoop, Detaching
<1> QED
  BY <1>1 DEF InStream, Watched, Writing

LEMMA MappedInit == Init => Service!Init
<1> SUFFICES ASSUME Init PROVE Service!Init
  OBVIOUS
<1>1. \A s \in Sessions : sess[s].pc = "idle"
  BY DEF Init
<1>2. \A s \in Sessions : PhaseOf(s) = "idle"
  BY <1>1, MappedState, PhaseFacts
<1> QED
  BY <1>2 DEF Service!Init, InStream

\* A record that changes as promised is a step of the service or none.
LEMMA MappedStep ==
  ASSUME NEW s \in Sessions, Promised(sess[s], sess'[s]),
         \A r \in Sessions \ {s} : sess'[r] = sess[r]
  PROVE  [Service!Next]_(Service!vars)
<1> DEFINE ph == [r \in Sessions |-> PhaseOf(r)]
           wa == [r \in Sessions |-> InStream(r, sess[r].tids)]
           wr == [r \in Sessions |-> InStream(r, sess[r].capt)]
           m == sess[s]
           n == sess'[s]
<1>1. ph[s] = Phase(m) /\ wa[s] = Watched(m) /\ wr[s] = Writing(m)
  BY MappedState
<1>2. \A r \in Sessions : /\ PhaseOf(r)' = Phase(sess'[r])
                          /\ InStream(r, sess[r].tids)' = Watched(sess'[r])
                          /\ InStream(r, sess[r].capt)' = Writing(sess'[r])
  <2>1. \A r \in Sessions : PhaseOf(r)' = Phase(sess'[r])
    BY DEF PhaseOf, Phase, Streaming, InLoop, Detaching
  <2> QED
    BY <2>1 DEF InStream, Watched, Writing
<1>3. /\ ph' = [ph EXCEPT ![s] = Phase(n)]
      /\ wa' = [wa EXCEPT ![s] = Watched(n)]
      /\ wr' = [wr EXCEPT ![s] = Writing(n)]
  BY <1>2, MappedState
<1>4. ASSUME NEW p, NEW w, NEW c, Shows(n, p, w, c)
      PROVE  Service!Set(s, p, w, c)
  BY <1>3, <1>4 DEF Service!Set, Shows
<1>5. \/ Phase(n) = Phase(m) /\ Watched(n) = Watched(m) /\ Writing(n) = Writing(m)
      \/ Service!Next
  <2> HIDE DEF m, n
  <2>1. Shows(n, Phase(m), Watched(m), Writing(m)) =>
          Phase(n) = Phase(m) /\ Watched(n) = Watched(m) /\ Writing(n) = Writing(m)
    BY DEF Shows
  <2>2. CASE Phase(m) = "idle" /\ Shows(n, "attaching", {}, {})
    BY <1>1, <1>4, <2>2 DEF Service!Next, Service!Ask, ph
  <2>3. CASE Phase(m) = "attaching" /\ Shows(n, "idle", {}, {})
    BY <1>1, <1>4, <2>3 DEF Service!Next, Service!Refuse, ph
  <2>4. ASSUME Phase(m) = "attaching", NEW W \in SUBSET Tids, W # {},
               NEW p \in {"streaming", "closing"}, Shows(n, p, W, {})
        PROVE  Service!Next
    <3>1. Service!Attach(s, W, p)
      BY <1>1, <1>4, <2>4 DEF Service!Attach, ph
    <3> QED
      BY <3>1 DEF Service!Next
  <2>5. ASSUME Phase(m) = "streaming", NEW t \in Tids,
               \/ t \notin Watched(m) /\ Shows(n, "streaming", Watched(m) \cup {t}, Writing(m))
               \/ /\ t \in Watched(m) /\ Watched(m) # {t}
                  /\ Shows(n, "streaming", Watched(m) \ {t}, Writing(m) \ {t})
               \/ /\ t \in Watched(m) \ Writing(m)
                  /\ Shows(n, "streaming", Watched(m), Writing(m) \cup {t})
               \/ t \in Writing(m) /\ Shows(n, "streaming", Watched(m), Writing(m) \ {t})
        PROVE  Service!Next
    <3>1. \/ Service!Watch(s, t) \/ Service!Forget(s, t)
          \/ Service!WriteBegins(s, t) \/ Service!WriteReported(s, t)
      BY <1>1, <1>4, <2>5 DEF Service!Watch, Service!Forget, Service!WriteBegins,
                              Service!WriteReported, ph, wa, wr
    <3> QED
      BY <3>1 DEF Service!Next
  <2>6. CASE Phase(m) = "streaming" /\ Shows(n, "closing", Watched(m), Writing(m))
    BY <1>1, <1>4, <2>6 DEF Service!Next, Service!Leave, ph, wa, wr
  <2>7. CASE Phase(m) \in {"streaming", "closing"} /\ Shows(n, "idle", {}, {})
    BY <1>1, <1>4, <2>7 DEF Service!Next, Service!End, ph
  <2>8. Promised(m, n)
    BY DEF m, n
  <2> QED
    BY <2>1, <2>2, <2>3, <2>4, <2>5, <2>6, <2>7, <2>8 DEF Promised
<1>6. CASE Phase(n) = Phase(m) /\ Watched(n) = Watched(m) /\ Writing(n) = Writing(m)
  <2>1. ph' = ph /\ wa' = wa /\ wr' = wr
    BY <1>2, <1>6, MappedState
  <2> QED
    BY <2>1 DEF Service!vars
<1> QED
  BY <1>5, <1>6

\* Every stream of the detailed tracer, with its threads, its kernel and any number
\* of rivals, is one that StreamService promises: it begins with at least one
\* thread, follows only threads it watches, reports a write at most once and leaves
\* nothing behind.
THEOREM StreamPromised == Spec => ImplementsService
<1>1. TracerInv /\ [Next]_vars => [Service!Next]_(Service!vars)
  <2> SUFFICES ASSUME TracerInv, [Next]_vars PROVE [Service!Next]_(Service!vars)
    OBVIOUS
  <2>1. ASSUME NEW s \in Sessions, SessionStep(s) \/ ClientStep(s)
        PROVE  [Service!Next]_(Service!vars)
    <3>1. Promised(sess[s], sess'[s]) /\ \A r \in Sessions \ {s} : sess'[r] = sess[r]
      BY <2>1, SessionFollows DEF TracerInv, Follows
    <3> QED
      BY <3>1, MappedStep
  <2>2. CASE UNCHANGED sess
    BY <2>2 DEF Service!vars, PhaseOf, InStream, Streaming, InLoop
  <2> QED
    BY <2>1, <2>2 DEF Next, vars
<1> QED
  BY <1>1, MappedInit, TracerInvariant, PTL DEF Spec, Service!Spec, ImplementsService
=============================================================================
