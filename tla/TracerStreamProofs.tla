------------------------- MODULE TracerStreamProofs -------------------------
(***************************************************************************)
(* What a daemon with one connection observes of the threads it traces:    *)
(* none of them runs unobserved, in_syscall and capturing say of each what *)
(* the kernel is doing, and no SIGHUP is lost by the main loop.            *)
(*                                                                         *)
(* The invariant relates the record of a thread in the kernel to the       *)
(* tables of the session.  A thread is in the table and goes from system   *)
(* call to system call, or it is being seized, or it is new and has its    *)
(* first stop, outside any system call, still before it.                   *)
(***************************************************************************)
EXTENDS TracerProofs

\* A live tracee of the session; a thread whose first stop is still to come or
\* not yet handled; a thread whose next system-call-stop is an exit-stop; a thread
\* inside a write to the streamed fd; the thread that the seizing loop is at.
Mine(k) == k.tracer # NoSession /\ k.st \in Live
FirstStop(k) == k.sys = "user" /\ (k.st = "event" \/ (k.st = "run" /\ k.trap))
Due(k) == k.sys # "user" /\ k.st # "enter"
Writes(k) == Due(k) /\ k.sys = "write"
Seizing(m, t) == m.cur = t /\ m.pc \in {"interrupt", "wait", "adopt"}

\* Which system call a thread can be in.
CallOK(k) ==
  /\ k.st \in {"event", "signal"} => k.sys = "user"
  /\ k.st \in {"enter", "exit", "clone"} => k.sys # "user"
  /\ k.st \in Live /\ k.child # NoTid => k.sys = "other" /\ k.st \in {"run", "clone"}
  /\ k.st = "unborn" => k.sys = "user"

\* A thread in the table.
InTable(m, k, t) ==
  t \in m.tids /\ Mine(k) =>
    /\ k.mode = "syscall" \/ FirstStop(k)
    /\ (t \in m.insys) <=> ~(Due(k) <=> t \in m.skew)
    /\ t \notin m.skew => (t \in m.capt <=> Writes(k))
    /\ m.pc \in Detaching => t \in m.todo

\* Any other thread of the session.
Outside(m, k, t) == t \notin m.tids /\ Mine(k) /\ ~Seizing(m, t) => FirstStop(k)

ThreadOK(m, k, t) ==
  /\ CallOK(k)
  /\ t \in m.tids => k.st # "unborn"
  /\ InTable(m, k, t)
  /\ Outside(m, k, t)

ThreadsOK == \A s \in Sessions : \A t \in Tids : ThreadOK(sess[s], task[t], t)

\* Nobody announces a child that has not been born.
HeirsOK == \A t \in Tids : task[t].child # NoTid => task[task[t].child].st # "unborn"

CallsOK == \A t \in Tids : CallOK(task[t])

\* What may become of a thread without its tracer's doing.
Tame(k, n) ==
  Mine(n) =>
    \/ k.st = "unborn" /\ FirstStop(n)
    \/ /\ Mine(k)
       /\ FirstStop(k) => FirstStop(n)
       /\ k.mode = "syscall" => /\ n.mode = "syscall"
                                /\ Due(n) <=> Due(k)
                                /\ Writes(n) <=> Writes(k)

----------------------------------------------------------------------------
(* One thread and one session *)

\* A thread that is dead or nobody's.
LEMMA NotMine ==
  ASSUME NEW m, NEW k, NEW t, CallOK(k), ~Mine(k), t \in m.tids => k.st # "unborn"
  PROVE  ThreadOK(m, k, t)
BY DEF ThreadOK, InTable, Outside

\* A thread goes its way, and the session does not touch what it knows of it.
LEMMA Carried ==
  ASSUME NEW m, NEW n, NEW k, NEW l, NEW t, ThreadOK(m, k, t), Tame(k, l), CallOK(l),
         k.st # "unborn" => l.st # "unborn",
         t \in n.tids <=> t \in m.tids,
         t \in n.tids => /\ t \in n.insys <=> t \in m.insys
                         /\ t \in n.capt <=> t \in m.capt
                         /\ t \in n.skew <=> t \in m.skew
                         /\ n.pc \in Detaching =>
                              t \in n.todo \/ (m.pc \in Detaching /\ t \notin m.todo),
         Seizing(m, t) => Seizing(n, t)
  PROVE  ThreadOK(n, l, t)
<1>1. CASE ~Mine(l)
  BY <1>1, NotMine DEF ThreadOK
<1>2. CASE Mine(l) /\ k.st = "unborn" /\ FirstStop(l)
  <2>1. t \notin n.tids
    BY <1>2 DEF ThreadOK
  <2> QED
    BY <1>2, <2>1 DEF ThreadOK, InTable, Outside
<1>3. CASE /\ Mine(l) /\ Mine(k)
           /\ FirstStop(k) => FirstStop(l)
           /\ k.mode = "syscall" => /\ l.mode = "syscall"
                                    /\ Due(l) <=> Due(k)
                                    /\ Writes(l) <=> Writes(k)
  <2>1. CASE t \in n.tids
    <3>1. /\ k.mode = "syscall" \/ FirstStop(k)
          /\ (t \in m.insys) <=> ~(Due(k) <=> t \in m.skew)
          /\ t \notin m.skew => (t \in m.capt <=> Writes(k))
          /\ m.pc \in Detaching => t \in m.todo
      BY <1>3, <2>1 DEF ThreadOK, InTable
    <3>2. FirstStop(k) => ~Due(k) /\ ~Writes(k) /\ ~Due(l) /\ ~Writes(l)
      BY <1>3 DEF FirstStop, Due, Writes
    <3>3. (Due(l) <=> Due(k)) /\ (Writes(l) <=> Writes(k)) /\ (l.mode = "syscall" \/ FirstStop(l))
      BY <1>3, <3>1, <3>2
    <3>4. InTable(n, l, t)
      BY <2>1, <3>1, <3>3 DEF InTable
    <3>5. l.st # "unborn"
      BY <1>3 DEF Mine, Live, Stopped
    <3> QED
      BY <2>1, <3>4, <3>5 DEF ThreadOK, Outside
  <2>2. CASE t \notin n.tids
    BY <1>3, <2>2 DEF ThreadOK, InTable, Outside
  <2> QED BY <2>1, <2>2
<1> QED
  BY <1>1, <1>2, <1>3 DEF Tame

\* The kernel's record of a thread that its session resumes.
LEMMA ResumedFields ==
  ASSUME NEW k \in Task, CallOK(k), Sound(k), k.st \in Stopped, NEW mode \in {"cont", "syscall"},
         NEW inject \in BOOLEAN
  PROVE  LET l == Resumed(k, mode, inject)
         IN  /\ l.st = "run" /\ l.mode = mode /\ l.tracer = k.tracer /\ CallOK(l)
             /\ l.sys = IF k.st = "exit" THEN "user" ELSE k.sys
             /\ Due(l) <=> k.st \in {"enter", "clone"}
             /\ Writes(l) <=> k.st = "enter" /\ k.sys = "write"
<1> DEFINE l == Resumed(k, mode, inject)
<1>1. /\ l.st = "run" /\ l.mode = mode /\ l.tracer = k.tracer
      /\ l.sys = IF k.st = "exit" THEN "user" ELSE k.sys
      /\ l.child = IF k.st = "clone" THEN NoTid ELSE k.child
  BY DEF Resumed, Task
<1> HIDE DEF l
<1>2. l.child # NoTid => FALSE
  BY <1>1 DEF CallOK, Live, Stopped
<1>3. CallOK(l)
  BY <1>1, <1>2 DEF CallOK, Live, Stopped
<1>4. Due(l) <=> k.st \in {"enter", "clone"}
  BY <1>1 DEF CallOK, Due, Stopped
<1>5. k.st = "clone" => k.sys = "other"
  BY KernelAssumption DEF CallOK, Sound, Live, Stopped
<1>6. Writes(l) <=> k.st = "enter" /\ k.sys = "write"
  BY <1>1, <1>4, <1>5 DEF Writes
<1> QED
  BY <1>1, <1>3, <1>4, <1>6 DEF l

----------------------------------------------------------------------------
(* Steps of the threads, and requests that do not resume one *)

LEMMA SameTame ==
  ASSUME NEW k
  PROVE  Tame(k, k)
BY DEF Tame

LEMMA NotMineTame ==
  ASSUME NEW k, NEW l, ~Mine(l)
  PROVE  Tame(k, l)
BY DEF Tame

LEMMA ReapedTame ==
  ASSUME NEW k \in Task, NEW leader \in BOOLEAN, CallOK(k)
  PROVE  /\ Tame(k, Reaped(k, leader)) /\ CallOK(Reaped(k, leader))
         /\ k.st # "unborn" => Reaped(k, leader).st # "unborn"
         /\ Reaped(k, leader).child \in {k.child, NoTid}
<1> DEFINE l == Reaped(k, leader)
<1>1. CASE k.st # "zombie"
  <2>1. /\ l.st = k.st /\ l.tracer = k.tracer /\ l.mode = k.mode /\ l.sys = k.sys
        /\ l.trap = k.trap /\ l.child = k.child
    BY <1>1 DEF Reaped, Task
  <2> HIDE DEF l
  <2>2. Tame(k, l) /\ CallOK(l)
    BY <2>1 DEF Tame, Mine, FirstStop, Due, Writes, CallOK
  <2> QED
    BY <2>1, <2>2 DEF l
<1>2. CASE k.st = "zombie"
  <2>1. l.st \in {"zombie", "gone"} /\ l.child = NoTid
    BY <1>2 DEF Reaped, Untraced, Task
  <2> HIDE DEF l
  <2>2. Tame(k, l) /\ CallOK(l)
    BY <2>1 DEF Tame, Mine, CallOK, Live, Stopped
  <2> QED
    BY <2>1, <2>2 DEF l
<1> QED BY <1>1, <1>2

LEMMA InterruptedTame ==
  ASSUME NEW t \in Tids, task[t] \in Task, CallOK(task[t])
  PROVE  /\ Tame(task[t], Interrupted(t)) /\ CallOK(Interrupted(t))
         /\ Interrupted(t).st = task[t].st /\ Interrupted(t).child = task[t].child
<1> DEFINE k == task[t]
           l == Interrupted(t)
<1>1. /\ l.st = k.st /\ l.tracer = k.tracer /\ l.mode = k.mode /\ l.sys = k.sys
      /\ l.child = k.child /\ (k.st \in Live => l.trap)
  BY DEF Interrupted, Task
<1> HIDE DEF k, l
<1>2. CallOK(l)
  BY <1>1 DEF CallOK, k
<1>3. Tame(k, l)
  BY <1>1 DEF Tame, Mine, FirstStop, Due, Writes
<1> QED
  BY <1>1, <1>2, <1>3 DEF k, l

LEMMA ThreadTame ==
  ASSUME TypeOK, KernelOK, CallsOK, NEW t \in Tids, ThreadStep(t), NEW u \in Tids
  PROVE  /\ Tame(task[u], task'[u]) /\ CallOK(task'[u])
         /\ task'[u].child \in {task[u].child, NoTid} \/ task'[task'[u].child].st # "unborn"
<1> DEFINE Child == task'[u].child \in {task[u].child, NoTid} \/ task'[task'[u].child].st # "unborn"
           Goal == Tame(task[u], task'[u]) /\ CallOK(task'[u]) /\ Child
<1>t. task[t] \in Task /\ task[u] \in Task /\ task \in [Tids -> Task] /\ IsLeader(t) \in BOOLEAN
  BY DEF TypeOK, TaskTypeOK, IsLeader
<1>k. Sound(task[t]) /\ Sound(task[u]) /\ CallOK(task[t]) /\ CallOK(task[u])
  BY DEF KernelOK, CallsOK
<1>0. CASE task'[u] = task[u]
  BY <1>0, <1>k, SameTame
\* t's record becomes k.
<1>c. ASSUME NEW k \in Task, SetTask(t, k), Tame(task[t], k), CallOK(k), k.child = task[t].child
      PROVE  Goal
  <2>1. CASE u = t
    <3>1. task'[u] = k
      BY <1>c, <1>t, <2>1 DEF SetTask
    <3> QED
      BY <1>c, <2>1, <3>1
  <2>2. CASE u # t
    <3>1. task'[u] = task[u]
      BY <1>c, <1>t, <2>2 DEF SetTask
    <3> QED BY <1>0, <3>1
  <2> QED BY <2>1, <2>2
\* t stops in k's state.
<1>s. ASSUME NEW kind \in Stopped, NEW k \in Task
      PROVE  LET l == StoppedAt(k, kind)
             IN  /\ l \in Task /\ l.st = kind /\ l.tracer = k.tracer /\ l.mode = k.mode
                 /\ l.sys = k.sys /\ l.child = k.child
  BY <1>s, StoppedAtType DEF StoppedAt, Task
\* u ends.
<1>e. ASSUME task'[u] = Ended(task[u], IsLeader(u))
      PROVE  Goal
  <2>1. task'[u].st \in {"zombie", "gone"} /\ task'[u].child = task[u].child
    BY <1>e, <1>t DEF Ended, Task
  <2>2. ~Mine(task'[u]) /\ CallOK(task'[u])
    BY <2>1 DEF Mine, CallOK, Live, Stopped
  <2> QED
    BY <2>1, <2>2, NotMineTame
<1>1. ASSUME NEW kind \in SysKind, SysEnter(t, kind)
      PROVE  Goal
  <2> DEFINE k == [task[t] EXCEPT !.sys = kind]
             l == StoppedAt(k, "enter")
  <2>0. /\ task[t].st = "run" /\ task[t].sys = "user" /\ ~task[t].trap
        /\ task[t].child = NoTid /\ kind # "user"
    BY <1>1, <1>k DEF SysEnter, CallOK, SysKind, Live
  <2>1. /\ k \in Task /\ k.tracer = task[t].tracer /\ k.st = "run" /\ k.mode = task[t].mode
        /\ k.child = task[t].child /\ k.sys = kind
    BY <1>t, <2>0 DEF Task
  <2>2. \/ SetTask(t, l)
        \/ SetTask(t, k) /\ ~(Traced(t) /\ k.mode = "syscall")
    BY <1>1 DEF SysEnter
  <2>3. /\ l \in Task /\ l.st = "enter" /\ l.tracer = task[t].tracer /\ l.mode = task[t].mode
        /\ l.sys = kind /\ l.child = task[t].child
    <3> HIDE DEF k
    <3> QED BY <1>s, <2>1 DEF Stopped
  <2> HIDE DEF k, l
  <2>4. CallOK(l) /\ CallOK(k)
    BY <2>0, <2>1, <2>3 DEF CallOK, Live, Stopped
  <2>5. Tame(task[t], l)
    BY <2>0, <2>3 DEF Tame, Mine, FirstStop, Due, Writes, Live, Stopped
  <2>6. ~(Traced(t) /\ k.mode = "syscall") => Tame(task[t], k)
    BY <2>0, <2>1 DEF Tame, Mine, FirstStop, Due, Writes, Live, Stopped, Traced
  <2> QED
    BY <1>c, <2>1, <2>2, <2>3, <2>4, <2>5, <2>6
<1>2. ASSUME NEW c \in Tids, CloneChild(t, c)
      PROVE  Goal
  <2>1. CASE u = c
    <3>1. /\ task'[u].st = "run" /\ task[u].st = "unborn" /\ task'[u].sys = task[u].sys
          /\ task'[u].child = task[u].child
          /\ task'[u].tracer = task[t].tracer
          /\ task'[u].trap = (task[t].tracer # NoSession)
      BY <1>2, <1>t, <2>1 DEF CloneChild, Task, Traced
    <3>2. task'[u].sys = "user" /\ task'[u].child = NoTid
      BY <1>k, <3>1 DEF Sound, CallOK
    <3>3. Mine(task'[u]) => task'[u].trap
      BY <3>1 DEF Mine
    <3> QED
      BY <3>1, <3>2, <3>3 DEF Tame, FirstStop, CallOK, Live, Stopped
  <2>2. CASE u = t /\ u # c
    <3>1. /\ task'[u].st = "run" /\ task[u].st = "run"
          /\ task'[u].tracer = task[u].tracer /\ task'[u].mode = task[u].mode
          /\ task[u].sys = "clone" /\ task'[u].sys = "other" /\ task'[u].child \in {c, NoTid}
          /\ task'[c].st = "run"
      BY <1>2, <1>t, <2>2 DEF CloneChild, Task, Traced
    <3>2. Tame(task[u], task'[u])
      BY <3>1 DEF Tame, Mine, FirstStop, Due, Writes
    <3>3. CallOK(task'[u])
      BY <3>1 DEF CallOK
    <3> QED
      BY <3>1, <3>2, <3>3
  <2>3. CASE u # t /\ u # c
    BY <1>0, <1>2, <1>t, <2>3 DEF CloneChild
  <2> QED BY <2>1, <2>2, <2>3
<1>3. ASSUME NEW sig \in Signals, SigQueue(t, sig)
      PROVE  Goal
  <2> DEFINE k == [task[t] EXCEPT !.sig = sig]
  <2>1. /\ k \in Task /\ k.tracer = task[t].tracer /\ k.st = task[t].st
        /\ k.mode = task[t].mode /\ k.child = task[t].child
        /\ k.trap = task[t].trap /\ k.sys = task[t].sys
    BY <1>t, KernelAssumption DEF Task
  <2>2. SetTask(t, k)
    BY <1>3 DEF SigQueue
  <2> HIDE DEF k
  <2>3. Tame(task[t], k)
    BY <2>1 DEF Tame, Mine, FirstStop, Due, Writes
  <2>4. CallOK(k)
    BY <1>k, <2>1 DEF CallOK
  <2> QED
    BY <1>c, <2>1, <2>2, <2>3, <2>4
<1>4. CASE SysExit(t)
  <2> DEFINE k == [task[t] EXCEPT !.sys = "user"]
             l == StoppedAt(task[t], "exit")
  <2>0. /\ task[t].st = "run" /\ task[t].sys # "user" /\ task[t].child = NoTid
    BY <1>4 DEF SysExit
  <2>1. /\ k \in Task /\ k.tracer = task[t].tracer /\ k.st = "run"
        /\ k.mode = task[t].mode /\ k.child = task[t].child /\ k.sys = "user"
    BY <1>t, <2>0 DEF Task
  <2>2. \/ SetTask(t, l)
        \/ SetTask(t, k) /\ ~(Traced(t) /\ task[t].mode = "syscall")
    BY <1>4 DEF SysExit
  <2>3. /\ l \in Task /\ l.st = "exit" /\ l.tracer = task[t].tracer /\ l.mode = task[t].mode
        /\ l.sys = task[t].sys /\ l.child = task[t].child
    BY <1>s, <1>t DEF Stopped
  <2> HIDE DEF k, l
  <2>4. CallOK(l) /\ CallOK(k)
    BY <2>0, <2>1, <2>3 DEF CallOK, Live, Stopped
  <2>5. Tame(task[t], l)
    BY <2>0, <2>3 DEF Tame, Mine, FirstStop, Due, Writes, Live, Stopped
  <2>6. ~(Traced(t) /\ task[t].mode = "syscall") => Tame(task[t], k)
    BY <2>0, <2>1 DEF Tame, Mine, FirstStop, Due, Writes, Live, Stopped, Traced
  <2> QED
    BY <1>c, <2>1, <2>2, <2>3, <2>4, <2>5, <2>6
<1>5. CASE SigDeliver(t)
  <2> DEFINE k == [task[t] EXCEPT !.sig = "delivered"]
             l == StoppedAt(task[t], "signal")
  <2>0. /\ task[t].st = "run" /\ task[t].sys = "user" /\ ~task[t].trap /\ task[t].child = NoTid
    BY <1>5, <1>k DEF SigDeliver, CallOK, Live
  <2>1. /\ k \in Task /\ k.tracer = task[t].tracer /\ k.st = task[t].st
        /\ k.mode = task[t].mode /\ k.child = task[t].child
        /\ k.trap = task[t].trap /\ k.sys = task[t].sys
    BY <1>t DEF Task
  <2>2. SetTask(t, l) \/ SetTask(t, k)
    BY <1>5 DEF SigDeliver
  <2>3. /\ l \in Task /\ l.st = "signal" /\ l.tracer = task[t].tracer /\ l.mode = task[t].mode
        /\ l.sys = task[t].sys /\ l.child = task[t].child
    BY <1>s, <1>t DEF Stopped
  <2> HIDE DEF k, l
  <2>4. CallOK(l) /\ CallOK(k)
    BY <2>0, <2>1, <2>3, <1>k DEF CallOK, Live, Stopped
  <2>5. Tame(task[t], k)
    BY <2>1 DEF Tame, Mine, FirstStop, Due, Writes
  <2>6. Tame(task[t], l)
    BY <2>0, <2>3 DEF Tame, Mine, FirstStop, Due, Writes, Live, Stopped
  <2> QED
    BY <1>c, <2>1, <2>2, <2>3, <2>4, <2>5, <2>6
<1>6. CASE KillGroup(t)
  <2>1. task'[u] \in {task[u], Ended(task[u], IsLeader(u))}
    BY <1>6 DEF KillGroup
  <2> QED
    BY <1>0, <1>e, <2>1
<1>7. CASE ThreadExit(t)
  <2>1. CASE u = t
    <3>1. task'[u] = Ended(task[u], IsLeader(u))
      BY <1>7, <1>t, <2>1 DEF ThreadExit, SetTask
    <3> QED
      BY <1>e, <3>1
  <2>2. CASE u # t
    BY <1>0, <1>7, <1>t, <2>2 DEF ThreadExit, SetTask
  <2> QED BY <2>1, <2>2
<1>8. CASE ParentReap(t)
  <2> DEFINE k == [task[t] EXCEPT !.st = "gone"]
  <2>1. k \in Task /\ k.st = "gone" /\ k.child = task[t].child
    BY <1>t DEF Task
  <2>2. SetTask(t, k)
    BY <1>8 DEF ParentReap
  <2> HIDE DEF k
  <2>3. ~Mine(k) /\ CallOK(k)
    BY <2>1 DEF Mine, CallOK, Live, Stopped
  <2> QED
    BY <1>c, <2>1, <2>2, <2>3, NotMineTame
<1>9. CASE CloneEvent(t)
  <2> DEFINE l == StoppedAt(task[t], "clone")
  <2>0. task[t].st = "run" /\ task[t].child # NoTid /\ task[t].sys = "other" /\ SetTask(t, l)
    BY <1>9, <1>k DEF CloneEvent, CallOK, Live
  <2>3. /\ l \in Task /\ l.st = "clone" /\ l.tracer = task[t].tracer /\ l.mode = task[t].mode
        /\ l.sys = task[t].sys /\ l.child = task[t].child
    BY <1>s, <1>t DEF Stopped
  <2> HIDE DEF l
  <2>4. CallOK(l)
    BY <2>0, <2>3 DEF CallOK
  <2>5. Tame(task[t], l)
    BY <2>0, <2>3 DEF Tame, Mine, FirstStop, Due, Writes, Live, Stopped
  <2> QED
    BY <1>c, <2>0, <2>3, <2>4, <2>5
<1>10. CASE TrapStop(t)
  <2> DEFINE l == StoppedAt(task[t], "event")
  <2>0. task[t].st = "run" /\ task[t].child = NoTid /\ task[t].sys = "user" /\ SetTask(t, l)
    BY <1>10, <1>k DEF TrapStop, CallOK, Live
  <2>3. /\ l \in Task /\ l.st = "event" /\ l.tracer = task[t].tracer /\ l.mode = task[t].mode
        /\ l.sys = task[t].sys /\ l.child = task[t].child
    BY <1>s, <1>t DEF Stopped
  <2> HIDE DEF l
  <2>4. CallOK(l)
    BY <2>0, <2>3 DEF CallOK
  <2>5. Tame(task[t], l)
    BY <2>0, <2>3 DEF Tame, Mine, FirstStop, Due, Writes, Live, Stopped
  <2> QED
    BY <1>c, <2>0, <2>3, <2>4, <2>5
<1> QED
  BY <1>1, <1>2, <1>3, <1>4, <1>5, <1>6, <1>7, <1>8, <1>9, <1>10 DEF ThreadStep

----------------------------------------------------------------------------
(* Steps of the session *)

StreamInv == TracerInv /\ ThreadsOK /\ HeirsOK

\* The table has room for every thread there is.
Room == Cardinality(Tids) <= MaxTracked

LEMMA RoomForOne ==
  ASSUME Room, NEW S \in SUBSET Tids, NEW t \in Tids, t \notin S
  PROVE  Cardinality(S) < MaxTracked
<1>1. IsFiniteSet(S) /\ IsFiniteSet(Tids) /\ IsFiniteSet(S \cup {t})
  BY KernelAssumption, FS_Subset, FS_AddElement
<1>2. Cardinality(S \cup {t}) = Cardinality(S) + 1
  BY <1>1, FS_AddElement
<1>3. Cardinality(S \cup {t}) <= Cardinality(Tids)
  BY <1>1, FS_Subset
<1>4. Cardinality(S) \in Nat /\ Cardinality(Tids) \in Nat
  BY <1>1, FS_CardinalityType
<1> QED
  BY <1>2, <1>3, <1>4, TracerAssumption DEF Room

SameTable(m, n) ==
  n.tids = m.tids /\ n.insys = m.insys /\ n.capt = m.capt /\ n.skew = m.skew

Calm == \A u \in Tids : Tame(task[u], task'[u]) /\ CallOK(task'[u]) /\ Born(u)

LEMMA CallsFromThreads ==
  ASSUME NEW s, Sessions = {s}, ThreadsOK
  PROVE  CallsOK
BY DEF ThreadsOK, CallsOK, ThreadOK

LEMMA CalmRequests ==
  ASSUME TypeOK, KernelOK, CallsOK, NEW t \in Tids,
         \/ UNCHANGED task
         \/ SetTask(t, Reaped(task[t], IsLeader(t)))
         \/ SetTask(t, Interrupted(t))
  PROVE  Calm
<1> SUFFICES ASSUME NEW u \in Tids
             PROVE  Tame(task[u], task'[u]) /\ CallOK(task'[u]) /\ Born(u)
  BY DEF Calm
<1>t. task[t] \in Task /\ CallOK(task[t]) /\ CallOK(task[u]) /\ task \in [Tids -> Task]
      /\ IsLeader(t) \in BOOLEAN
  BY DEF TypeOK, TaskTypeOK, CallsOK, IsLeader
<1>0. CASE task'[u] = task[u]
  BY <1>0, <1>t, SameTame DEF Born
<1>1. CASE u # t
  BY <1>0, <1>1, <1>t DEF SetTask
<1>2. CASE u = t /\ SetTask(t, Reaped(task[t], IsLeader(t)))
  <2>1. task'[u] = Reaped(task[t], IsLeader(t))
    BY <1>2, <1>t DEF SetTask
  <2> QED
    BY <1>t, <1>2, <2>1, ReapedTame DEF Born
<1>3. CASE u = t /\ SetTask(t, Interrupted(t))
  <2>1. task'[u] = Interrupted(t)
    BY <1>3, <1>t DEF SetTask
  <2> QED
    BY <1>t, <1>3, <2>1, InterruptedTame DEF Born
<1> QED
  BY <1>0, <1>1, <1>2, <1>3

\* The session goes from label to label while the threads go their way.
LEMMA CalmStep ==
  ASSUME TypeOK, ThreadsOK, NEW s \in Sessions, NEW n \in Session, SetSess(s, n),
         SameTable(sess[s], n), Calm,
         n.pc \in Detaching =>
           \/ n.todo = sess[s].tids
           \/ /\ sess[s].pc \in Detaching
              /\ \A u \in sess[s].todo : Mine(task'[u]) => u \in n.todo,
         \A u \in Tids : Seizing(sess[s], u) => Seizing(n, u) \/ ~Mine(task'[u]),
         NEW u \in Tids
  PROVE  ThreadOK(sess'[s], task'[u], u)
<1> DEFINE m == sess[s]
           k == task[u]
           l == task'[u]
<1>1. sess'[s] = n
  BY DEF SetSess, TypeOK
<1>2. ThreadOK(m, k, u) /\ Tame(k, l) /\ CallOK(l) /\ (k.st # "unborn" => l.st # "unborn")
  BY DEF ThreadsOK, Calm, Born
<1>3. CASE ~Mine(l)
  <2>1. u \in n.tids => l.st # "unborn"
    BY <1>2 DEF SameTable, ThreadOK
  <2> QED
    BY <1>1, <1>2, <1>3, <2>1, NotMine
<1>4. CASE Mine(l)
  <2>1. Seizing(m, u) => Seizing(n, u)
    BY <1>4
  <2>2. u \in n.tids /\ n.pc \in Detaching => u \in n.todo \/ (m.pc \in Detaching /\ u \notin m.todo)
    BY <1>4 DEF SameTable
  <2> HIDE DEF m, k, l
  <2>3. ThreadOK(n, l, u)
    BY <1>2, <2>1, <2>2, Carried DEF SameTable, m
  <2> QED
    BY <1>1, <2>3 DEF l
<1> QED BY <1>3, <1>4

\* The session resumes the thread it holds for the next system call.
LEMMA ResumeStep ==
  ASSUME TypeInv, CallsOK, NEW s, Sessions = {s}, sess[s].pc \in Holding,
         NEW t \in Tids, t = sess[s].cur, NEW inject \in BOOLEAN,
         Ptrace(s, t, Resumed(task[t], "syscall", inject))
  PROVE  /\ \A u \in Tids \ {t} : task'[u] = task[u]
         /\ task'[t].st # "unborn" /\ CallOK(task'[t])
         /\ ~Controls(s, t) => ~Mine(task'[t])
         /\ Controls(s, t) =>
              /\ task[t].st = sess[s].status /\ task[t].st \in Stopped
              /\ task'[t].st = "run" /\ task'[t].mode = "syscall"
              /\ Due(task'[t]) <=> task[t].st \in {"enter", "clone"}
              /\ Writes(task'[t]) <=> task[t].st = "enter" /\ task[t].sys = "write"
<1>t. /\ task[t] \in Task /\ task \in [Tids -> Task] /\ Sound(task[t]) /\ CallOK(task[t])
      /\ Held(s) /\ Cur(s) /\ sess[s] \in Session
      /\ task[t].tracer \in {s, NoSession}
  BY DEF TypeInv, TypeOK, TaskTypeOK, KernelOK, CallsOK, HeldOK, CurOK, Task
<1>0. task[t].st # "unborn"
  BY <1>t DEF Cur, Holding
<1>1. \A u \in Tids \ {t} : task'[u] = task[u]
  BY <1>t DEF Ptrace, SetTask
<1>2. CASE Controls(s, t)
  <2> DEFINE l == Resumed(task[t], "syscall", inject)
  <2>1. task'[t] = l
    BY <1>2, <1>t DEF Ptrace, SetTask
  <2>2. task[t].st \in Stopped /\ task[t].st = sess[s].status
    BY <1>2, <1>t DEF Controls, Held, Stopped
  <2>3. /\ l.st = "run" /\ l.mode = "syscall" /\ CallOK(l)
        /\ Due(l) <=> task[t].st \in {"enter", "clone"}
        /\ Writes(l) <=> task[t].st = "enter" /\ task[t].sys = "write"
    BY <1>t, <2>2, ResumedFields
  <2> HIDE DEF l
  <2> QED
    BY <1>1, <1>2, <2>1, <2>2, <2>3
<1>3. CASE ~Controls(s, t)
  <2>1. task'[t] = task[t]
    BY <1>3, <1>t DEF Ptrace, SetTask
  <2>2. ~Mine(task[t])
    BY <1>3, <1>t DEF Controls, Held, Mine, Live, Session, Stopped
  <2> QED
    BY <1>0, <1>1, <1>3, <1>t, <2>1, <2>2
<1> QED BY <1>2, <1>3

\* A thread joins the table as it is resumed.
LEMMA JoinStep ==
  ASSUME NEW n, NEW l, NEW t, NEW k, CallOK(l), l.st = "run", l.mode = "syscall",
         t \in n.tids, t \notin n.insys, t \notin n.capt,
         t \in n.skew <=> k.st \in {"enter", "clone"},
         Due(l) <=> k.st \in {"enter", "clone"},
         Writes(l) <=> k.st = "enter" /\ k.sys = "write",
         n.pc \notin Detaching
  PROVE  ThreadOK(n, l, t)
BY DEF ThreadOK, InTable, Outside

LEMMA AttachOK ==
  ASSUME StreamInv, NEW s, Sessions = {s},
         \/ \E t \in Tids : Seize(s, t)
         \/ Interrupt(s) \/ WaitStop(s) \/ Adopt(s) \/ AllSeized(s) \/ Alloc(s),
         NEW u \in Tids
  PROVE  ThreadOK(sess'[s], task'[u], u)
<1> DEFINE m == sess[s]
           Goal == ThreadOK(sess'[s], task'[u], u)
<1>i. TypeInv /\ TypeOK /\ KernelOK /\ ThreadsOK /\ CallsOK /\ s \in Sessions
  BY CallsFromThreads DEF StreamInv, TracerInv, TypeInv
<1>s. m \in Session /\ LocalsOK(m) /\ Cur(s) /\ Held(s) /\ sess \in [Sessions -> Session]
      /\ task \in [Tids -> Task]
  BY <1>i DEF StreamInv, TracerInv, TypeInv, TypeOK, TaskTypeOK, TablesOK, CurOK, HeldOK
<1>k. \A t \in Tids : /\ task[t] \in Task /\ ThreadOK(m, task[t], t) /\ CallOK(task[t])
                      /\ task[t].tracer \in {s, NoSession}
  BY <1>i DEF TypeOK, TaskTypeOK, ThreadsOK, CallsOK, Task
<1>d. \A n \in Session : SetSess(s, n) => sess'[s] = n
  BY <1>s DEF SetSess
\* On to the next thread.
<1>n. ASSUME NEW p \in Session, SetSess(s, NextThread(p)), SameTable(m, p), UNCHANGED task,
             \A t \in Tids : Seizing(m, t) => ~Mine(task[t])
      PROVE  Goal
  <2> DEFINE n == NextThread(p)
  <2>1. n \in Session /\ n.pc = "seize" /\ SameTable(m, n)
    BY <1>n, NextThreadType, NextThreadFields DEF SameTable
  <2>2. Calm
    BY <1>i, <1>n, CalmRequests
  <2>3. \A t \in Tids : Seizing(m, t) => Seizing(n, t) \/ ~Mine(task'[t])
    BY <1>n
  <2> HIDE DEF n
  <2>4. SetSess(s, n)
    BY <1>n DEF n
  <2> QED
    BY <1>i, <2>1, <2>2, <2>3, <2>4, CalmStep DEF Detaching
<1>1. ASSUME NEW t \in Tids, Seize(s, t)
      PROVE  Goal
  <2> DEFINE p == [m EXCEPT !.cur = t]
             q == [m EXCEPT !.pc = "interrupt", !.cur = t]
             r == [p EXCEPT !.attempt = @ + 1]
  <2>0. m.pc = "seize" /\ t \in m.todo /\ t \notin m.tids
    BY <1>1, <1>s DEF Seize, At, LocalsOK, Attaching
  <2>1. /\ p \in Session /\ p.pc = m.pc /\ SameTable(m, p) /\ p.cur = t
        /\ q \in Session /\ q.pc = "interrupt" /\ SameTable(m, q) /\ q.cur = t
    BY <1>s DEF Session, PC, SameTable
  <2>z. \A v \in Tids : ~Seizing(m, v)
    BY <2>0 DEF Seizing
  <2>2. CASE /\ SetSess(s, q)
             /\ SetTask(t, [task[t] EXCEPT !.tracer = s, !.mode = "cont"])
    <3>1. sess'[s] = q
      BY <1>d, <2>1, <2>2
    <3> HIDE DEF q
    <3>2. CASE u = t
      <4> DEFINE l == [task[t] EXCEPT !.tracer = s, !.mode = "cont"]
      <4>1. task'[u] = l
        BY <1>s, <2>2, <3>2 DEF SetTask
      <4>2. l.st = task[t].st /\ l.sys = task[t].sys /\ l.child = task[t].child
        BY <1>k DEF Task
      <4> HIDE DEF l
      <4>3. CallOK(l)
        BY <1>k, <4>2 DEF CallOK
      <4>4. u \notin q.tids /\ Seizing(q, u)
        BY <2>0, <2>1, <3>2 DEF SameTable, Seizing
      <4> QED
        BY <3>1, <4>1, <4>3, <4>4 DEF ThreadOK, InTable, Outside
    <3>3. CASE u # t
      <4>1. task'[u] = task[u]
        BY <1>s, <2>2, <3>3 DEF SetTask
      <4>2. ThreadOK(q, task[u], u)
        BY <1>k, <2>1, <2>z, Carried, SameTame DEF SameTable, Detaching
      <4> QED
        BY <3>1, <4>1, <4>2
    <3> QED BY <3>2, <3>3
  <2>3. CASE SetSess(s, NextThread(p)) /\ UNCHANGED task
    <3> HIDE DEF p
    <3> QED
      BY <1>n, <2>1, <2>3, <2>z
  <2>4. CASE SetSess(s, r) /\ p.attempt + 1 < SeizeAttempts /\ UNCHANGED task
    <3>1. r \in Session /\ r.pc = m.pc /\ SameTable(m, r)
      <4> HIDE DEF p
      <4> QED
        BY <2>1, <2>4, TracerAssumption DEF Session, SameTable
    <3> HIDE DEF r
    <3>2. Calm
      BY <1>i, <2>4, CalmRequests
    <3> QED
      BY <1>i, <2>0, <2>4, <2>z, <3>1, <3>2, CalmStep DEF Detaching
  <2>5. \/ SetSess(s, q) /\ SetTask(t, [task[t] EXCEPT !.tracer = s, !.mode = "cont"])
        \/ UNCHANGED task /\ (SetSess(s, Retried(p)) \/ SetSess(s, NextThread(p)))
    BY <1>1 DEF Seize
  <2> QED
    BY <2>2, <2>3, <2>4, <2>5 DEF Retried
<1>2. CASE Interrupt(s)
  <2> DEFINE q == [m EXCEPT !.pc = "wait"]
             t == m.cur
  <2>0. m.pc = "interrupt" /\ t \in Tids
    BY <1>2, <1>s DEF Interrupt, At, Cur
  <2>1. q \in Session /\ q.pc = "wait" /\ SameTable(m, q) /\ q.cur = m.cur
    BY <1>s DEF Session, PC, SameTable
  <2>2. CASE SetTask(t, Interrupted(t)) /\ SetSess(s, q)
    <3>1. Calm
      BY <1>i, <2>0, <2>2, CalmRequests
    <3>2. \A v \in Tids : Seizing(m, v) => Seizing(q, v)
      BY <2>1 DEF Seizing
    <3> HIDE DEF q
    <3> QED
      BY <1>i, <2>1, <2>2, <3>1, <3>2, CalmStep DEF Detaching
  <2>3. CASE ~CanInterrupt(s, t) /\ UNCHANGED task /\ SetSess(s, NextThread(m))
    <3>1. ~Mine(task[t])
      BY <1>k, <2>0, <2>3 DEF CanInterrupt, Mine, Live, Stopped
    <3> QED
      BY <1>n, <1>s, <2>3, <3>1 DEF SameTable, Seizing
  <2> QED
    BY <1>2, <2>2, <2>3 DEF Interrupt
<1>3. CASE WaitStop(s)
  <2> DEFINE t == m.cur
             q == [[m EXCEPT !.pc = "adopt"] EXCEPT !.status = task[t].st]
  <2>0. m.pc = "wait" /\ t \in Tids
    BY <1>3, <1>s DEF WaitStop, At, Cur
  <2>1. CASE Waitable(t) /\ SetTask(t, Reaped(task[t], IsLeader(t))) /\ SetSess(s, q)
    <3>1. task[t].st \in Stopped \cup {"zombie"}
      BY <1>i, <2>0, <2>1 DEF Waitable, KernelOK, Sound
    <3>2. q \in Session /\ q.pc = "adopt" /\ SameTable(m, q) /\ q.cur = m.cur
      BY <1>s, <3>1 DEF Session, PC, SameTable
    <3>3. Calm
      BY <1>i, <2>0, <2>1, CalmRequests
    <3>4. \A v \in Tids : Seizing(m, v) => Seizing(q, v)
      BY <3>2 DEF Seizing
    <3> HIDE DEF q
    <3> QED
      BY <1>i, <2>1, <3>2, <3>3, <3>4, CalmStep DEF Detaching
  <2>2. CASE ~Traced(t) /\ UNCHANGED task /\ SetSess(s, NextThread(m))
    <3>1. ~Mine(task[t])
      BY <2>2 DEF Traced, Mine
    <3> QED
      BY <1>n, <1>s, <2>2, <3>1 DEF SameTable, Seizing
  <2> QED
    BY <1>3, <2>1, <2>2 DEF WaitStop, WaitFor
<1>4. CASE Adopt(s)
  <2> DEFINE t == m.cur
             p == Tracked(m, t)
             n == NextThread(p)
  <2>a. /\ m.pc = "adopt" /\ t \in Tids /\ t \in m.todo /\ m.pc \in Holding
    BY <1>4, <1>s DEF Adopt, At, LocalsOK, Attaching, Cur, Holding
  <2>b. HasRoom(m)
    BY <1>s, <2>a, RoomToAdopt DEF Attaching
  <2>0. /\ m.pc = "adopt" /\ t \in Tids /\ t \in m.todo /\ m.pc \in Holding
        /\ Ptrace(s, t, Resumed(task[t], "syscall", FALSE))
    BY <1>4, <2>a, <2>b DEF Adopt
  <2>1. /\ \A v \in Tids \ {t} : task'[v] = task[v]
        /\ task'[t].st # "unborn" /\ CallOK(task'[t])
        /\ ~Controls(s, t) => ~Mine(task'[t])
        /\ Controls(s, t) =>
             /\ task[t].st = m.status /\ task[t].st \in Stopped
             /\ task'[t].st = "run" /\ task'[t].mode = "syscall"
             /\ Due(task'[t]) <=> task[t].st \in {"enter", "clone"}
             /\ Writes(task'[t]) <=> task[t].st = "enter" /\ task[t].sys = "write"
    BY <1>i, <2>0, ResumeStep
  <2>2. CASE Controls(s, t) /\ SetSess(s, n)
    <3>1. /\ p \in Session /\ p.tids = m.tids \cup {t} /\ p.insys = m.insys \ {t}
          /\ p.capt = m.capt \ {t}
          /\ p.skew = IF m.status \in {"clone", "enter"} THEN m.skew \cup {t} ELSE m.skew \ {t}
      BY <1>s, <2>0, TrackedType, TrackedFields
    <3> HIDE DEF p
    <3>2. /\ n \in Session /\ n.pc = "seize" /\ n.tids = p.tids /\ n.insys = p.insys
          /\ n.capt = p.capt /\ n.skew = p.skew
      BY <3>1, NextThreadType, NextThreadFields
    <3> HIDE DEF n
    <3>3. sess'[s] = n
      BY <1>d, <2>2, <3>2
    <3>4. CASE u = t
      <4>1. ThreadOK(n, task'[t], t)
        <5>1. t \in n.skew <=> task[t].st \in {"enter", "clone"}
          BY <2>1, <2>2, <3>1, <3>2
        <5>2. t \in n.tids /\ t \notin n.insys /\ t \notin n.capt
          BY <3>1, <3>2
        <5> QED
          BY <2>1, <2>2, <3>2, <5>1, <5>2, JoinStep DEF Detaching
      <4> QED
        BY <3>3, <3>4, <4>1
    <3>5. CASE u # t
      <4>1. task'[u] = task[u] /\ ~Seizing(m, u)
        BY <2>1, <3>5 DEF Seizing
      <4>2. /\ u \in n.tids <=> u \in m.tids
            /\ u \in n.insys <=> u \in m.insys
            /\ u \in n.capt <=> u \in m.capt
            /\ u \in n.skew <=> u \in m.skew
        BY <3>1, <3>2, <3>5
      <4>3. ThreadOK(n, task[u], u)
        BY <1>k, <3>2, <4>1, <4>2, Carried, SameTame DEF Detaching
      <4> QED
        BY <3>3, <4>1, <4>3
    <3> QED BY <3>4, <3>5
  <2>3. CASE ~Controls(s, t) /\ SetSess(s, NextThread(m))
    <3>1. UNCHANGED task
      BY <1>s, <2>0, <2>3 DEF Ptrace, SetTask
    <3>2. ~Mine(task[t])
      BY <2>1, <2>3, <3>1
    <3> QED
      BY <1>n, <1>s, <2>3, <3>1, <3>2 DEF SameTable, Seizing
  <2> QED
    BY <1>4, <2>b, <2>2, <2>3 DEF Adopt
<1>5. CASE AllSeized(s)
  <2> DEFINE q == [m EXCEPT !.pc = "alloc"]
             e == Returned(m, "error")
  <2>1. /\ m.pc = "seize" /\ UNCHANGED task
        /\ (m.tids = {} /\ SetSess(s, e)) \/ (m.tids # {} /\ SetSess(s, q))
    BY <1>5 DEF AllSeized, At
  <2>2. q \in Session /\ q.pc = "alloc" /\ SameTable(m, q)
    BY <1>s DEF Session, PC, SameTable
  <2>3. e \in Session /\ e.pc = "idle" /\ e.tids = {}
    BY <1>s, ReturnedType, ReturnedFields
  <2>4. Calm /\ \A v \in Tids : ~Seizing(m, v)
    BY <1>i, <2>1, CalmRequests DEF Seizing
  <2> HIDE DEF q, e
  <2>5. CASE SetSess(s, q)
    BY <1>i, <2>2, <2>4, <2>5, CalmStep DEF Detaching
  <2>6. CASE m.tids = {} /\ SetSess(s, e)
    <3>1. ThreadOK(e, task[u], u)
      BY <1>k, <2>3, <2>4, <2>6, Carried, SameTame DEF Detaching
    <3> QED
      BY <1>d, <2>1, <2>3, <2>6, <3>1
  <2> QED
    BY <2>1, <2>5, <2>6
<1>6. CASE Alloc(s)
  <2> DEFINE a == [m EXCEPT !.pc = "loop"]
             b == [m EXCEPT !.pc = "detach", !.todo = m.tids, !.rc = "error"]
  <2>1. m.pc = "alloc" /\ UNCHANGED task /\ (SetSess(s, a) \/ SetSess(s, b))
    BY <1>6 DEF Alloc, At
  <2>2. /\ a \in Session /\ a.pc = "loop" /\ SameTable(m, a)
        /\ b \in Session /\ b.pc = "detach" /\ SameTable(m, b) /\ b.todo = m.tids
    <3>1. a \in Session /\ a.pc = "loop" /\ SameTable(m, a)
      BY <1>s DEF Session, PC, SameTable
    <3>2. b \in Session /\ b.pc = "detach" /\ SameTable(m, b) /\ b.todo = m.tids
      BY <1>s DEF Session, PC, SameTable
    <3> QED BY <3>1, <3>2
  <2>3. Calm /\ \A v \in Tids : ~Seizing(m, v)
    BY <1>i, <2>1, CalmRequests DEF Seizing
  <2> HIDE DEF a, b
  <2> QED
    BY <1>i, <2>1, <2>2, <2>3, CalmStep DEF Detaching
<1> QED
  BY <1>1, <1>2, <1>3, <1>4, <1>5, <1>6

\* in_syscall and capturing follow a thread over a system-call-stop.
LEMMA ToggleStep ==
  ASSUME NEW m, NEW n, NEW k, NEW l, NEW t, CallOK(k), CallOK(l), InTable(m, k, t),
         t \in m.tids, Mine(k), k.st \in {"enter", "exit"},
         l.st = "run", l.mode = "syscall",
         Due(l) <=> k.st \in {"enter", "clone"},
         Writes(l) <=> k.st = "enter" /\ k.sys = "write",
         n.pc = "loop", t \in n.tids, t \in n.skew <=> t \in m.skew,
         t \in n.insys <=> t \notin m.insys,
         t \in n.capt <=> t \notin m.insys /\ k.sys = "write"
  PROVE  ThreadOK(n, l, t)
<1>1. Due(k) <=> k.st = "exit"
  BY DEF Due, CallOK
<1>2. (t \in m.insys) <=> ~(Due(k) <=> t \in m.skew)
  BY DEF InTable
<1>3. (t \in n.insys) <=> ~(Due(l) <=> t \in n.skew)
  BY <1>1, <1>2
<1>4. t \notin n.skew => (t \in n.capt <=> Writes(l))
  BY <1>1, <1>2
<1> QED
  BY <1>3, <1>4 DEF ThreadOK, InTable, Outside, Detaching

\* A thread goes on from a stop that is none of a system call.
LEMMA GoOnStep ==
  ASSUME NEW m, NEW n, NEW k, NEW l, NEW t, InTable(m, k, t), t \in m.tids, Mine(k),
         CallOK(l), l.st = "run", l.mode = "syscall",
         Due(l) <=> Due(k), Writes(l) <=> Writes(k),
         n.pc = "loop", t \in n.tids, t \in n.insys <=> t \in m.insys,
         t \in n.capt <=> t \in m.capt, t \in n.skew <=> t \in m.skew
  PROVE  ThreadOK(n, l, t)
<1>1. /\ (t \in m.insys) <=> ~(Due(k) <=> t \in m.skew)
      /\ t \notin m.skew => (t \in m.capt <=> Writes(k))
  BY DEF InTable
<1>2. /\ (t \in n.insys) <=> ~(Due(l) <=> t \in n.skew)
      /\ t \notin n.skew => (t \in n.capt <=> Writes(l))
  BY <1>1
<1> QED
  BY <1>2 DEF ThreadOK, InTable, Outside, Detaching

LEMMA LoopOK ==
  ASSUME StreamInv, NEW s, Sessions = {s}, Room,
         \/ \E t \in Tids : LoopReap(s, t)
         \/ LoopPoll(s) \/ LoopNoChild(s)
         \/ HandleUntracked(s) \/ HandleExited(s) \/ HandleNew(s) \/ WriteCb(s)
         \/ HandleSyscall(s) \/ HandleClone(s) \/ HandleTrap(s) \/ HandleSignal(s),
         NEW u \in Tids
  PROVE  ThreadOK(sess'[s], task'[u], u)
<1> DEFINE m == sess[s]
           t == m.cur
           Goal == ThreadOK(sess'[s], task'[u], u)
<1>i. TypeInv /\ TypeOK /\ KernelOK /\ ThreadsOK /\ CallsOK /\ HeirsOK /\ s \in Sessions
  BY CallsFromThreads DEF StreamInv, TracerInv, TypeInv
<1>s. m \in Session /\ LocalsOK(m) /\ Cur(s) /\ Held(s) /\ sess \in [Sessions -> Session]
      /\ task \in [Tids -> Task]
  BY <1>i DEF StreamInv, TracerInv, TypeInv, TypeOK, TaskTypeOK, TablesOK, CurOK, HeldOK
<1>k. \A v \in Tids : /\ task[v] \in Task /\ ThreadOK(m, task[v], v) /\ CallOK(task[v])
                      /\ task[v].tracer \in {s, NoSession}
  BY <1>i DEF TypeOK, TaskTypeOK, ThreadsOK, CallsOK, Task
<1>d. \A n \in Session : SetSess(s, n) => sess'[s] = n
  BY <1>s DEF SetSess
<1>z. m.pc \in {"loop", "handle"} => \A v \in Tids : ~Seizing(m, v)
  BY DEF Seizing
<1>c. m.pc = "handle" => t \in Tids /\ m.pc \in Holding
  BY <1>s DEF Cur, Holding
<1>b. /\ Back(m) \in Session /\ Back(m).pc = "loop" /\ SameTable(m, Back(m))
      /\ Back(m).status = "none"
  BY <1>s, BackType, BackFields DEF SameTable
\* A thread that the step does not concern.
<1>o. ASSUME NEW n \in Session, SetSess(s, n), task'[u] = task[u], n.pc \in {"loop", "idle"},
             m.pc \in {"loop", "handle"},
             u \in n.tids <=> u \in m.tids,
             u \in n.tids => /\ u \in n.insys <=> u \in m.insys
                             /\ u \in n.capt <=> u \in m.capt
                             /\ u \in n.skew <=> u \in m.skew
      PROVE  Goal
  <2>1. ThreadOK(n, task[u], u)
    BY <1>k, <1>o, <1>z, Carried, SameTame DEF Detaching
  <2> QED
    BY <1>d, <1>o, <2>1
\* The thread in hand is resumed.
<1>r. ASSUME NEW inject \in BOOLEAN, m.pc = "handle",
             Ptrace(s, t, Resumed(task[t], "syscall", inject))
      PROVE  /\ \A v \in Tids \ {t} : task'[v] = task[v]
             /\ task'[t].st # "unborn" /\ CallOK(task'[t])
             /\ ~Controls(s, t) => ~Mine(task'[t])
             /\ Controls(s, t) =>
                  /\ task[t].st = m.status /\ task[t].st \in Stopped
                  /\ task'[t].st = "run" /\ task'[t].mode = "syscall"
                  /\ Due(task'[t]) <=> task[t].st \in {"enter", "clone"}
                  /\ Writes(task'[t]) <=> task[t].st = "enter" /\ task[t].sys = "write"
                  /\ Mine(task[t])
  <2>1. Controls(s, t) => Mine(task[t])
    BY KernelAssumption, <1>i DEF Controls, Mine, Live
  <2> QED
    BY <1>i, <1>c, <1>r, <2>1, ResumeStep
<1>1. ASSUME NEW v \in Tids, LoopReap(s, v)
      PROVE  Goal
  <2> DEFINE n == [m EXCEPT !.pc = "handle", !.cur = v, !.status = task[v].st]
  <2>1. task[v].st \in Stopped \cup {"zombie"}
    BY <1>1, <1>i DEF LoopReap, Waitable, KernelOK, Sound
  <2>2. n \in Session /\ n.pc = "handle" /\ SameTable(m, n)
    BY <1>s, <2>1 DEF Session, PC, SameTable
  <2>3. m.pc = "loop" /\ SetSess(s, n) /\ SetTask(v, Reaped(task[v], IsLeader(v)))
    BY <1>1 DEF LoopReap, At
  <2>4. Calm
    BY <1>i, <2>3, CalmRequests
  <2> HIDE DEF n
  <2> QED
    BY <1>i, <1>z, <2>2, <2>3, <2>4, CalmStep DEF Detaching
<1>2. CASE LoopPoll(s)
  <2> DEFINE c == IF m.client = "stop" THEN "open" ELSE m.client
             n == [m EXCEPT !.pc = "detach", !.todo = m.tids, !.client = c]
  <2>1. c \in {"open", "stop", "closed"}
    BY <1>s DEF Session
  <2>2. m.pc = "loop" /\ SetSess(s, n) /\ UNCHANGED task
    BY <1>2 DEF LoopPoll, At
  <2> HIDE DEF c
  <2>3. n \in Session /\ n.pc = "detach" /\ SameTable(m, n) /\ n.todo = m.tids
    BY <1>s, <2>1 DEF Session, PC, SameTable
  <2>4. Calm
    BY <1>i, <2>2, CalmRequests
  <2> HIDE DEF n
  <2> QED
    BY <1>i, <1>z, <2>2, <2>3, <2>4, CalmStep DEF Detaching
<1>3. CASE LoopNoChild(s)
  <2> DEFINE n == Returned(m, "ok")
  <2>1. n \in Session /\ n.pc = "idle" /\ n.tids = {}
    BY <1>s, ReturnedType, ReturnedFields
  <2>2. SetSess(s, n) /\ UNCHANGED task /\ ~Mine(task[u])
    BY <1>3 DEF LoopNoChild, Traced, Mine
  <2> HIDE DEF n
  <2>3. ThreadOK(n, task[u], u)
    BY <1>k, <2>1, <2>2, NotMine
  <2> QED
    BY <1>d, <2>1, <2>2, <2>3
<1>4. CASE HandleUntracked(s)
  <2>1. m.pc = "handle" /\ t \notin m.tids /\ ~(Cardinality(m.tids) < MaxTracked)
    BY <1>4 DEF HandleUntracked, At, HasRoom
  <2>2. m.tids \in SUBSET Tids
    BY <1>s DEF Session
  <2> QED
    BY <1>c, <2>1, <2>2, RoomForOne
<1>5. CASE HandleExited(s)
  <2> DEFINE p == remove_tid(m, t)
             n == Back(p)
             e == Returned(p, "ok")
  <2>0. m.pc = "handle" /\ t \in Tids /\ m.status = "zombie" /\ UNCHANGED task
    BY <1>5, <1>c DEF HandleExited, At
  <2>1. ~Mine(task[t])
    BY <1>s, <1>k, <2>0 DEF Held, Holding, Mine, Live, Stopped
  <2>2. /\ p \in Session /\ p.tids = m.tids \ {t} /\ p.insys = m.insys \ {t}
        /\ p.capt = m.capt \ {t} /\ p.skew = m.skew \ {t}
    <3>1. p \in Session
      BY <1>s, <2>0, TrackedType
    <3> QED
      BY <1>s, <2>0, <3>1, RemovedFields
  <2>3. \/ p.tids = {} /\ SetSess(s, e)
        \/ p.tids # {} /\ SetSess(s, n)
    BY <1>5 DEF HandleExited
  <2> HIDE DEF p
  <2>4. /\ e \in Session /\ e.pc = "idle" /\ e.tids = {}
        /\ n \in Session /\ n.pc = "loop" /\ n.tids = p.tids /\ n.insys = p.insys
        /\ n.capt = p.capt /\ n.skew = p.skew
    BY <2>2, ReturnedType, ReturnedFields, BackType, BackFields
  <2> HIDE DEF n, e
  <2>5. CASE u = t
    <3>1. ThreadOK(n, task[u], u) /\ ThreadOK(e, task[u], u)
      BY <1>k, <2>1, <2>2, <2>4, <2>5, NotMine
    <3> QED
      BY <1>d, <2>0, <2>3, <2>4, <3>1
  <2>6. CASE u # t
    <3>1. CASE p.tids = {} /\ SetSess(s, e)
      <4>1. u \notin m.tids /\ u \notin e.tids
        BY <2>2, <2>4, <2>6, <3>1
      <4> QED
        BY <1>o, <2>0, <2>4, <3>1, <4>1
    <3>2. CASE SetSess(s, n)
      <4>1. /\ u \in n.tids <=> u \in m.tids
            /\ u \in n.insys <=> u \in m.insys
            /\ u \in n.capt <=> u \in m.capt
            /\ u \in n.skew <=> u \in m.skew
        BY <2>2, <2>4, <2>6
      <4> QED
        BY <1>o, <2>0, <2>4, <3>2, <4>1
    <3> QED BY <2>3, <3>1, <3>2
  <2> QED BY <2>5, <2>6
<1>6. CASE HandleNew(s)
  <2> DEFINE p == Tracked(m, t)
             n == Back(p)
  <2>0. /\ m.pc = "handle" /\ t \in Tids /\ t \notin m.tids /\ SetSess(s, n)
        /\ Ptrace(s, t, Resumed(task[t], "syscall", FALSE))
    BY <1>6, <1>c DEF HandleNew, At
  <2>1. /\ p \in Session /\ p.tids = m.tids \cup {t} /\ p.insys = m.insys \ {t}
        /\ p.capt = m.capt \ {t}
        /\ p.skew = IF m.status \in {"clone", "enter"} THEN m.skew \cup {t} ELSE m.skew \ {t}
    BY <1>s, <2>0, TrackedType, TrackedFields
  <2> HIDE DEF p
  <2>2. /\ n \in Session /\ n.pc = "loop" /\ n.tids = p.tids /\ n.insys = p.insys
        /\ n.capt = p.capt /\ n.skew = p.skew
    BY <2>1, BackType, BackFields
  <2> HIDE DEF n
  <2>3. CASE u = t
    <3>1. CASE Controls(s, t)
      <4>1. t \in n.skew <=> task[t].st \in {"enter", "clone"}
        BY <1>r, <2>0, <2>1, <2>2, <3>1
      <4>2. t \in n.tids /\ t \notin n.insys /\ t \notin n.capt
        BY <2>1, <2>2
      <4>3. ThreadOK(n, task'[t], t)
        BY <1>r, <2>0, <2>2, <3>1, <4>1, <4>2, JoinStep DEF Detaching
      <4> QED
        BY <1>d, <2>0, <2>2, <2>3, <4>3
    <3>2. CASE ~Controls(s, t)
      <4>1. ThreadOK(n, task'[t], t)
        BY <1>r, <2>0, <3>2, NotMine
      <4> QED
        BY <1>d, <2>0, <2>2, <2>3, <4>1
    <3> QED BY <3>1, <3>2
  <2>4. CASE u # t
    <3>1. task'[u] = task[u]
      BY <1>r, <2>0, <2>4
    <3>2. /\ u \in n.tids <=> u \in m.tids
          /\ u \in n.insys <=> u \in m.insys
          /\ u \in n.capt <=> u \in m.capt
          /\ u \in n.skew <=> u \in m.skew
      BY <2>1, <2>2, <2>4
    <3> QED
      BY <1>o, <2>0, <2>2, <3>1, <3>2
  <2> QED BY <2>3, <2>4
<1>7. CASE HandleSyscall(s)
  <2> DEFINE p == Toggled(s, t)
             n == Back(p)
  <2>0. /\ m.pc = "handle" /\ t \in Tids /\ t \in m.tids /\ SetSess(s, n)
        /\ m.status \in {"enter", "exit"}
        /\ Ptrace(s, t, Resumed(task[t], "syscall", FALSE))
    BY <1>7, <1>c DEF HandleSyscall, AtSyscallStop, At
  <2>1. /\ p \in Session /\ p.tids = m.tids /\ p.skew = m.skew
        /\ t \in p.insys <=> t \notin m.insys
        /\ Controls(s, t) => (t \in p.capt <=> t \notin m.insys /\ task[t].sys = "write")
        /\ u # t => (u \in p.insys <=> u \in m.insys) /\ (u \in p.capt <=> u \in m.capt)
    <3>1. CASE t \notin m.insys
      <4> DEFINE c == IF Controls(s, t) /\ task[t].sys = "write" THEN m.capt \cup {t}
                      ELSE m.capt \ {t}
      <4>1. p = [m EXCEPT !.insys = m.insys \cup {t}, !.capt = c]
        BY <3>1 DEF Toggled
      <4>2. c \in SUBSET Tids
        BY <1>s, <2>0 DEF Session
      <4> HIDE DEF c, p
      <4>3. p \in Session /\ p.tids = m.tids /\ p.skew = m.skew
            /\ p.insys = m.insys \cup {t} /\ p.capt = c
        BY <1>s, <2>0, <4>1, <4>2 DEF Session
      <4> QED
        BY <3>1, <4>3 DEF c
    <3>2. CASE t \in m.insys
      <4>1. p = [m EXCEPT !.insys = m.insys \ {t}, !.capt = m.capt \ {t}]
        BY <3>2 DEF Toggled
      <4> HIDE DEF p
      <4>2. p \in Session /\ p.tids = m.tids /\ p.skew = m.skew
            /\ p.insys = m.insys \ {t} /\ p.capt = m.capt \ {t}
        BY <1>s, <2>0, <4>1 DEF Session
      <4> QED
        BY <3>2, <4>2
    <3> QED BY <3>1, <3>2
  <2> HIDE DEF p
  <2>2. /\ n \in Session /\ n.pc = "loop" /\ n.tids = p.tids /\ n.insys = p.insys
        /\ n.capt = p.capt /\ n.skew = p.skew
    BY <2>1, BackType, BackFields
  <2> HIDE DEF n
  <2>3. CASE u = t
    <3>1. CASE Controls(s, t)
      <4>1. InTable(m, task[t], t) /\ CallOK(task[t])
        BY <1>k, <2>0 DEF ThreadOK
      <4>2. task[t].st \in {"enter", "exit"} /\ Mine(task[t])
        BY <1>r, <2>0, <3>1
      <4>3. ThreadOK(n, task'[t], t)
        BY <1>r, <2>0, <2>1, <2>2, <3>1, <4>1, <4>2, ToggleStep
      <4> QED
        BY <1>d, <2>0, <2>2, <2>3, <4>3
    <3>2. CASE ~Controls(s, t)
      <4>1. ThreadOK(n, task'[t], t)
        BY <1>r, <2>0, <3>2, NotMine
      <4> QED
        BY <1>d, <2>0, <2>2, <2>3, <4>1
    <3> QED BY <3>1, <3>2
  <2>4. CASE u # t
    <3>1. task'[u] = task[u]
      BY <1>r, <2>0, <2>4
    <3>2. /\ u \in n.tids <=> u \in m.tids
          /\ u \in n.insys <=> u \in m.insys
          /\ u \in n.capt <=> u \in m.capt
          /\ u \in n.skew <=> u \in m.skew
      BY <2>1, <2>2, <2>4
    <3> QED
      BY <1>o, <2>0, <2>2, <3>1, <3>2
  <2> QED BY <2>3, <2>4
\* The thread in hand is resumed from a stop that is none of a system call.
<1>g. ASSUME NEW inject \in BOOLEAN, m.pc = "handle", t \in m.tids, m.status \in {"clone", "event", "signal"},
             Ptrace(s, t, Resumed(task[t], "syscall", inject)),
             NEW n \in Session, n.pc = "loop", SetSess(s, n), u = t,
             u \in n.tids /\ (u \in n.insys <=> u \in m.insys)
               /\ (u \in n.capt <=> u \in m.capt) /\ (u \in n.skew <=> u \in m.skew)
      PROVE  Goal
  <2>0. /\ task'[t].st # "unborn" /\ CallOK(task'[t]) /\ t \in Tids
        /\ ~Controls(s, t) => ~Mine(task'[t])
    BY <1>c, <1>g, <1>r
  <2>1. CASE Controls(s, t)
    <3>1. /\ task[t].st \in {"clone", "event", "signal"} /\ Mine(task[t])
          /\ task'[t].st = "run" /\ task'[t].mode = "syscall"
          /\ Due(task'[t]) <=> task[t].st = "clone"
          /\ ~Writes(task'[t])
      BY <1>g, <1>r, <2>1
    <3>2. Due(task[t]) <=> task[t].st = "clone"
      BY <1>k, <2>0, <3>1 DEF Due, CallOK
    <3>3. ~Writes(task[t])
      <4>1. CallOK(task[t]) /\ Sound(task[t])
        BY <1>i, <1>k, <2>0 DEF KernelOK
      <4>2. task[t].st = "clone" => task[t].sys = "other"
        BY <4>1, KernelAssumption DEF CallOK, Sound, Live, Stopped
      <4> QED
        BY <3>2, <4>2 DEF Writes
    <3>4. InTable(m, task[t], t)
      BY <1>k, <2>0 DEF ThreadOK
    <3>5. (Due(task'[t]) <=> Due(task[t])) /\ (Writes(task'[t]) <=> Writes(task[t]))
      BY <3>1, <3>2, <3>3
    <3>6. ThreadOK(n, task'[t], t)
      BY <1>g, <2>0, <3>1, <3>4, <3>5, GoOnStep
    <3> QED
      BY <1>d, <1>g, <3>6
  <2>2. CASE ~Controls(s, t)
    <3>1. ThreadOK(n, task'[t], t)
      BY <2>0, <2>2, NotMine
    <3> QED
      BY <1>d, <1>g, <3>1
  <2> QED BY <2>1, <2>2
<1>8. CASE HandleTrap(s) \/ HandleSignal(s)
  <2>1. /\ m.pc = "handle" /\ t \in m.tids /\ m.status \in {"event", "signal"}
        /\ SetSess(s, Back(m))
        /\ \E inject \in BOOLEAN : Ptrace(s, t, Resumed(task[t], "syscall", inject))
    BY <1>8 DEF HandleTrap, HandleSignal, At
  <2>2. PICK inject \in BOOLEAN : Ptrace(s, t, Resumed(task[t], "syscall", inject))
    BY <2>1
  <2>3. CASE u = t
    BY <1>b, <1>g, <2>1, <2>2, <2>3 DEF SameTable
  <2>4. CASE u # t
    <3>1. task'[u] = task[u]
      BY <1>r, <2>1, <2>2, <2>4
    <3> QED
      BY <1>b, <1>o, <2>1, <3>1 DEF SameTable
  <2> QED BY <2>3, <2>4
<1>9. CASE HandleClone(s)
  <2> DEFINE b == Back(m)
             c == task[t].child
             n == Tracked(b, c)
  <2>0. /\ m.pc = "handle" /\ t \in Tids /\ t \in m.tids /\ m.status = "clone"
        /\ Ptrace(s, t, Resumed(task[t], "syscall", FALSE))
    BY <1>9, <1>c DEF HandleClone, At
  <2>1. \A v \in Tids \ {t} : task'[v] = task[v]
    BY <1>r, <2>0
  <2>2. SetSess(s, b) \/ (Controls(s, t) /\ c \notin b.tids /\ SetSess(s, n))
    BY <1>9 DEF HandleClone
  <2>3. CASE SetSess(s, b)
    <3>1. CASE u = t
      BY <1>b, <1>g, <2>0, <2>3, <3>1 DEF SameTable
    <3>2. CASE u # t
      BY <1>b, <1>o, <2>0, <2>1, <2>3, <3>2 DEF SameTable
    <3> QED BY <3>1, <3>2
  <2>4. CASE Controls(s, t) /\ c \notin b.tids /\ SetSess(s, n)
    <3>1. c \in Tids /\ task[c].st # "unborn" /\ c # t /\ c \notin m.tids
      <4>1. task[t].st = "clone"
        BY <1>r, <2>0, <2>4
      <4>2. c \in Tids
        BY <1>i, <2>0, <4>1 DEF KernelOK, Sound
      <4>3. task[c].st # "unborn"
        BY <1>i, <2>0, <4>2, KernelAssumption DEF HeirsOK
      <4>4. c \notin m.tids
        BY <1>b, <2>4 DEF SameTable
      <4> QED
        BY <2>0, <4>2, <4>3, <4>4
    <3> HIDE DEF b, c
    <3>2. b \in Session /\ b.pc = "loop" /\ SameTable(m, b) /\ b.status = "none"
      BY <1>b DEF b
    <3>3. n \in Session
      BY <3>1, <3>2, TrackedType
    <3>4. /\ n.pc = b.pc /\ n.tids = b.tids \cup {c} /\ n.insys = b.insys \ {c}
          /\ n.capt = b.capt \ {c} /\ n.skew = b.skew \ {c}
      BY <3>1, <3>2, TrackedFields
    <3> HIDE DEF n
    <3>5. /\ n.pc = "loop" /\ n.tids = m.tids \cup {c} /\ n.insys = m.insys \ {c}
          /\ n.capt = m.capt \ {c} /\ n.skew = m.skew \ {c}
      BY <3>2, <3>4 DEF SameTable
    <3>6. CASE u = c
      <4>1. task'[u] = task[u]
        BY <2>1, <3>1, <3>6
      <4>2. Mine(task[u]) => FirstStop(task[u])
        BY <1>k, <1>z, <2>0, <3>1, <3>6 DEF ThreadOK, Outside
      <4>3. /\ u \in n.tids /\ u \notin n.insys /\ u \notin n.capt /\ u \notin n.skew
        BY <3>5, <3>6
      <4>4. ThreadOK(n, task[u], u)
        BY <1>k, <3>1, <3>5, <3>6, <4>2, <4>3
           DEF ThreadOK, InTable, Outside, FirstStop, Due, Writes, Detaching
      <4> QED
        BY <1>d, <2>4, <3>3, <4>1, <4>4
    <3>7. CASE u # c
      <4>1. /\ u \in n.tids <=> u \in m.tids
            /\ u \in n.insys <=> u \in m.insys
            /\ u \in n.capt <=> u \in m.capt
            /\ u \in n.skew <=> u \in m.skew
        BY <3>5, <3>7
      <4>2. CASE u = t
        BY <1>g, <2>0, <2>4, <3>3, <3>5, <4>1, <4>2
      <4>3. CASE u # t
        BY <1>o, <2>0, <2>1, <2>4, <3>3, <3>5, <4>1, <4>3
      <4> QED BY <4>2, <4>3
    <3> QED BY <3>6, <3>7
  <2> QED BY <2>2, <2>3, <2>4
\* write_cb leaves the tables and every thread as they are.
<1>10. CASE WriteCb(s)
  <2> DEFINE n == [m EXCEPT !.sending = TRUE]
  <2>1. n \in Session /\ n.pc = m.pc /\ SameTable(m, n)
    BY <1>s DEF Session, SameTable
  <2>2. m.pc = "handle" /\ SetSess(s, n) /\ UNCHANGED task
    BY <1>10 DEF WriteCb, AtSyscallStop, At
  <2>3. Calm
    BY <1>i, <1>c, <2>2, CalmRequests
  <2> HIDE DEF n
  <2> QED
    BY <1>i, <1>z, <2>1, <2>2, <2>3, CalmStep DEF Detaching
<1> QED
  BY <1>1, <1>2, <1>3, <1>4, <1>5, <1>6, <1>7, <1>8, <1>9, <1>10

LEMMA DetachOK ==
  ASSUME StreamInv, NEW s, Sessions = {s},
         \/ \E t \in Tids : DetachInterrupt(s, t)
         \/ DetachWait(s) \/ Drop(s) \/ DetachDone(s) \/ ConnExit(s),
         NEW u \in Tids
  PROVE  ThreadOK(sess'[s], task'[u], u)
<1> DEFINE m == sess[s]
           Goal == ThreadOK(sess'[s], task'[u], u)
<1>i. TypeInv /\ TypeOK /\ KernelOK /\ ThreadsOK /\ CallsOK /\ s \in Sessions
  BY CallsFromThreads DEF StreamInv, TracerInv, TypeInv
<1>s. m \in Session /\ LocalsOK(m) /\ Cur(s) /\ Held(s) /\ sess \in [Sessions -> Session]
      /\ task \in [Tids -> Task]
  BY <1>i DEF StreamInv, TracerInv, TypeInv, TypeOK, TaskTypeOK, TablesOK, CurOK, HeldOK
<1>k. \A v \in Tids : /\ task[v] \in Task /\ ThreadOK(m, task[v], v) /\ CallOK(task[v])
                      /\ task[v].tracer \in {s, NoSession}
  BY <1>i DEF TypeOK, TaskTypeOK, ThreadsOK, CallsOK, Task
<1>d. \A n \in Session : SetSess(s, n) => sess'[s] = n
  BY <1>s DEF SetSess
<1>z. m.pc \in Detaching \cup {"idle"} => \A v \in Tids : ~Seizing(m, v)
  BY DEF Seizing, Detaching
\* One thread less to detach: it is nobody's.
<1>f. ASSUME NEW n \in Session, NEW t \in Tids, SetSess(s, n), SameTable(m, n),
             m.pc \in Detaching, n.pc = "detach", n.todo = m.todo \ {t}, Calm, ~Mine(task'[t])
      PROVE  Goal
  <2>1. \A v \in m.todo : Mine(task'[v]) => v \in n.todo
    BY <1>f
  <2> QED
    BY <1>f, <1>i, <1>z, <2>1, CalmStep
<1>1. ASSUME NEW t \in Tids, DetachInterrupt(s, t)
      PROVE  Goal
  <2> DEFINE a == [m EXCEPT !.pc = "dwait", !.cur = t]
             b == [m EXCEPT !.todo = @ \ {t}]
  <2>0. /\ m.pc = "detach" /\ m.pc \in Detaching
        /\ \/ SetTask(t, Interrupted(t)) /\ SetSess(s, a)
           \/ ~CanInterrupt(s, t) /\ UNCHANGED task /\ SetSess(s, b)
    BY <1>1 DEF DetachInterrupt, At, Detaching
  <2>1. /\ a \in Session /\ a.pc = "dwait" /\ SameTable(m, a) /\ a.todo = m.todo
        /\ b \in Session /\ b.pc = m.pc /\ SameTable(m, b) /\ b.todo = m.todo \ {t}
    BY <1>s DEF Session, PC, SameTable
  <2>2. Calm
    BY <1>i, <2>0, CalmRequests
  <2> HIDE DEF a, b
  <2>3. CASE SetSess(s, a)
    BY <1>i, <1>z, <2>0, <2>1, <2>2, <2>3, CalmStep
  <2>4. CASE ~CanInterrupt(s, t) /\ UNCHANGED task /\ SetSess(s, b)
    <3>1. ~Mine(task'[t])
      BY <1>k, <2>4 DEF CanInterrupt, Mine, Live, Stopped
    <3> QED
      BY <1>f, <2>0, <2>1, <2>2, <2>4, <3>1
  <2> QED BY <2>0, <2>3, <2>4
<1>2. CASE DetachWait(s)
  <2> DEFINE t == m.cur
             a == [m EXCEPT !.pc = "drop"]
             b == [a EXCEPT !.status = task[t].st]
  <2>0. m.pc = "dwait" /\ m.pc \in Detaching /\ t \in Tids
    BY <1>2, <1>s DEF DetachWait, At, Cur, Detaching
  <2>1. \/ Waitable(t) /\ SetTask(t, Reaped(task[t], IsLeader(t))) /\ SetSess(s, b)
        \/ UNCHANGED task /\ SetSess(s, a)
    BY <1>2 DEF DetachWait, WaitFor
  <2>2. Waitable(t) => task[t].st \in Stopped \cup {"zombie"}
    BY <1>i, <2>0 DEF Waitable, KernelOK, Sound
  <2>3. /\ a \in Session /\ a.pc = "drop" /\ SameTable(m, a) /\ a.todo = m.todo
        /\ Waitable(t) => b \in Session /\ b.pc = "drop" /\ SameTable(m, b) /\ b.todo = m.todo
    <3>1. a \in Session /\ a.pc = "drop" /\ SameTable(m, a) /\ a.todo = m.todo
      BY <1>s DEF Session, PC, SameTable
    <3> HIDE DEF a
    <3>2. Waitable(t) => b \in Session /\ b.pc = a.pc /\ SameTable(a, b) /\ b.todo = a.todo
      BY <2>2, <3>1 DEF Session, SameTable
    <3> QED
      BY <3>1, <3>2 DEF SameTable
  <2>4. Calm
    BY <1>i, <2>0, <2>1, CalmRequests
  <2> HIDE DEF a, b
  <2> QED
    BY <1>i, <1>z, <2>0, <2>1, <2>3, <2>4, CalmStep
<1>3. CASE Drop(s)
  <2> DEFINE t == m.cur
             n == [m EXCEPT !.pc = "detach", !.todo = @ \ {t}, !.cur = NoTid,
                            !.status = "none"]
  <2>0. /\ m.pc = "drop" /\ m.pc \in Detaching /\ t \in Tids /\ SetSess(s, n)
        /\ Ptrace(s, t, Detached(task[t]))
    BY <1>3, <1>s DEF Drop, At, Cur, Detaching
  <2>1. n \in Session /\ n.pc = "detach" /\ SameTable(m, n) /\ n.todo = m.todo \ {t}
    BY <1>s DEF Session, PC, SameTable
  <2> HIDE DEF n
  <2>2. CASE Controls(s, t)
    <3> DEFINE r == Resumed(task[t], "cont", FALSE)
               l == Detached(task[t])
    <3>1. task'[t] = l /\ \A v \in Tids \ {t} : task'[v] = task[v]
      BY <1>s, <2>0, <2>2 DEF Ptrace, SetTask
    <3>2. l.tracer = NoSession /\ l.st = "run" /\ l.child = NoTid
      BY <1>k, <2>0, DetachedFields
    <3> HIDE DEF l
    <3>3. ~Mine(l) /\ CallOK(l)
      BY <3>2 DEF Mine, CallOK
    <3>4. Calm
      <4> SUFFICES ASSUME NEW v \in Tids
                   PROVE  Tame(task[v], task'[v]) /\ CallOK(task'[v]) /\ Born(v)
        BY DEF Calm
      <4>1. CASE v = t
        BY <3>1, <3>2, <3>3, <4>1, NotMineTame DEF Born
      <4>2. CASE v # t
        BY <1>k, <3>1, <4>2, SameTame DEF Born
      <4> QED BY <4>1, <4>2
    <3> QED
      BY <1>f, <2>0, <2>1, <3>1, <3>3, <3>4
  <2>3. CASE ~Controls(s, t)
    <3>1. UNCHANGED task
      BY <1>s, <2>0, <2>3 DEF Ptrace, SetTask
    <3>2. ~Mine(task[t])
      BY <1>k, <1>s, <2>0, <2>3 DEF Controls, Held, Holding, Mine, Live, Session, Stopped
    <3>3. Calm
      BY <1>i, <2>0, <3>1, CalmRequests
    <3> QED
      BY <1>f, <2>0, <2>1, <3>1, <3>2, <3>3
  <2> QED BY <2>2, <2>3
<1>4. CASE DetachDone(s)
  <2> DEFINE rc == IF m.rc = "error" THEN "error" ELSE "ok"
             n == Returned(m, rc)
  <2>0. m.pc = "detach" /\ m.pc \in Detaching /\ m.todo = {} /\ SetSess(s, n) /\ UNCHANGED task
    BY <1>4 DEF DetachDone, At, Detaching
  <2>1. rc \in {"ok", "error"}
    OBVIOUS
  <2> HIDE DEF rc
  <2>2. n \in Session /\ n.pc = "idle" /\ n.tids = {}
    BY <1>s, <2>1, ReturnedType, ReturnedFields
  <2> HIDE DEF n
  <2>3. CASE u \in m.tids
    <3>1. ~Mine(task[u]) /\ CallOK(task[u])
      BY <1>k, <2>0, <2>3 DEF ThreadOK, InTable
    <3> QED
      BY <1>d, <2>0, <2>2, <3>1, NotMine
  <2>4. CASE u \notin m.tids
    <3>1. ThreadOK(n, task[u], u)
      BY <1>k, <1>z, <2>0, <2>2, <2>4, Carried, SameTame
    <3> QED
      BY <1>d, <2>0, <2>2, <3>1
  <2> QED BY <2>3, <2>4
<1>5. CASE ConnExit(s)
  <2> DEFINE n == [m EXCEPT !.pc = "exited"]
  <2>0. m.pc = "idle" /\ SetSess(s, n) /\ m.tids = {}
    BY <1>5, <1>s DEF ConnExit, At, LocalsOK
  <2>1. n \in Session /\ n.pc = "exited" /\ SameTable(m, n)
    BY <1>s DEF Session, PC, SameTable
  <2> HIDE DEF n
  <2>2. CASE task[u].tracer # s
    <3>1. task'[u] = task[u] /\ ~Mine(task[u])
      BY <1>5, <1>k, <2>2 DEF ConnExit, Mine
    <3> QED
      BY <1>d, <1>k, <2>0, <2>1, <3>1, NotMine DEF SameTable
  <2>3. CASE task[u].tracer = s
    <3> DEFINE l == Abandoned(task[u], IsLeader(u))
    <3>1. task'[u] = l
      BY <1>5, <2>3 DEF ConnExit
    <3>2. /\ l.tracer = NoSession /\ l.child = NoTid
          /\ l.st \in {"run", "zombie", "gone"} \/ (l.st = task[u].st /\ l.st \notin Stopped)
      BY <1>k, AbandonedFields DEF IsLeader
    <3>3. task[u].st # "unborn"
      BY <1>i, <2>3, KernelAssumption DEF KernelOK, Sound
    <3> HIDE DEF l
    <3>4. CallOK(l) /\ ~Mine(l)
      BY <3>2, <3>3 DEF CallOK, Mine, Stopped
    <3> QED
      BY <1>d, <2>0, <2>1, <3>1, <3>4, NotMine DEF SameTable
  <2> QED BY <2>2, <2>3
<1> QED
  BY <1>1, <1>2, <1>3, <1>4, <1>5

LEMMA ClientOK ==
  ASSUME StreamInv, NEW s, Sessions = {s}, ClientStep(s), NEW u \in Tids
  PROVE  ThreadOK(sess'[s], task'[u], u)
<1> DEFINE m == sess[s]
           Goal == ThreadOK(sess'[s], task'[u], u)
<1>i. TypeOK /\ KernelOK /\ ThreadsOK /\ CallsOK /\ s \in Sessions
  BY CallsFromThreads DEF StreamInv, TracerInv, TypeInv
<1>s. m \in Session /\ LocalsOK(m) /\ sess \in [Sessions -> Session] /\ ThreadOK(m, task[u], u)
  BY <1>i DEF StreamInv, TracerInv, TypeOK, TablesOK, ThreadsOK
<1>d. \A n \in Session : SetSess(s, n) => sess'[s] = n
  BY <1>s DEF SetSess
<1>t. UNCHANGED task
  BY DEF ClientStep, ClientStop, ClientClose, Stream
<1>1. CASE ClientStop(s) \/ ClientClose(s)
  <2> DEFINE a == [m EXCEPT !.client = "stop"]
             b == [m EXCEPT !.client = "closed"]
  <2>1. /\ a \in Session /\ a.pc = m.pc /\ a.cur = m.cur /\ a.todo = m.todo /\ SameTable(m, a)
        /\ b \in Session /\ b.pc = m.pc /\ b.cur = m.cur /\ b.todo = m.todo /\ SameTable(m, b)
    BY <1>s DEF Session, SameTable
  <2>2. SetSess(s, a) \/ SetSess(s, b)
    BY <1>1 DEF ClientStop, ClientClose, SetSess
  <2> HIDE DEF a, b
  <2>3. Calm
    BY <1>i, <1>t, CalmRequests
  <2>4. \A v \in Tids : Seizing(m, v) => Seizing(a, v) /\ Seizing(b, v)
    BY <2>1 DEF Seizing
  <2> QED
    BY <1>i, <2>1, <2>2, <2>3, <2>4, CalmStep
\* A stream begins, or fails to: the tables are empty before and after.
<1>n. ASSUME NEW n \in Session, SetSess(s, n), n.tids = {}, n.pc \notin Detaching, m.pc = "idle"
      PROVE  Goal
  <2>1. m.tids = {} /\ ~Seizing(m, u)
    BY <1>n, <1>s DEF LocalsOK, Seizing
  <2>2. ThreadOK(n, task[u], u)
    BY <1>n, <1>s, <2>1, Carried, SameTame DEF ThreadOK
  <2> QED
    BY <1>d, <1>n, <1>t, <2>2
<1>2. ASSUME NEW pid \in Tids, Stream(s, pid)
      PROVE  Goal
  <2> DEFINE p == [m EXCEPT !.pid = pid]
             N(D) == [m EXCEPT !.pc = "seize", !.pid = pid, !.todo = D, !.rc = "none"]
  <2>1. m.pc = "idle" /\ m.tids = {}
    BY <1>s, <1>2 DEF Stream, At, LocalsOK
  <2>2. CASE SetSess(s, Returned(p, "error"))
    <3>1. p \in Session
      BY <1>s DEF Session
    <3> HIDE DEF p
    <3>2. /\ Returned(p, "error") \in Session /\ Returned(p, "error").pc = "idle"
          /\ Returned(p, "error").tids = {}
      BY <3>1, ReturnedType, ReturnedFields
    <3> QED
      BY <1>n, <2>1, <2>2, <3>2 DEF Detaching
  <2>3. ASSUME NEW D \in SUBSET discover_tids(pid), SetSess(s, N(D))
        PROVE  Goal
    <3>1. D \subseteq Tids
      BY DEF discover_tids, Group
    <3> DEFINE n == N(D)
    <3>2. n \in Session /\ n.pc = "seize" /\ n.tids = {}
      BY <1>s, <2>1, <3>1 DEF Session, PC
    <3>3. SetSess(s, n)
      BY <2>3
    <3> HIDE DEF n
    <3> QED
      BY <1>n, <2>1, <3>2, <3>3 DEF Detaching
  <2> QED
    BY <1>2, <2>2, <2>3 DEF Stream
<1> QED
  BY <1>1, <1>2 DEF ClientStep

----------------------------------------------------------------------------
(* What one step of the session does to one thread *)

\* The child a thread has to announce, and the signal it has stopped for.
LEMMA RequestKeeps ==
  ASSUME TypeOK, NEW s \in Sessions, NEW t \in Tids, NEW u \in Tids,
         \/ \E m \in {"cont", "syscall"}, inject \in BOOLEAN :
              Ptrace(s, t, Resumed(task[t], m, inject))
         \/ Ptrace(s, t, Detached(task[t]))
         \/ SetTask(t, Reaped(task[t], IsLeader(t)))
         \/ SetTask(t, Interrupted(t))
         \/ SetTask(t, [task[t] EXCEPT !.tracer = s, !.mode = "cont"])
         \/ UNCHANGED task
  PROVE  /\ task'[u].child \in {task[u].child, NoTid}
         /\ task'[u].sig # task[u].sig => u = t /\ Controls(s, t) /\ task[t].st = "signal"
<1> DEFINE Goal == /\ task'[u].child \in {task[u].child, NoTid}
                   /\ task'[u].sig # task[u].sig => u = t /\ Controls(s, t) /\ task[t].st = "signal"
<1>t. task[t] \in Task /\ task \in [Tids -> Task] /\ IsLeader(t) \in BOOLEAN
  BY DEF TypeOK, TaskTypeOK, IsLeader
<1>0. CASE task'[u] = task[u]
  BY <1>0
<1>o. CASE u # t
  <2>1. task'[u] = task[u]
    BY <1>t, <1>o DEF Ptrace, SetTask
  <2> QED BY <1>0, <2>1
<1>1. ASSUME NEW m \in {"cont", "syscall"}, NEW inject \in BOOLEAN,
             Ptrace(s, t, Resumed(task[t], m, inject)), u = t, task'[u] # task[u]
      PROVE  Goal
  <2>1. task'[u] = Resumed(task[t], m, inject) /\ Controls(s, t)
    BY <1>1, <1>t DEF Ptrace, SetTask
  <2>2. /\ task'[u].child \in {task[t].child, NoTid}
        /\ task[t].st # "signal" => task'[u].sig = task[t].sig
    BY <2>1, <1>t DEF Resumed, Task
  <2> QED
    BY <1>1, <2>1, <2>2
<1>2. CASE Ptrace(s, t, Detached(task[t])) /\ u = t /\ task'[u] # task[u]
  <2> DEFINE r == Resumed(task[t], "cont", FALSE)
  <2>1. task'[u] = Untraced(r) /\ Controls(s, t)
    BY <1>2, <1>t DEF Ptrace, SetTask, Detached
  <2>2. r \in Task /\ (task[t].st # "signal" => r.sig = task[t].sig)
    <3>1. r \in Task
      BY <1>t, ResumedType
    <3>2. task[t].st # "signal" => r.sig = task[t].sig
      BY <1>t DEF Resumed, Task
    <3> QED BY <3>1, <3>2
  <2> HIDE DEF r
  <2>3. task'[u].child = NoTid /\ task'[u].sig = r.sig
    BY <2>1, <2>2 DEF Untraced, Task
  <2> QED
    BY <1>2, <2>1, <2>2, <2>3
<1>3. CASE SetTask(t, Reaped(task[t], IsLeader(t))) /\ u = t
  <2>1. task'[u] = Reaped(task[t], IsLeader(t))
    BY <1>3, <1>t DEF SetTask
  <2>2. /\ task'[u].child \in {task[t].child, NoTid} /\ task'[u].sig = task[t].sig
    <3>1. CASE task[t].st # "zombie"
      BY <2>1, <1>t, <3>1 DEF Reaped, Task
    <3>2. CASE task[t].st = "zombie"
      BY <2>1, <1>t, <3>2 DEF Reaped, Untraced, Task
    <3> QED BY <3>1, <3>2
  <2> QED
    BY <1>3, <2>2
<1>4. CASE SetTask(t, Interrupted(t)) /\ u = t
  BY <1>4, <1>t DEF SetTask, Interrupted, Task
<1>5. CASE SetTask(t, [task[t] EXCEPT !.tracer = s, !.mode = "cont"]) /\ u = t
  BY <1>5, <1>t DEF SetTask, Task
<1> QED
  BY <1>0, <1>o, <1>1, <1>2, <1>3, <1>4, <1>5

\* A session announces no child, and lets go of a signal only where it resumes
\* the thread it holds, or at its end.
LEMMA SessionKeeps ==
  ASSUME TypeInv, NEW s \in Sessions, SessionStep(s), NEW u \in Tids
  PROVE  /\ task'[u].child \in {task[u].child, NoTid}
         /\ task'[u].sig # task[u].sig =>
              \/ sess[s].pc \in Holding /\ sess[s].cur = u /\ Controls(s, u) /\ task[u].st = "signal"
              \/ ConnExit(s)
<1> USE DEF TypeInv
<1>c. Cur(s) /\ Held(s) /\ sess[s] \in Session
  BY DEF CurOK, HeldOK, TypeOK
<1> DEFINE t == sess[s].cur
           Child == task'[u].child \in {task[u].child, NoTid}
           Sig == task'[u].sig # task[u].sig =>
                    \/ sess[s].pc \in Holding /\ t = u /\ Controls(s, u) /\ task[u].st = "signal"
                    \/ ConnExit(s)
\* A request that resumes nobody.
<1>n. ASSUME NEW v \in Tids,
             \/ SetTask(v, Reaped(task[v], IsLeader(v)))
             \/ SetTask(v, Interrupted(v))
             \/ SetTask(v, [task[v] EXCEPT !.tracer = s, !.mode = "cont"])
             \/ UNCHANGED task
      PROVE  Child /\ task'[u].sig = task[u].sig
  <2>1. task[v] \in Task /\ task \in [Tids -> Task] /\ IsLeader(v) \in BOOLEAN
    BY DEF TypeOK, TaskTypeOK, IsLeader
  <2>2. Child
    BY <1>n, RequestKeeps
  <2>3. CASE u # v \/ UNCHANGED task
    BY <1>n, <2>1, <2>3 DEF SetTask
  <2>4. CASE u = v /\ SetTask(v, Reaped(task[v], IsLeader(v)))
    <3>1. task'[u] = Reaped(task[v], IsLeader(v))
      BY <2>1, <2>4 DEF SetTask
    <3> QED
      BY <2>1, <2>2, <2>4, <3>1 DEF Reaped, Untraced, Task
  <2>5. CASE u = v /\ SetTask(v, Interrupted(v))
    BY <2>1, <2>2, <2>5 DEF SetTask, Interrupted, Task
  <2>6. CASE u = v /\ SetTask(v, [task[v] EXCEPT !.tracer = s, !.mode = "cont"])
    BY <2>1, <2>2, <2>6 DEF SetTask, Task
  <2> QED
    BY <1>n, <2>3, <2>4, <2>5, <2>6
\* A request that resumes the thread in hand.
<1>r. ASSUME t \in Tids, sess[s].pc \in Holding,
             \/ \E m \in {"cont", "syscall"}, inject \in BOOLEAN :
                  Ptrace(s, t, Resumed(task[t], m, inject))
             \/ Ptrace(s, t, Detached(task[t]))
      PROVE  Child /\ Sig
  <2> HIDE DEF t
  <2>1. Child /\ (task'[u].sig # task[u].sig => u = t /\ Controls(s, t) /\ task[t].st = "signal")
    <3>1. TypeOK
      OBVIOUS
    <3>2. CASE Ptrace(s, t, Detached(task[t]))
      BY <1>r, <3>1, <3>2, RequestKeeps
    <3>3. CASE \E m \in {"cont", "syscall"}, inject \in BOOLEAN :
                 Ptrace(s, t, Resumed(task[t], m, inject))
      BY <1>r, <3>1, <3>3, RequestKeeps
    <3> QED
      BY <1>r, <3>2, <3>3
  <2> QED
    BY <1>r, <2>1
<1>1. ASSUME NEW v \in Tids, Seize(s, v) \/ LoopReap(s, v) \/ DetachInterrupt(s, v)
      PROVE  Child /\ Sig
  BY <1>1, <1>n DEF Seize, LoopReap, DetachInterrupt
<1>2. CASE Interrupt(s) \/ WaitStop(s) \/ DetachWait(s)
  <2>1. t \in Tids
    BY <1>2, <1>c DEF Interrupt, WaitStop, DetachWait, Cur, At
  <2>2. \/ SetTask(t, Reaped(task[t], IsLeader(t)))
        \/ SetTask(t, Interrupted(t))
        \/ UNCHANGED task
    BY <1>2 DEF Interrupt, WaitStop, DetachWait, WaitFor
  <2> QED
    BY <1>n, <2>1, <2>2
<1>3. CASE \/ Adopt(s) \/ HandleUntracked(s) \/ HandleNew(s) \/ HandleSyscall(s)
           \/ HandleClone(s) \/ HandleTrap(s) \/ HandleSignal(s) \/ Drop(s)
  <2>1. sess[s].pc \in Holding /\ t \in Tids
    BY <1>3, <1>c DEF Adopt, HandleUntracked, HandleNew, HandleSyscall, AtSyscallStop,
                      HandleClone, HandleTrap, HandleSignal, Drop, At, Cur, Holding
  <2>2. \/ \E m \in {"cont", "syscall"}, inject \in BOOLEAN :
             Ptrace(s, t, Resumed(task[t], m, inject))
        \/ Ptrace(s, t, Detached(task[t]))
    BY <1>3 DEF Adopt, HandleUntracked, HandleNew, HandleSyscall, HandleClone,
                HandleTrap, HandleSignal, Drop
  <2> QED
    BY <1>r, <2>1, <2>2
<1>4. CASE UNCHANGED task
  BY <1>4
<1>5. CASE ConnExit(s)
  <2>1. task[u] \in Task /\ IsLeader(u) \in BOOLEAN
    BY DEF TypeOK, TaskTypeOK, IsLeader
  <2>2. task'[u] \in {task[u], Abandoned(task[u], IsLeader(u))}
    BY <1>5 DEF ConnExit
  <2>3. Abandoned(task[u], IsLeader(u)).child = NoTid
    BY <2>1, AbandonedFields
  <2> QED
    BY <1>5, <2>2, <2>3
<1> QED
  BY <1>1, <1>2, <1>3, <1>4, <1>5
     DEF SessionStep, AllSeized, Alloc, LoopPoll, LoopNoChild, HandleExited, WriteCb,
         DetachDone

----------------------------------------------------------------------------
(* The invariant and what follows from it *)

LEMMA StreamInvInit == Init => StreamInv
<1> SUFFICES ASSUME Init PROVE ThreadsOK /\ HeirsOK
  BY TracerInvInit DEF StreamInv
<1>1. \A t \in Tids : /\ task[t].tracer = NoSession /\ task[t].child = NoTid
                      /\ task[t].st \in {"run", "unborn"} /\ task[t].sys = "user"
  BY DEF Init, KernelInit
<1>2. \A s \in Sessions : sess[s].tids = {}
  BY DEF Init
<1>3. ASSUME NEW s \in Sessions, NEW t \in Tids
      PROVE  ThreadOK(sess[s], task[t], t)
  <2>1. CallOK(task[t]) /\ ~Mine(task[t])
    BY <1>1 DEF CallOK, Mine
  <2> QED
    BY <1>2, <2>1, NotMine
<1> QED
  BY <1>1, <1>3 DEF ThreadsOK, HeirsOK

LEMMA StreamInvStep ==
  ASSUME StreamInv, NEW s, Sessions = {s}, Room, [Next]_vars
  PROVE  StreamInv'
<1>i. TypeInv /\ TypeOK /\ KernelOK /\ ThreadsOK /\ CallsOK /\ HeirsOK /\ s \in Sessions
      /\ task \in [Tids -> Task]
  BY CallsFromThreads DEF StreamInv, TracerInv, TypeInv, TypeOK, TaskTypeOK
<1> SUFFICES ThreadsOK' /\ HeirsOK'
  BY TracerInvStep DEF StreamInv
\* No child is announced that has not been born.
<1>h. ASSUME \A u \in Tids : /\ Born(u)
                             /\ \/ task'[u].child \in {task[u].child, NoTid}
                                \/ task'[task'[u].child].st # "unborn"
      PROVE  HeirsOK'
  <2> SUFFICES ASSUME NEW u \in Tids, task'[u].child # NoTid
               PROVE  task'[task'[u].child].st # "unborn"
    BY DEF HeirsOK
  <2>1. CASE task'[u].child = task[u].child
    <3>1. task[u].child \in Tids /\ task[task[u].child].st # "unborn"
      BY <1>i, <2>1 DEF HeirsOK, Task
    <3> QED
      BY <1>h, <2>1, <3>1 DEF Born
  <2> QED
    BY <1>h, <2>1
<1>1. ASSUME NEW t \in Tids, ThreadStep(t), UNCHANGED sess
      PROVE  ThreadsOK' /\ HeirsOK'
  <2>1. \A u \in Tids : /\ Tame(task[u], task'[u]) /\ CallOK(task'[u])
                        /\ \/ task'[u].child \in {task[u].child, NoTid}
                           \/ task'[task'[u].child].st # "unborn"
    BY <1>1, <1>i, ThreadTame
  <2>2. \A u \in Tids : Born(u)
    BY <1>1, <1>i, ThreadStepEffect
  <2>3. ASSUME NEW u \in Tids
        PROVE  ThreadOK(sess[s], task'[u], u)
    <3>1. ThreadOK(sess[s], task[u], u)
      BY <1>i DEF ThreadsOK
    <3>2. task[u].st # "unborn" => task'[u].st # "unborn"
      BY <2>2 DEF Born
    <3> QED
      BY <2>1, <3>1, <3>2, Carried
  <2> QED
    BY <1>1, <1>h, <2>1, <2>2, <2>3 DEF ThreadsOK
<1>2. CASE SessionStep(s)
  <2>1. ASSUME NEW u \in Tids
        PROVE  ThreadOK(sess'[s], task'[u], u)
    BY <1>2, AttachOK, LoopOK, DetachOK DEF SessionStep
  <2>2. \A u \in Tids : Born(u) /\ task'[u].child \in {task[u].child, NoTid}
    BY <1>2, <1>i, SessionStepEffect, SessionKeeps
  <2> QED
    BY <1>h, <2>1, <2>2 DEF ThreadsOK
<1>3. CASE ClientStep(s)
  <2>1. UNCHANGED task
    BY <1>3 DEF ClientStep, ClientStop, ClientClose, Stream
  <2>2. \A u \in Tids : ThreadOK(sess'[s], task'[u], u)
    BY <1>3, ClientOK
  <2> QED
    BY <1>i, <2>1, <2>2 DEF ThreadsOK, HeirsOK
<1>4. CASE UNCHANGED vars
  BY <1>4, <1>i DEF vars, ThreadsOK, HeirsOK
<1> QED
  BY <1>1, <1>2, <1>3, <1>4 DEF Next

LEMMA StreamInvariant ==
  ASSUME NEW CONSTANT s, Sessions = {s}, Room
  PROVE  Spec => []StreamInv
<1>1. StreamInv /\ [Next]_vars => StreamInv'
  BY StreamInvStep
<1> QED
  BY StreamInvInit, <1>1, PTL DEF Spec

\* A thread that the only session traces is a thread of ThreadOK.
LEMMA TracedMine ==
  ASSUME StreamInv, NEW s \in Sessions, NEW t \in Tids, task[t].tracer = s, task[t].st \in Live
  PROVE  Mine(task[t]) /\ InTable(sess[s], task[t], t) /\ Outside(sess[s], task[t], t)
BY KernelAssumption DEF StreamInv, ThreadsOK, ThreadOK, Mine

\* With one connection and room in tids[] for every thread of the targets, no
\* thread of the target runs unobserved while the main loop runs: it steps from
\* system call to system call, or a stop of it is still to come.
THEOREM ThreadsStepped ==
  ASSUME NEW CONSTANT s, Sessions = {s}, Room
  PROVE  Spec => []SteppedTracees
<1>1. StreamInv => SteppedTracees
  <2> SUFFICES ASSUME StreamInv, NEW r \in Sessions, NEW t \in Tids, InLoop(r),
                      task[t].tracer = r, task[t].st = "run"
               PROVE  task[t].trap \/ (t \in sess[r].tids /\ task[t].mode = "syscall")
    BY DEF SteppedTracees
  <2>1. Mine(task[t]) /\ InTable(sess[r], task[t], t) /\ Outside(sess[r], task[t], t)
    BY TracedMine DEF Live
  <2>2. ~Seizing(sess[r], t)
    BY DEF InLoop, Seizing
  <2>3. t \notin sess[r].tids => FirstStop(task[t])
    BY <2>1, <2>2 DEF Outside
  <2>4. t \in sess[r].tids => task[t].mode = "syscall" \/ FirstStop(task[t])
    BY <2>1 DEF InTable
  <2> QED
    BY <2>3, <2>4 DEF FirstStop
<1> QED
  BY <1>1, StreamInvariant, PTL

\* With one connection and room for every thread, in_syscall of each thread in
\* tids[] that was first tracked outside a system call says which of its two
\* system-call-stops comes next.  (For the others it says the opposite, as
\* ThreadsOK has it and MCTracer_skew.cfg shows.)
THEOREM InSyscallFollows ==
  ASSUME NEW CONSTANT s, Sessions = {s}, Room
  PROVE  Spec => []Lockstep
<1>1. StreamInv => Lockstep
  <2> SUFFICES ASSUME StreamInv, NEW r \in Sessions, NEW t \in sess[r].tids \ sess[r].skew,
                      task[t].st \in Live, task[t].tracer = r
               PROVE  (t \in sess[r].insys) = ExitDue(t)
    BY DEF Lockstep
  <2>1. t \in Tids
    BY DEF StreamInv, TracerInv, TypeInv, TypeOK, Session
  <2>2. (t \in sess[r].insys) <=> Due(task[t])
    BY <2>1, TracedMine DEF InTable
  <2>3. ExitDue(t) <=> Due(task[t])
    BY DEF ExitDue, Due
  <2>4. ExitDue(t) \in BOOLEAN
    BY DEF ExitDue
  <2> QED
    BY <2>2, <2>3, <2>4
<1> QED
  BY <1>1, StreamInvariant, PTL

\* With one connection and room for every thread, capturing is set exactly while
\* a thread in step is inside a write to the streamed fd: write_cb misses no such
\* write and reports nothing else.
THEOREM CaptureFollows ==
  ASSUME NEW CONSTANT s, Sessions = {s}, Room
  PROVE  Spec => []CaptureSync
<1>1. StreamInv => CaptureSync
  <2> SUFFICES ASSUME StreamInv, NEW r \in Sessions, NEW t \in sess[r].tids \ sess[r].skew,
                      task[t].st \in Live, task[t].tracer = r
               PROVE  (t \in sess[r].capt) = (ExitDue(t) /\ task[t].sys = "write")
    BY DEF CaptureSync
  <2>1. t \in Tids
    BY DEF StreamInv, TracerInv, TypeInv, TypeOK, Session
  <2>2. t \in sess[r].capt <=> Writes(task[t])
    BY <2>1, TracedMine DEF InTable
  <2>3. (ExitDue(t) /\ task[t].sys = "write") <=> Writes(task[t])
    BY DEF ExitDue, Due, Writes
  <2> QED
    BY <2>2, <2>3
<1> QED
  BY <1>1, StreamInvariant, PTL

----------------------------------------------------------------------------
(* Signals *)

\* No thread loses a signal by itself.
LEMMA ThreadKeepsSignal ==
  ASSUME TypeOK, NEW t \in Tids, ThreadStep(t), NEW u \in Tids, task'[u].sig = "lost"
  PROVE  task[u].sig = "lost"
<1>t. task[t] \in Task /\ task[u] \in Task /\ task \in [Tids -> Task]
  BY DEF TypeOK, TaskTypeOK
<1>c. ASSUME NEW k, SetTask(t, k), k.sig \in {task[t].sig, "HUP", "STOP", "delivered"}
      PROVE  task[u].sig = "lost"
  <2>1. CASE u = t
    BY <1>c, <1>t, <2>1 DEF SetTask
  <2>2. CASE u # t
    BY <1>c, <1>t, <2>2 DEF SetTask
  <2> QED BY <2>1, <2>2
<1>s. \A k \in Task : \A kind : StoppedAt(k, kind).sig = k.sig
  BY DEF StoppedAt, Task
<1>e. \A k \in Task : \A leader : Ended(k, leader).sig = k.sig
  BY DEF Ended, Task
<1>1. ASSUME NEW kind \in SysKind, SysEnter(t, kind)
      PROVE  task[u].sig = "lost"
  <2> DEFINE k == [task[t] EXCEPT !.sys = kind]
  <2>1. k \in Task /\ k.sig = task[t].sig
    BY <1>t DEF Task
  <2>2. SetTask(t, StoppedAt(k, "enter")) \/ SetTask(t, k)
    BY <1>1 DEF SysEnter
  <2> HIDE DEF k
  <2> QED
    BY <1>c, <1>s, <2>1, <2>2
<1>2. ASSUME NEW c \in Tids, CloneChild(t, c)
      PROVE  task[u].sig = "lost"
  BY <1>2, <1>t DEF CloneChild, Task
<1>3. ASSUME NEW sig \in Signals, SigQueue(t, sig)
      PROVE  task[u].sig = "lost"
  <2> DEFINE k == [task[t] EXCEPT !.sig = sig]
  <2>1. k.sig \in {"HUP", "STOP"} /\ SetTask(t, k)
    BY <1>3, <1>t, KernelAssumption DEF SigQueue, Task
  <2> HIDE DEF k
  <2> QED
    BY <1>c, <2>1
<1>4. CASE SysExit(t)
  <2> DEFINE k == [task[t] EXCEPT !.sys = "user"]
  <2>1. k.sig = task[t].sig /\ (SetTask(t, StoppedAt(task[t], "exit")) \/ SetTask(t, k))
    BY <1>4, <1>t DEF SysExit, Task
  <2> HIDE DEF k
  <2> QED
    BY <1>c, <1>s, <1>t, <2>1
<1>5. CASE SigDeliver(t)
  <2> DEFINE k == [task[t] EXCEPT !.sig = "delivered"]
  <2>1. k.sig = "delivered" /\ (SetTask(t, StoppedAt(task[t], "signal")) \/ SetTask(t, k))
    BY <1>5, <1>t DEF SigDeliver, Task
  <2> HIDE DEF k
  <2> QED
    BY <1>c, <1>s, <1>t, <2>1
<1>6. CASE CloneEvent(t) \/ TrapStop(t)
  BY <1>6, <1>c, <1>s, <1>t DEF CloneEvent, TrapStop
<1>7. CASE ThreadExit(t)
  BY <1>7, <1>c, <1>e, <1>t DEF ThreadExit
<1>8. CASE KillGroup(t)
  <2>1. task'[u] \in {task[u], Ended(task[u], IsLeader(u))}
    BY <1>8 DEF KillGroup
  <2> QED
    BY <1>e, <1>t, <2>1
<1>9. CASE ParentReap(t)
  <2> DEFINE k == [task[t] EXCEPT !.st = "gone"]
  <2>1. k.sig = task[t].sig /\ SetTask(t, k)
    BY <1>9, <1>t DEF ParentReap, Task
  <2> HIDE DEF k
  <2> QED
    BY <1>c, <2>1
<1> QED
  BY <1>1, <1>2, <1>3, <1>4, <1>5, <1>6, <1>7, <1>8, <1>9 DEF ThreadStep

\* With one connection, the main loop passes on every SIGHUP that a thread in
\* tids[] has stopped for, whatever is killed, born or stopped meanwhile: only the
\* first resume of a thread and its detach drop one.
THEOREM HupsKept ==
  ASSUME NEW CONSTANT only, Sessions = {only}
  PROVE  Spec => HupKept
<1> DEFINE Dropped(t) ==
             \E s \in Sessions : /\ sess[s].cur = t
                                 /\ \/ sess[s].pc \in {"adopt", "drop"}
                                    \/ sess[s].pc = "handle" /\ t \notin sess[s].tids
           Kept == \A t \in Tids : task[t].sig = "HUP" /\ task'[t].sig = "lost" => Dropped(t)
<1>1. TypeInv /\ NoOrphanStop /\ [Next]_vars => [Kept]_vars
  <2> SUFFICES ASSUME TypeInv, NoOrphanStop, [Next]_vars, NEW u \in Tids,
                      task[u].sig = "HUP", task'[u].sig = "lost"
               PROVE  Dropped(u)
    OBVIOUS
  <2>t. task[u] \in Task /\ IsLeader(u) \in BOOLEAN /\ TypeOK /\ task \in [Tids -> Task]
        /\ Held(only) /\ Cur(only) /\ sess[only] \in Session /\ only \in Sessions
    BY DEF TypeInv, TypeOK, TaskTypeOK, IsLeader, HeldOK, CurOK
  <2>1. ASSUME NEW t \in Tids, ThreadStep(t)
        PROVE  FALSE
    BY <2>1, <2>t, ThreadKeepsSignal
  <2>2. CASE ClientStep(only) \/ UNCHANGED vars
    BY <2>2 DEF ClientStep, ClientStop, ClientClose, Stream, vars
  <2>3. CASE ConnExit(only)
    <3>1. sess[only].pc = "idle"
      BY <2>3 DEF ConnExit, At
    <3>2. ~(task[u].st \in Stopped /\ ~task[u].evt)
      BY <3>1 DEF NoOrphanStop
    <3>3. task'[u] = Abandoned(task[u], IsLeader(u))
      BY <2>3 DEF ConnExit
    <3>4. Abandoned(task[u], IsLeader(u)).sig # "lost"
      <4>1. CASE task[u].st \in Stopped
        <5> DEFINE r == Resumed(task[u], "cont", task[u].evt)
        <5>1. r \in Task
          BY <2>t, ResumedType DEF Task
        <5>2. r.sig \in {"HUP", "delivered"}
          BY <2>t, <3>2, <4>1 DEF Resumed, Task
        <5>3. Abandoned(task[u], IsLeader(u)) = Untraced(r)
          BY <4>1 DEF Abandoned, Stopped
        <5> HIDE DEF r
        <5> QED
          BY <5>1, <5>2, <5>3 DEF Untraced, Task
      <4>2. CASE task[u].st = "zombie"
        BY <2>t, <4>2 DEF Abandoned, Stopped, Reaped, Untraced, Task
      <4>3. CASE task[u].st \notin Stopped \cup {"zombie"}
        BY <2>t, <4>3 DEF Abandoned, Untraced, Task
      <4> QED BY <4>1, <4>2, <4>3
    <3> QED
      BY <3>3, <3>4
  <2>4. CASE SessionStep(only) /\ ~ConnExit(only)
    <3>1. /\ sess[only].pc \in Holding /\ sess[only].cur = u /\ Controls(only, u)
          /\ task[u].st = "signal"
      BY <2>4, <2>t, SessionKeeps
    <3>2. CASE sess[only].pc # "handle" \/ u \notin sess[only].tids
      BY <2>t, <3>1, <3>2 DEF Holding
    <3>3. CASE sess[only].pc = "handle" /\ u \in sess[only].tids
      <4>1. sess[only].status = "signal"
        BY <2>t, <3>1 DEF Held, Controls, Stopped
      <4>2. HandleSignal(only)
        BY <2>4, <3>3, <3>1, <4>1
           DEF SessionStep, Seize, LoopReap, DetachInterrupt, Interrupt, WaitStop, Adopt,
               AllSeized, Alloc, LoopPoll, LoopNoChild, HandleUntracked, HandleExited,
               HandleNew, WriteCb, HandleSyscall, AtSyscallStop, HandleClone, HandleTrap,
               DetachWait, Drop, DetachDone, At
      <4>3. task'[u] = Resumed(task[u], "syscall", TRUE)
        BY <2>t, <3>1, <4>2 DEF HandleSignal, Ptrace, SetTask
      <4>4. task'[u].sig = "delivered"
        BY <2>t, <3>1, <4>3 DEF Resumed, Task
      <4> QED
        BY <4>4
    <3> QED BY <3>2, <3>3
  <2> QED
    BY <2>1, <2>2, <2>3, <2>4 DEF Next
<1>2. TypeInv /\ [Next]_vars => TypeInv'
  BY TypeInvStep
<1>3. Spec => []NoOrphanStop
  BY OneSessionNoOrphan
<1> QED
  BY <1>1, <1>2, <1>3, InitTypeInv, PTL DEF Spec, HupKept
=============================================================================
