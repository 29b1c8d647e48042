------------------------------ MODULE ProcScan ------------------------------
(***************************************************************************)
(* One SCAN or STATS (backend/src/proc_scan.c): the calling thread lists   *)
(* /proc, cuts the list into slices, starts a worker thread for each but   *)
(* the first, scans the first itself, joins the others, merges and sorts,  *)
(* while the processes it looks at go on and exit.                         *)
(*                                                                         *)
(* A file is what the scan tells of an open fd: its number, its size, and  *)
(* whether the link ends in " (deleted)" and names no virtual file.        *)
(***************************************************************************)
EXTENDS Integers, Sequences, FiniteSets, SequencesExt, FiniteSetsExt

CONSTANTS Procs,      \* the process ids
          Owner,      \* the uid of each process
          Files,      \* what each process holds open
          UidAny,     \* HSED_UID_ANY
          MinSizes,   \* the min_size arguments tried
          UidFilters, \* the uid_filter arguments tried
          Requests,   \* the num_threads arguments tried; 0 is automatic
          Cpus,       \* sysconf(_SC_NPROCESSORS_ONLN)
          MaxThreads  \* HSED_MAX_AUTO_SCAN_THREADS

File == [fd : Nat, size : Nat, deleted : BOOLEAN, virtual : BOOLEAN]

ASSUME ScanAssumption ==
  /\ Procs \subseteq Nat \ {0} /\ IsFiniteSet(Procs)
  /\ Procs # {}   \* hsedd itself is one
  /\ \A p \in Procs : Files[p] \subseteq File /\ IsFiniteSet(Files[p])
  /\ MinSizes \subseteq Nat /\ Requests \subseteq Nat
  /\ Cpus \in Int /\ MaxThreads \in Nat \ {0}

VARIABLES alive,   \* the processes that exist
          missed,  \* history: the entries scan_one_pid has passed over
          arg,     \* the arguments of hsed_scan or hsed_scan_stats
          main,    \* the calling thread
          work     \* the worker records, by index

vars == <<alive, missed, arg, main, work>>

Entry == [pid : Procs, fd : Nat, size : Nat]
Nothing == [count |-> 0, total |-> 0]

----------------------------------------------------------------------------
(* The scan of one process *)

\* The fds scan_one_pid keeps.
Kept(p) ==
  IF arg.uid # UidAny /\ Owner[p] # arg.uid THEN {}
  ELSE {f \in Files[p] : f.deleted /\ ~f.virtual /\ f.size >= arg.min}

\* What it tells of them, as a set and in the order of readdir, which is not
\* promised to be any particular one.
Told(p, fs) == {[pid |-> p, fd |-> f.fd, size |-> f.size] : f \in fs}
Entries(p, fs) == SetToSeq(Told(p, fs))

\* The sum of their sizes, added up one at a time.
Total(es) ==
  LET sum[s \in SUBSET es] ==
        IF s = {} THEN 0
        ELSE LET e == CHOOSE e \in s : TRUE IN e.size + sum[s \ {e}]
  IN  sum[es]

\* scan_one_pid without an error: the fds it gets to see.  It says nothing of the
\* others, whether the process is gone, the fd was closed, or opendir, readlink or
\* stat failed, for want of descriptors or memory, on one that is there.
Seen(p) == IF p \in alive THEN SUBSET Kept(p) ELSE {{}}

PassOver(p, fs) == missed' = missed \cup Told(p, Kept(p) \ fs)

----------------------------------------------------------------------------
(* How the list is cut *)

\* Mutant of pick_thread_count: one thread more than there are processes.
LooseThreadCount(requested, npids) ==
  LET n == IF requested > 0 THEN requested ELSE Min({Max({Cpus, 1}), MaxThreads})
  IN  IF npids = 0 THEN 1 ELSE Min({n, npids + 1})

pick_thread_count(requested, npids) ==
  LET n == IF requested > 0 THEN requested ELSE Min({Max({Cpus, 1}), MaxThreads})
  IN  IF npids = 0 THEN 1 ELSE Min({n, npids})

\* Mutant of Chunk: the remainder is not handed out.
ChunkEven(i, n, npids) == npids \div n

Chunk(i, n, npids) == npids \div n + (IF i < npids % n THEN 1 ELSE 0)

\* Where slice i starts: the sum of the slices before it.
Offset(n, npids) ==
  LET off[i \in 0 .. n - 1] == IF i = 0 THEN 0 ELSE off[i - 1] + Chunk(i - 1, n, npids)
  IN  off

----------------------------------------------------------------------------
(* The calling thread *)

At(label) == main.pc = label
Return(m, rc) == [m EXCEPT !.pc = "done", !.rc = rc]

\* cmp_by_size_desc(a, b) > 0 does not hold: a may stand before b.
cmp_by_size_desc(a, b) == a.size >= b.size

\* What qsort may return: it does not say in which order equal sizes come out.
Qsort(s) ==
  {t \in {[i \in DOMAIN s |-> s[perm[i]]] : perm \in Bijection(DOMAIN s, DOMAIN s)} :
     \A i, j \in DOMAIN s : i < j => cmp_by_size_desc(t[i], t[j])}

\* hsed_scan with only_pid: one process, in the calling thread.  When list_push
\* fails what has been pushed stays in *out.
ScanOnly ==
  /\ At("call") /\ arg.only \in Procs
  /\ \E seen \in Seen(arg.only) :
       /\ PassOver(arg.only, seen)
       /\ \/ \E sorted \in Qsort(Entries(arg.only, seen)) :
               main' = Return([main EXCEPT !.out = sorted], "ok")
          \/ \E fs \in (SUBSET seen) \ {seen} :
               main' = Return([main EXCEPT !.out = Entries(arg.only, fs)], "error")
  /\ UNCHANGED <<alive, arg, work>>

\* gather_pids: opendir or realloc may fail.
Gather ==
  /\ At("call") /\ arg.only = 0
  /\ \/ main' = [main EXCEPT !.pc = "split", !.pids = SetToSeq(alive)]
     \/ main' = Return(main, "error")
  /\ UNCHANGED <<alive, missed, arg, work>>

\* The worker records of run_parallel_scan; calloc may fail.
Split ==
  /\ At("split")
  /\ LET npids == Len(main.pids)
         n     == pick_thread_count(arg.threads, npids)
         off   == Offset(n, npids)
     IN  \/ /\ work' = [i \in 0 .. n - 1 |->
                          [first |-> off[i], count |-> Chunk(i, n, npids), next |-> 0,
                           st |-> "idle", failed |-> FALSE, list |-> << >>,
                           stats |-> Nothing]]
            /\ main' = [main EXCEPT !.pc = "spawn", !.i = 1]
         \/ UNCHANGED work /\ main' = Return(main, "error")
  /\ UNCHANGED <<alive, missed, arg>>

\* pthread_create of worker i; when it fails the slice is scanned right here.
Spawn ==
  /\ At("spawn") /\ main.i \in DOMAIN work
  /\ work' = [work EXCEPT ![main.i].st = "run"]
  /\ \/ main' = [main EXCEPT !.i = @ + 1, !.spawned = @ \cup {main.i}]
     \/ main' = [main EXCEPT !.pc = "inline"]
  /\ UNCHANGED <<alive, missed, arg>>

InlineDone ==
  /\ At("inline") /\ work[main.i].st = "done"
  /\ main' = [main EXCEPT !.pc = "spawn", !.i = @ + 1]
  /\ UNCHANGED <<alive, missed, arg, work>>

\* scan_worker_fn(&workers[0])
Own ==
  /\ At("spawn") /\ main.i \notin DOMAIN work
  /\ work' = [work EXCEPT ![0].st = "run"]
  /\ main' = [main EXCEPT !.pc = "own"]
  /\ UNCHANGED <<alive, missed, arg>>

OwnDone ==
  /\ At("own") /\ work[0].st = "done"
  /\ main' = [main EXCEPT !.pc = "join"]
  /\ UNCHANGED <<alive, missed, arg, work>>

\* Mutant of Join: the threads are left alone.
JoinNone ==
  /\ At("join")
  /\ main' = [main EXCEPT !.pc = "merge", !.i = 0]
  /\ UNCHANGED <<alive, missed, arg, work>>

\* pthread_join of every thread that was started.
Join ==
  /\ At("join") /\ \A i \in main.spawned : work[i].st = "done"
  /\ main' = [main EXCEPT !.pc = "merge", !.i = 0]
  /\ UNCHANGED <<alive, missed, arg, work>>

\* Mutant of Failed: only the caller's own slice counts.
FailedOwn == work[0].failed

Failed == \E i \in DOMAIN work : work[i].failed

\* The result of the next worker is added to the whole.
Merge ==
  /\ At("merge") /\ ~Failed /\ main.i \in DOMAIN work
  /\ LET w == work[main.i]
     IN  main' = [main EXCEPT
                    !.i    = @ + 1,
                    !.out  = IF arg.stats THEN @ ELSE @ \o w.list,
                    !.sums = IF ~arg.stats THEN @
                             ELSE [count |-> @.count + w.stats.count,
                                   total |-> @.total + w.stats.total]]
  /\ UNCHANGED <<alive, missed, arg, work>>

FreeLists == work' = [i \in DOMAIN work |-> [work[i] EXCEPT !.list = << >>]]

\* A slice failed, or list_push finds no memory for an entry of the next worker.
MergeFail ==
  /\ At("merge")
  /\ \/ Failed
     \/ main.i \in DOMAIN work /\ ~arg.stats /\ work[main.i].list # << >>
  /\ main' = Return([main EXCEPT !.out = << >>], "error")
  /\ FreeLists
  /\ UNCHANGED <<alive, missed, arg>>

\* Everything is merged; hsed_scan sorts what it gets.
MergeDone ==
  /\ At("merge") /\ ~Failed /\ main.i \notin DOMAIN work
  /\ \E sorted \in Qsort(main.out) : main' = Return([main EXCEPT !.out = sorted], "ok")
  /\ FreeLists
  /\ UNCHANGED <<alive, missed, arg>>

----------------------------------------------------------------------------
(* The workers: scan_worker_fn *)

Running(i) == i \in DOMAIN work /\ work[i].st = "run"
Slice(i) == SubSeq(main.pids, work[i].first + 1, work[i].first + work[i].count)

\* scan_one_pid of the next process of the slice.
WorkerScan(i) ==
  /\ Running(i) /\ work[i].next < work[i].count
  /\ LET p == Slice(i)[work[i].next + 1]
     IN  \E seen \in Seen(p) :
           /\ PassOver(p, seen)
           /\ work' = [work EXCEPT
                ![i].next  = @ + 1,
                ![i].list  = IF arg.stats THEN @ ELSE @ \o Entries(p, seen),
                ![i].stats = IF ~arg.stats THEN @
                             ELSE [count |-> @.count + Cardinality(seen),
                                   total |-> @.total + Total(Told(p, seen))]]
  /\ UNCHANGED <<alive, arg, main>>

\* Mutant of WorkerFail: the process is tried again.
WorkerFailRetry(i) ==
  /\ Running(i) /\ work[i].next < work[i].count /\ ~arg.stats
  /\ Slice(i)[work[i].next + 1] \in alive /\ Kept(Slice(i)[work[i].next + 1]) # {}
  /\ work' = [work EXCEPT ![i].failed = ~@]
  /\ UNCHANGED <<alive, missed, arg, main>>

\* list_push finds no memory for an entry: the loop ends.
WorkerFail(i) ==
  /\ Running(i) /\ work[i].next < work[i].count /\ ~arg.stats
  /\ Slice(i)[work[i].next + 1] \in alive /\ Kept(Slice(i)[work[i].next + 1]) # {}
  /\ work' = [work EXCEPT ![i].failed = TRUE, ![i].st = "done"]
  /\ UNCHANGED <<alive, missed, arg, main>>

WorkerDone(i) ==
  /\ Running(i) /\ work[i].next = work[i].count
  /\ work' = [work EXCEPT ![i].st = "done"]
  /\ UNCHANGED <<alive, missed, arg, main>>

----------------------------------------------------------------------------
(* The processes *)

Exit(p) ==
  /\ p \in alive /\ ~At("done")
  /\ alive' = alive \ {p}
  /\ UNCHANGED <<missed, arg, main, work>>

----------------------------------------------------------------------------
Init ==
  /\ alive \in SUBSET Procs /\ missed = {}
  /\ arg \in [min : MinSizes, uid : UidFilters, only : Procs \cup {0}, stats : BOOLEAN,
              threads : Requests]
  /\ arg.stats => arg.only = 0
  /\ main = [pc |-> "call", i |-> 0, spawned |-> {}, pids |-> << >>, out |-> << >>,
             sums |-> Nothing, rc |-> "none"]
  /\ work = << >>

MainStep == ScanOnly \/ Gather \/ Split \/ Spawn \/ InlineDone \/ Own \/ OwnDone
              \/ Join \/ Merge \/ MergeFail \/ MergeDone
WorkerStep(i) == WorkerScan(i) \/ WorkerFail(i) \/ WorkerDone(i)

Next ==
  \/ MainStep
  \/ \E i \in DOMAIN work : WorkerStep(i)
  \/ \E p \in Procs : Exit(p)

WorkerIds == 0 .. Cardinality(Procs)

\* Threads are scheduled.
Fairness == WF_vars(MainStep) /\ \A i \in WorkerIds : WF_vars(WorkerStep(i))

Spec == Init /\ [][Next]_vars /\ Fairness

----------------------------------------------------------------------------
(* Properties *)

Worker == [first : Nat, count : Nat, next : Nat, st : {"idle", "run", "done"},
           failed : BOOLEAN, list : Seq(Entry), stats : [count : Nat, total : Nat]]

\* How many workers a list of processes may have.
Slots(pids) == IF pids = << >> THEN 1 ELSE Len(pids)

\* There are never more workers than listed processes, unless none is listed.
TypeOK ==
  /\ alive \subseteq Procs /\ missed \subseteq Entry
  /\ main \in [pc : {"call", "split", "spawn", "inline", "own", "join", "merge", "done"},
               i : WorkerIds, spawned : SUBSET WorkerIds, pids : Seq(Procs),
               out : Seq(Entry), sums : [count : Nat, total : Nat],
               rc : {"none", "ok", "error"}]
  /\ \A i \in DOMAIN work : i \in WorkerIds /\ i < Slots(main.pids) /\ work[i] \in Worker

Succeeded == At("done") /\ main.rc = "ok"

\* The entries a scan of the processes ps would list.
Expected(ps) == UNION {Told(p, Kept(p)) : p \in ps}
Listed == IF arg.only # 0 THEN {arg.only} ELSE ToSet(main.pids)

\* A SCAN that succeeds reports no fd twice, nothing that does not match, and every
\* matching fd of the listed processes that scan_one_pid did not pass over, the largest
\* first whichever slice they come from, whatever the number of threads and whichever
\* of them could not be started.
ScanExact ==
  Succeeded /\ ~arg.stats =>
    /\ IsInjective(main.out)
    /\ ToSet(main.out) \subseteq Expected(Listed)
    /\ Expected(Listed) \ missed \subseteq ToSet(main.out)
    /\ \A i, j \in DOMAIN main.out : i < j => main.out[i].size >= main.out[j].size

\* The sums of a STATS that succeeds count everything that was not passed over, and
\* nothing that does not match.
StatsExact ==
  Succeeded /\ arg.stats =>
    LET least == Expected(Listed) \ missed
        most  == Expected(Listed)
    IN  /\ Cardinality(least) <= main.sums.count /\ main.sums.count <= Cardinality(most)
        /\ Total(least) <= main.sums.total /\ main.sums.total <= Total(most)

\* A slice that ran out of memory makes the whole scan fail: the rest is not
\* passed off as the result, and no list is left behind.
NoPartialResult ==
  At("done") /\ arg.only = 0 =>
    /\ \A i \in DOMAIN work : work[i].list = << >>
    /\ (\E i \in DOMAIN work : work[i].failed) => main.rc = "error" /\ main.out = << >>

\* The scan comes to an end.
Terminates == <>At("done")
=============================================================================
