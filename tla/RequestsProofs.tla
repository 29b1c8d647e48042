--------------------------- MODULE RequestsProofs ---------------------------
(***************************************************************************)
(* Proofs about Requests, and so about Daemon and Reclaim in it: type      *)
(* correctness and the safety invariants, for every number of daemons,     *)
(* requests, files and entries, and for every budget.                      *)
(***************************************************************************)
EXTENDS Requests, SequenceTheorems, TLAPS

----------------------------------------------------------------------------
(* What a step does to the processes. *)

Labels == {"off", "fork", "pidfile", "unlink", "bind", "listen", "accept", "close",
           "unpath", "unpid", "gone"}
Ends == {"none", "ok", "nofork", "nosocket", "inuse", "nolisten", "killed"}

\* Only d changes; and what becomes of it.
OnlyD(d) == hsedd' \in [Daemons -> Process] /\ \A e \in Daemons : e # d => hsedd'[e] = hsedd[e]
Became(d, label, end) ==
  /\ OnlyD(d) /\ hsedd'[d].pc = label /\ hsedd'[d].end = end
  /\ hsedd'[d].fg = hsedd[d].fg /\ hsedd'[d].pid = hsedd[d].pid

\* Goto changes the label.
LEMMA GotoEffect ==
  ASSUME DaemonTypeOK, NEW d \in Daemons, NEW label \in Labels, Goto(d, label)
  PROVE  Became(d, label, hsedd[d].end)
BY DEF DaemonTypeOK, Goto, Process, Labels, OnlyD, Became

\* A failure, and an end, change the label and the reason.
LEMMA EndEffect ==
  ASSUME DaemonTypeOK, NEW d \in Daemons, NEW label \in Labels, NEW end \in Ends,
         hsedd' = [hsedd EXCEPT ![d].pc = label, ![d].end = end]
  PROVE  Became(d, label, end)
<1> DEFINE p == [hsedd[d] EXCEPT !.pc = label, !.end = end]
<1>1. /\ p \in Process /\ p.pc = label /\ p.end = end /\ p.fg = hsedd[d].fg
      /\ p.pid = hsedd[d].pid
  BY DEF DaemonTypeOK, Process, Labels, Ends
<1>2. hsedd' = [hsedd EXCEPT ![d] = p]
  BY DEF DaemonTypeOK, Process
<1> HIDE DEF p
<1> QED
  BY <1>1, <1>2 DEF DaemonTypeOK, OnlyD, Became

\* What main does before it forks.
LEMMA StartEffect ==
  ASSUME DaemonTypeOK, NEW d \in Daemons, NEW fg \in BOOLEAN, Start(d, fg)
  PROVE  /\ OnlyD(d) /\ hsedd'[d].end = hsedd[d].end
         /\ hsedd'[d].fg = fg /\ hsedd'[d].pid = hsedd[d].pid
         /\ hsedd'[d].pc = IF fg THEN "unlink" ELSE "fork"
<1> DEFINE label == IF fg THEN "unlink" ELSE "fork"
           p == [hsedd[d] EXCEPT !.pc = label, !.fg = fg]
<1>1. label \in Labels
  BY DEF Labels
<1>2. hsedd' = [hsedd EXCEPT ![d] = p]
  BY DEF DaemonTypeOK, Process, Start
<1> HIDE DEF label
<1>3. /\ p \in Process /\ p.pc = label /\ p.end = hsedd[d].end /\ p.fg = fg
      /\ p.pid = hsedd[d].pid
  <2>1. hsedd[d] \in Process
    BY DEF DaemonTypeOK
  <2> QED
    BY <1>1, <2>1 DEF Process, Labels
<1> HIDE DEF p
<1> QED
  BY <1>2, <1>3 DEF DaemonTypeOK, OnlyD, label

\* The pidfile is written.
LEMMA PidEffect ==
  ASSUME DaemonTypeOK, NEW d \in Daemons,
         hsedd' = [hsedd EXCEPT ![d].pc = "unlink", ![d].pid = TRUE]
  PROVE  /\ OnlyD(d) /\ hsedd'[d].pc = "unlink" /\ hsedd'[d].end = hsedd[d].end
         /\ hsedd'[d].fg = hsedd[d].fg /\ hsedd'[d].pid
BY DEF DaemonTypeOK, Process, OnlyD

\* The handler of SIGTERM sets the flag and nothing else.
LEMMA SignalEffect ==
  ASSUME DaemonTypeOK, NEW d \in Daemons, on_shutdown_signal(d)
  PROVE  Became(d, hsedd[d].pc, hsedd[d].end)
BY DEF DaemonTypeOK, Process, OnlyD, Became, on_shutdown_signal

----------------------------------------------------------------------------
(* The socket and the pidfile.                                             *)

DaemonMove(d) == MainStep(d) \/ MainFault(d) \/ \E fg \in BOOLEAN : Start(d, fg)

\* The labels at which a process has its name: from bind to the last unlink.
Named == {"listen", "accept", "close", "unpath"}

\* A process that has not been killed has its socket at the path and its pid in the
\* pidfile only between the calls that put them there and those that take them away.
Footprint(d) ==
  /\ path = d => /\ hsedd[d].pc \in Named \cup {"gone"}
                 /\ At(d, "gone") => hsedd[d].end = "killed"
  /\ pidfile = d => /\ hsedd[d].pc \notin {"off", "fork", "pidfile"} /\ ~hsedd[d].fg
                    /\ At(d, "gone") => hsedd[d].end = "killed"
  /\ hsedd[d].pc \in {"fork", "pidfile"} => ~hsedd[d].fg

\* When no two run at the same time, the one that runs owns the path and the pidfile.
Owns(d) ==
  /\ \A e \in Daemons : Alive(d) /\ Alive(e) => d = e
  /\ PathWhole => /\ hsedd[d].end # "inuse"
                  /\ At(d, "bind") => path = NoDaemon
                  /\ hsedd[d].pc \in Named => path = d
  /\ Alive(d) /\ hsedd[d].pid => pidfile = d
  /\ At(d, "off") => ~hsedd[d].pid

DaemonInv ==
  /\ PathWhole => \A d \in Daemons : Footprint(d)
  /\ alone => \A d \in Daemons : Owns(d)

\* The mark for no process is none of them.
LEMMA NotDaemon == NoDaemon \notin Daemons
BY DaemonAssumption DEF Daemons, NoDaemon

\* Every step of a process, and every fault, preserves both.
LEMMA DaemonStepInv ==
  ASSUME DaemonTypeOK, DaemonInv, NEW d \in Daemons, DaemonMove(d)
  PROVE  DaemonTypeOK' /\ DaemonInv'
<1>1. CASE daemonize(d)
  <2>1. Became(d, "pidfile", hsedd[d].end) \/ Became(d, "gone", "nofork")
    BY <1>1, GotoEffect, EndEffect DEF daemonize, Labels, Ends
  <2>2. DaemonTypeOK'
    BY <1>1, <2>1 DEF daemonize, DaemonTypeOK, OnlyD, Became
  <2>3. ASSUME PathWhole', NEW e \in Daemons PROVE Footprint(e)'
    BY <1>1, <2>1, <2>3, NotDaemon
    DEF daemonize, DaemonTypeOK, OnlyD, Became, DaemonInv, Footprint, At, Named, PathWhole
  <2>4. ASSUME alone', NEW e \in Daemons PROVE Owns(e)'
    BY <1>1, <2>1, <2>4, NotDaemon
    DEF daemonize, DaemonTypeOK, OnlyD, Became, DaemonInv, Owns, At, Named, PathWhole, Alive
  <2> QED
    BY <2>2, <2>3, <2>4 DEF DaemonInv
<1>2. CASE write_pidfile(d)
  <2>1. /\ OnlyD(d) /\ hsedd'[d].pc = "unlink" /\ hsedd'[d].end = hsedd[d].end
        /\ hsedd'[d].fg = hsedd[d].fg
        /\ \/ hsedd'[d].pid /\ pidfile' = d
           \/ hsedd'[d].pid = hsedd[d].pid /\ pidfile' = pidfile
    <3>1. CASE Goto(d, "unlink") /\ UNCHANGED pidfile
      BY <3>1, GotoEffect DEF Labels, Became
    <3>2. CASE hsedd' = [hsedd EXCEPT ![d].pc = "unlink", ![d].pid = TRUE] /\ pidfile' = d
      BY <3>2, PidEffect
    <3> QED
      BY <1>2, <3>1, <3>2 DEF write_pidfile
  <2>2. DaemonTypeOK'
    BY <1>2, <2>1 DEF write_pidfile, DaemonTypeOK, OnlyD, Became
  <2>3. ASSUME PathWhole', NEW e \in Daemons PROVE Footprint(e)'
    BY <1>2, <2>1, <2>3, NotDaemon
    DEF write_pidfile, DaemonTypeOK, OnlyD, Became, DaemonInv, Footprint, At, Named, PathWhole
  <2>4. ASSUME alone', NEW e \in Daemons PROVE Owns(e)'
    BY <1>2, <2>1, <2>4, NotDaemon
    DEF write_pidfile, DaemonTypeOK, OnlyD, Became, DaemonInv, Owns, At, Named, PathWhole, Alive
  <2> QED
    BY <2>2, <2>3, <2>4 DEF DaemonInv
<1>3. CASE UnlinkStale(d)
  <2>1. Became(d, "bind", hsedd[d].end)
    BY <1>3, GotoEffect DEF UnlinkStale, Labels, Ends
  <2>2. DaemonTypeOK'
    BY <1>3, <2>1 DEF UnlinkStale, DaemonTypeOK, OnlyD, Became, Unlinked
  <2>3. ASSUME PathWhole', NEW e \in Daemons PROVE Footprint(e)'
    BY <1>3, <2>1, <2>3, NotDaemon
    DEF UnlinkStale, DaemonTypeOK, OnlyD, Became, Unlinked, DaemonInv, Footprint, At, Named, PathWhole
  <2>4. ASSUME alone', NEW e \in Daemons PROVE Owns(e)'
    BY <1>3, <2>1, <2>4, NotDaemon
    DEF UnlinkStale, DaemonTypeOK, OnlyD, Became, Unlinked, DaemonInv, Owns, At, Named, PathWhole, Alive
  <2> QED
    BY <2>2, <2>3, <2>4 DEF DaemonInv
<1>4. CASE Bind(d)
  <2>1. \/ path = NoDaemon /\ path' = d /\ Became(d, "listen", hsedd[d].end)
        \/ path # NoDaemon /\ path' = path /\ Became(d, "unpid", "inuse")
        \/ path' = path /\ Became(d, "unpid", "nosocket")
    BY <1>4, GotoEffect, EndEffect DEF Bind, Fail, Labels, Ends
  <2>2. DaemonTypeOK'
    BY <1>4, <2>1 DEF Bind, DaemonTypeOK, OnlyD, Became
  <2>3. ASSUME PathWhole', NEW e \in Daemons PROVE Footprint(e)'
    BY <1>4, <2>1, <2>3, NotDaemon
    DEF Bind, DaemonTypeOK, OnlyD, Became, DaemonInv, Footprint, At, Named, PathWhole
  <2>4. ASSUME alone', NEW e \in Daemons PROVE Owns(e)'
    BY <1>4, <2>1, <2>4, NotDaemon
    DEF Bind, DaemonTypeOK, OnlyD, Became, DaemonInv, Owns, At, Named, PathWhole, Alive
  <2> QED
    BY <2>2, <2>3, <2>4 DEF DaemonInv
<1>5. CASE Listen(d)
  <2>1. \/ path' = path /\ Became(d, "accept", hsedd[d].end)
        \/ path' = Unlinked /\ Became(d, "unpid", "nolisten")
    BY <1>5, GotoEffect, EndEffect DEF Listen, Fail, Labels, Ends
  <2>2. DaemonTypeOK'
    BY <1>5, <2>1 DEF Listen, DaemonTypeOK, OnlyD, Became, Unlinked
  <2>3. ASSUME PathWhole', NEW e \in Daemons PROVE Footprint(e)'
    BY <1>5, <2>1, <2>3, NotDaemon
    DEF Listen, DaemonTypeOK, OnlyD, Became, Unlinked, DaemonInv, Footprint, At, Named, PathWhole
  <2>4. ASSUME alone', NEW e \in Daemons PROVE Owns(e)'
    BY <1>5, <2>1, <2>4, NotDaemon
    DEF Listen, DaemonTypeOK, OnlyD, Became, Unlinked, DaemonInv, Owns, At, Named, PathWhole, Alive
  <2> QED
    BY <2>2, <2>3, <2>4 DEF DaemonInv
<1>6. CASE NoticeShutdown(d)
  <2>1. Became(d, "close", hsedd[d].end)
    BY <1>6, GotoEffect DEF NoticeShutdown, Labels, Ends
  <2>2. DaemonTypeOK'
    BY <1>6, <2>1 DEF NoticeShutdown, DaemonTypeOK, OnlyD, Became
  <2>3. ASSUME PathWhole', NEW e \in Daemons PROVE Footprint(e)'
    BY <1>6, <2>1, <2>3, NotDaemon
    DEF NoticeShutdown, DaemonTypeOK, OnlyD, Became, DaemonInv, Footprint, At, Named, PathWhole
  <2>4. ASSUME alone', NEW e \in Daemons PROVE Owns(e)'
    BY <1>6, <2>1, <2>4, NotDaemon
    DEF NoticeShutdown, DaemonTypeOK, OnlyD, Became, DaemonInv, Owns, At, Named, PathWhole, Alive
  <2> QED
    BY <2>2, <2>3, <2>4 DEF DaemonInv
<1>7. CASE CloseListener(d)
  <2>1. Became(d, "unpath", hsedd[d].end)
    BY <1>7, GotoEffect DEF CloseListener, Labels, Ends
  <2>2. DaemonTypeOK'
    BY <1>7, <2>1 DEF CloseListener, DaemonTypeOK, OnlyD, Became
  <2>3. ASSUME PathWhole', NEW e \in Daemons PROVE Footprint(e)'
    BY <1>7, <2>1, <2>3, NotDaemon
    DEF CloseListener, DaemonTypeOK, OnlyD, Became, DaemonInv, Footprint, At, Named, PathWhole
  <2>4. ASSUME alone', NEW e \in Daemons PROVE Owns(e)'
    BY <1>7, <2>1, <2>4, NotDaemon
    DEF CloseListener, DaemonTypeOK, OnlyD, Became, DaemonInv, Owns, At, Named, PathWhole, Alive
  <2> QED
    BY <2>2, <2>3, <2>4 DEF DaemonInv
<1>8. CASE UnlinkSocket(d)
  <2>1. Became(d, "unpid", "ok")
    BY <1>8, EndEffect DEF UnlinkSocket, Labels, Ends
  <2>2. DaemonTypeOK'
    BY <1>8, <2>1 DEF UnlinkSocket, DaemonTypeOK, OnlyD, Became, Unlinked
  <2>3. ASSUME PathWhole', NEW e \in Daemons PROVE Footprint(e)'
    BY <1>8, <2>1, <2>3, NotDaemon
    DEF UnlinkSocket, DaemonTypeOK, OnlyD, Became, Unlinked, DaemonInv, Footprint, At, Named, PathWhole
  <2>4. ASSUME alone', NEW e \in Daemons PROVE Owns(e)'
    BY <1>8, <2>1, <2>4, NotDaemon
    DEF UnlinkSocket, DaemonTypeOK, OnlyD, Became, Unlinked, DaemonInv, Owns, At, Named, PathWhole, Alive
  <2> QED
    BY <2>2, <2>3, <2>4 DEF DaemonInv
<1>9. CASE Exit(d)
  <2>1. Became(d, "gone", hsedd[d].end)
    BY <1>9, GotoEffect DEF Exit, Labels, Ends
  <2>2. DaemonTypeOK'
    BY <1>9, <2>1 DEF Exit, DaemonTypeOK, OnlyD, Became
  <2>3. ASSUME PathWhole', NEW e \in Daemons PROVE Footprint(e)'
    BY <1>9, <2>1, <2>3, NotDaemon
    DEF Exit, DaemonTypeOK, OnlyD, Became, DaemonInv, Footprint, At, Named, PathWhole
  <2>4. ASSUME alone', NEW e \in Daemons PROVE Owns(e)'
    BY <1>9, <2>1, <2>4, NotDaemon
    DEF Exit, DaemonTypeOK, OnlyD, Became, DaemonInv, Owns, At, Named, PathWhole, Alive
  <2> QED
    BY <2>2, <2>3, <2>4 DEF DaemonInv
<1>10. CASE on_shutdown_signal(d)
  <2>1. Became(d, hsedd[d].pc, hsedd[d].end)
    BY <1>10, SignalEffect
  <2>2. DaemonTypeOK'
    BY <1>10, <2>1 DEF on_shutdown_signal, DaemonTypeOK, OnlyD, Became
  <2>3. ASSUME PathWhole', NEW e \in Daemons PROVE Footprint(e)'
    BY <1>10, <2>1, <2>3, NotDaemon
    DEF on_shutdown_signal, DaemonTypeOK, OnlyD, Became, DaemonInv, Footprint, At, Named, PathWhole
  <2>4. ASSUME alone', NEW e \in Daemons PROVE Owns(e)'
    BY <1>10, <2>1, <2>4, NotDaemon
    DEF on_shutdown_signal, DaemonTypeOK, OnlyD, Became, DaemonInv, Owns, At, Named, PathWhole, Alive
  <2> QED
    BY <2>2, <2>3, <2>4 DEF DaemonInv
<1>11. CASE Killed(d)
  <2>1. Became(d, "gone", "killed")
    BY <1>11, EndEffect DEF Killed, Labels, Ends
  <2>2. DaemonTypeOK'
    BY <1>11, <2>1 DEF Killed, DaemonTypeOK, OnlyD, Became
  <2>3. ASSUME PathWhole', NEW e \in Daemons PROVE Footprint(e)'
    BY <1>11, <2>1, <2>3, NotDaemon
    DEF Killed, DaemonTypeOK, OnlyD, Became, DaemonInv, Footprint, At, Named, PathWhole
  <2>4. ASSUME alone', NEW e \in Daemons PROVE Owns(e)'
    BY <1>11, <2>1, <2>4, NotDaemon
    DEF Killed, DaemonTypeOK, OnlyD, Became, DaemonInv, Owns, At, Named, PathWhole, Alive
  <2> QED
    BY <2>2, <2>3, <2>4 DEF DaemonInv
<1>12. CASE PollFails(d)
  <2>1. Became(d, "close", hsedd[d].end)
    BY <1>12, GotoEffect DEF PollFails, Labels, Ends
  <2>2. DaemonTypeOK'
    BY <1>12, <2>1 DEF PollFails, DaemonTypeOK, OnlyD, Became
  <2>3. ASSUME PathWhole', NEW e \in Daemons PROVE Footprint(e)'
    BY <1>12, <2>1, <2>3, NotDaemon
    DEF PollFails, DaemonTypeOK, OnlyD, Became, DaemonInv, Footprint, At, Named, PathWhole
  <2>4. ASSUME alone', NEW e \in Daemons PROVE Owns(e)'
    BY <1>12, <2>1, <2>4, NotDaemon
    DEF PollFails, DaemonTypeOK, OnlyD, Became, DaemonInv, Owns, At, Named, PathWhole, Alive
  <2> QED
    BY <2>2, <2>3, <2>4 DEF DaemonInv
<1>13. CASE \E fg \in BOOLEAN : Start(d, fg)
  <2>1. PICK fg \in BOOLEAN : Start(d, fg)
    BY <1>13
  <2>2. /\ OnlyD(d) /\ hsedd'[d].end = hsedd[d].end
        /\ hsedd'[d].fg = fg /\ hsedd'[d].pid = hsedd[d].pid
        /\ hsedd'[d].pc = IF fg THEN "unlink" ELSE "fork"
    BY <2>1, StartEffect
  <2>3. alone' => alone /\ \A e \in Daemons : ~Alive(e)
    BY <2>1 DEF Start
  <2>4. DaemonTypeOK'
    BY <2>1, <2>2 DEF Start, DaemonTypeOK, OnlyD, Became
  <2>5. ASSUME PathWhole', NEW e \in Daemons PROVE Footprint(e)'
    BY <2>1, <2>2, <2>5, NotDaemon
    DEF Start, DaemonTypeOK, OnlyD, Became, DaemonInv, Footprint, At, Named, PathWhole
  <2>6. ASSUME alone', NEW e \in Daemons PROVE Owns(e)'
    BY <2>1, <2>2, <2>3, <2>6, NotDaemon
    DEF Start, DaemonTypeOK, OnlyD, Became, DaemonInv, Owns, At, Named, PathWhole, Alive
  <2> QED
    BY <2>4, <2>5, <2>6 DEF DaemonInv
<1> QED
  BY <1>1, <1>2, <1>3, <1>4, <1>5, <1>6, <1>7, <1>8, <1>9, <1>10, <1>11, <1>12, <1>13
  DEF DaemonMove, MainStep, MainFault

----------------------------------------------------------------------------
(* The calls on the process. *)

Cell == [pc : {"idle", "stat", "open", "ftruncate", "HUP", "KILL", "done"},
         rc : {"none", "ok", "error"}, st_size : 0 .. MaxSize, ino : 0 .. MaxFiles,
         raw_fd : 0 .. MaxFiles, hit : Nat, bytes : 0 .. MaxSize]
World == [life : Nat, alive : BOOLEAN, fd : 0 .. MaxFiles, last : 1 .. MaxFiles,
          size : [1 .. MaxFiles -> 0 .. MaxSize], cut : SUBSET Callers]

\* The call c becomes k, and the others stay.
Turned(c, k) ==
  /\ call' \in [Callers -> Cell] /\ call'[c] = k
  /\ \A e \in Callers : e # c => call'[e] = call[e]

\* A single call is replaced by a cell.
LEMMA TurnedBy ==
  ASSUME ReclaimTypeOK, NEW c \in Callers, NEW k \in Cell, call' = [call EXCEPT ![c] = k]
  PROVE  Turned(c, k)
BY DEF ReclaimTypeOK, Cell, Turned

\* What a call has measured is still in the file, unless somebody has cut it shorter.
Kept(c) == c \in world.cut \/ call[c].st_size <= world.size[call[c].ino]

\* A call that has yet to look at the file has nothing in its cell.
Fresh(c) == call[c] = [Idle EXCEPT !.pc = call[c].pc]

CallInv(c) ==
  /\ call[c].pc \in {"idle", "stat", "HUP", "KILL"} => Fresh(c)
  /\ call[c].pc \in {"open", "ftruncate"} => call[c].ino # 0 /\ Kept(c)
  /\ call[c].pc = "open" => call[c].raw_fd = 0
  /\ call[c].pc = "ftruncate" => call[c].raw_fd # 0
  /\ call[c].pc # "done" => call[c].rc = "none"
  /\ call[c].rc = "ok" => call[c].hit # 0
  /\ call[c].rc = "ok" /\ call[c].raw_fd = call[c].ino => c \in world.cut \/ call[c].st_size <= call[c].bytes

ReclaimInv == world.life # 0 /\ \A c \in Callers : CallInv(c)

\* A step spares the call e: the file it has measured becomes no shorter, or e is told.
Spares(e) ==
  /\ world.cut \subseteq world'.cut
  /\ call[e].pc \in {"open", "ftruncate"}
       => e \in world'.cut \/ world'.size[call[e].ino] >= world.size[call[e].ino]

\* A call that stays where it is and is spared keeps what its cell promises.
LEMMA OtherCall ==
  ASSUME ReclaimTypeOK, ReclaimTypeOK', NEW e \in Callers, CallInv(e), call'[e] = call[e],
         Spares(e)
  PROVE  CallInv(e)'
<1>1. call[e].pc \in {"open", "ftruncate"} => Kept(e)'
  <2> SUFFICES ASSUME call[e].pc \in {"open", "ftruncate"}, e \notin world'.cut
               PROVE  call[e].st_size <= world'.size[call[e].ino]
    BY DEF Kept
  <2>1. /\ call[e].st_size <= world.size[call[e].ino]
        /\ world'.size[call[e].ino] >= world.size[call[e].ino]
        /\ call[e].ino # 0
    BY DEF CallInv, Kept, Spares
  <2>2. call[e].ino \in 1 .. MaxFiles /\ call[e].st_size \in Int
    <3>1. call[e].ino \in 0 .. MaxFiles /\ call[e].st_size \in 0 .. MaxSize
      BY DEF ReclaimTypeOK
    <3> QED
      BY <2>1, <3>1, ReclaimAssumption
  <2>3. world.size[call[e].ino] \in Int /\ world'.size[call[e].ino] \in Int
    <3>1. /\ world.size \in [1 .. MaxFiles -> 0 .. MaxSize]
          /\ world'.size \in [1 .. MaxFiles -> 0 .. MaxSize]
      BY DEF ReclaimTypeOK
    <3> QED
      BY <2>2, <3>1, ReclaimAssumption
  <2> QED
    BY <2>1, <2>2, <2>3
<1>2. e \in world.cut => e \in world'.cut
  BY DEF Spares
<1> QED
  BY <1>1, <1>2 DEF CallInv, Fresh

\* A step that changes no file spares every call.
LEMMA SameIsSpared ==
  ASSUME ReclaimTypeOK, ReclaimInv, NEW e \in Callers, world'.size = world.size,
         world'.cut = world.cut
  PROVE  Spares(e)
<1>1. call[e].ino \in 0 .. MaxFiles /\ CallInv(e)
  BY DEF ReclaimTypeOK, ReclaimInv
<1>2. \A g \in 1 .. MaxFiles : world.size[g] \in Int
  BY ReclaimAssumption DEF ReclaimTypeOK
<1> QED
  BY <1>1, <1>2, ReclaimAssumption DEF Spares, CallInv

\* A file of which the callers in the middle are told may change in any way.
LEMMA ToldIsSpared ==
  ASSUME ReclaimTypeOK, NEW e \in Callers, NEW f \in 1 .. MaxFiles, NEW n \in 0 .. MaxSize,
         NEW told \in SUBSET Callers, e \in Measured(f) => e \in told, CallInv(e),
         world' = [world EXCEPT !.size[f] = n, !.cut = @ \cup told]
  PROVE  Spares(e)
<1>1. /\ world'.cut = world.cut \cup told
      /\ \A g \in 1 .. MaxFiles : g # f => world'.size[g] = world.size[g]
      /\ \A g \in 1 .. MaxFiles : world.size[g] \in Int
  BY ReclaimAssumption DEF ReclaimTypeOK
<1>2. call[e].pc \in {"open", "ftruncate"} => call[e].ino \in 1 .. MaxFiles
  <2>1. call[e].ino \in 0 .. MaxFiles
    BY DEF ReclaimTypeOK
  <2> QED
    BY <2>1, ReclaimAssumption DEF CallInv
<1> QED
  BY <1>1, <1>2 DEF Spares, Measured

\* What the process does keeps what the cells promise: its file grows, or those who
\* have measured it are told.
LEMMA ProcessStepInv ==
  ASSUME ReclaimTypeOK, ReclaimInv, ProcessStep, UNCHANGED call
  PROVE  ReclaimTypeOK' /\ ReclaimInv'
<1>1. world' \in World /\ world'.life # 0 /\ \A e \in Callers : Spares(e)
  <2>0. world \in World /\ world.life # 0 /\ 0 \in 0 .. MaxFiles
    BY ReclaimAssumption DEF ReclaimTypeOK, ReclaimInv, World
  <2>4. \A e \in Callers : call[e].pc \in {"open", "ftruncate"}
          => call[e].ino \in 1 .. MaxFiles /\ world.size[call[e].ino] \in Int
    <3>1. \A e \in Callers : call[e].ino \in 0 .. MaxFiles /\ CallInv(e)
      BY DEF ReclaimTypeOK, ReclaimInv
    <3>2. \A g \in 1 .. MaxFiles : world.size[g] \in Int
      BY ReclaimAssumption DEF ReclaimTypeOK
    <3> QED
      BY <3>1, <3>2, ReclaimAssumption DEF CallInv
  <2>1. CASE Grow
    <3> DEFINE n == [world.size EXCEPT ![world.fd] = @ + 1]
    <3>1. world' = [world EXCEPT !.size = n] /\ world.fd \in 1 .. MaxFiles
      BY <2>1, ReclaimAssumption DEF Grow, ReclaimTypeOK
    <3>2. n \in [1 .. MaxFiles -> 0 .. MaxSize] /\ \A f \in 1 .. MaxFiles : n[f] >= world.size[f]
      BY <2>1, <3>1, ReclaimAssumption DEF Grow, ReclaimTypeOK
    <3> HIDE DEF n
    <3>3. world'.size = n /\ world'.cut = world.cut /\ world' \in World /\ world'.life # 0
      BY <2>0, <3>1, <3>2 DEF World
    <3> QED
      BY <2>4, <3>2, <3>3 DEF Spares
  <2>2. CASE Reopen
    <3> DEFINE n == IF world.alive THEN world.life ELSE world.life + 1
               m == world.last + 1
    <3>1. world' = [world EXCEPT !.fd = m, !.last = m, !.alive = TRUE, !.life = n]
      BY <2>2 DEF Reopen
    <3>2. n \in Nat /\ n # 0 /\ m \in 1 .. MaxFiles /\ m \in 0 .. MaxFiles
      BY <2>2, ReclaimAssumption DEF Reopen, ReclaimTypeOK, ReclaimInv
    <3> HIDE DEF n, m
    <3>3. /\ world' \in World /\ world'.life # 0
          /\ world'.size = world.size /\ world'.cut = world.cut
      BY <3>1, <3>2 DEF ReclaimTypeOK, World
    <3> QED
      BY <2>4, <3>3 DEF Spares
  <2>3. CASE ProcessExit
    <3>1. /\ world' \in World /\ world'.life # 0
          /\ world'.size = world.size /\ world'.cut = world.cut
      BY <2>0, <2>3 DEF ProcessExit, Gone, World
    <3> QED
      BY <2>4, <3>1 DEF Spares
  <2>5. CASE Shrink
    <3>1. world.fd \in 1 .. MaxFiles
      BY <2>0, <2>5, ReclaimAssumption DEF Shrink, World
    <3>2. world.size[world.fd] \in 0 .. MaxSize
      BY <2>0, <3>1 DEF World
    <3>3. PICK n \in 0 .. world.size[world.fd] - 1 :
            world' = [world EXCEPT !.size[world.fd] = n, !.cut = @ \cup Measured(world.fd)]
      BY <2>5 DEF Shrink
    <3>4. n \in 0 .. MaxSize
      BY <3>2, <3>3, ReclaimAssumption
    <3>5. Measured(world.fd) \in SUBSET Callers
      BY DEF Measured
    <3> DEFINE told == Measured(world.fd)
    <3>6. told \in SUBSET Callers /\ world' = [world EXCEPT !.size[world.fd] = n, !.cut = @ \cup told]
      BY <3>3, <3>5
    <3>7. world' \in World /\ world'.life # 0
      <4> HIDE DEF told
      <4> QED
        BY <2>0, <3>1, <3>4, <3>6 DEF World
    <3>8. \A e \in Callers : Spares(e)
      BY <3>1, <3>4, <3>6, ToldIsSpared DEF ReclaimInv
    <3> QED
      BY <3>7, <3>8
  <2> QED
    BY <2>1, <2>2, <2>3, <2>5 DEF ProcessStep
<1>2. ReclaimTypeOK'
  BY <1>1 DEF ReclaimTypeOK, World
<1>3. \A e \in Callers : CallInv(e)'
  BY <1>1, <1>2, OtherCall DEF ReclaimInv
<1> QED
  BY <1>1, <1>2, <1>3 DEF ReclaimInv

\* A call that moves on keeps what the cells promise if it does so for itself.
LEMMA CallTurn ==
  ASSUME ReclaimTypeOK, ReclaimInv, NEW c \in Callers, NEW j \in Cell,
         call' = [call EXCEPT ![c] = j], world' \in World, world'.life # 0,
         \A e \in Callers : e # c => Spares(e),
         Turned(c, j) => CallInv(c)'
  PROVE  ReclaimTypeOK' /\ ReclaimInv' /\ Turned(c, j)
<1>1. Turned(c, j)
  BY TurnedBy
<1>2. ReclaimTypeOK'
  BY <1>1 DEF Turned, ReclaimTypeOK, Cell, World
<1>3. ASSUME NEW e \in Callers PROVE CallInv(e)'
  <2>1. CASE e = c
    BY <1>1, <2>1
  <2>2. CASE e # c
    BY <1>1, <1>2, <2>2, OtherCall DEF Turned, ReclaimInv
  <2> QED
    BY <2>1, <2>2
<1> QED
  BY <1>1, <1>2, <1>3 DEF ReclaimInv

\* Every step of a call preserves the types and what the cells promise, and touches
\* no other call.
LEMMA CallStepInv ==
  ASSUME ReclaimTypeOK, ReclaimInv, NEW c \in Callers, CallStep(c)
  PROVE  /\ ReclaimTypeOK' /\ ReclaimInv'
         /\ \A e \in Callers : e # c => call'[e] = call[e]
         /\ call[c].pc \notin {"idle", "done"} /\ call'[c].pc # "idle"
<1> DEFINE k == call[c]
<1>0. /\ call \in [Callers -> Cell] /\ k \in Cell /\ world \in World /\ CallInv(c)
      /\ world.life \in Nat \ {0}
      /\ 0 \in 0 .. MaxFiles /\ 0 \in 0 .. MaxSize
  BY ReclaimAssumption DEF ReclaimTypeOK, Cell, World, ReclaimInv
<1>1. CASE Doing(c, "stat") /\ world.fd # 0 /\ Stat(c)
  <2> DEFINE j == [k EXCEPT !.pc = "open", !.st_size = world.size[world.fd], !.ino = world.fd]
  <2>1. call' = [call EXCEPT ![c] = j] /\ world' = world
    BY <1>0, <1>1 DEF Stat, Doing
  <2>2. world.size[world.fd] \in 0 .. MaxSize /\ world.fd \in 0 .. MaxFiles
    BY <1>0, <1>1, ReclaimAssumption DEF World
  <2>3. /\ j \in Cell /\ j.pc = "open" /\ j.st_size = world.size[world.fd] /\ j.ino = world.fd
        /\ j.raw_fd = k.raw_fd /\ j.rc = k.rc
    BY <1>0, <2>2 DEF Cell
  <2>4. k.raw_fd = 0 /\ k.rc = "none"
    BY <1>0, <1>1 DEF CallInv, Fresh, Idle, Doing
  <2> HIDE DEF j
  <2>5. Turned(c, j) => CallInv(c)'
    BY <1>1, <2>1, <2>2, <2>3, <2>4, ReclaimAssumption DEF CallInv, Turned, Kept
  <2> QED
    BY <1>0, <1>1, SameIsSpared, <2>1, <2>3, <2>4, <2>5, CallTurn DEF Turned, Doing
<1>2. CASE Doing(c, "open") /\ world.fd # 0 /\ UNCHANGED world
           /\ call' = [call EXCEPT ![c].pc = "ftruncate", ![c].raw_fd = world.fd]
  <2> DEFINE j == [k EXCEPT !.pc = "ftruncate", !.raw_fd = world.fd]
  <2>1. call' = [call EXCEPT ![c] = j] /\ world' = world
    BY <1>0, <1>2
  <2>3. /\ j \in Cell /\ j.pc = "ftruncate" /\ j.st_size = k.st_size /\ j.ino = k.ino
        /\ j.raw_fd = world.fd /\ j.rc = k.rc
    BY <1>0 DEF Cell, World
  <2>4. k.pc = "open" /\ k.raw_fd = 0 /\ k.rc = "none" /\ k.ino # 0 /\ Kept(c)
    BY <1>0, <1>2 DEF CallInv, Doing
  <2> HIDE DEF j
  <2>5. Turned(c, j) => CallInv(c)'
    BY <1>2, <2>1, <2>3, <2>4, ReclaimAssumption DEF CallInv, Turned, Kept
  <2> QED
    BY <1>0, SameIsSpared, <2>1, <2>3, <2>4, <2>5, CallTurn DEF Turned
<1>3. ASSUME UNCHANGED world, NEW rc \in {"error"}, Done(c, rc), k.pc \notin {"idle", "done"}
      PROVE  /\ ReclaimTypeOK' /\ ReclaimInv'
             /\ \A e \in Callers : e # c => call'[e] = call[e]
             /\ call[c].pc \notin {"idle", "done"} /\ call'[c].pc # "idle"
  <2> DEFINE j == [k EXCEPT !.pc = "done", !.rc = rc]
  <2>1. call' = [call EXCEPT ![c] = j] /\ world' = world
    BY <1>0, <1>3 DEF Done
  <2>3. j \in Cell /\ j.pc = "done" /\ j.raw_fd = k.raw_fd /\ j.rc = "error"
    BY <1>0, <1>3 DEF Cell
  <2> HIDE DEF j
  <2>5. Turned(c, j) => CallInv(c)'
    BY <2>3 DEF CallInv, Turned
  <2> QED
    BY <1>0, <1>3, SameIsSpared, <2>1, <2>3, <2>5, CallTurn DEF Turned
<1>4. CASE /\ Doing(c, "ftruncate")
           /\ world' = [world EXCEPT !.size[k.raw_fd] = 0,
                                     !.cut = @ \cup (Measured(k.raw_fd) \ {c})]
           /\ call' = [call EXCEPT ![c].pc = "done", ![c].rc = "ok", ![c].hit = k.raw_fd,
                                   ![c].bytes = world.size[k.raw_fd]]
  <2> DEFINE j == [k EXCEPT !.pc = "done", !.rc = "ok", !.hit = k.raw_fd,
                            !.bytes = world.size[k.raw_fd]]
             told == Measured(k.raw_fd) \ {c}
  <2>1. /\ call' = [call EXCEPT ![c] = j] /\ told \in SUBSET Callers
        /\ world' = [world EXCEPT !.size[k.raw_fd] = 0, !.cut = @ \cup told]
    BY <1>0, <1>4 DEF Measured
  <2>2. /\ k.raw_fd # 0 /\ k.raw_fd \in 1 .. MaxFiles /\ Kept(c) /\ k.ino # 0
        /\ k.pc = "ftruncate"
    BY <1>0, <1>4, ReclaimAssumption DEF CallInv, Doing, Cell
  <2>3. /\ j \in Cell /\ j.pc = "done" /\ j.st_size = k.st_size /\ j.ino = k.ino
        /\ j.raw_fd = k.raw_fd /\ j.rc = "ok" /\ j.hit = k.raw_fd
        /\ j.bytes = world.size[k.raw_fd]
    <3>1. world.size[k.raw_fd] \in 0 .. MaxSize /\ k.raw_fd \in Nat
      BY <1>0, <2>2, ReclaimAssumption DEF World
    <3> QED
      BY <1>0, <3>1 DEF Cell
  <2>6. \A e \in Callers : e # c => Spares(e)
    BY <1>0, <2>1, <2>2, ToldIsSpared DEF ReclaimInv
  <2> HIDE DEF told
  <2>4. world' \in World /\ world'.life # 0 /\ world.cut \subseteq world'.cut
    BY <1>0, <2>1, <2>2 DEF World
  <2> HIDE DEF j
  <2>5. Turned(c, j) => CallInv(c)'
    BY <2>2, <2>3, <2>4, ReclaimAssumption DEF CallInv, Turned, Kept
  <2> QED
    BY <2>1, <2>2, <2>3, <2>4, <2>5, <2>6, CallTurn DEF Turned
<1>5. ASSUME NEW sig \in {"HUP", "KILL"}, Doing(c, sig),
             call' = [call EXCEPT ![c].pc = "done", ![c].rc = "ok", ![c].hit = world.life],
             world' = IF sig = "KILL" THEN Gone(world) ELSE world
      PROVE  /\ ReclaimTypeOK' /\ ReclaimInv'
             /\ \A e \in Callers : e # c => call'[e] = call[e]
             /\ call[c].pc \notin {"idle", "done"} /\ call'[c].pc # "idle"
  <2> DEFINE j == [k EXCEPT !.pc = "done", !.rc = "ok", !.hit = world.life]
  <2>1. call' = [call EXCEPT ![c] = j]
    BY <1>0, <1>5
  <2>2. k.st_size = 0 /\ k.bytes = 0 /\ k.pc \in {"HUP", "KILL"}
    BY <1>0, <1>5 DEF CallInv, Fresh, Doing, Idle
  <2>3. /\ j \in Cell /\ j.pc = "done" /\ j.st_size = 0 /\ j.raw_fd = k.raw_fd
        /\ j.rc = "ok" /\ j.hit = world.life /\ j.bytes = 0
    BY <1>0, <2>2 DEF Cell
  <2>4. /\ world' \in World /\ world'.life # 0
        /\ world'.size = world.size /\ world'.cut = world.cut
    BY <1>0, <1>5 DEF World, Gone
  <2> HIDE DEF j
  <2>5. Turned(c, j) => CallInv(c)'
    BY <1>0, <2>3 DEF CallInv, Turned
  <2> QED
    BY SameIsSpared, <2>1, <2>2, <2>3, <2>4, <2>5, CallTurn DEF Turned
<1> QED
  BY <1>1, <1>2, <1>3, <1>4, <1>5
  DEF CallStep, Stat, Open, Ftruncate, hsed_send_signal, Doing
----------------------------------------------------------------------------
(* One request: the client q, the thread t, the socket o and the call k. *)

Req == [st : {"new", "open", "ok", "failed"}, kind : Kinds \cup {"none"}, part : 0 .. 1,
        line : Lines \cup {NoLine}, got : Seq(1 .. MaxEntries)]
Thr == [pc : {"none", "backlog", "recv", "call", "send", "gone"}, d : Daemons \cup {NoDaemon},
        in : BOOLEAN, lines : Seq(Lines), sent : 0 .. 1, count : 0 .. MaxEntries]
Piece == [l : Lines, p : 1 .. 2]

\* What a scan of n entries sends, and the answers of a thread that has counted n.
Entry(i) == [k |-> "entry", i |-> i]
ScanLines(n) == Append([i \in 1 .. n |-> Entry(i)], Line("end"))
Answers(n) == {ScanLines(n), <<Line("error")>>}

\* Before the command is read, nothing has been said and nothing done.
Silent(q, t, o, k) ==
  /\ k = Idle /\ o = << >> /\ t.lines = << >> /\ t.sent = 0 /\ t.count = 0
  /\ q.part = 0 /\ q.got = << >> /\ q.st # "ok"

\* A result is on its way, or taken for success, only when the call has succeeded.
Honest(l, k) == l.k = "error" \/ (l.k = "result" /\ k.rc = "ok")
HonestOK(q, t, o, k) ==
  /\ \A i \in 1 .. Len(t.lines) : Honest(t.lines[i], k)
  /\ \A i \in 1 .. Len(o) : Honest(o[i].l, k)
  /\ q.part = 1 => Honest(q.line, k)
  /\ q.st = "ok" => k.rc = "ok"

\* Of the pieces of the answer, a body and a newline for each line, the client has read
\* the first 2 * Len(got) + part, the next ones are in the socket, and the thread has the
\* others still to send.
Consumed(q) == 2 * Len(q.got) + q.part
Stream(q, t, o, answer) ==
  /\ Len(t.lines) <= Len(answer)
  /\ \A i \in 1 .. Len(t.lines) : t.lines[i] = answer[Len(answer) - Len(t.lines) + i]
  /\ t.sent = 1 => t.lines # << >>
  /\ Consumed(q) + Len(o) = 2 * (Len(answer) - Len(t.lines)) + t.sent
  /\ \A i \in 1 .. Len(o), m \in 1 .. Len(answer), b \in 1 .. 2 :
       Consumed(q) + i = 2 * (m - 1) + b => o[i] = [l |-> answer[m], p |-> b]
  /\ q.part = 1 => q.line = answer[Len(q.got) + 1]
  /\ Len(q.got) < Len(answer) /\ \A i \in 1 .. Len(q.got) : q.got[i] = i /\ answer[i] = Entry(i)

RequestOK(q, t, o, k) ==
  /\ Len(o) <= Room
  /\ t.pc = "send" => t.lines # << >>
  /\ q.st = "new" => t.pc = "none"
  /\ t.pc = "none" => q.st # "open"
  /\ t.pc = "backlog" => t.in
  /\ t.pc = "call" => q.kind \in Acts
  /\ t.pc = "none" \/ t.in => Silent(q, t, o, k)
  /\ q.kind \in Acts => HonestOK(q, t, o, k)
  /\ q.kind = "SCAN" /\ q.st = "open" /\ ~t.in =>
       \E answer \in Answers(t.count) : Stream(q, t, o, answer)
  /\ q.kind = "SCAN" /\ q.st = "ok" => q.got = [i \in 1 .. t.count |-> i]

RequestTypeOK ==
  req \in [Requests -> Req] /\ thr \in [Requests -> Thr] /\ out \in [Requests -> Seq(Piece)]
RequestInv == \A r \in Requests : RequestOK(req[r], thr[r], out[r], call[r])

\* Lines, kinds and the like are what the names say.
LEMMA LineFacts ==
  /\ \A k \in {"pong", "stats", "result", "error", "end"} : Line(k) \in Lines
  /\ \A i \in 1 .. MaxEntries : Entry(i) \in Lines
  /\ \A l \in Lines : l.k \in {"pong", "stats", "result", "error", "end", "entry"}
  /\ \A l \in Lines : l.k = "entry" => l.i \in 1 .. MaxEntries
BY DEF Lines, Line, Entry

\* A sequence of one.
LEMMA OneLine ==
  ASSUME NEW l \in Lines
  PROVE  /\ <<l>> \in Seq(Lines) /\ Len(<<l>>) = 1 /\ <<l>>[1] = l /\ <<l>> # << >>
         /\ Head(<<l>>) = l /\ Tail(<<l>>) = << >>
OBVIOUS

\* The first of a sequence and the others.
LEMMA TailFacts ==
  ASSUME NEW S, NEW s \in Seq(S), s # << >>
  PROVE  /\ Len(s) \in Nat \ {0} /\ Head(s) = s[1] /\ s[1] \in S /\ Tail(s) \in Seq(S)
         /\ Len(Tail(s)) = Len(s) - 1 /\ (Len(s) # 1 => Tail(s) # << >>)
         /\ \A i \in 1 .. Len(s) - 1 : Tail(s)[i] = s[i + 1]
<1>1. Len(s) \in Nat \ {0} /\ Len(<< >>) = 0
  BY EmptySeq
<1>2. s[1] \in S /\ Head(s) = s[1]
  BY <1>1
<1>3. /\ Tail(s) \in Seq(S) /\ Len(Tail(s)) = Len(s) - 1
      /\ \A i \in 1 .. Len(Tail(s)) : Tail(s)[i] = s[i + 1]
  BY HeadTailProperties, Zenon
<1>4. Len(s) # 1 => Tail(s) # << >>
  <2>1. Tail(s) = << >> => Len(Tail(s)) = 0
    BY <1>1
  <2> QED
    BY <1>1, <1>3, <2>1
<1> QED
  BY <1>1, <1>2, <1>3, <1>4

\* What handle_scan sends.
LEMMA ScanLinesFacts ==
  ASSUME NEW n \in 0 .. MaxEntries
  PROVE  /\ ScanLines(n) \in Seq(Lines) /\ Len(ScanLines(n)) = n + 1
         /\ \A i \in 1 .. n : ScanLines(n)[i] = Entry(i)
         /\ ScanLines(n)[n + 1] = Line("end")
<1> DEFINE s == [i \in 1 .. n |-> Entry(i)]
<1>1. n \in Nat /\ \A i \in 1 .. n : i \in 1 .. MaxEntries
  BY RequestsAssumption
<1>2. s \in Seq(Lines) /\ Len(s) = n /\ \A i \in 1 .. n : s[i] = Entry(i)
  <2>1. s \in [1 .. n -> Lines]
    BY <1>1, LineFacts
  <2> QED
    BY <1>1, <2>1
<1> HIDE DEF s
<1>3. ScanLines(n) = Append(s, Line("end")) /\ Line("end") \in Lines
  BY LineFacts DEF ScanLines, s
<1> QED
  BY <1>1, <1>2, <1>3

\* The command is read and answered with one line.
LEMMA SayOK ==
  ASSUME NEW q \in Req, NEW t \in Thr, NEW k \in Cell, NEW o \in Seq(Piece), RequestOK(q, t, o, k),
         t.in, t.pc = "recv", q.kind \notin Acts, NEW l \in Lines,
         q.kind = "SCAN" => l = Line("error")
  PROVE  LET u == [t EXCEPT !.pc = "send", !.lines = <<l>>, !.in = FALSE]
         IN  u \in Thr /\ RequestOK(q, u, o, k)
<1> DEFINE u == [t EXCEPT !.pc = "send", !.lines = <<l>>, !.in = FALSE]
<1>1. /\ u \in Thr /\ u.pc = "send" /\ u.lines = <<l>> /\ ~u.in /\ u.sent = t.sent
      /\ u.count = t.count /\ u.d = t.d
  BY OneLine DEF Thr
<1>2. Silent(q, t, o, k) /\ q.st # "new"
  BY DEF RequestOK
<1> HIDE DEF u
<1>3. ASSUME q.kind = "SCAN" PROVE Stream(q, u, o, <<Line("error")>>)
  BY <1>1, <1>2, <1>3, OneLine DEF Silent, Stream, Consumed
<1>4. RequestOK(q, u, o, k)
  BY <1>1, <1>2, <1>3, OneLine DEF RequestOK, Answers, Silent
<1> QED
  BY <1>1, <1>4 DEF u

\* The command is a scan.
LEMMA SayScanOK ==
  ASSUME NEW q \in Req, NEW t \in Thr, NEW k \in Cell, NEW o \in Seq(Piece), RequestOK(q, t, o, k),
         t.in, t.pc = "recv", q.kind = "SCAN", NEW n \in 0 .. MaxEntries
  PROVE  LET u == [t EXCEPT !.pc = "send", !.in = FALSE, !.count = n, !.lines = ScanLines(n)]
         IN  u \in Thr /\ RequestOK(q, u, o, k)
<1> DEFINE u == [t EXCEPT !.pc = "send", !.in = FALSE, !.count = n, !.lines = ScanLines(n)]
<1>1. /\ u \in Thr /\ u.pc = "send" /\ u.lines = ScanLines(n) /\ ~u.in /\ u.sent = t.sent
      /\ u.count = n
  BY ScanLinesFacts DEF Thr
<1>2. Silent(q, t, o, k) /\ q.st # "new"
  BY DEF RequestOK
<1>3. /\ n \in Nat /\ ScanLines(n) \in Seq(Lines) /\ Len(ScanLines(n)) = n + 1
      /\ ScanLines(n) # << >>
  BY ScanLinesFacts, RequestsAssumption
<1> HIDE DEF u
<1>4. Stream(q, u, o, ScanLines(n))
  BY <1>1, <1>2, <1>3 DEF Silent, Stream, Consumed
<1>5. RequestOK(q, u, o, k)
  BY <1>1, <1>2, <1>3, <1>4 DEF RequestOK, Answers, Silent, Acts
<1> QED
  BY <1>1, <1>5 DEF u

\* Accept, QUIT and the end of the connection: only the label changes.
LEMMA LabelOK ==
  ASSUME NEW q \in Req, NEW t \in Thr, NEW k \in Cell, NEW o \in Seq(Piece), RequestOK(q, t, o, k),
         t.pc \in {"backlog", "recv"}, NEW label \in {"recv", "gone"}
  PROVE  LET u == [t EXCEPT !.pc = label] IN u \in Thr /\ RequestOK(q, u, o, k)
<1> DEFINE u == [t EXCEPT !.pc = label]
<1>1. /\ u \in Thr /\ u.pc = label /\ u.lines = t.lines /\ u.in = t.in /\ u.sent = t.sent
      /\ u.count = t.count
  BY DEF Thr
<1> HIDE DEF u
<1>2. Silent(q, t, o, k) => Silent(q, u, o, k)
  BY <1>1 DEF Silent
<1>3. HonestOK(q, t, o, k) => HonestOK(q, u, o, k)
  BY <1>1 DEF HonestOK
<1>4. \A answer : Stream(q, t, o, answer) => Stream(q, u, o, answer)
  BY <1>1 DEF Stream
<1>5. RequestOK(q, u, o, k)
  BY <1>1, <1>2, <1>3, <1>4 DEF RequestOK
<1> QED
  BY <1>1, <1>5 DEF u

\* An empty line.
LEMMA BlankOK ==
  ASSUME NEW q \in Req, NEW t \in Thr, NEW k \in Cell, NEW o \in Seq(Piece), RequestOK(q, t, o, k),
         t.pc = "recv", q.kind = "blank"
  PROVE  LET u == [t EXCEPT !.in = FALSE] IN u \in Thr /\ RequestOK(q, u, o, k)
<1> DEFINE u == [t EXCEPT !.in = FALSE]
<1>1. /\ u \in Thr /\ u.pc = t.pc /\ u.lines = t.lines /\ ~u.in /\ u.sent = t.sent
      /\ u.count = t.count
  BY DEF Thr
<1> HIDE DEF u
<1>2. RequestOK(q, u, o, k)
  BY <1>1 DEF RequestOK, Acts
<1> QED
  BY <1>1, <1>2 DEF u

\* TRUNCATE, HUP and KILL: the call begins, with an empty cell.
LEMMA CallOK ==
  ASSUME NEW q \in Req, NEW t \in Thr, NEW k \in Cell, NEW o \in Seq(Piece), RequestOK(q, t, o, k),
         t.in, t.pc = "recv", q.kind \in Acts, NEW j \in Cell, j.rc = k.rc
  PROVE  LET u == [t EXCEPT !.pc = "call", !.in = FALSE]
         IN  u \in Thr /\ RequestOK(q, u, o, j)
<1> DEFINE u == [t EXCEPT !.pc = "call", !.in = FALSE]
<1>1. /\ u \in Thr /\ u.pc = "call" /\ u.lines = t.lines /\ ~u.in /\ u.sent = t.sent
      /\ u.count = t.count
  BY DEF Thr
<1> HIDE DEF u
<1>2. RequestOK(q, u, o, j)
  BY <1>1 DEF RequestOK, Acts, HonestOK, Honest
<1> QED
  BY <1>1, <1>2 DEF u

\* The call goes on: until it is done, nothing is on its way.
LEMMA CallingOK ==
  ASSUME NEW q \in Req, NEW t \in Thr, NEW k \in Cell, NEW o \in Seq(Piece), RequestOK(q, t, o, k),
         t.pc = "call", NEW j \in Cell, k.rc = "none", k # Idle
  PROVE  RequestOK(q, t, o, j)
<1>1. q.kind \in Acts /\ q.kind # "SCAN" /\ ~t.in /\ HonestOK(q, t, o, k)
  BY DEF RequestOK, Acts, Silent
<1>2. HonestOK(q, t, o, j)
  BY <1>1 DEF HonestOK, Honest
<1> QED
  BY <1>1, <1>2 DEF RequestOK

\* The call has returned.
LEMMA AnswerOK ==
  ASSUME NEW q \in Req, NEW t \in Thr, NEW k \in Cell, NEW o \in Seq(Piece), RequestOK(q, t, o, k),
         t.pc = "call", k.pc = "done"
  PROVE  LET l == Line(IF k.rc = "ok" THEN "result" ELSE "error")
             u == [t EXCEPT !.pc = "send", !.lines = <<l>>, !.in = FALSE]
         IN  u \in Thr /\ RequestOK(q, u, o, k)
<1> DEFINE l == Line(IF k.rc = "ok" THEN "result" ELSE "error")
           u == [t EXCEPT !.pc = "send", !.lines = <<l>>, !.in = FALSE]
<1>1. l \in Lines /\ Honest(l, k)
  BY LineFacts DEF Honest, Line
<1> HIDE DEF l
<1>2. /\ u \in Thr /\ u.pc = "send" /\ u.lines = <<l>> /\ ~u.in /\ u.sent = t.sent
      /\ u.count = t.count /\ u.d = t.d
  BY <1>1, OneLine DEF Thr
<1> HIDE DEF u
<1>3. q.kind \in Acts /\ q.kind # "SCAN" /\ HonestOK(q, t, o, k) /\ q.st # "new"
  BY DEF RequestOK, Acts
<1>4. HonestOK(q, u, o, k)
  BY <1>1, <1>2, <1>3, OneLine DEF HonestOK
<1>5. RequestOK(q, u, o, k)
  BY <1>1, <1>2, <1>3, <1>4, OneLine DEF RequestOK
<1> QED
  BY <1>2, <1>5 DEF u, l

\* The client has gone: hsed_send_line fails and the handler returns.
LEMMA SendFailsOK ==
  ASSUME NEW q \in Req, NEW t \in Thr, NEW k \in Cell, NEW o \in Seq(Piece), RequestOK(q, t, o, k),
         t.pc = "send", q.st # "open"
  PROVE  LET u == [t EXCEPT !.sent = 0, !.lines = << >>, !.pc = "recv"]
         IN  u \in Thr /\ RequestOK(q, u, o, k)
<1> DEFINE u == [t EXCEPT !.sent = 0, !.lines = << >>, !.pc = "recv"]
<1>0. << >> \in Seq(Lines) /\ 0 \in 0 .. 1
  OBVIOUS
<1>1. /\ u \in Thr /\ u.pc = "recv" /\ u.lines = << >> /\ u.in = t.in /\ u.sent = 0
      /\ u.count = t.count
  BY <1>0 DEF Thr
<1>2. ~t.in /\ q.st # "new"
  BY DEF RequestOK, Silent
<1> HIDE DEF u
<1>3. RequestOK(q, u, o, k)
  BY <1>1, <1>2 DEF RequestOK, HonestOK
<1> QED
  BY <1>1, <1>3 DEF u

\* One call of send(): the body of the line, or its newline.
LEMMA SendOK ==
  ASSUME NEW q \in Req, NEW t \in Thr, NEW k \in Cell, NEW o \in Seq(Piece), RequestOK(q, t, o, k),
         t.pc = "send", q.st = "open", Len(o) < Room
  PROVE  LET p == Append(o, [l |-> Head(t.lines), p |-> t.sent + 1])
         IN  Sent(t) \in Thr /\ p \in Seq(Piece) /\ RequestOK(q, Sent(t), p, k)
<1> DEFINE x == [l |-> Head(t.lines), p |-> t.sent + 1]
           p == Append(o, x)
           u == Sent(t)
           more == IF Len(t.lines) = 1 THEN "recv" ELSE "send"
<1>1. t.lines \in Seq(Lines) /\ t.lines # << >> /\ ~t.in /\ t.sent \in 0 .. 1 /\ q.st # "new"
  BY DEF RequestOK, Silent, Thr
<1>9. /\ Len(t.lines) \in Nat \ {0} /\ Head(t.lines) = t.lines[1] /\ t.lines[1] \in Lines
      /\ Tail(t.lines) \in Seq(Lines) /\ Len(Tail(t.lines)) = Len(t.lines) - 1
      /\ (Len(t.lines) # 1 => Tail(t.lines) # << >>)
      /\ \A i \in 1 .. Len(t.lines) - 1 : Tail(t.lines)[i] = t.lines[i + 1]
  BY <1>1, TailFacts, Zenon
<1>2. x = [l |-> t.lines[1], p |-> t.sent + 1] /\ t.sent + 1 \in 1 .. 2
  BY <1>1, <1>9
<1>10. x \in Piece /\ x.l = t.lines[1]
  BY <1>2, <1>9 DEF Piece
<1>3. more \in {"recv", "send"} /\ (more = "send" => Tail(t.lines) # << >>)
  BY <1>1, <1>9
<1>4. /\ u \in Thr /\ u.in = t.in /\ u.count = t.count
      /\ \/ t.sent = 0 /\ u.sent = 1 /\ u.lines = t.lines /\ u.pc = "send"
         \/ t.sent = 1 /\ u.sent = 0 /\ u.lines = Tail(t.lines) /\ u.pc = more
  <2>1. CASE t.sent = 0
    BY <2>1 DEF Thr, Sent
  <2>2. CASE t.sent = 1
    <3>1. u = [t EXCEPT !.sent = 0, !.lines = Tail(t.lines), !.pc = more]
      BY <2>2 DEF Sent
    <3>2. Tail(t.lines) \in Seq(Lines) /\ 0 \in 0 .. 1
      BY <1>1, <1>9
    <3>3. more \in {"none", "backlog", "recv", "call", "send", "gone"}
      BY <1>3
    <3> HIDE DEF more, u
    <3> QED
      BY <2>2, <3>1, <3>2, <3>3 DEF Thr
  <2> QED
    BY <1>1, <2>1, <2>2
<1>5. /\ p \in Seq(Piece) /\ Len(p) = Len(o) + 1 /\ p[Len(o) + 1] = x
      /\ \A i \in 1 .. Len(o) : p[i] = o[i]
  <2> HIDE DEF x
  <2> QED
    BY <1>10
<1> HIDE DEF x, p, u, more
<1>6. ASSUME q.kind \in Acts PROVE HonestOK(q, u, p, k)
  <2>1. HonestOK(q, t, o, k)
    BY <1>6 DEF RequestOK
  <2>2. \A i \in 1 .. Len(u.lines) : Honest(u.lines[i], k)
    <3>1. CASE u.lines = t.lines
      BY <2>1, <3>1 DEF HonestOK
    <3>2. CASE u.lines = Tail(t.lines)
      <4>1. \A i \in 1 .. Len(u.lines) : u.lines[i] = t.lines[i + 1] /\ i + 1 \in 1 .. Len(t.lines)
        BY <1>9, <3>2
      <4> QED
        BY <2>1, <4>1 DEF HonestOK
    <3> QED
      BY <1>4, <3>1, <3>2
  <2>3. \A i \in 1 .. Len(p) : Honest(p[i].l, k)
    BY <1>9, <1>10, <1>5, <2>1 DEF HonestOK
  <2> QED
    BY <2>1, <2>2, <2>3 DEF HonestOK
<1>7. ASSUME q.kind = "SCAN"
      PROVE  \E answer \in Answers(u.count) : Stream(q, u, p, answer)
  <2>1. PICK answer \in Answers(t.count) : Stream(q, t, o, answer)
    BY <1>1, <1>7 DEF RequestOK
  <2>2. answer \in Seq(Lines)
    BY ScanLinesFacts, LineFacts, OneLine DEF Answers, Thr
  <2>3. Stream(q, u, p, answer)
    <3>0. Consumed(q) \in Nat /\ Len(o) \in Nat /\ Len(answer) \in Nat /\ Len(t.lines) \in Nat
      BY <1>1, <2>2 DEF Consumed, Req
    <3>3. /\ Len(t.lines) <= Len(answer) /\ Len(t.lines) >= 1
          /\ Consumed(q) + Len(o) = 2 * (Len(answer) - Len(t.lines)) + t.sent
          /\ t.lines[1] = answer[Len(answer) - Len(t.lines) + 1]
      <4>1. /\ Len(t.lines) <= Len(answer)
            /\ Consumed(q) + Len(o) = 2 * (Len(answer) - Len(t.lines)) + t.sent
            /\ \A i \in 1 .. Len(t.lines) : t.lines[i] = answer[Len(answer) - Len(t.lines) + i]
        BY <2>1, Zenon DEF Stream
      <4>2. 1 \in 1 .. Len(t.lines)
        BY <1>9
      <4>3. t.lines[1] = answer[Len(answer) - Len(t.lines) + 1]
        BY <4>1, <4>2, Zenon
      <4>4. Len(t.lines) >= 1
        BY <1>9
      <4> QED
        BY <4>1, <4>3, <4>4, Zenon
    <3>5. /\ Len(t.lines) <= Len(answer) /\ Len(t.lines) >= 1 /\ t.sent \in 0 .. 1
          /\ Consumed(q) + Len(o) = 2 * (Len(answer) - Len(t.lines)) + t.sent
      BY <1>1, <3>3, Zenon
    <3>4. /\ q.part = 1 => q.line = answer[Len(q.got) + 1]
          /\ Len(q.got) < Len(answer) /\ \A i \in 1 .. Len(q.got) : q.got[i] = i /\ answer[i] = Entry(i)
      BY <2>1 DEF Stream
    <3>1. CASE t.sent = 0
      <4>1. ASSUME NEW i \in 1 .. Len(p), NEW m \in 1 .. Len(answer), NEW b \in 1 .. 2,
                   Consumed(q) + i = 2 * (m - 1) + b
            PROVE  p[i] = [l |-> answer[m], p |-> b]
        <5>1. CASE i \in 1 .. Len(o)
          BY <1>5, <2>1, <4>1, <5>1 DEF Stream
        <5>2. CASE i = Len(o) + 1
          <6>1. b = 1 /\ m = Len(answer) - Len(t.lines) + 1
            <7>1. Consumed(q) + Len(o) + 1 = 2 * (m - 1) + b /\ m \in Nat /\ b \in 1 .. 2
              BY <3>0, <4>1, <5>2
            <7> QED
              BY <3>0, <3>1, <3>5, <7>1, SMTT(30)
          <6>2. t.lines[1] = answer[m]
            BY <3>3, <6>1
          <6> QED
            BY <1>2, <1>5, <3>1, <5>2, <6>1, <6>2
        <5> QED
          BY <1>5, <3>0, <4>1, <5>1, <5>2
      <4> QED
        <5>1. u.sent = 1 /\ u.lines = t.lines
          BY <1>4, <3>1
        <5> QED
          <6>1. Consumed(q) + Len(p) = 2 * (Len(answer) - Len(u.lines)) + u.sent
            <7>1. Len(p) = Len(o) + 1
              BY <1>5
            <7> QED
              BY <3>0, <3>1, <3>5, <5>1, <7>1
          <6>2. \A i \in 1 .. Len(u.lines) : u.lines[i] = answer[Len(answer) - Len(u.lines) + i]
            BY <2>1, <5>1 DEF Stream
          <6> QED
            BY <1>1, <3>3, <3>4, <4>1, <5>1, <6>1, <6>2 DEF Stream
    <3>2. CASE t.sent = 1
      <4>1. ASSUME NEW i \in 1 .. Len(p), NEW m \in 1 .. Len(answer), NEW b \in 1 .. 2,
                   Consumed(q) + i = 2 * (m - 1) + b
            PROVE  p[i] = [l |-> answer[m], p |-> b]
        <5>1. CASE i \in 1 .. Len(o)
          BY <1>5, <2>1, <4>1, <5>1 DEF Stream
        <5>2. CASE i = Len(o) + 1
          <6>1. b = 2 /\ m = Len(answer) - Len(t.lines) + 1
            <7>1. Consumed(q) + Len(o) + 1 = 2 * (m - 1) + b /\ m \in Nat /\ b \in 1 .. 2
              BY <3>0, <4>1, <5>2
            <7> QED
              BY <3>0, <3>2, <3>5, <7>1, SMTT(30)
          <6>2. t.lines[1] = answer[m]
            BY <3>3, <6>1
          <6> QED
            BY <1>2, <1>5, <3>2, <5>2, <6>1, <6>2
        <5> QED
          BY <1>5, <3>0, <4>1, <5>1, <5>2
      <4> QED
        <5>1. u.sent = 0 /\ u.lines = Tail(t.lines) /\ Len(u.lines) = Len(t.lines) - 1
          <6>1. u.sent = 0 /\ u.lines = Tail(t.lines)
            BY <1>4, <3>2
          <6> QED
            BY <1>9, <6>1
        <5>2. \A i \in 1 .. Len(u.lines) : u.lines[i] = answer[Len(answer) - Len(u.lines) + i]
          <6> SUFFICES ASSUME NEW i \in 1 .. Len(u.lines)
                       PROVE  u.lines[i] = answer[Len(answer) - Len(u.lines) + i]
            OBVIOUS
          <6>1. u.lines[i] = t.lines[i + 1] /\ i + 1 \in 1 .. Len(t.lines)
            BY <3>0, <5>1, <1>9
          <6>4. i \in Nat /\ Len(u.lines) = Len(t.lines) - 1
            BY <5>1, <1>9
          <6>2. Len(answer) - Len(u.lines) + i = Len(answer) - Len(t.lines) + (i + 1)
            BY <3>0, <6>4
          <6>3. t.lines[i + 1] = answer[Len(answer) - Len(t.lines) + (i + 1)]
            <7>1. \A j \in 1 .. Len(t.lines) : t.lines[j] = answer[Len(answer) - Len(t.lines) + j]
              BY <2>1, Zenon DEF Stream
            <7> QED
              BY <6>1, <7>1, Zenon
          <6> QED
            BY <6>1, <6>2, <6>3
        <5> QED
          <6>1. Consumed(q) + Len(p) = 2 * (Len(answer) - Len(u.lines)) + u.sent
            <7>1. Len(p) = Len(o) + 1
              BY <1>5
            <7> QED
              BY <3>0, <3>2, <3>5, <5>1, <7>1
          <6>2. Len(u.lines) <= Len(answer)
            BY <3>0, <3>3, <5>1
          <6>3. u.sent = 1 => u.lines # << >>
            BY <5>1
          <6> QED
            BY <3>4, <4>1, <5>2, <6>1, <6>2, <6>3 DEF Stream
    <3> QED
      BY <1>1, <3>1, <3>2
  <2> QED
    BY <1>4, <2>1, <2>3
<1>8. RequestOK(q, u, p, k)
  <2>1. Len(p) <= Room
    BY <1>5, RequestsAssumption
  <2>2. u.pc \in {"recv", "send"} /\ (u.pc = "send" => u.lines # << >>) /\ ~u.in
    BY <1>1, <1>3, <1>4
  <2> QED
    BY <1>1, <1>6, <1>7, <2>1, <2>2 DEF RequestOK
<1> QED
  BY <1>4, <1>5, <1>8 DEF x, p, u, more

\* What the client makes of a line whose newline has come.
LEMMA TakenFacts ==
  ASSUME NEW q \in Req, q.st = "open", NEW l \in Lines \cup {NoLine}
  PROVE  /\ Taken(q, l) \in Req /\ Taken(q, l).kind = q.kind
         /\ q.kind = "SCAN" /\ l.k = "entry" =>
              /\ Taken(q, l).st = "open" /\ Taken(q, l).part = 0
              /\ Taken(q, l).got = Append(q.got, l.i)
         /\ ~(q.kind = "SCAN" /\ l.k = "entry") =>
              /\ Taken(q, l).st \in {"ok", "failed"}
              /\ (Taken(q, l).st = "ok" => l.k \in Wanted(q.kind))
              /\ Taken(q, l).part = q.part /\ Taken(q, l).got = q.got
              /\ Taken(q, l).line = q.line
<1>1. CASE q.kind = "SCAN" /\ l.k = "entry"
  <2> DEFINE g == Append(q.got, l.i)
  <2>0. l \in Lines /\ l.i \in 1 .. MaxEntries
    BY <1>1, LineFacts DEF NoLine, Line
  <2>1. g \in Seq(1 .. MaxEntries)
    BY <2>0 DEF Req
  <2>2. Taken(q, l) = [q EXCEPT !.got = g, !.part = 0, !.line = NoLine]
    BY <1>1 DEF Taken
  <2>3. 0 \in 0 .. 1 /\ NoLine \in Lines \cup {NoLine}
    OBVIOUS
  <2> HIDE DEF g
  <2>4. /\ Taken(q, l) \in Req /\ Taken(q, l).kind = q.kind /\ Taken(q, l).st = q.st
        /\ Taken(q, l).part = 0 /\ Taken(q, l).got = g
    BY <2>1, <2>2, <2>3 DEF Req
  <2> QED
    BY <1>1, <2>4 DEF g
<1>2. CASE ~(q.kind = "SCAN" /\ l.k = "entry")
  <2> DEFINE st == IF l.k \in Wanted(q.kind) THEN "ok" ELSE "failed"
  <2>1. Taken(q, l) = [q EXCEPT !.st = st] /\ st \in {"ok", "failed"}
    BY <1>2 DEF Taken
  <2>2. st = "ok" => l.k \in Wanted(q.kind)
    OBVIOUS
  <2> HIDE DEF st
  <2>3. /\ Taken(q, l) \in Req /\ Taken(q, l).kind = q.kind /\ Taken(q, l).st = st
        /\ Taken(q, l).part = q.part /\ Taken(q, l).got = q.got /\ Taken(q, l).line = q.line
    BY <2>1 DEF Req
  <2> QED
    BY <1>2, <2>1, <2>2, <2>3
<1> QED
  BY <1>1, <1>2

\* The line after the entries that have come ends the client: it is the end of the
\* table, and then all entries have come, or an error.
LEMMA LastLine ==
  ASSUME NEW q \in Req, NEW t \in Thr, NEW o \in Seq(Piece), NEW answer \in Answers(t.count),
         Stream(q, t, o, answer)
  PROVE  /\ answer \in Seq(Lines) /\ Len(q.got) + 1 \in 1 .. Len(answer)
         /\ answer[Len(q.got) + 1] \in Lines
         /\ answer[Len(q.got) + 1].k = "entry" => answer[Len(q.got) + 1] = Entry(Len(q.got) + 1)
         /\ answer[Len(q.got) + 1].k = "entry" => Len(q.got) + 1 < Len(answer)
         /\ answer[Len(q.got) + 1].k = "end" => q.got = [i \in 1 .. t.count |-> i]
<1>1. /\ t.count \in Nat /\ t.count \in 0 .. MaxEntries /\ Len(q.got) \in Nat
      /\ q.got \in Seq(1 .. MaxEntries)
  BY RequestsAssumption DEF Thr, Req
<1>2. answer \in Seq(Lines) /\ Len(answer) \in Nat
  <2>1. ScanLines(t.count) \in Seq(Lines)
    BY <1>1, ScanLinesFacts, Zenon
  <2>2. <<Line("error")>> \in Seq(Lines)
    BY LineFacts, OneLine
  <2>3. answer \in Seq(Lines)
    BY <2>1, <2>2, Zenon DEF Answers
  <2> QED
    BY <2>3
<1>3. Len(q.got) < Len(answer) /\ \A i \in 1 .. Len(q.got) : q.got[i] = i /\ answer[i] = Entry(i)
  BY DEF Stream
<1>4. Len(q.got) + 1 \in 1 .. Len(answer) /\ answer[Len(q.got) + 1] \in Lines
  BY <1>1, <1>2, <1>3
<1>5. CASE answer = <<Line("error")>>
  <2>1. Len(answer) = 1 /\ answer[1] = Line("error")
    BY <1>5, LineFacts, OneLine
  <2>2. Len(q.got) = 0
    BY <1>1, <1>3, <2>1
  <2>3. answer[Len(q.got) + 1].k = "error"
    BY <2>1, <2>2 DEF Line
  <2> QED
    BY <1>2, <1>4, <2>3
<1>6. CASE answer = ScanLines(t.count)
  <2>1. /\ Len(answer) = t.count + 1 /\ answer[t.count + 1] = Line("end")
        /\ \A i \in 1 .. t.count : answer[i] = Entry(i)
    BY <1>1, <1>6, ScanLinesFacts
  <2>2. CASE Len(q.got) = t.count
    <3>1. answer[Len(q.got) + 1].k = "end"
      BY <2>1, <2>2 DEF Line
    <3>2. q.got = [i \in 1 .. t.count |-> i]
      <4> DEFINE s == [i \in 1 .. t.count |-> i]
      <4>1. s \in Seq(Nat) /\ Len(s) = t.count /\ \A i \in 1 .. t.count : s[i] = i
        <5>1. s \in [1 .. t.count -> Nat]
          BY <1>1
        <5> QED
          BY <1>1, <5>1
      <4>2. q.got \in Seq(Nat)
        BY <1>1, SeqMonotonic, RequestsAssumption
      <4> HIDE DEF s
      <4>3. q.got = s
        <5>1. Len(q.got) = Len(s) /\ \A i \in 1 .. Len(q.got) : q.got[i] = s[i]
          BY <1>3, <2>2, <4>1
        <5> QED
          BY <4>1, <4>2, <5>1, SeqEqual, Zenon
      <4> QED
        BY <4>3 DEF s
    <3> QED
      BY <1>2, <1>4, <3>1, <3>2
  <2>3. CASE Len(q.got) < t.count
    <3>1. answer[Len(q.got) + 1] = Entry(Len(q.got) + 1) /\ Len(q.got) + 1 < Len(answer)
      BY <1>1, <2>1, <2>3
    <3>2. answer[Len(q.got) + 1].k = "entry"
      BY <3>1 DEF Entry
    <3> QED
      BY <1>2, <1>4, <3>1, <3>2
  <2> QED
    BY <1>1, <1>3, <2>1, <2>2, <2>3
<1> QED
  BY <1>5, <1>6 DEF Answers

\* The client reads a piece: a body, or the newline that ends a line.
LEMMA ReadOK ==
  ASSUME NEW q \in Req, NEW t \in Thr, NEW k \in Cell, NEW o \in Seq(Piece), RequestOK(q, t, o, k),
         q.st = "open", o # << >>
  PROVE  LET x == Head(o)
             v == IF x.p = 2 THEN Taken(q, x.l) ELSE [q EXCEPT !.part = 1, !.line = x.l]
             p == IF v.st = "open" THEN Tail(o) ELSE << >>
         IN  v \in Req /\ p \in Seq(Piece) /\ RequestOK(v, t, p, k)
<1> DEFINE x == Head(o)
           v == IF x.p = 2 THEN Taken(q, x.l) ELSE [q EXCEPT !.part = 1, !.line = x.l]
           p == IF v.st = "open" THEN Tail(o) ELSE << >>
<1>1. /\ Len(o) \in Nat \ {0} /\ x = o[1] /\ x \in Piece /\ Tail(o) \in Seq(Piece)
      /\ Len(Tail(o)) = Len(o) - 1 /\ \A i \in 1 .. Len(o) - 1 : Tail(o)[i] = o[i + 1]
  BY TailFacts, Zenon
<1>2. x.l \in Lines /\ x.p \in 1 .. 2
  BY <1>1 DEF Piece
<1>3. ~t.in /\ t.pc \notin {"none", "backlog"}
  BY DEF RequestOK, Silent
<1> HIDE DEF x
<1>4. /\ v \in Req /\ v.kind = q.kind /\ v.st # "new"
      /\ x.p = 1 => v.part = 1 /\ v.line = x.l /\ v.got = q.got /\ v.st = "open"
      /\ x.p = 2 => v = Taken(q, x.l)
  <2>1. CASE x.p = 2
    BY <1>2, <2>1, TakenFacts
  <2>2. CASE x.p = 1
    <3>1. v = [q EXCEPT !.part = 1, !.line = x.l] /\ 1 \in 0 .. 1 /\ x.l \in Lines \cup {NoLine}
      BY <1>2, <2>2
    <3> HIDE DEF v
    <3>2. /\ v \in Req /\ v.kind = q.kind /\ v.st = q.st /\ v.part = 1 /\ v.line = x.l
          /\ v.got = q.got
      BY <3>1 DEF Req
    <3> QED
      BY <2>2, <3>2
  <2> QED
    BY <1>2, <2>1, <2>2
<1> HIDE DEF v
<1>5. p \in Seq(Piece) /\ Len(p) <= Room
      /\ \/ v.st = "open" /\ p = Tail(o) /\ Len(p) = Len(o) - 1
         \/ v.st # "open" /\ p = << >> /\ Len(p) = 0
  <2>1. << >> \in Seq(Piece) /\ Len(<< >>) = 0
    OBVIOUS
  <2>2. Len(o) <= Room
    BY DEF RequestOK
  <2> QED
    BY <1>1, <2>1, <2>2, RequestsAssumption
<1> HIDE DEF p
<1>6. ASSUME q.kind \in Acts PROVE HonestOK(v, t, p, k)
  <2>1. HonestOK(q, t, o, k) /\ q.kind # "SCAN"
    BY <1>6 DEF RequestOK, Acts
  <2>2. \A i \in 1 .. Len(p) : Honest(p[i].l, k)
    <3>1. CASE p = Tail(o) /\ Len(p) = Len(o) - 1
      <4>1. \A i \in 1 .. Len(p) : p[i] = o[i + 1] /\ i + 1 \in 1 .. Len(o)
        BY <1>1, <3>1
      <4> QED
        BY <2>1, <4>1 DEF HonestOK
    <3> QED
      BY <1>5, <3>1
  <2>3. Honest(x.l, k)
    BY <1>1, <2>1 DEF HonestOK
  <2>4. (v.part = 1 => Honest(v.line, k)) /\ (v.st = "ok" => k.rc = "ok")
    <3>1. CASE x.p = 1
      BY <1>4, <2>3, <3>1
    <3>2. CASE x.p = 2
      <4>1. /\ v.st \in {"ok", "failed"} /\ v.part = q.part /\ v.line = q.line
            /\ v.st = "ok" => x.l.k \in Wanted(q.kind)
        BY <1>2, <1>4, <2>1, <3>2, TakenFacts
      <4>2. "error" \notin Wanted(q.kind)
        BY DEF Wanted
      <4> QED
        BY <2>1, <2>3, <4>1, <4>2 DEF HonestOK, Honest
    <3> QED
      BY <1>2, <3>1, <3>2
  <2> QED
    BY <2>1, <2>2, <2>4 DEF HonestOK
<1>7. ASSUME q.kind = "SCAN"
      PROVE  /\ v.st = "open" => \E answer \in Answers(t.count) : Stream(v, t, p, answer)
             /\ v.st = "ok" => v.got = [i \in 1 .. t.count |-> i]
  <2>1. PICK answer \in Answers(t.count) : Stream(q, t, o, answer)
    BY <1>3, <1>7 DEF RequestOK
  <2> DEFINE g == Len(q.got)
             a == answer[g + 1]
  <2>2. /\ answer \in Seq(Lines) /\ g + 1 \in 1 .. Len(answer) /\ a \in Lines
        /\ a.k = "entry" => a = Entry(g + 1) /\ g + 1 < Len(answer)
        /\ a.k = "end" => q.got = [i \in 1 .. t.count |-> i]
    BY <2>1, LastLine
  <2>3. /\ g \in Nat /\ q.got \in Seq(1 .. MaxEntries) /\ q.part \in 0 .. 1 /\ Consumed(q) = 2 * g + q.part
        /\ Len(answer) \in Nat
    BY <2>2 DEF Req, Consumed
  <2>4. /\ \A i \in 1 .. Len(o), m \in 1 .. Len(answer), b \in 1 .. 2 :
             Consumed(q) + i = 2 * (m - 1) + b => o[i] = [l |-> answer[m], p |-> b]
        /\ Consumed(q) + Len(o) = 2 * (Len(answer) - Len(t.lines)) + t.sent
    BY <2>1, Zenon DEF Stream
  <2>5. x = [l |-> a, p |-> q.part + 1] /\ x.l = a /\ x.p = q.part + 1
    <3>1. Consumed(q) + 1 = 2 * ((g + 1) - 1) + (q.part + 1)
      BY <2>3
    <3>2. 1 \in 1 .. Len(o) /\ q.part + 1 \in 1 .. 2
      BY <1>1, <2>3
    <3>3. o[1] = [l |-> a, p |-> q.part + 1]
      BY <2>2, <2>4, <3>1, <3>2, Zenon
    <3> QED
      BY <1>1, <3>3
  <2>6. /\ v.st = "open" => Consumed(v) = Consumed(q) + 1 /\ Len(v.got) < Len(answer)
        /\ v.st = "open" => \A i \in 1 .. Len(v.got) : v.got[i] = i /\ answer[i] = Entry(i)
        /\ v.st = "open" /\ v.part = 1 => v.line = answer[Len(v.got) + 1]
        /\ v.st = "ok" => v.got = [i \in 1 .. t.count |-> i]
    <3>0. \A i \in 1 .. g : q.got[i] = i /\ answer[i] = Entry(i)
      BY <2>1, Zenon DEF Stream
    <3>1. CASE q.part = 0
      <4>1. v.part = 1 /\ v.line = a /\ v.got = q.got /\ v.st = "open"
        BY <1>4, <2>5, <3>1
      <4>2. Consumed(v) = Consumed(q) + 1
        BY <2>3, <3>1, <4>1 DEF Consumed
      <4> QED
        BY <2>2, <2>3, <3>0, <4>1, <4>2
    <3>2. CASE q.part = 1 /\ a.k = "entry"
      <4>1. v = Taken(q, a)
        BY <1>4, <2>5, <3>2
      <4>2. v.st = "open" /\ v.part = 0 /\ v.got = Append(q.got, a.i)
        BY <1>7, <2>2, <3>2, <4>1, TakenFacts
      <4>3. a = Entry(g + 1) /\ g + 1 < Len(answer) /\ a.i = g + 1
        BY <2>2, <3>2 DEF Entry
      <4>4. /\ Len(v.got) = g + 1 /\ v.got[g + 1] = g + 1
            /\ \A i \in 1 .. g : v.got[i] = q.got[i]
        BY <2>3, <4>2, <4>3
      <4>5. Consumed(v) = Consumed(q) + 1
        BY <2>3, <3>2, <4>2, <4>4 DEF Consumed
      <4>6. \A i \in 1 .. Len(v.got) : v.got[i] = i /\ answer[i] = Entry(i)
        BY <2>3, <3>0, <4>3, <4>4
      <4> QED
        BY <4>2, <4>3, <4>4, <4>5, <4>6
    <3>3. CASE q.part = 1 /\ a.k # "entry"
      <4>1. v = Taken(q, a)
        BY <1>4, <2>5, <3>3
      <4>2. v.st \in {"ok", "failed"} /\ (v.st = "ok" => a.k \in Wanted(q.kind)) /\ v.got = q.got
        BY <2>2, <3>3, <4>1, TakenFacts
      <4>3. Wanted(q.kind) = {"end"}
        BY <1>7 DEF Wanted
      <4> QED
        BY <2>2, <4>2, <4>3
    <3> QED
      BY <2>3, <3>1, <3>2, <3>3
  <2>7. ASSUME v.st = "open" PROVE Stream(v, t, p, answer)
    <3>1. p = Tail(o) /\ Len(p) = Len(o) - 1 /\ Consumed(v) = Consumed(q) + 1
      BY <1>5, <2>6, <2>7
    <3>2. Consumed(v) + Len(p) = 2 * (Len(answer) - Len(t.lines)) + t.sent
      <4>1. Consumed(v) + Len(p) = Consumed(q) + Len(o)
        BY <1>1, <2>3, <3>1
      <4> QED
        BY <2>4, <4>1
    <3>3. ASSUME NEW i \in 1 .. Len(p), NEW m \in 1 .. Len(answer), NEW b \in 1 .. 2,
                 Consumed(v) + i = 2 * (m - 1) + b
          PROVE  p[i] = [l |-> answer[m], p |-> b]
      <4>1. i + 1 \in 1 .. Len(o) /\ p[i] = o[i + 1]
        BY <1>1, <3>1
      <4>2. Consumed(q) + (i + 1) = 2 * (m - 1) + b
        <5>1. i \in Nat /\ m \in Nat /\ b \in Nat /\ Consumed(q) \in Nat
          BY <2>3
        <5> QED
          BY <3>1, <3>3, <5>1
      <4>3. o[i + 1] = [l |-> answer[m], p |-> b]
        BY <2>4, <4>1, <4>2, Zenon
      <4> QED
        BY <4>1, <4>3
    <3>4. /\ Len(t.lines) <= Len(answer)
          /\ \A i \in 1 .. Len(t.lines) : t.lines[i] = answer[Len(answer) - Len(t.lines) + i]
          /\ t.sent = 1 => t.lines # << >>
      BY <2>1, Zenon DEF Stream
    <3> QED
      BY <2>6, <2>7, <3>2, <3>3, <3>4 DEF Stream
  <2> QED
    BY <2>1, <2>6, <2>7
<1>8. RequestOK(v, t, p, k)
  BY <1>3, <1>4, <1>5, <1>6, <1>7 DEF RequestOK
<1> QED
  BY <1>4, <1>5, <1>8 DEF x, v, p

\* The connection has ended, or the client waits no longer.
LEMMA BrokenOK ==
  ASSUME NEW q \in Req, NEW t \in Thr, NEW k \in Cell, NEW o \in Seq(Piece), RequestOK(q, t, o, k),
         q.st = "open"
  PROVE  Broken(q) \in Req /\ << >> \in Seq(Piece) /\ RequestOK(Broken(q), t, << >>, k)
<1> DEFINE v == Broken(q)
           last == Taken(q, q.line)
<1>0. /\ q.line \in Lines \cup {NoLine} /\ q.part \in 0 .. 1 /\ << >> \in Seq(Piece)
      /\ Len(<< >>) = 0 /\ Room >= 0
  BY RequestsAssumption DEF Req
<1>1. CASE q.part = 1 /\ last.st = "ok"
  <2>1. v = last
    BY <1>1 DEF Broken
  <2>2. /\ v \in Req /\ v.kind = q.kind /\ v.got = q.got /\ v.line = q.line /\ v.part = q.part
        /\ q.line.k \in Wanted(q.kind)
    BY <1>0, <1>1, <2>1, TakenFacts
  <2> HIDE DEF v
  <2>3. ~t.in /\ t.pc \notin {"none", "backlog"}
    BY <1>1 DEF RequestOK, Silent
  <2>4. ASSUME q.kind \in Acts PROVE HonestOK(v, t, << >>, k)
    <3>1. HonestOK(q, t, o, k) /\ Honest(q.line, k)
      BY <1>1, <2>4 DEF RequestOK, HonestOK
    <3>2. "error" \notin Wanted(q.kind)
      BY DEF Wanted
    <3>3. k.rc = "ok"
      BY <2>2, <3>1, <3>2 DEF Honest
    <3> QED
      BY <1>0, <2>2, <3>1, <3>3 DEF HonestOK
  <2>5. ASSUME q.kind = "SCAN" PROVE v.got = [i \in 1 .. t.count |-> i]
    <3>1. PICK answer \in Answers(t.count) : Stream(q, t, o, answer)
      BY <2>3, <2>5 DEF RequestOK
    <3>2. q.line = answer[Len(q.got) + 1]
      BY <1>1, <3>1 DEF Stream
    <3>3. q.line.k = "end"
      BY <2>2, <2>5 DEF Wanted
    <3>4. answer[Len(q.got) + 1].k = "end" => q.got = [i \in 1 .. t.count |-> i]
      BY <3>1, LastLine
    <3> QED
      BY <2>2, <3>2, <3>3, <3>4
  <2>6. v.st = "ok"
    BY <1>1, <2>1
  <2>7. RequestOK(v, t, << >>, k)
    BY <1>0, <2>2, <2>3, <2>4, <2>5, <2>6 DEF RequestOK
  <2> QED
    BY <1>0, <2>2, <2>7 DEF v
<1>2. CASE ~(q.part = 1 /\ last.st = "ok")
  <2>1. v = [q EXCEPT !.st = "failed"]
    BY <1>2 DEF Broken
  <2> HIDE DEF v
  <2>2. /\ v \in Req /\ v.kind = q.kind /\ v.got = q.got /\ v.line = q.line /\ v.part = q.part
        /\ v.st = "failed"
    BY <2>1 DEF Req
  <2>3. Silent(q, t, o, k) => Silent(v, t, << >>, k)
    BY <2>2 DEF Silent
  <2>4. HonestOK(q, t, o, k) => HonestOK(v, t, << >>, k)
    BY <1>0, <2>2 DEF HonestOK
  <2>5. RequestOK(v, t, << >>, k)
    BY <1>0, <2>2, <2>3, <2>4 DEF RequestOK
  <2> QED
    BY <1>0, <2>2, <2>5 DEF v
<1> QED
  BY <1>1, <1>2

\* A request is made.
LEMMA AskOK ==
  ASSUME NEW q \in Req, NEW t \in Thr, NEW k \in Cell, NEW o \in Seq(Piece), RequestOK(q, t, o, k),
         q.st = "new", NEW kind \in Kinds, NEW d \in Daemons
  PROVE  /\ LET v == [q EXCEPT !.st = "open", !.kind = kind]
                u == [t EXCEPT !.pc = "backlog", !.d = d, !.in = TRUE]
            IN  v \in Req /\ u \in Thr /\ RequestOK(v, u, o, k)
         /\ LET v == [q EXCEPT !.st = "failed", !.kind = kind]
            IN  v \in Req /\ RequestOK(v, t, o, k)
<1> DEFINE v == [q EXCEPT !.st = "open", !.kind = kind]
           u == [t EXCEPT !.pc = "backlog", !.d = d, !.in = TRUE]
           w == [q EXCEPT !.st = "failed", !.kind = kind]
<1>0. Silent(q, t, o, k) /\ Len(o) <= Room /\ t.pc = "none"
  BY DEF RequestOK
<1>1. /\ v \in Req /\ v.st = "open" /\ v.kind = kind /\ v.part = q.part /\ v.got = q.got
      /\ w \in Req /\ w.st = "failed" /\ w.kind = kind /\ w.part = q.part /\ w.got = q.got
  BY DEF Req
<1>2. /\ u \in Thr /\ u.pc = "backlog" /\ u.in /\ u.lines = t.lines /\ u.sent = t.sent
      /\ u.count = t.count
  BY DEF Thr
<1> HIDE DEF v, u, w
<1>3. Silent(v, u, o, k) /\ Silent(w, t, o, k)
  BY <1>0, <1>1, <1>2 DEF Silent
<1>4. HonestOK(v, u, o, k) /\ HonestOK(w, t, o, k)
  BY <1>1, <1>3 DEF Silent, HonestOK
<1>5. RequestOK(v, u, o, k)
  BY <1>0, <1>1, <1>2, <1>3, <1>4 DEF RequestOK
<1>6. RequestOK(w, t, o, k)
  <2>1. t.in => Silent(w, t, o, k)
    BY <1>3
  <2> QED
    BY <1>0, <1>1, <1>3, <1>4 DEF RequestOK
<1> QED
  BY <1>1, <1>2, <1>5, <1>6 DEF v, u, w

\* A step of one request leaves the others as they are.
LEMMA RequestTurn ==
  ASSUME RequestTypeOK, RequestInv, NEW r \in Requests,
         NEW q \in Req, NEW t \in Thr, NEW o \in Seq(Piece),
         req' = [req EXCEPT ![r] = q], thr' = [thr EXCEPT ![r] = t], out' = [out EXCEPT ![r] = o],
         \A s \in Requests : s # r => call'[s] = call[s],
         RequestOK(q, t, o, call'[r])
  PROVE  RequestTypeOK' /\ RequestInv'
<1>1. RequestTypeOK'
  BY DEF RequestTypeOK
<1>2. ASSUME NEW s \in Requests
      PROVE  RequestOK(req'[s], thr'[s], out'[s], call'[s])
  <2>1. CASE s = r
    BY <2>1 DEF RequestTypeOK
  <2>2. CASE s # r
    BY <2>2 DEF RequestTypeOK, RequestInv
  <2> QED
    BY <2>1, <2>2
<1> QED
  BY <1>1, <1>2 DEF RequestInv

----------------------------------------------------------------------------
(* The whole. *)

\* The inductive invariant.
Inv ==
  /\ DaemonTypeOK /\ ReclaimTypeOK /\ RequestTypeOK /\ left \in Budget
  /\ DaemonInv /\ ReclaimInv /\ RequestInv

\* A step that leaves the variables of the daemons alone keeps their invariant.
LEMMA DaemonSame ==
  ASSUME DaemonTypeOK, DaemonInv, UNCHANGED daemonVars
  PROVE  DaemonTypeOK' /\ DaemonInv'
<1>1. UNCHANGED <<hsedd, path, pidfile, pathlen, alone>>
  BY DEF daemonVars
<1>2. DaemonTypeOK' /\ (PathWhole <=> PathWhole')
  BY <1>1 DEF DaemonTypeOK, PathWhole
<1>3. \A d \in Daemons : (Footprint(d) => Footprint(d)') /\ (Owns(d) => Owns(d)')
  BY <1>1, <1>2 DEF Footprint, Owns, At, Alive
<1> QED
  BY <1>1, <1>2, <1>3 DEF DaemonInv

\* The calls do not move.
LEMMA ReclaimSame ==
  ASSUME ReclaimTypeOK, ReclaimInv, UNCHANGED <<world, call>>
  PROVE  ReclaimTypeOK' /\ ReclaimInv'
BY DEF ReclaimTypeOK, ReclaimInv, CallInv, Kept, Fresh

\* No request moves.
LEMMA RequestSame ==
  ASSUME RequestTypeOK, RequestInv, UNCHANGED <<call, req, thr, out>>
  PROVE  RequestTypeOK' /\ RequestInv'
BY DEF RequestTypeOK, RequestInv

\* Only the thread of r moves, to a state that suits the rest of the request.
Shift(r) == \E u \in Thr : thr' = [thr EXCEPT ![r] = u] /\ RequestOK(req[r], u, out[r], call'[r])

\* What r is before a step of the thread.
LEMMA Before ==
  ASSUME RequestTypeOK, RequestInv, ReclaimTypeOK, NEW r \in Requests
  PROVE  /\ req[r] \in Req /\ thr[r] \in Thr /\ out[r] \in Seq(Piece) /\ call[r] \in Cell
         /\ RequestOK(req[r], thr[r], out[r], call[r])
BY DEF RequestTypeOK, RequestInv, ReclaimTypeOK, Cell, Requests

\* Such a step preserves the invariant of all requests.
LEMMA ShiftStep ==
  ASSUME RequestTypeOK, RequestInv, NEW r \in Requests, Shift(r), UNCHANGED <<req, out>>,
         \A s \in Requests : s # r => call'[s] = call[s]
  PROVE  RequestTypeOK' /\ RequestInv'
<1>1. PICK u \in Thr : thr' = [thr EXCEPT ![r] = u] /\ RequestOK(req[r], u, out[r], call'[r])
  BY DEF Shift
<1>2. /\ req[r] \in Req /\ out[r] \in Seq(Piece)
      /\ req' = [req EXCEPT ![r] = req[r]] /\ out' = [out EXCEPT ![r] = out[r]]
  BY DEF RequestTypeOK
<1> QED
  BY <1>1, <1>2, RequestTurn

\* A thread that says one line, and nothing else happens.
LEMMA SayShift ==
  ASSUME RequestTypeOK, RequestInv, ReclaimTypeOK, NEW r \in Requests, UNCHANGED call,
         thr[r].in, thr[r].pc = "recv", NEW l \in Lines, Say(r, <<l>>), req[r].kind \notin Acts,
         req[r].kind = "SCAN" => l = Line("error")
  PROVE  Shift(r)
<1> DEFINE u == [thr[r] EXCEPT !.pc = "send", !.lines = <<l>>, !.in = FALSE]
<1>1. u \in Thr /\ RequestOK(req[r], u, out[r], call[r])
  BY Before, SayOK
<1>2. thr' = [thr EXCEPT ![r] = u]
  BY DEF Say, RequestTypeOK, Thr
<1> QED
  BY <1>1, <1>2 DEF Shift

\* A thread that changes its label.
LEMMA LabelShift ==
  ASSUME RequestTypeOK, RequestInv, ReclaimTypeOK, NEW r \in Requests, UNCHANGED call,
         thr[r].pc \in {"backlog", "recv"}, NEW label \in {"recv", "gone"}, ThreadAt(r, label)
  PROVE  Shift(r)
<1> DEFINE u == [thr[r] EXCEPT !.pc = label]
<1>1. u \in Thr /\ RequestOK(req[r], u, out[r], call[r])
  BY Before, LabelOK
<1>2. thr' = [thr EXCEPT ![r] = u]
  BY DEF ThreadAt, RequestTypeOK, Thr
<1> QED
  BY <1>1, <1>2 DEF Shift

\* Recv, and what it does to the call.
LEMMA RecvStep ==
  ASSUME Inv, NEW r \in Requests, Recv(r), UNCHANGED req
  PROVE  ReclaimTypeOK' /\ ReclaimInv' /\ RequestTypeOK' /\ RequestInv'
<1>1. /\ req[r] \in Req /\ thr[r] \in Thr /\ out[r] \in Seq(Piece) /\ call[r] \in Cell
      /\ RequestOK(req[r], thr[r], out[r], call[r])
      /\ RequestTypeOK /\ RequestInv /\ ReclaimTypeOK /\ ReclaimInv
  BY Before DEF Inv
<1>2. thr[r].in /\ thr[r].pc = "recv" /\ UNCHANGED <<world, out>>
  BY DEF Recv, On
<1>3. Line("pong") \in Lines /\ Line("stats") \in Lines /\ Line("error") \in Lines
  BY LineFacts
<1>4. CASE req[r].kind = "PING" /\ Say(r, <<Line("pong")>>) /\ UNCHANGED call
  <2>1. Shift(r)
    BY <1>1, <1>2, <1>3, <1>4, SayShift DEF Acts
  <2> QED
    BY <1>1, <1>2, <1>4, <2>1, ShiftStep, ReclaimSame
<1>5. CASE req[r].kind = "STATS" /\ Say(r, <<Line("stats")>>) /\ UNCHANGED call
  <2>1. Shift(r)
    BY <1>1, <1>2, <1>3, <1>5, SayShift DEF Acts
  <2> QED
    BY <1>1, <1>2, <1>5, <2>1, ShiftStep, ReclaimSame
<1>6. CASE /\ req[r].kind = "SCAN" /\ UNCHANGED call
           /\ \E n \in 0 .. MaxEntries : SayScan(r, n)
  <2>1. PICK n \in 0 .. MaxEntries : SayScan(r, n)
    BY <1>6
  <2> DEFINE u == [thr[r] EXCEPT !.pc = "send", !.in = FALSE, !.count = n, !.lines = ScanLines(n)]
  <2>2. u \in Thr /\ RequestOK(req[r], u, out[r], call[r])
    BY <1>1, <1>2, <1>6, SayScanOK
  <2>3. thr' = [thr EXCEPT ![r] = u]
    <3>1. thr' = [thr EXCEPT ![r].pc = "send", ![r].in = FALSE, ![r].count = n,
                             ![r].lines = ScanLines(n)]
      BY <2>1 DEF SayScan, ScanLines, Entry
    <3> QED
      BY <1>1, <3>1 DEF RequestTypeOK, Thr
  <2>4. Shift(r)
    BY <1>6, <2>2, <2>3 DEF Shift
  <2> QED
    BY <1>1, <1>2, <1>6, <2>4, ShiftStep, ReclaimSame
<1>7. CASE req[r].kind \in {"STATS", "SCAN", "bad"} /\ Say(r, <<Line("error")>>) /\ UNCHANGED call
  <2>1. Shift(r)
    BY <1>1, <1>2, <1>3, <1>7, SayShift DEF Acts
  <2> QED
    BY <1>1, <1>2, <1>7, <2>1, ShiftStep, ReclaimSame
<1>8. CASE /\ req[r].kind \in Acts
           /\ thr' = [thr EXCEPT ![r].pc = "call", ![r].in = FALSE]
           /\ Call(r, IF req[r].kind = "TRUNCATE" THEN "stat" ELSE req[r].kind)
  <2> DEFINE label == IF req[r].kind = "TRUNCATE" THEN "stat" ELSE req[r].kind
             j == [call[r] EXCEPT !.pc = label]
             u == [thr[r] EXCEPT !.pc = "call", !.in = FALSE]
  <2>1. call[r] = Idle
    BY <1>1, <1>2 DEF RequestOK, Silent
  <2>2. label \in {"stat", "HUP", "KILL"}
    BY <1>8 DEF Acts
  <2>3. call' = [call EXCEPT ![r].pc = label] /\ r \in Callers
    BY <1>8 DEF Call, Requests
  <2> HIDE DEF label
  <2>4. call' = [call EXCEPT ![r] = j]
    BY <1>1, <2>3 DEF ReclaimTypeOK, Cell
  <2>5. j \in Cell /\ j.pc = label /\ j.rc = call[r].rc /\ j.raw_fd = call[r].raw_fd
    BY <1>1, <2>2 DEF Cell
  <2>6. j = [Idle EXCEPT !.pc = j.pc]
    BY <2>1, <2>5
  <2>7. j.rc = "none"
    BY <2>1, <2>5 DEF Idle
  <2> HIDE DEF j
  <2>8. Turned(r, j) => CallInv(r)'
    BY <2>2, <2>3, <2>5, <2>6, <2>7 DEF Turned, CallInv, Fresh
  <2>9. /\ world' \in World /\ world'.life # 0
        /\ world'.size = world.size /\ world'.cut = world.cut
    BY <1>1, <1>2 DEF ReclaimTypeOK, ReclaimInv, World
  <2>10. ReclaimTypeOK' /\ ReclaimInv' /\ Turned(r, j)
    BY <1>1, <1>2, <2>3, <2>4, <2>5, <2>8, <2>9, SameIsSpared, CallTurn
  <2>11. u \in Thr /\ RequestOK(req[r], u, out[r], j)
    BY <1>1, <1>2, <1>8, <2>5, CallOK
  <2>12. thr' = [thr EXCEPT ![r] = u]
    BY <1>1, <1>8 DEF RequestTypeOK, Thr
  <2>13. Shift(r)
    BY <2>10, <2>11, <2>12 DEF Shift, Turned
  <2> QED
    BY <1>1, <1>2, <2>10, <2>13, ShiftStep DEF Turned, Requests
<1>9. CASE req[r].kind = "QUIT" /\ ThreadAt(r, "gone") /\ UNCHANGED call
  <2>1. Shift(r)
    BY <1>1, <1>2, <1>9, LabelShift
  <2> QED
    BY <1>1, <1>2, <1>9, <2>1, ShiftStep, ReclaimSame
<1>10. CASE req[r].kind = "blank" /\ thr' = [thr EXCEPT ![r].in = FALSE] /\ UNCHANGED call
  <2> DEFINE u == [thr[r] EXCEPT !.in = FALSE]
  <2>1. u \in Thr /\ RequestOK(req[r], u, out[r], call[r])
    BY <1>1, <1>2, <1>10, BlankOK
  <2>2. thr' = [thr EXCEPT ![r] = u]
    BY <1>1, <1>10 DEF RequestTypeOK, Thr
  <2>3. Shift(r)
    BY <1>10, <2>1, <2>2 DEF Shift
  <2> QED
    BY <1>1, <1>2, <1>10, <2>3, ShiftStep, ReclaimSame
<1> QED
  BY <1>4, <1>5, <1>6, <1>7, <1>8, <1>9, <1>10 DEF Recv

\* Every step of a connection thread.
LEMMA ThreadStepInv ==
  ASSUME Inv, NEW r \in Requests, ThreadStep(r)
  PROVE  Inv'
<1>1. /\ req[r] \in Req /\ thr[r] \in Thr /\ out[r] \in Seq(Piece) /\ call[r] \in Cell
      /\ RequestOK(req[r], thr[r], out[r], call[r]) /\ r \in Callers
      /\ RequestTypeOK /\ RequestInv /\ ReclaimTypeOK /\ ReclaimInv
  BY Before DEF Inv, Requests
<1>2. UNCHANGED <<daemonVars, req, left>>
  BY DEF ThreadStep
<1>3. DaemonTypeOK' /\ DaemonInv' /\ left' \in Budget
  BY <1>2, DaemonSame DEF Inv
<1> SUFFICES ReclaimTypeOK' /\ ReclaimInv' /\ RequestTypeOK' /\ RequestInv'
  BY <1>3 DEF Inv
<1>4. CASE Accept(r)
  <2>1. thr[r].pc = "backlog" /\ UNCHANGED <<call, world, out>>
    BY <1>4 DEF Accept, On
  <2>2. ThreadAt(r, "recv") \/ ThreadAt(r, "gone")
    BY <1>4 DEF Accept
  <2>3. Shift(r)
    BY <1>1, <2>1, <2>2, LabelShift
  <2> QED
    BY <1>1, <1>2, <2>1, <2>3, ShiftStep, ReclaimSame
<1>5. CASE Recv(r)
  BY <1>2, <1>5, RecvStep
<1>6. CASE RecvClosed(r)
  <2>1. thr[r].pc = "recv" /\ UNCHANGED <<call, world, out>> /\ ThreadAt(r, "gone")
    BY <1>6 DEF RecvClosed, On
  <2>3. Shift(r)
    BY <1>1, <2>1, LabelShift
  <2> QED
    BY <1>1, <1>2, <2>1, <2>3, ShiftStep, ReclaimSame
<1>7. CASE Calling(r)
  <2>1. thr[r].pc = "call" /\ CallStep(r) /\ UNCHANGED <<thr, out>>
    BY <1>7 DEF Calling, On
  <2>2. /\ ReclaimTypeOK' /\ ReclaimInv' /\ \A e \in Callers : e # r => call'[e] = call[e]
        /\ call[r].pc \notin {"idle", "done"}
    BY <1>1, <2>1, CallStepInv
  <2>3. call'[r] \in Cell /\ call[r].rc = "none" /\ call[r] # Idle
    <3>1. call' \in [Callers -> Cell] /\ CallInv(r)
      BY <1>1, <2>2 DEF ReclaimTypeOK, ReclaimInv, Cell
    <3>2. call[r] # Idle
      BY <2>2 DEF Idle
    <3> QED
      BY <1>1, <2>2, <3>1, <3>2 DEF CallInv
  <2>4. RequestOK(req[r], thr[r], out[r], call'[r])
    BY <1>1, <2>1, <2>3, CallingOK
  <2>5. thr' = [thr EXCEPT ![r] = thr[r]]
    BY <1>1, <2>1 DEF RequestTypeOK
  <2>6. Shift(r)
    BY <1>1, <2>4, <2>5 DEF Shift
  <2> QED
    BY <1>1, <1>2, <2>1, <2>2, <2>6, ShiftStep DEF Requests
<1>8. CASE Answer(r)
  <2> DEFINE l == Line(IF call[r].rc = "ok" THEN "result" ELSE "error")
             u == [thr[r] EXCEPT !.pc = "send", !.lines = <<l>>, !.in = FALSE]
  <2>1. /\ thr[r].pc = "call" /\ call[r].pc = "done" /\ UNCHANGED <<call, world, out>>
        /\ Say(r, <<l>>)
    BY <1>8 DEF Answer, On, Doing
  <2>2. u \in Thr /\ RequestOK(req[r], u, out[r], call[r])
    BY <1>1, <2>1, AnswerOK
  <2>3. thr' = [thr EXCEPT ![r] = u]
    BY <1>1, <2>1 DEF Say, RequestTypeOK, Thr
  <2>4. Shift(r)
    BY <2>1, <2>2, <2>3 DEF Shift
  <2> QED
    BY <1>1, <1>2, <2>1, <2>4, ShiftStep, ReclaimSame
<1>9. CASE Send(r)
  <2>1. thr[r].pc = "send" /\ UNCHANGED <<call, world>>
    BY <1>9 DEF Send, On
  <2>2. CASE req[r].st = "open" /\ Len(out[r]) < Room
             /\ out' = [out EXCEPT ![r] = Append(@, [l |-> Head(thr[r].lines), p |-> thr[r].sent + 1])]
             /\ thr' = [thr EXCEPT ![r] = Sent(@)]
    <3> DEFINE u == Sent(thr[r])
               p == Append(out[r], [l |-> Head(thr[r].lines), p |-> thr[r].sent + 1])
    <3>1. u \in Thr /\ p \in Seq(Piece) /\ RequestOK(req[r], u, p, call[r])
      BY <1>1, <2>1, <2>2, SendOK
    <3>2. thr' = [thr EXCEPT ![r] = u] /\ out' = [out EXCEPT ![r] = p]
      BY <2>2, Zenon
    <3>3. req' = [req EXCEPT ![r] = req[r]]
      BY <1>1, <1>2 DEF RequestTypeOK
    <3> HIDE DEF u, p
    <3> QED
      BY <1>1, <2>1, <3>1, <3>2, <3>3, RequestTurn, ReclaimSame
  <2>3. CASE /\ req[r].st # "open" /\ UNCHANGED out
             /\ thr' = [thr EXCEPT ![r].sent = 0, ![r].lines = << >>, ![r].pc = "recv"]
    <3> DEFINE u == [thr[r] EXCEPT !.sent = 0, !.lines = << >>, !.pc = "recv"]
    <3>1. u \in Thr /\ RequestOK(req[r], u, out[r], call[r])
      BY <1>1, <2>1, <2>3, SendFailsOK
    <3>2. thr' = [thr EXCEPT ![r] = u]
      <4>1. thr \in [Requests -> Thr]
        BY <1>1 DEF RequestTypeOK
      <4> QED
        BY <2>3, <4>1 DEF Thr
    <3>3. Shift(r)
      BY <2>1, <3>1, <3>2 DEF Shift
    <3> QED
      BY <1>1, <1>2, <2>1, <2>3, <3>3, ShiftStep, ReclaimSame
  <2> QED
    BY <1>9, <2>2, <2>3 DEF Send
<1> QED
  BY <1>4, <1>5, <1>6, <1>7, <1>8, <1>9 DEF ThreadStep

\* Every step of a client.
LEMMA ClientStepInv ==
  ASSUME Inv, NEW r \in Requests,
         Read(r) \/ Eof(r) \/ Deadline(r) \/ \E kind \in Kinds : Ask(r, kind)
  PROVE  Inv'
<1>1. /\ req[r] \in Req /\ thr[r] \in Thr /\ out[r] \in Seq(Piece) /\ call[r] \in Cell
      /\ RequestOK(req[r], thr[r], out[r], call[r])
      /\ RequestTypeOK /\ RequestInv /\ ReclaimTypeOK /\ ReclaimInv
  BY Before DEF Inv
<1>2. /\ thr = [thr EXCEPT ![r] = thr[r]] /\ out = [out EXCEPT ![r] = out[r]]
  BY <1>1 DEF RequestTypeOK
<1>3. ASSUME UNCHANGED <<daemonVars, world, call>>, left' \in Budget,
             RequestTypeOK' /\ RequestInv'
      PROVE  Inv'
  BY <1>1, <1>3, DaemonSame, ReclaimSame DEF Inv
<1>4. CASE Read(r)
  <2> DEFINE x == Head(out[r])
             v == IF x.p = 2 THEN Taken(req[r], x.l) ELSE [req[r] EXCEPT !.part = 1, !.line = x.l]
             p == IF v.st = "open" THEN Tail(out[r]) ELSE << >>
  <2>1. v \in Req /\ p \in Seq(Piece) /\ RequestOK(v, thr[r], p, call[r])
    BY <1>1, <1>4, ReadOK DEF Read
  <2>2. req' = [req EXCEPT ![r] = v] /\ UNCHANGED <<daemonVars, world, call, thr, left>>
    BY <1>4 DEF Read
  <2>3. req'[r] = v
    BY <1>1, <2>2 DEF RequestTypeOK
  <2>4. out' = [out EXCEPT ![r] = p]
    BY <1>4, <2>3 DEF Read
  <2> HIDE DEF v, p, x
  <2>5. RequestTypeOK' /\ RequestInv'
    BY <1>1, <1>2, <2>1, <2>2, <2>4, RequestTurn
  <2> QED
    BY <1>3, <2>2, <2>5 DEF Inv
<1>5. CASE Eof(r) \/ Deadline(r)
  <2>1. req[r].st = "open" /\ Hang(r)
    BY <1>5 DEF Eof, Deadline
  <2>2. /\ req' = [req EXCEPT ![r] = Broken(req[r])] /\ out' = [out EXCEPT ![r] = << >>]
        /\ UNCHANGED <<daemonVars, world, call, thr, left>>
    BY <2>1 DEF Hang
  <2>3. /\ Broken(req[r]) \in Req /\ << >> \in Seq(Piece)
        /\ RequestOK(Broken(req[r]), thr[r], << >>, call[r])
    BY <1>1, <2>1, BrokenOK
  <2>4. RequestTypeOK' /\ RequestInv'
    BY <1>1, <1>2, <2>2, <2>3, RequestTurn
  <2> QED
    BY <1>3, <2>2, <2>4 DEF Inv
<1>6. ASSUME NEW kind \in Kinds, Ask(r, kind) PROVE Inv'
  <2>1. /\ req[r].st = "new" /\ left' = [left EXCEPT !.asks = @ - 1] /\ left.asks > 0
        /\ UNCHANGED <<daemonVars, world, call, out>>
    BY <1>6 DEF Ask
  <2>2. left' \in Budget
    BY <2>1 DEF Inv, Budget
  <2>3. CASE /\ \E d \in Daemons : path = d /\ Listening(d)
             /\ req' = [req EXCEPT ![r].st = "open", ![r].kind = kind]
             /\ thr' = [thr EXCEPT ![r].pc = "backlog", ![r].d = path, ![r].in = TRUE]
    <3> DEFINE v == [req[r] EXCEPT !.st = "open", !.kind = kind]
               u == [thr[r] EXCEPT !.pc = "backlog", !.d = path, !.in = TRUE]
    <3>1. path \in Daemons
      BY <2>3
    <3>2. v \in Req /\ u \in Thr /\ RequestOK(v, u, out[r], call[r])
      BY <1>1, <1>6, <2>1, <3>1, AskOK
    <3>3. req' = [req EXCEPT ![r] = v] /\ thr' = [thr EXCEPT ![r] = u]
      BY <1>1, <2>3 DEF RequestTypeOK, Req, Thr
    <3> HIDE DEF v, u
    <3>4. RequestTypeOK' /\ RequestInv'
      BY <1>1, <1>2, <2>1, <3>2, <3>3, RequestTurn
    <3> QED
      BY <1>3, <2>1, <2>2, <3>4
  <2>4. CASE req' = [req EXCEPT ![r].st = "failed", ![r].kind = kind] /\ UNCHANGED thr
    <3> DEFINE v == [req[r] EXCEPT !.st = "failed", !.kind = kind]
    <3>1. 1 \in Daemons
      BY DaemonAssumption DEF Daemons
    <3>2. v \in Req /\ RequestOK(v, thr[r], out[r], call[r])
      BY <1>1, <1>6, <2>1, <3>1, AskOK
    <3>3. req' = [req EXCEPT ![r] = v]
      BY <1>1, <2>4 DEF RequestTypeOK, Req
    <3> HIDE DEF v
    <3>4. RequestTypeOK' /\ RequestInv'
      BY <1>1, <1>2, <2>1, <2>4, <3>2, <3>3, RequestTurn
    <3> QED
      BY <1>3, <2>1, <2>2, <3>4
  <2> QED
    BY <1>6, <2>3, <2>4 DEF Ask
<1> QED
  BY <1>4, <1>5, <1>6

\* Every step of a daemon, and every fault.
LEMMA FaultInv ==
  ASSUME Inv, Fault \/ \E d \in Daemons : DaemonStep(d)
  PROVE  Inv'
<1>1. ASSUME NEW d \in Daemons, DaemonMove(d), UNCHANGED <<world, call, req, thr, out>>, left' \in Budget
      PROVE  Inv'
  BY <1>1, DaemonStepInv, ReclaimSame, RequestSame DEF Inv
<1>2. ASSUME NEW d \in Daemons, DaemonStep(d) PROVE Inv'
  BY <1>1, <1>2 DEF DaemonStep, DaemonMove, Inv
<1>3. ASSUME NEW what \in {"starts", "ends", "changes"}, Spend(what) PROVE left' \in Budget
  BY <1>3 DEF Spend, Inv, Budget
<1>4. ASSUME Spend("starts"), NEW d \in Daemons, NEW fg \in left.fg, Start(d, fg),
             UNCHANGED <<world, call, req, thr, out>>
      PROVE  Inv'
  <2>1. fg \in BOOLEAN
    BY DEF Inv, Budget
  <2> QED
    BY <1>1, <1>3, <1>4, <2>1 DEF DaemonMove
<1>5. ASSUME Spend("ends"), NEW d \in Daemons, MainFault(d), UNCHANGED <<world, call, req, thr, out>>
      PROVE  Inv'
  BY <1>1, <1>3, <1>5 DEF DaemonMove
<1>6. ASSUME Spend("changes"), ProcessStep, UNCHANGED <<daemonVars, call, req, thr, out>>
      PROVE  Inv'
  BY <1>3, <1>6, ProcessStepInv, DaemonSame, RequestSame DEF Inv
<1> QED
  BY <1>2, <1>4, <1>5, <1>6 DEF Fault

\* At the start nothing runs and nothing has been asked for.
LEMMA InitInv == Init => Inv
<1> SUFFICES ASSUME Init PROVE Inv
  OBVIOUS
<1>1. DaemonTypeOK
  BY DaemonAssumption DEF Init, DaemonInit, DaemonTypeOK, Process, NoDaemon, Daemons
<1>2. DaemonInv
  <2>1. /\ path \notin Daemons /\ pidfile \notin Daemons
        /\ \A d \in Daemons : hsedd[d].pc = "off" /\ hsedd[d].end = "none" /\ ~hsedd[d].pid
    BY NotDaemon DEF Init, DaemonInit
  <2> QED
    BY <2>1 DEF DaemonInv, Footprint, Owns, At, Alive, Named
<1>3. ReclaimTypeOK
  <2>1. call \in [Callers -> Cell]
    BY ReclaimAssumption DEF Init, ReclaimInit, Idle, Cell
  <2>2. world \in World
    BY ReclaimAssumption DEF Init, ReclaimInit, World
  <2> QED
    BY <2>1, <2>2 DEF ReclaimTypeOK, Cell, World
<1>4. \A c \in Callers : call[c] = Idle
  BY DEF Init, ReclaimInit
<1>5. ReclaimInv
  <2>1. world.life = 1
    BY DEF Init, ReclaimInit
  <2> QED
    BY <1>4, <2>1 DEF ReclaimInv, CallInv, Fresh, Idle
<1>6. /\ << >> \in Seq(Lines) /\ << >> \in Seq(Piece) /\ << >> \in Seq(1 .. MaxEntries)
      /\ 0 \in 0 .. 1 /\ 0 \in 0 .. MaxEntries /\ Len(<< >>) = 0 /\ Room >= 0
  BY RequestsAssumption
<1>7. RequestTypeOK
  BY <1>6 DEF Init, RequestTypeOK, Req, Thr
<1>8. RequestInv
  <2>1. ASSUME NEW r \in Requests PROVE RequestOK(req[r], thr[r], out[r], call[r])
    <3>1. /\ out[r] = << >> /\ call[r] = Idle
          /\ thr[r].pc = "none" /\ ~thr[r].in /\ thr[r].lines = << >> /\ thr[r].sent = 0
          /\ thr[r].count = 0
          /\ req[r].st = "new" /\ req[r].kind = "none" /\ req[r].part = 0 /\ req[r].got = << >>
      BY <1>4 DEF Init, Requests
    <3> QED
      BY <1>6, <3>1 DEF RequestOK, Silent, Acts
  <2> QED
    BY <2>1 DEF RequestInv
<1>9. left \in Budget
  BY BudgetsAssumption DEF Init
<1> QED
  BY <1>1, <1>2, <1>3, <1>5, <1>7, <1>8, <1>9 DEF Inv

\* No step leaves the invariant.
LEMMA InvStep == Inv /\ [Next]_vars => Inv'
<1> SUFFICES ASSUME Inv, [Next]_vars PROVE Inv'
  OBVIOUS
<1>1. CASE UNCHANGED vars
  BY <1>1, DaemonSame, ReclaimSame, RequestSame DEF vars, daemonVars, Inv
<1>2. CASE Next
  BY <1>2, ThreadStepInv, ClientStepInv, FaultInv DEF Next, ClientStep
<1> QED
  BY <1>1, <1>2

\* The invariant of the whole.
LEMMA Invariant == Spec => []Inv
BY InitInv, InvStep, PTL DEF Spec

\* Every variable of the daemons, the calls and the requests keeps its type: what the
\* code keeps in its buffers and locals is bounded, whatever happens in which order.
THEOREM RequestsTypeCorrect == Spec => []TypeOK
<1>1. Inv => TypeOK
  BY DEF Inv, TypeOK, RequestTypeOK, RequestInv, RequestOK, Req, Thr, Piece
<1> QED
  BY <1>1, Invariant, PTL

\* With a path that fits and no two daemons at a time, a restart after whatever kind of
\* end never fails in bind, and the daemon that accepts owns the socket and the pidfile:
\* hsed_server_run unlinks the stale name before it binds.
THEOREM DaemonReachable == Spec => []Reachable
<1>1. Inv => Reachable
  <2> SUFFICES ASSUME Inv, PathWhole, alone, NEW d \in Daemons
               PROVE  /\ hsedd[d].end # "inuse"
                      /\ At(d, "accept") => path = d /\ (hsedd[d].pid => pidfile = d)
    BY DEF Reachable
  <2>1. Owns(d)
    BY DEF Inv, DaemonInv
  <2> QED
    BY <2>1 DEF Owns, Named, At, Alive
<1> QED
  BY <1>1, Invariant, PTL

\* A daemon that ends by itself leaves neither its socket nor its pid behind, however many
\* others run: every way out of hsed_server_run after bind, and of main, unlinks them.
THEOREM DaemonLeavesNothing == Spec => []NothingLeft
<1>1. Inv => NothingLeft
  <2> SUFFICES ASSUME Inv, PathWhole, NEW d \in Daemons, At(d, "gone"), hsedd[d].end # "killed"
               PROVE  path # d /\ pidfile # d
    BY DEF NothingLeft
  <2>1. Footprint(d)
    BY DEF Inv, DaemonInv
  <2> QED
    BY <2>1 DEF Footprint
<1> QED
  BY <1>1, Invariant, PTL

\* hsed_truncate_fd never reports more than it freed, whatever the process and the other
\* calls do between its stat, open and ftruncate, unless one of them made the very file
\* that it measured shorter there, or its open found another file under the fd.
THEOREM TruncationHonest == Spec => []FreedHonest
<1>1. Inv => FreedHonest
  <2> SUFFICES ASSUME Inv, NEW c \in Callers \ world.cut, call[c].rc = "ok",
                      call[c].raw_fd = call[c].ino
               PROVE  call[c].st_size <= call[c].bytes
    BY DEF FreedHonest
  <2>1. CallInv(c)
    BY DEF Inv, ReclaimInv
  <2> QED
    BY <2>1 DEF CallInv
<1> QED
  BY <1>1, Invariant, PTL

\* A TRUNCATE, HUP or KILL that the client takes for done was done by the thread of this
\* request, wherever the connection, the daemon or the client's patience ended.
THEOREM ActionsDone == Spec => []SuccessMeansDone
<1>1. Inv => SuccessMeansDone
  <2> SUFFICES ASSUME Inv, NEW r \in Requests, req[r].st = "ok", req[r].kind \in Acts
               PROVE  call[r].rc = "ok" /\ call[r].hit # 0
    BY DEF SuccessMeansDone
  <2>1. call[r].rc = "ok"
    BY DEF Inv, RequestInv, RequestOK, HonestOK
  <2>2. CallInv(r)
    BY DEF Inv, ReclaimInv, Requests
  <2> QED
    BY <2>1, <2>2 DEF CallInv
<1> QED
  BY <1>1, Invariant, PTL

\* Client.Scan returns the whole table or an error: every entry handle_scan sent, in order.
THEOREM TablesWhole == Spec => []ScanWhole
<1>1. Inv => ScanWhole
  BY DEF Inv, RequestInv, RequestOK, ScanWhole
<1> QED
  BY <1>1, Invariant, PTL
=============================================================================
