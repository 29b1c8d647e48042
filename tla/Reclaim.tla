------------------------------ MODULE Reclaim ------------------------------
(***************************************************************************)
(* hsed_truncate_fd and hsed_send_signal (backend/src/reclaim.c), called   *)
(* by any number of connection threads for the same pid and fd, over a     *)
(* process that writes and truncates its file, reopens the fd, exits, and  *)
(* whose pid is used again.  Files and lives of the pid are numbered in    *)
(* the order in which they come; 0 stands for none.                        *)
(***************************************************************************)
EXTENDS Integers

CONSTANTS MaxCalls,   \* calls under way at the same time
          MaxFiles,   \* files that the fd stands for in turn
          MaxSize     \* of a file, in units

ASSUME ReclaimAssumption == MaxCalls \in Nat /\ MaxFiles \in Nat \ {0} /\ MaxSize \in Nat \ {0}

Callers == 1 .. MaxCalls

VARIABLES world,   \* the process and its files
          call     \* the locals of each call

\* hit: the file or the life of the pid it acted upon; bytes: what was freed; ino:
\* the file st is about (history, the code looks at its size only).
Idle == [pc |-> "idle", rc |-> "none", st_size |-> 0, ino |-> 0, raw_fd |-> 0, hit |-> 0,
         bytes |-> 0]

ReclaimTypeOK ==
  /\ world \in [life : Nat, alive : BOOLEAN, fd : 0 .. MaxFiles, last : 1 .. MaxFiles,
                size : [1 .. MaxFiles -> 0 .. MaxSize],
                cut : SUBSET Callers]   \* history: see Measured
  /\ call \in [Callers -> [pc : {"idle", "stat", "open", "ftruncate", "HUP", "KILL", "done"},
                           rc : {"none", "ok", "error"}, st_size : 0 .. MaxSize,
                           ino : 0 .. MaxFiles, raw_fd : 0 .. MaxFiles, hit : Nat,
                           bytes : 0 .. MaxSize]]

----------------------------------------------------------------------------
(* The process *)

Grow ==
  /\ world.fd # 0 /\ world.size[world.fd] < MaxSize
  /\ world' = [world EXCEPT !.size[world.fd] = @ + 1]

\* The calls between stat and ftruncate on file f.  They are put into cut when
\* somebody else makes the file shorter.
Measured(f) == {c \in Callers : call[c].pc \in {"open", "ftruncate"} /\ call[c].ino = f}

\* The process truncates its own file.
Shrink ==
  /\ world.fd # 0
  /\ \E n \in 0 .. world.size[world.fd] - 1 :
       world' = [world EXCEPT !.size[world.fd] = n, !.cut = @ \cup Measured(world.fd)]

\* Another file under the same number, of the same process or of the next one
\* with its pid.
Reopen ==
  /\ world.last < MaxFiles
  /\ world' = [world EXCEPT !.fd = world.last + 1, !.last = @ + 1, !.alive = TRUE,
                            !.life = IF world.alive THEN @ ELSE @ + 1]

Gone(w) == [w EXCEPT !.alive = FALSE, !.fd = 0]

ProcessExit == world.alive /\ world' = Gone(world)

ProcessStep == Grow \/ Shrink \/ Reopen \/ ProcessExit

----------------------------------------------------------------------------
(* The calls *)

Doing(c, label) == call[c].pc = label
Call(c, label) == call' = [call EXCEPT ![c].pc = label]
Done(c, rc) == call' = [call EXCEPT ![c].pc = "done", ![c].rc = rc]

Stat(c) ==
  /\ Doing(c, "stat")
  /\ IF world.fd = 0 THEN Done(c, "error")
     ELSE call' = [call EXCEPT ![c].pc = "open", ![c].st_size = world.size[world.fd],
                               ![c].ino = world.fd]
  /\ UNCHANGED world

\* It may also be denied.
Open(c) ==
  /\ Doing(c, "open")
  /\ \/ world.fd # 0 /\ call' = [call EXCEPT ![c].pc = "ftruncate", ![c].raw_fd = world.fd]
     \/ Done(c, "error")
  /\ UNCHANGED world

\* Mutant of Ftruncate: the result of ftruncate is not looked at.
FtruncateUnchecked(c) == Doing(c, "ftruncate") /\ Done(c, "ok") /\ UNCHANGED world

\* freed is st_size, what there was at the time of stat.
Ftruncate(c) ==
  /\ Doing(c, "ftruncate")
  /\ LET f == call[c].raw_fd
     IN  \/ /\ world' = [world EXCEPT !.size[f] = 0, !.cut = @ \cup (Measured(f) \ {c})]
            /\ call' = [call EXCEPT ![c].pc = "done", ![c].rc = "ok", ![c].hit = f,
                                    ![c].bytes = world.size[f]]
         \/ Done(c, "error") /\ UNCHANGED world

hsed_send_signal(c, sig) ==
  /\ Doing(c, sig)
  /\ \/ /\ world.alive
        /\ call' = [call EXCEPT ![c].pc = "done", ![c].rc = "ok", ![c].hit = world.life]
        /\ world' = IF sig = "KILL" THEN Gone(world) ELSE world
     \/ Done(c, "error") /\ UNCHANGED world

CallStep(c) ==
  \/ Stat(c) \/ Open(c) \/ Ftruncate(c)
  \/ \E sig \in {"HUP", "KILL"} : hsed_send_signal(c, sig)

ReclaimInit ==
  /\ world = [life |-> 1, alive |-> TRUE, fd |-> 1, last |-> 1,
              size |-> [f \in 1 .. MaxFiles |-> IF f = 1 THEN 1 ELSE MaxSize],
              cut |-> {}]
  /\ call = [c \in Callers |-> Idle]

----------------------------------------------------------------------------
(* Properties *)

\* The freed space that is reported was freed, although it is measured before the
\* truncation and the file grows meanwhile, unless fd was given to another file in
\* between or somebody else, its holder or another caller, made the file shorter.
FreedHonest ==
  \A c \in Callers \ world.cut :
    call[c].rc = "ok" /\ call[c].raw_fd = call[c].ino => call[c].st_size <= call[c].bytes
=============================================================================
