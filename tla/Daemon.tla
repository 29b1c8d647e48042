------------------------------- MODULE Daemon -------------------------------
(***************************************************************************)
(* hsedd as a process: main of backend/src/hsed.c with hsed_server_run of  *)
(* backend/src/server.c around its accept loop.  What the processes share  *)
(* is the name of the socket and the pidfile.  They are told to stop, are  *)
(* killed, and are started again, also while another one still runs.       *)
(***************************************************************************)
EXTENDS Integers, FiniteSets

CONSTANTS MaxDaemons,   \* processes that are started, one after the other
          PathLens      \* lengths of socket_path

ASSUME DaemonAssumption == MaxDaemons \in Nat \ {0} /\ PathLens \subseteq Nat

Daemons == 1 .. MaxDaemons
NoDaemon == 0

VARIABLES hsedd,     \* each process
          path,      \* whose socket is at socket_path
          pidfile,   \* whose pid is in the pidfile
          pathlen,   \* strlen(socket_path)
          alone      \* history: no two of them ever ran at the same time

daemonVars == <<hsedd, path, pidfile, pathlen, alone>>

\* pc names the call about to be made; pid says that the pidfile was written.
Process == [pc : {"off", "fork", "pidfile", "unlink", "bind", "listen", "accept", "close",
                  "unpath", "unpid", "gone"},
            fg : BOOLEAN, pid : BOOLEAN, shutdown : BOOLEAN,
            end : {"none", "ok", "nofork", "nosocket", "inuse", "nolisten", "killed"}]

DaemonTypeOK ==
  /\ hsedd \in [Daemons -> Process]
  /\ path \in Daemons \cup {NoDaemon} /\ pidfile \in Daemons \cup {NoDaemon}
  /\ pathlen \in PathLens /\ alone \in BOOLEAN

Alive(d) == hsedd[d].pc \notin {"off", "gone"}
Listening(d) == hsedd[d].pc \in {"accept", "close"}   \* listen_fd is open
At(d, label) == hsedd[d].pc = label
Goto(d, label) == hsedd' = [hsedd EXCEPT ![d].pc = label]
Fail(d, why) == hsedd' = [hsedd EXCEPT ![d].pc = "unpid", ![d].end = why]

\* main up to daemonize; the handlers are installed and stay so in the child.
Start(d, fg) ==
  /\ At(d, "off") /\ \A e \in Daemons : e < d => ~At(e, "off")
  /\ hsedd' = [hsedd EXCEPT ![d].pc = IF fg THEN "unlink" ELSE "fork", ![d].fg = fg]
  /\ alone' = (alone /\ \A e \in Daemons : ~Alive(e))
  /\ UNCHANGED <<path, pidfile, pathlen>>

daemonize(d) ==
  /\ At(d, "fork")
  /\ \/ Goto(d, "pidfile")
     \/ hsedd' = [hsedd EXCEPT ![d].pc = "gone", ![d].end = "nofork"]
  /\ UNCHANGED <<path, pidfile, pathlen, alone>>

\* That the file cannot be written is logged and nothing else.
write_pidfile(d) ==
  /\ At(d, "pidfile")
  /\ \/ /\ hsedd' = [hsedd EXCEPT ![d].pc = "unlink", ![d].pid = TRUE]
        /\ pidfile' = d
     \/ Goto(d, "unlink") /\ UNCHANGED pidfile
  /\ UNCHANGED <<path, pathlen, alone>>

SunPath == 108   \* sizeof(addr.sun_path)

\* The length of what is copied.
hsed_strlcpy(srclen, dstsize) == IF srclen < dstsize - 1 THEN srclen ELSE dstsize - 1

\* bind uses the copy of socket_path and unlink the original: a path that is too
\* long names no socket.
PathWhole == hsed_strlcpy(pathlen, SunPath) = pathlen
Unlinked == IF PathWhole THEN NoDaemon ELSE path

\* Mutant of UnlinkStale: the socket of an earlier daemon is left in place.
UnlinkNot(d) == At(d, "unlink") /\ Goto(d, "bind") /\ UNCHANGED <<path, pidfile, pathlen, alone>>

UnlinkStale(d) ==
  /\ At(d, "unlink") /\ Goto(d, "bind")
  /\ path' = Unlinked
  /\ UNCHANGED <<pidfile, pathlen, alone>>

\* EADDRINUSE when the name is there, whether or not anybody listens.  socket and
\* bind may fail for other reasons too.
Bind(d) ==
  /\ At(d, "bind")
  /\ \/ path = NoDaemon /\ Goto(d, "listen") /\ path' = d
     \/ path # NoDaemon /\ Fail(d, "inuse") /\ UNCHANGED path
     \/ Fail(d, "nosocket") /\ UNCHANGED path
  /\ UNCHANGED <<pidfile, pathlen, alone>>

Listen(d) ==
  /\ At(d, "listen")
  /\ \/ Goto(d, "accept") /\ UNCHANGED path
     \/ Fail(d, "nolisten") /\ path' = Unlinked
  /\ UNCHANGED <<pidfile, pathlen, alone>>

\* Mutant of NoticeShutdown: the flag is looked at only before the loop.
NoticeShutdownEarly(d) ==
  /\ At(d, "listen") /\ hsedd[d].shutdown /\ Goto(d, "close")
  /\ UNCHANGED <<path, pidfile, pathlen, alone>>

\* while (!*shutdown_flag): poll returns at least every 500 ms.
NoticeShutdown(d) ==
  /\ At(d, "accept") /\ hsedd[d].shutdown /\ Goto(d, "close")
  /\ UNCHANGED <<path, pidfile, pathlen, alone>>

\* poll fails.
PollFails(d) == At(d, "accept") /\ Goto(d, "close") /\ UNCHANGED <<path, pidfile, pathlen, alone>>

CloseListener(d) ==
  /\ At(d, "close") /\ Goto(d, "unpath")
  /\ UNCHANGED <<path, pidfile, pathlen, alone>>

\* Mutant of UnlinkSocket: the name stays.
UnlinkSocketNot(d) ==
  /\ At(d, "unpath") /\ hsedd' = [hsedd EXCEPT ![d].pc = "unpid", ![d].end = "ok"]
  /\ UNCHANGED <<path, pidfile, pathlen, alone>>

\* Whatever is there now.
UnlinkSocket(d) ==
  /\ At(d, "unpath") /\ hsedd' = [hsedd EXCEPT ![d].pc = "unpid", ![d].end = "ok"]
  /\ path' = Unlinked
  /\ UNCHANGED <<pidfile, pathlen, alone>>

\* The end of main, and of all connection threads.
Exit(d) ==
  /\ At(d, "unpid") /\ Goto(d, "gone")
  /\ pidfile' = IF hsedd[d].fg THEN pidfile ELSE NoDaemon
  /\ UNCHANGED <<path, pathlen, alone>>

on_shutdown_signal(d) ==
  /\ Alive(d) /\ ~hsedd[d].shutdown
  /\ hsedd' = [hsedd EXCEPT ![d].shutdown = TRUE]
  /\ UNCHANGED <<path, pidfile, pathlen, alone>>

\* SIGKILL, or a crash.
Killed(d) ==
  /\ Alive(d)
  /\ hsedd' = [hsedd EXCEPT ![d].pc = "gone", ![d].end = "killed"]
  /\ UNCHANGED <<path, pidfile, pathlen, alone>>

DaemonInit ==
  /\ hsedd = [d \in Daemons |-> [pc |-> "off", fg |-> FALSE, pid |-> FALSE, shutdown |-> FALSE,
                                 end |-> "none"]]
  /\ path = NoDaemon /\ pidfile = NoDaemon /\ pathlen \in PathLens /\ alone = TRUE

MainStep(d) ==
  \/ daemonize(d) \/ write_pidfile(d) \/ UnlinkStale(d) \/ Bind(d) \/ Listen(d)
  \/ NoticeShutdown(d) \/ CloseListener(d) \/ UnlinkSocket(d) \/ Exit(d)

MainFault(d) == on_shutdown_signal(d) \/ Killed(d) \/ PollFails(d)

----------------------------------------------------------------------------
(* Properties *)

\* As long as the path fits into sun_path and no two daemons run at the same time,
\* what a daemon that was killed left behind does not keep the next from starting
\* (hsed.service restarts it), and one that accepts can be reached under its name
\* and found by its pidfile.
Reachable ==
  PathWhole /\ alone => \A d \in Daemons :
    /\ hsedd[d].end # "inuse"
    /\ At(d, "accept") => path = d /\ (hsedd[d].pid => pidfile = d)

\* A daemon with such a path that ends by itself, for whatever reason, leaves
\* neither its socket nor its pidfile behind.
NothingLeft ==
  PathWhole => \A d \in Daemons :
    At(d, "gone") /\ hsedd[d].end # "killed" => path # d /\ pidfile # d

\* SIGTERM ends the daemon, whatever it is doing and whoever it is serving.
ShutdownEnds == \A d \in Daemons : hsedd[d].shutdown ~> At(d, "gone")
=============================================================================
