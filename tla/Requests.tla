------------------------------ MODULE Requests ------------------------------
(***************************************************************************)
(* Requests from end to end: the client of hsed (tui/client/client.go),    *)
(* which opens a connection for each and waits 5 s for the answer, the     *)
(* socket, the connection threads (handle_connection of                    *)
(* backend/src/server.c), the daemons that come and go (Daemon) and what   *)
(* the requests are about (Reclaim).  STREAM has modules of its own.       *)
(***************************************************************************)
EXTENDS Daemon, Reclaim, Sequences, SequencesExt

CONSTANTS MaxEntries, \* entries a scan finds
          Room,       \* send() calls the socket takes in before it blocks
          Budgets     \* what happens at most: see Init

ASSUME RequestsAssumption == MaxEntries \in Nat /\ Room \in Nat \ {0}

Budget == [starts : Nat, fg : SUBSET BOOLEAN, ends : Nat, asks : Nat, kinds : SUBSET STRING,
           changes : Nat]
ASSUME BudgetsAssumption == Budgets \subseteq Budget

Requests == Callers   \* one connection and one thread each

VARIABLES req,   \* the client's side of each request
          thr,   \* its connection thread
          out,   \* what was sent and has not been read
          left   \* what remains of the budget

vars == <<hsedd, path, pidfile, pathlen, alone, world, call, req, thr, out, left>>

Acts == {"TRUNCATE", "HUP", "KILL"}
Kinds == Acts \cup {"PING", "STATS", "SCAN", "QUIT", "blank", "bad"}   \* bad: usage, unknown command
Line(k) == [k |-> k, i |-> 0]
Lines == {Line(k) : k \in {"pong", "stats", "result", "error", "end"}}
           \cup [k : {"entry"}, i : 1 .. MaxEntries]
NoLine == Line("none")

TypeOK ==
  /\ DaemonTypeOK /\ ReclaimTypeOK
  /\ \A r \in Requests :
       /\ req[r].st \in {"new", "open", "ok", "failed"} /\ req[r].kind \in Kinds \cup {"none"}
       /\ req[r].part \in 0 .. 1 /\ req[r].line \in Lines \cup {NoLine}
       /\ req[r].got \in Seq(1 .. MaxEntries)
       /\ thr[r].pc \in {"none", "backlog", "recv", "call", "send", "gone"}
       /\ thr[r].d \in Daemons \cup {NoDaemon} /\ thr[r].in \in BOOLEAN
       /\ thr[r].lines \in Seq(Lines) /\ thr[r].sent \in 0 .. 1 /\ thr[r].count \in 0 .. MaxEntries
       /\ out[r] \in Seq([l : Lines, p : 1 .. 2]) /\ Len(out[r]) <= Room

----------------------------------------------------------------------------
(* The connection thread *)

On(r, label) == thr[r].pc = label /\ Alive(thr[r].d)
ThreadAt(r, label) == thr' = [thr EXCEPT ![r].pc = label]
Say(r, ls) == thr' = [thr EXCEPT ![r].pc = "send", ![r].lines = ls, ![r].in = FALSE]

\* handle_scan with the list hsed_scan returned.
SayScan(r, n) ==
  thr' = [thr EXCEPT ![r].pc = "send", ![r].in = FALSE, ![r].count = n,
                     ![r].lines = Append([i \in 1 .. n |-> [k |-> "entry", i |-> i]], Line("end"))]

\* hsed_server_run: accept and a thread; without memory or a thread the connection
\* is closed.
Accept(r) ==
  /\ On(r, "backlog") /\ At(thr[r].d, "accept")
  /\ ThreadAt(r, "recv") \/ ThreadAt(r, "gone")
  /\ UNCHANGED <<call, world, out>>

\* recv_line and the command in it, up to the call that takes time.
Recv(r) ==
  /\ On(r, "recv") /\ thr[r].in
  /\ \/ req[r].kind = "PING" /\ Say(r, <<Line("pong")>>) /\ UNCHANGED call
     \/ req[r].kind = "STATS" /\ Say(r, <<Line("stats")>>) /\ UNCHANGED call
     \/ /\ req[r].kind = "SCAN" /\ UNCHANGED call
        /\ \E n \in 0 .. MaxEntries : SayScan(r, n)
     \/ req[r].kind \in {"STATS", "SCAN", "bad"} /\ Say(r, <<Line("error")>>) /\ UNCHANGED call
     \/ /\ req[r].kind \in Acts
        /\ thr' = [thr EXCEPT ![r].pc = "call", ![r].in = FALSE]
        /\ Call(r, IF req[r].kind = "TRUNCATE" THEN "stat" ELSE req[r].kind)
     \/ req[r].kind = "QUIT" /\ ThreadAt(r, "gone") /\ UNCHANGED call
     \/ req[r].kind = "blank" /\ thr' = [thr EXCEPT ![r].in = FALSE] /\ UNCHANGED call
  /\ UNCHANGED <<world, out>>

RecvClosed(r) ==
  /\ On(r, "recv") /\ ~thr[r].in /\ req[r].st # "open" /\ ThreadAt(r, "gone")
  /\ UNCHANGED <<call, world, out>>

Calling(r) == On(r, "call") /\ CallStep(r) /\ UNCHANGED <<thr, out>>

\* Mutant of Answer: what the call returned is not looked at.
AnswerResult(r) ==
  /\ On(r, "call") /\ Doing(r, "done") /\ Say(r, <<Line("result")>>)
  /\ UNCHANGED <<call, world, out>>

\* Mutant of Answer: an error is not reported.
AnswerMute(r) ==
  /\ On(r, "call") /\ Doing(r, "done")
  /\ IF call[r].rc = "ok" THEN Say(r, <<Line("result")>>) ELSE ThreadAt(r, "recv")
  /\ UNCHANGED <<call, world, out>>

\* handle_truncate, handle_hup, handle_kill: the result or the error.
Answer(r) ==
  /\ On(r, "call") /\ Doing(r, "done")
  /\ Say(r, <<Line(IF call[r].rc = "ok" THEN "result" ELSE "error")>>)
  /\ UNCHANGED <<call, world, out>>

\* Mutant of Sent: the newline does not end the loop over the line.
SentOn(t) == [t EXCEPT !.sent = @ + 1]

\* What remains to be sent after the next piece, and where the handler is then.
Sent(t) ==
  IF t.sent = 0 THEN [t EXCEPT !.sent = 1]
  ELSE [t EXCEPT !.sent = 0, !.lines = Tail(t.lines),
                 !.pc = IF Len(t.lines) = 1 THEN "recv" ELSE "send"]

\* Mutant of Send: an error is tried again.
SendAgain(r) ==
  /\ On(r, "send") /\ req[r].st = "open" /\ Len(out[r]) < Room
  /\ out' = [out EXCEPT ![r] = Append(@, [l |-> Head(thr[r].lines), p |-> thr[r].sent + 1])]
  /\ thr' = [thr EXCEPT ![r] = Sent(@)]
  /\ UNCHANGED <<call, world>>

\* hsed_send_line: the body and the newline.  (A body that is cut by the end of the
\* daemon is no JSON and makes the client fail as no body does.)  An error ends the
\* handler, also between the entries of a scan.
Send(r) ==
  /\ On(r, "send")
  /\ \/ /\ req[r].st = "open" /\ Len(out[r]) < Room
        /\ out' = [out EXCEPT ![r] = Append(@, [l |-> Head(thr[r].lines), p |-> thr[r].sent + 1])]
        /\ thr' = [thr EXCEPT ![r] = Sent(@)]
     \/ /\ req[r].st # "open" /\ UNCHANGED out
        /\ thr' = [thr EXCEPT ![r].sent = 0, ![r].lines = << >>, ![r].pc = "recv"]
  /\ UNCHANGED <<call, world>>

ThreadStep(r) ==
  /\ Accept(r) \/ Recv(r) \/ RecvClosed(r) \/ Calling(r) \/ Answer(r) \/ Send(r)
  /\ UNCHANGED <<daemonVars, req, left>>

----------------------------------------------------------------------------
(* The client *)

\* Client.connect and the request.  Without a listener it is refused, and no socket
\* can have a path that is too long.
Ask(r, k) ==
  /\ req[r].st = "new" /\ \A s \in Requests : s < r => req[s].st # "new"
  /\ left.asks > 0 /\ k \in left.kinds
  /\ \/ /\ PathWhole /\ \E d \in Daemons : path = d /\ Listening(d)
        /\ req' = [req EXCEPT ![r].st = "open", ![r].kind = k]
        /\ thr' = [thr EXCEPT ![r].pc = "backlog", ![r].d = path, ![r].in = TRUE]
     \/ /\ PathWhole => \A d \in Daemons : path = d => ~Listening(d)
        /\ req' = [req EXCEPT ![r].st = "failed", ![r].kind = k]
        /\ UNCHANGED thr
  /\ left' = [left EXCEPT !.asks = @ - 1]
  /\ UNCHANGED <<daemonVars, world, call, out>>

\* What Ping, Stats, Scan and simpleCommand make of a line.
Wanted(k) == CASE k = "PING" -> {"pong"} [] k = "STATS" -> {"stats"} [] k = "SCAN" -> {"end"}
               [] OTHER -> {"pong", "stats", "result", "end"}
Taken(q, l) ==
  IF q.kind = "SCAN" /\ l.k = "entry"
  THEN [q EXCEPT !.got = Append(@, l.i), !.part = 0, !.line = NoLine]
  ELSE [q EXCEPT !.st = IF l.k \in Wanted(q.kind) THEN "ok" ELSE "failed"]

\* readEnvelope, piece by piece.
Read(r) ==
  /\ req[r].st = "open" /\ out[r] # << >>
  /\ LET x == Head(out[r])
     IN  req' = [req EXCEPT ![r] = IF x.p = 2 THEN Taken(@, x.l)
                                   ELSE [@ EXCEPT !.part = 1, !.line = x.l]]
  /\ out' = [out EXCEPT ![r] = IF req'[r].st = "open" THEN Tail(@) ELSE << >>]
  /\ UNCHANGED <<daemonVars, world, call, thr, left>>

\* Mutant of Broken: the end of the connection ends the scan.
BrokenOff(q) == [q EXCEPT !.st = IF q.kind = "SCAN" /\ q.part = 0 THEN "ok" ELSE "failed"]

\* ReadString fails with what it has: a body that only lacks its newline is parsed,
\* nothing is an error.  There is no line after it.
Broken(q) ==
  LET last == Taken(q, q.line)
  IN  IF q.part = 1 /\ last.st = "ok" THEN last ELSE [q EXCEPT !.st = "failed"]

Hang(r) ==
  /\ req' = [req EXCEPT ![r] = Broken(@)] /\ out' = [out EXCEPT ![r] = << >>]
  /\ UNCHANGED <<daemonVars, world, call, thr, left>>

\* The other end is closed: the thread is done, its process is, or the connection
\* was never accepted.
Eof(r) ==
  /\ req[r].st = "open" /\ out[r] = << >>
  /\ \/ thr[r].pc = "gone" \/ ~Alive(thr[r].d)
     \/ thr[r].pc = "backlog" /\ ~Listening(thr[r].d)
  /\ Hang(r)

Deadline(r) == req[r].st = "open" /\ Hang(r)

ClientStep(r) == Read(r) \/ Eof(r)

----------------------------------------------------------------------------
\* left: the starts of daemons, in the foreground or not, the signals and failures
\* that end one, the requests, of which kinds, and the steps of the process that are
\* still to come.
Init ==
  /\ DaemonInit /\ ReclaimInit
  /\ req = [r \in Requests |-> [st |-> "new", kind |-> "none", part |-> 0, line |-> NoLine,
                                got |-> << >>]]
  /\ thr = [r \in Requests |-> [pc |-> "none", d |-> NoDaemon, in |-> FALSE, lines |-> << >>,
                                sent |-> 0, count |-> 0]]
  /\ out = [r \in Requests |-> << >>]
  /\ left \in Budgets

DaemonStep(d) == MainStep(d) /\ UNCHANGED <<world, call, req, thr, out, left>>

Spend(what) == left[what] > 0 /\ left' = [left EXCEPT ![what] = @ - 1]

Fault ==
  \/ /\ Spend("starts") /\ \E d \in Daemons, fg \in left.fg : Start(d, fg)
     /\ UNCHANGED <<world, call, req, thr, out>>
  \/ /\ Spend("ends") /\ \E d \in Daemons : MainFault(d)
     /\ UNCHANGED <<world, call, req, thr, out>>
  \/ /\ Spend("changes") /\ ProcessStep
     /\ UNCHANGED <<daemonVars, call, req, thr, out>>

Next ==
  \/ \E d \in Daemons : DaemonStep(d)
  \/ \E r \in Requests : ThreadStep(r) \/ ClientStep(r) \/ Deadline(r) \/ \E k \in Kinds : Ask(r, k)
  \/ Fault

\* The main thread, the connection threads and the client are scheduled.  The deadline
\* is left out: nothing below needs it.
Fairness ==
  /\ \A d \in Daemons : WF_vars(DaemonStep(d))
  /\ \A r \in Requests : WF_vars(ThreadStep(r)) /\ WF_vars(ClientStep(r))

Spec == Init /\ [][Next]_vars /\ Fairness

----------------------------------------------------------------------------
(* Properties *)

\* What the client reports as done has been done: a process was signalled or a file
\* truncated by the thread of this very request, wherever daemons and connections
\* broke off.
SuccessMeansDone ==
  \A r \in Requests : req[r].st = "ok" /\ req[r].kind \in Acts =>
    call[r].rc = "ok" /\ call[r].hit # 0

\* A table is complete: Client.Scan returns entries only when it has every one the
\* scan found, in order, although the daemon may end or the deadline pass in the
\* middle of a line, or of its last newline.
ScanWhole ==
  \A r \in Requests : req[r].st = "ok" /\ req[r].kind = "SCAN" =>
    req[r].got = [i \in 1 .. thr[r].count |-> i]

\* Every command but an empty one is answered, or its connection is closed, even to a
\* client without a deadline.
Answered ==
  \A r \in Requests : (req[r].st = "open" /\ req[r].kind # "blank") ~> req[r].st # "open"

\* No connection thread is left behind by a client that has gone, whatever the thread
\* was about to send.
ThreadsEnd ==
  \A r \in Requests :
    req[r].st \in {"ok", "failed"} ~> (thr[r].pc \in {"none", "gone"} \/ ~Alive(thr[r].d))
=============================================================================
