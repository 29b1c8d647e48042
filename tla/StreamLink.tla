----------------------------- MODULE StreamLink -----------------------------
(***************************************************************************)
(* A live stream from end to end: a thread of the target that writes, the  *)
(* connection thread of hsedd that stops it for each write and sends a     *)
(* line about it (backend/src/server.c, protocol.c), the socket between,   *)
(* which holds only so much, and the client that reads or does not: the    *)
(* stream screen of hsed (tui/ui/stream_screen.go over tui/client), or a   *)
(* client of its own that speaks the protocol.  hsed_trace_fd is reduced   *)
(* to what StreamService says of it; Tracer has the details.               *)
(***************************************************************************)
EXTENDS Wire, Mailbox

CONSTANTS Conns,      \* the stream connections that may be opened
          NoConn,     \* nil
          Capacity,   \* send() calls the socket takes in before it blocks
          PollRoom,   \* pieces of requests that fill the buffer of stream_poll_cb
          Captures,   \* values of --max-capture
          Writes,     \* what the writes of the target return; 0 for an error
          Patient     \* the user of hsed waits for the screen to follow a key

ASSUME LinkAssumption ==
  /\ NoConn \notin Conns
  /\ Capacity \in Nat \ {0} /\ PollRoom \in Nat \ {0}
  /\ Captures \subseteq Nat /\ Writes \subseteq Nat
  /\ Patient \in BOOLEAN

VARIABLES target,   \* the writer thread of the target
          thr,      \* the connection thread of each connection
          sock,     \* each connection
          ui,       \* the program at the other end
          cap       \* max_capture of the daemon

vars == <<target, thr, sock, ui, cap>>

Lines == {"attached", "write", "cut", "stream_end", "error", "pong"}
NoLine == "none"
\* What arrives at the daemon: requests, and STOP in two pieces, which a read may part.
Piece == {"STREAM", "ST", "OP", "PING"}
\* What one write of the client sends; "ST", "OP": STOP in two writes.
Request == {"STOP", "ST", "OP", "PING"}
Pieces(r) == IF r = "STOP" THEN <<"ST", "OP">> ELSE <<r>>
Msgs == [k : {"push", "open", "pop", "event", "end"}] \cup [k : {"attached"}, c : Conns]

TypeOK ==
  /\ target \in [st : {"run", "stopped", "dead"}, tracer : Conns \cup {NoConn}]
  /\ thr \in [Conns -> [pc : {"none", "recv", "attach", "alloc", "loop", "send", "resume", "detach",
                              "gone"},
                        line : Lines \cup {NoLine}, left : 0 .. 2,
                        next : {"recv", "alloc", "resume"}]]
  /\ sock \in [Conns -> [client  : {"new", "open", "closed"},
                         in      : Seq(Piece),              \* to the daemon
                         out     : Seq(Lines \cup {NoLine}), \* to the client; NoLine: a body
                         readers : Nat]]                    \* goroutines in Next
  /\ \A c \in Conns : Len(sock[c].out) <= Capacity
  /\ ui.stack \in Seq(Conns \cup {NoConn})             \* sessions of the stream screens
  /\ IsABag(ui.cmds) /\ BagToSet(ui.cmds) \subseteq Msgs
  /\ ui.mode \in {"tui", "raw", "over"}
  /\ ui.sent \in Seq(Request)
  /\ cap \in 1 .. MAX_CAPTURE_HARD_LIMIT

----------------------------------------------------------------------------
(* The target *)

\* A traced write returns: the thread stops.
Write ==
  /\ target.st = "run" /\ target.tracer # NoConn
  /\ target' = [target EXCEPT !.st = "stopped"]
  /\ UNCHANGED <<thr, sock, ui, cap>>

Die ==
  /\ target.st # "dead"
  /\ target' = [target EXCEPT !.st = "dead"]
  /\ UNCHANGED <<thr, sock, ui, cap>>

\* The tracer lets go or goes on: a stopped thread runs.
Running(t) == [t EXCEPT !.st = IF @ = "stopped" THEN "run" ELSE @]

----------------------------------------------------------------------------
(* The connection thread *)

At(c, label) == thr[c].pc = label
Goto(c, label) == thr' = [thr EXCEPT ![c].pc = label]

\* hsed_send_line: send() is called until the body and the newline are out.
Say(c, l, next) ==
  thr' = [thr EXCEPT ![c] = [pc |-> "send", line |-> l, left |-> 2, next |-> next]]
SaidAll(th) == [pc |-> th.next, line |-> NoLine, left |-> 0, next |-> th.next]
SaidMore(th) == IF th.left = 1 THEN SaidAll(th) ELSE [th EXCEPT !.left = @ - 1]

\* Mutant of Send: the result of send() is not looked at.
SendStubborn(c) ==
  /\ At(c, "send") /\ sock[c].client # "closed" /\ Len(sock[c].out) < Capacity
  /\ sock' = [sock EXCEPT ![c].out = Append(@, IF thr[c].left = 1 THEN thr[c].line ELSE NoLine)]
  /\ thr' = [thr EXCEPT ![c] = SaidMore(@)]
  /\ UNCHANGED <<target, ui, cap>>

\* One send() of the loop: it blocks while the socket is full and fails when the
\* client has gone, which ends the line; its callers then go on.
Send(c) ==
  /\ At(c, "send")
  /\ \/ /\ sock[c].client # "closed" /\ Len(sock[c].out) < Capacity
        /\ sock' = [sock EXCEPT ![c].out =
                      Append(@, IF thr[c].left = 1 THEN thr[c].line ELSE NoLine)]
        /\ thr' = [thr EXCEPT ![c] = SaidMore(@)]
     \/ /\ sock[c].client = "closed"
        /\ thr' = [thr EXCEPT ![c] = SaidAll(@)]
        /\ UNCHANGED sock
  /\ UNCHANGED <<target, ui, cap>>

\* How many of the pieces in the buffer end with the first newline; 0 for none.
FirstLine(in) ==
  IF in = << >> \/ in = <<"ST">> THEN 0 ELSE IF Head(in) = "ST" THEN 2 ELSE 1

\* handle_connection: recv_line and the command in it.
Recv(c) ==
  /\ At(c, "recv") /\ FirstLine(sock[c].in) > 0
  /\ sock' = [sock EXCEPT ![c].in = SubSeq(@, FirstLine(@) + 1, Len(@))]
  /\ CASE Head(sock[c].in) = "STREAM" -> Goto(c, "attach")
       [] Head(sock[c].in) = "PING" -> Say(c, "pong", "recv")
       [] OTHER -> Say(c, "error", "recv")
  /\ UNCHANGED <<target, ui, cap>>

RecvClosed(c) ==
  /\ At(c, "recv") /\ FirstLine(sock[c].in) = 0 /\ sock[c].client = "closed"
  /\ Goto(c, "gone")
  /\ UNCHANGED <<target, sock, ui, cap>>

\* handle_stream: hsed_trace_fd attaches and calls stream_attached_cb, or fails
\* because the target has gone or another session still traces it.
Attach(c) ==
  /\ At(c, "attach")
  /\ \/ /\ target.st # "dead" /\ target.tracer = NoConn
        /\ target' = [target EXCEPT !.tracer = c]
        /\ Say(c, "attached", "alloc")
     \/ /\ target.st = "dead" \/ target.tracer # NoConn
        /\ Say(c, "error", "recv")
        /\ UNCHANGED target
  /\ UNCHANGED <<sock, ui, cap>>

\* Without memory for the capture every thread is let go again.
Alloc(c) ==
  /\ At(c, "alloc")
  /\ \/ Goto(c, "loop") /\ UNCHANGED target
     \/ /\ target' = [Running(target) EXCEPT !.tracer = NoConn]
        /\ Say(c, "error", "recv")
  /\ UNCHANGED <<sock, ui, cap>>

\* Mutant of Captured: max_capture is not looked at.
CapturedAll(n) == n

\* What stream_write_cb is given of a write of n bytes.
Captured(n) == IF n < cap THEN n ELSE cap

\* stream_write_cb, called while the thread is stopped.  Encoded data of more than
\* 1024 bytes need malloc, and without memory nothing is sent.
Reap(c) ==
  /\ At(c, "loop") /\ target.st = "stopped" /\ target.tracer = c
  /\ \E n \in {Captured(w) : w \in Writes} :
       \/ Say(c, IF Whole(WriteLen(n)) THEN "write" ELSE "cut", "resume")
       \/ hsed_base64_encoded_len(n) > 1024 /\ Goto(c, "resume")
  /\ UNCHANGED <<target, sock, ui, cap>>

Resume(c) ==
  /\ At(c, "resume") /\ Goto(c, "loop")
  /\ target' = Running(target)
  /\ UNCHANGED <<sock, ui, cap>>

\* memmem(buf, n, "STOP", 4)
HasStop(buf) == \E i \in 1 .. Len(buf) - 1 : buf[i] = "ST" /\ buf[i + 1] = "OP"

\* One recv of the 256 bytes of buf: what is read, and what stays in the socket.
Received(in) == SubSeq(in, 1, Min({PollRoom, Len(in)}))
Unread(in) == SubSeq(in, Min({PollRoom, Len(in)}) + 1, Len(in))

\* Mutant of Poll: STOP is expected at the start of what has been read.
PollPrompt(c) ==
  /\ At(c, "loop") /\ target.st = "run" /\ target.tracer = c
  /\ \/ /\ sock[c].in # << >>
        /\ thr' = IF IsPrefix(<<"ST", "OP">>, Received(sock[c].in))
                  THEN [thr EXCEPT ![c].pc = "detach"] ELSE thr
        /\ sock' = [sock EXCEPT ![c].in = Unread(@)]
     \/ /\ sock[c].in = << >> /\ sock[c].client = "closed"
        /\ Goto(c, "detach") /\ UNCHANGED sock
  /\ UNCHANGED <<target, ui, cap>>

\* stream_poll_cb, called when no stop is pending: as much of what has arrived as fits
\* into its buffer is read and thrown away, and ends the stream if STOP is in it.
Poll(c) ==
  /\ At(c, "loop") /\ target.st = "run" /\ target.tracer = c
  /\ \/ /\ sock[c].in # << >>
        /\ thr' = IF HasStop(Received(sock[c].in)) THEN [thr EXCEPT ![c].pc = "detach"] ELSE thr
        /\ sock' = [sock EXCEPT ![c].in = Unread(@)]
     \/ /\ sock[c].in = << >> /\ sock[c].client = "closed"
        /\ Goto(c, "detach") /\ UNCHANGED sock
  /\ UNCHANGED <<target, ui, cap>>

\* Mutant of Detach: the threads are not let go.
DetachNot(c) == At(c, "detach") /\ Say(c, "stream_end", "recv") /\ UNCHANGED <<target, sock, ui, cap>>

\* The detach loop, and the last line of handle_stream.
Detach(c) ==
  /\ At(c, "detach")
  /\ target' = [Running(target) EXCEPT !.tracer = NoConn]
  /\ Say(c, "stream_end", "recv")
  /\ UNCHANGED <<sock, ui, cap>>

TargetGone(c) ==
  /\ At(c, "loop") /\ target.st = "dead"
  /\ target' = [target EXCEPT !.tracer = NoConn]
  /\ Say(c, "stream_end", "recv")
  /\ UNCHANGED <<sock, ui, cap>>

ThreadStep(c) ==
  \/ Send(c) \/ Recv(c) \/ RecvClosed(c) \/ Attach(c) \/ Alloc(c) \/ Reap(c) \/ Resume(c) \/ Poll(c)
  \/ Detach(c) \/ TargetGone(c)

----------------------------------------------------------------------------
(* hsed: the event loop with its stream screens *)

Msg(k) == [k |-> k]
SetUi(st, done, new) == ui' = [ui EXCEPT !.stack = st, !.cmds = Exchanged(@, done, new)]
InFlight(m) == ui.mode = "tui" /\ BagIn(m, ui.cmds)

\* What a patient user waits for: before Esc, that the screen and its session are
\* there; before "s", that nothing more comes from the last stream.
Still(kinds) == \A m \in BagToSet(ui.cmds) : m.k \notin kinds
Arrived == Still({"push", "open", "attached", "pop"})
Settled ==
  /\ ui.cmds = EmptyBag
  /\ \A c \in Conns : sock[c].client = "closed" => sock[c].readers = 0

New == {c \in Conns : sock[c].client = "new"}

\* StreamSession.Close, and the end of the process.
Closed(sk, C) ==
  [c \in Conns |-> IF c \in C /\ sk[c].client = "open" THEN [sk[c] EXCEPT !.client = "closed"]
                   ELSE sk[c]]

\* "s" on the detail screen.
KeyStream ==
  /\ ui.mode = "tui" /\ ui.stack = << >> /\ (Patient => Settled)
  /\ Copies(Msg("push"), ui.cmds) + Copies(Msg("open"), ui.cmds) < Len(SetToSeq(New))
  /\ SetUi(<< >>, {}, {Msg("push")})
  /\ UNCHANGED <<target, thr, sock, cap>>

\* Mutant of KeyEsc: the session is left open.
KeyEscOnly ==
  /\ ui.mode = "tui" /\ ui.stack # << >> /\ (Patient => Arrived)
  /\ Copies(Msg("pop"), ui.cmds) < 2
  /\ SetUi(ui.stack, {}, {Msg("pop")})
  /\ UNCHANGED <<target, thr, sock, cap>>

\* Esc on a stream screen: CloseSession and PopScreen.
KeyEsc ==
  /\ ui.mode = "tui" /\ ui.stack # << >> /\ (Patient => Arrived)
  /\ Copies(Msg("pop"), ui.cmds) < 2
  /\ sock' = Closed(sock, {Last(ui.stack)})
  /\ SetUi(ui.stack, {}, {Msg("pop")})
  /\ UNCHANGED <<target, thr, cap>>

\* The program ends, and with it every connection.
Over(mode) ==
  /\ sock' = [c \in Conns |-> [Closed(sock, Conns)[c] EXCEPT !.readers = 0]]
  /\ ui' = [ui EXCEPT !.stack = << >>, !.cmds = EmptyBag, !.mode = mode]
  /\ UNCHANGED <<target, thr, cap>>

Quit == ui.mode = "tui" /\ Over("over")

Push ==
  /\ InFlight(Msg("push"))
  /\ SetUi(Append(ui.stack, NoConn), {Msg("push")}, {Msg("open")})
  /\ UNCHANGED <<target, thr, sock, cap>>

Pop ==
  /\ InFlight(Msg("pop"))
  /\ SetUi(IF ui.stack = << >> THEN << >> ELSE Front(ui.stack), {Msg("pop")}, {})
  /\ UNCHANGED <<target, thr, sock, cap>>

\* StreamScreen.Init: OpenStream connects and asks, or fails.
Open ==
  /\ InFlight(Msg("open"))
  /\ \/ \E c \in New :
          /\ sock' = [sock EXCEPT ![c] = [sock[c] EXCEPT !.client = "open", !.in = <<"STREAM">>]]
          /\ thr' = [thr EXCEPT ![c].pc = "recv"]
          /\ SetUi(ui.stack, {Msg("open")}, {[k |-> "attached", c |-> c]})
     \/ SetUi(ui.stack, {Msg("open")}, {}) /\ UNCHANGED <<sock, thr>>
  /\ UNCHANGED <<target, cap>>

\* readNextCmd on a session: one more goroutine in StreamSession.Next.
Reading(c) == [sock EXCEPT ![c].readers = @ + 1]

\* Mutant of Attached: the session is read from and not kept.
AttachedUnkept(c) ==
  LET m == [k |-> "attached", c |-> c]
  IN  /\ InFlight(m) /\ SetUi(ui.stack, {m}, {})
      /\ sock' = Reading(c)
      /\ UNCHANGED <<target, thr, cap>>

\* streamAttachedMsg, given to whatever is on top.
Attached(c) ==
  LET m == [k |-> "attached", c |-> c]
  IN  /\ InFlight(m)
      /\ IF ui.stack = << >> THEN SetUi(<< >>, {m}, {}) /\ UNCHANGED sock
         ELSE SetUi(Append(Front(ui.stack), c), {m}, {}) /\ sock' = Reading(c)
      /\ UNCHANGED <<target, thr, cap>>

\* streamEventMsg with a write: the screen on top reads on from its session.
Event ==
  /\ InFlight(Msg("event"))
  /\ IF ui.stack # << >> /\ Last(ui.stack) = NoConn THEN Over("over")   \* a panic
     ELSE /\ SetUi(ui.stack, {Msg("event")}, {})
          /\ sock' = IF ui.stack = << >> THEN sock ELSE Reading(Last(ui.stack))
          /\ UNCHANGED <<target, thr, cap>>

\* streamEventMsg without one, or streamErrMsg: a line of text.
End == InFlight(Msg("end")) /\ SetUi(ui.stack, {Msg("end")}, {}) /\ UNCHANGED <<target, thr, sock, cap>>

\* StreamSession.Next on one more piece of a line.  A line that is no JSON is
\* taken for the end.
Read(c) ==
  /\ ui.mode = "tui" /\ sock[c].readers > 0 /\ sock[c].out # << >>
  /\ LET l == Head(sock[c].out)
         goesOn == l \notin {"write", "cut", "stream_end", "error"}
     IN  /\ sock' = [sock EXCEPT ![c] = [sock[c] EXCEPT !.out = Tail(@),
                                                       !.readers = IF goesOn THEN @ ELSE @ - 1]]
         /\ SetUi(ui.stack, {}, IF goesOn THEN {} ELSE {Msg(IF l = "write" THEN "event" ELSE "end")})
  /\ UNCHANGED <<target, thr, cap>>

ReadClosed(c) ==
  /\ ui.mode = "tui" /\ sock[c].readers > 0
  /\ sock[c].client = "closed" \/ (sock[c].out = << >> /\ At(c, "gone"))
  /\ sock' = [sock EXCEPT ![c].readers = @ - 1]
  /\ SetUi(ui.stack, {}, {Msg("end")})
  /\ UNCHANGED <<target, thr, cap>>

----------------------------------------------------------------------------
(* A client of its own: it reads all it is sent, stops the stream, once in    *)
(* one write or in two, asks PING twice and leaves when it likes.             *)

Sent(r) == Len(SelectSeq(ui.sent, LAMBDA x : x = r))

RawSend(r) ==
  /\ ui.mode = "raw" /\ Sent(r) < (IF r = "PING" THEN 2 ELSE 1)
  /\ r = "OP" <=> Sent("ST") > Sent("OP")
  /\ \E c \in Conns :
       /\ sock[c].client = "open"
       /\ sock' = [sock EXCEPT ![c].in = @ \o Pieces(r)]
  /\ ui' = [ui EXCEPT !.sent = Append(@, r)]
  /\ UNCHANGED <<target, thr, cap>>

RawRead(c) ==
  /\ ui.mode = "raw" /\ sock[c].out # << >>
  /\ sock' = [sock EXCEPT ![c].out = Tail(@)]
  /\ UNCHANGED <<target, thr, ui, cap>>

RawClose == ui.mode = "raw" /\ Over("over")

----------------------------------------------------------------------------
\* hsed on its detail screen, or the other client with its STREAM sent.
Init ==
  /\ target = [st |-> "run", tracer |-> NoConn]
  /\ cap \in {MaxCapture(n) : n \in Captures}
  /\ \E mode \in {"tui", "raw"} :
       LET own(c) == mode = "raw" /\ c = CHOOSE x \in Conns : TRUE
       IN  /\ ui = [stack |-> << >>, cmds |-> EmptyBag, mode |-> mode, sent |-> << >>]
           /\ sock = [c \in Conns |-> [client |-> IF own(c) THEN "open" ELSE "new", out |-> << >>,
                                       in |-> IF own(c) THEN <<"STREAM">> ELSE << >>, readers |-> 0]]
           /\ thr = [c \in Conns |-> [pc |-> IF own(c) THEN "recv" ELSE "none", line |-> NoLine,
                                      left |-> 0, next |-> "recv"]]

ClientStep ==
  \/ Push \/ Pop \/ Open \/ Event \/ End
  \/ \E c \in Conns : Attached(c) \/ Read(c) \/ ReadClosed(c) \/ RawRead(c)

Next ==
  \/ Write \/ Die
  \/ \E c \in Conns : ThreadStep(c)
  \/ KeyStream \/ KeyEsc \/ Quit \/ ClientStep
  \/ \E r \in Request : RawSend(r)
  \/ RawClose

\* Threads of the daemon run; Bubble Tea delivers every message and runs every
\* command; a client of its own reads.  Nobody has to write, press a key or leave.
Fairness ==
  /\ \A c \in Conns : WF_vars(ThreadStep(c))
  /\ WF_vars(Push) /\ WF_vars(Pop) /\ WF_vars(Open) /\ WF_vars(Event) /\ WF_vars(End)
  /\ \A c \in Conns : WF_vars(Attached(c)) /\ WF_vars(Read(c) \/ ReadClosed(c)) /\ WF_vars(RawRead(c))

Spec == Init /\ [][Next]_vars /\ Fairness

----------------------------------------------------------------------------
(* Properties *)

\* The most --max-capture may be; the default is 200.
MaxWhole == 1461

\* No write event is cut by the 2048 bytes of hsed_send_linef, whatever the target
\* writes, as long as the daemon captures at most MaxWhole bytes.
LinesWhole == cap <= MaxWhole => \A c \in Conns : thr[c].line # "cut"

\* A patient user leaves no stream behind: every open connection is the session of
\* a stream screen, which Esc closes, or its message is on the way to one.
NoStrayStream ==
  ui.mode = "tui" =>
    \A c \in Conns : sock[c].client = "open" =>
      \/ \E i \in DOMAIN ui.stack : ui.stack[i] = c
      \/ ui.stack # << >> /\ BagIn([k |-> "attached", c |-> c], ui.cmds)

\* A patient user's screen reads on only when its own event arrives: never do two
\* goroutines read from one bufio.Reader, and no event comes to a screen whose
\* session is not there yet, which would read from nil.
OneReader ==
  /\ \A c \in Conns : sock[c].readers <= 1
  /\ ui.stack # << >> /\ Last(ui.stack) = NoConn => Still({"event"})

\* README: hsedd "only interrupts each thread briefly".  A thread that is stopped for
\* its write goes on, although the line about it is sent first on a socket that may
\* be full: the client reads, or it leaves.
TargetResumed == (target.st = "stopped" /\ cap <= MaxWhole) ~> target.st # "stopped"

\* What a client has sent before its i-th write.
Before(i) == FlattenSeq([k \in 1 .. i - 1 |-> Pieces(ui.sent[k])])

\* STOP in one write ends the stream, also when it is sent before the attach or behind
\* other requests that leave it room in the buffer of one recv.  A target that never
\* pauses is excepted, as stream_poll_cb is only called when no stop is pending.
StopHeard ==
  <>[](target.st # "stopped") =>
    ((/\ ui.mode = "raw"
      /\ \E i \in DOMAIN ui.sent : ui.sent[i] = "STOP" /\ Len(Before(i)) + 2 <= PollRoom)
       ~> target.tracer = NoConn)

Service == INSTANCE StreamService
  WITH Sessions <- Conns,
       Tids     <- {"writer"},
       phase    <- [c \in Conns |->
                      CASE At(c, "attach") -> "attaching"
                        [] At(c, "detach") -> "closing"
                        [] target.tracer = c -> "streaming"
                        [] OTHER -> "idle"],
       watched  <- [c \in Conns |-> IF target.tracer = c THEN {"writer"} ELSE {}],
       writing  <- [c \in Conns |->
                      IF target.tracer = c /\ ((thr[c].next = "resume" /\ At(c, "send")) \/ At(c, "resume"))
                      THEN {"writer"} ELSE {}]

\* The stream as the socket carries it is the one StreamService promises: it begins
\* only when asked for, reports a write only of a thread that it watches, and has let
\* go of the target when it is over.
ImplementsService == Service!Spec
=============================================================================
