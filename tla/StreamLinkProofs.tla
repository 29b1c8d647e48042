-------------------------- MODULE StreamLinkProofs --------------------------
(***************************************************************************)
(* The live stream from end to end, for any number of connections, any     *)
(* capacity of the socket, any writes and any --max-capture: its types,    *)
(* that no write event is cut, that it is the stream StreamService         *)
(* promises, and that a patient user of hsed leaves no stream behind and   *)
(* never has two goroutines read one connection.                           *)
(***************************************************************************)
EXTENDS StreamLink, DataLemmas, SequenceTheorems

Labels == {"none", "recv", "attach", "alloc", "loop", "send", "resume", "detach", "gone"}
Thread == [pc : Labels, line : Lines \cup {NoLine}, left : 0 .. 2,
           next : {"recv", "alloc", "resume"}]
Socket == [client : {"new", "open", "closed"}, in : Seq(Piece),
           out : Seq(Lines \cup {NoLine}), readers : Nat]

\* The labels at which hsed_trace_fd has the target attached; a line that is
\* being sent is part of what comes after it.
Tracing(th) ==
  \/ th.pc \in {"alloc", "loop", "resume", "detach"}
  \/ th.pc = "send" /\ th.next \in {"alloc", "resume"}

\* send() is called at most twice for a line.
Sending(th) == th.pc = "send" => th.left \in 1 .. 2

\* The thread that has the target attached is the one ptrace knows as its tracer,
\* and no thread serves a connection that has not been opened.
ThreadOK(c) ==
  /\ Sending(thr[c])
  /\ target.tracer = c <=> Tracing(thr[c])
  /\ sock[c].client = "new" => thr[c].pc = "none"

\* A connection as StreamService sees it.
Phase(th) ==
  CASE th.pc = "attach" -> "attaching"
    [] th.pc = "detach" -> "closing"
    [] th.pc \notin {"attach", "detach"} /\ Tracing(th) -> "streaming"
    [] OTHER -> "idle"
Watched(th) == IF Tracing(th) THEN {"writer"} ELSE {}
Writing(th) == IF (th.next = "resume" /\ th.pc = "send") \/ th.pc = "resume" THEN {"writer"} ELSE {}

Shows(th, p, w, x) == Phase(th) = p /\ Watched(th) = w /\ Writing(th) = x

\* The steps of StreamService that a connection thread takes.
Promised(m, n) ==
  \/ Shows(n, Phase(m), Watched(m), Writing(m))
  \/ Phase(m) = "idle" /\ Shows(n, "attaching", {}, {})
  \/ Phase(m) = "attaching" /\ Shows(n, "idle", {}, {})
  \/ Phase(m) = "attaching" /\ Shows(n, "streaming", {"writer"}, {})
  \/ Shows(m, "streaming", {"writer"}, {}) /\ Shows(n, "streaming", {"writer"}, {"writer"})
  \/ Shows(m, "streaming", {"writer"}, {"writer"}) /\ Shows(n, "streaming", {"writer"}, {})
  \/ Phase(m) = "streaming" /\ Shows(n, "closing", Watched(m), Writing(m))
  \/ Phase(m) \in {"streaming", "closing"} /\ Shows(n, "idle", {}, {})

Target == [st : {"run", "stopped", "dead"}, tracer : Conns \cup {NoConn}]

\* What a step of a connection thread is, whatever the program at the other end
\* does: the thread goes from m to n, its socket from j to k.
Stepped(c, m, n, j, k) ==
  /\ thr' = [thr EXCEPT ![c] = n] /\ sock' = [sock EXCEPT ![c] = k]
  /\ n \in Thread /\ k \in Socket
  /\ k.client = j.client /\ k.readers = j.readers /\ Len(k.out) <= Capacity
  /\ m.pc # "none"
  /\ Sending(n) /\ Promised(m, n)
  /\ n.line = "cut" => m.line = "cut" \/ cap > MaxWhole
  /\ target' \in Target
  /\ \/ target'.tracer = target.tracer /\ (Tracing(n) <=> Tracing(m))
     \/ target.tracer = NoConn /\ target'.tracer = c /\ Tracing(n)
     \/ target.tracer = c /\ target'.tracer = NoConn /\ ~Tracing(n)
  /\ ui' = ui /\ cap' = cap

UiShape == DOMAIN ui = {"stack", "cmds", "mode", "sent"}
Stacks == Seq(Conns \cup {NoConn})
UiOK ==
  /\ UiShape
  /\ ui.stack \in Stacks /\ IsABag(ui.cmds) /\ BagToSet(ui.cmds) \subseteq Msgs
  /\ ui.mode \in {"tui", "raw", "over"}
  /\ ui.sent \in Seq(Request)

LinkInv == TypeOK /\ UiShape /\ \A c \in Conns : ThreadOK(c)

----------------------------------------------------------------------------
(* Numbers and sequences *)

LEMMA MinType ==
  ASSUME NEW a \in Int, NEW b \in Int
  PROVE  Min({a, b}) \in {a, b} /\ Min({a, b}) <= a /\ Min({a, b}) <= b
<1>1. \E x \in {a, b} : \A y \in {a, b} : x <= y
  <2>1. CASE a <= b BY <2>1
  <2>2. CASE b <= a BY <2>2
  <2> QED BY <2>1, <2>2
<1> QED
  BY <1>1 DEF Min

LEMMA CaptureType == ASSUME NEW n \in Nat PROVE MaxCapture(n) \in 1 .. MAX_CAPTURE_HARD_LIMIT
<1> DEFINE L == MAX_CAPTURE_HARD_LIMIT
           m == Min({n, L})
<1>1. L \in Int /\ L >= 200
  BY DEF MAX_CAPTURE_HARD_LIMIT
<1>2. MaxCapture(n) = IF n = 0 THEN 200 ELSE m
  BY DEF MaxCapture
<1> HIDE DEF L
<1>3. m \in {n, L} /\ m <= L
  BY <1>1, MinType
<1> HIDE DEF m
<1>4. MaxCapture(n) \in 1 .. L
  BY <1>1, <1>2, <1>3
<1> QED
  BY <1>4 DEF L

LEMMA FrontType ==
  ASSUME NEW S, NEW s \in Seq(S), s # << >>
  PROVE  Front(s) \in Seq(S) /\ Last(s) \in S
<1>1. Front(s) \in Seq(S)
  BY DEF Front
<1>2. Last(s) \in S
  BY DEF Last
<1> QED
  BY <1>1, <1>2

\* A write event of MaxWhole bytes still fits into the 2048 bytes of a line.
LEMMA WholeFits == ASSUME NEW n \in 0 .. MaxWhole PROVE Whole(WriteLen(n))
<1>1. (n + 2) \div 3 <= 487
  BY DEF MaxWhole
<1>2. (n + 2) \div 3 \in Int
  BY DEF MaxWhole
<1>3. WriteLen(n) = 96 + ((n + 2) \div 3) * 4
  BY <1>2 DEF WriteLen, hsed_base64_encoded_len
<1> QED
  BY <1>1, <1>2, <1>3 DEF Whole, LineBuf

----------------------------------------------------------------------------
(* The connection threads *)

LEMMA RecvRest ==
  ASSUME NEW s \in Seq(Piece), FirstLine(s) > 0
  PROVE  SubSeq(s, FirstLine(s) + 1, Len(s)) \in Seq(Piece)
BY DEF FirstLine

LEMMA UnreadType == ASSUME NEW s \in Seq(Piece) PROVE Unread(s) \in Seq(Piece)
<1> DEFINE m == Min({PollRoom, Len(s)})
<1>1. PollRoom \in Int /\ Len(s) \in Int /\ Len(s) \in Nat
  <2>1. PollRoom \in Nat
    BY LinkAssumption
  <2> QED
    BY <2>1
<1>2. m \in {PollRoom, Len(s)} /\ m <= Len(s)
  BY <1>1, MinType
<1>3. m \in Nat
  BY <1>1, <1>2, LinkAssumption
<1> HIDE DEF m
<1>4. SubSeq(s, m + 1, Len(s)) \in Seq(Piece)
  BY <1>1, <1>2, <1>3
<1> QED
  BY <1>4 DEF Unread, m

LEMMA SaidType ==
  ASSUME NEW m \in Thread, m.pc = "send", Sending(m)
  PROVE  /\ SaidAll(m) \in Thread /\ SaidAll(m).pc = m.next
         /\ SaidAll(m).next = m.next /\ SaidAll(m).line = NoLine
         /\ SaidMore(m) \in Thread
         /\ \/ SaidMore(m) = SaidAll(m)
            \/ /\ SaidMore(m).pc = "send" /\ SaidMore(m).next = m.next
               /\ SaidMore(m).line = m.line /\ SaidMore(m).left = 1
<1>1. /\ SaidAll(m) \in Thread /\ SaidAll(m).pc = m.next
      /\ SaidAll(m).next = m.next /\ SaidAll(m).line = NoLine
  <2>1. SaidAll(m) = [pc |-> m.next, line |-> NoLine, left |-> 0, next |-> m.next]
    BY DEF SaidAll, Thread
  <2>2. m.next \in {"recv", "alloc", "resume"}
    BY DEF Thread
  <2> QED
    BY <2>1, <2>2 DEF Thread, Labels
<1>2. CASE m.left = 1
  BY <1>1, <1>2 DEF SaidMore
<1>3. CASE m.left = 2
  <2>1. SaidMore(m) = [m EXCEPT !.left = 1]
    BY <1>3 DEF SaidMore
  <2> QED BY <1>1, <2>1 DEF Thread
<1> QED
  BY <1>2, <1>3, <1>1 DEF Sending

LEMMA SocketOut ==
  ASSUME NEW j \in Socket, NEW o \in Seq(Lines \cup {NoLine})
  PROVE  LET k == [j EXCEPT !.out = o]
         IN  k \in Socket /\ k.client = j.client /\ k.readers = j.readers /\ k.out = o /\ k.in = j.in
BY DEF Socket

LEMMA SocketIn ==
  ASSUME NEW j \in Socket, NEW i \in Seq(Piece)
  PROVE  LET k == [j EXCEPT !.in = i]
         IN  k \in Socket /\ k.client = j.client /\ k.readers = j.readers /\ k.out = j.out /\ k.in = i
BY DEF Socket

LEMMA LinkTypes ==
  ASSUME LinkInv, NEW c \in Conns
  PROVE  /\ thr[c] \in Thread /\ sock[c] \in Socket /\ Len(sock[c].out) <= Capacity
         /\ thr \in [Conns -> Thread] /\ sock \in [Conns -> Socket]
         /\ target \in Target
         /\ Capacity \in Nat /\ c # NoConn /\ cap \in Nat /\ cap > 0
         /\ Sending(thr[c]) /\ (target.tracer = c <=> Tracing(thr[c]))
<1>1. thr \in [Conns -> Thread] /\ sock \in [Conns -> Socket]
  BY DEF LinkInv, TypeOK, Thread, Labels, Socket
<1>2. /\ target \in Target
      /\ Capacity \in Nat /\ c # NoConn
      /\ Len(sock[c].out) <= Capacity
  BY LinkAssumption DEF LinkInv, TypeOK, Target
<1>4. cap \in Nat /\ cap > 0
  <2>1. MAX_CAPTURE_HARD_LIMIT \in Int
    BY DEF MAX_CAPTURE_HARD_LIMIT
  <2> QED
    BY <2>1 DEF LinkInv, TypeOK
<1>3. Sending(thr[c]) /\ (target.tracer = c <=> Tracing(thr[c]))
  BY DEF LinkInv, ThreadOK
<1>5. thr[c] \in Thread /\ sock[c] \in Socket
  BY <1>1
<1> QED
  BY <1>1, <1>2, <1>3, <1>4, <1>5

LEMMA SendSteps ==
  ASSUME LinkInv, NEW c \in Conns, Send(c)
  PROVE  \E n, k : Stepped(c, thr[c], n, sock[c], k)
<1> DEFINE m == thr[c]
           j == sock[c]
<1>1. /\ m \in Thread /\ j \in Socket /\ Len(j.out) <= Capacity
      /\ thr \in [Conns -> Thread] /\ sock \in [Conns -> Socket]
      /\ target \in Target
      /\ Capacity \in Nat /\ c # NoConn
      /\ Sending(m) /\ (target.tracer = c <=> Tracing(m)) /\ m.pc = "send"
  BY LinkTypes DEF Send, At
<1>2. /\ SaidAll(m) \in Thread /\ SaidAll(m).pc = m.next
      /\ SaidAll(m).next = m.next /\ SaidAll(m).line = NoLine
      /\ SaidMore(m) \in Thread
      /\ \/ SaidMore(m) = SaidAll(m)
         \/ /\ SaidMore(m).pc = "send" /\ SaidMore(m).next = m.next
            /\ SaidMore(m).line = m.line /\ SaidMore(m).left = 1
  BY <1>1, SaidType
<1>3. ASSUME NEW n \in {SaidAll(m), SaidMore(m)}
      PROVE  /\ n \in Thread /\ Sending(n) /\ Promised(m, n) /\ (Tracing(n) <=> Tracing(m))
             /\ n.line = "cut" => m.line = "cut"
  <2>1. /\ n \in Thread /\ n.next = m.next /\ (n.line = m.line \/ n.line = NoLine)
        /\ n.pc = m.next \/ (n.pc = "send" /\ n.left = 1)
    BY <1>2
  <2>2. m.next \in {"recv", "alloc", "resume"}
    BY <1>1 DEF Thread
  <2>3. Sending(n) /\ (Tracing(n) <=> Tracing(m))
    BY <1>1, <2>1, <2>2 DEF Sending, Tracing
  <2>4. Phase(n) = Phase(m) /\ Watched(n) = Watched(m) /\ Writing(n) = Writing(m)
    BY <1>1, <2>1, <2>2, <2>3 DEF Phase, Watched, Writing
  <2> QED
    BY <2>1, <2>3, <2>4 DEF Promised, Shows, NoLine
<1> HIDE DEF m, j
<1>4. CASE /\ sock[c].client # "closed" /\ Len(sock[c].out) < Capacity
           /\ sock' = [sock EXCEPT ![c].out =
                      Append(@, IF thr[c].left = 1 THEN thr[c].line ELSE NoLine)]
           /\ thr' = [thr EXCEPT ![c] = SaidMore(@)]
  <2> DEFINE l == IF m.left = 1 THEN m.line ELSE NoLine
             k == [j EXCEPT !.out = Append(j.out, l)]
  <2>1. l \in Lines \cup {NoLine} /\ j.out \in Seq(Lines \cup {NoLine})
    BY <1>1 DEF Thread, Socket
  <2>2. sock' = [sock EXCEPT ![c] = k] /\ thr' = [thr EXCEPT ![c] = SaidMore(m)]
    BY <1>1, <1>4 DEF m, j
  <2>3. Len(j.out) < Capacity
    BY <1>4 DEF j
  <2> HIDE DEF l
  <2>4. Append(j.out, l) \in Seq(Lines \cup {NoLine}) /\ Len(Append(j.out, l)) = Len(j.out) + 1
    BY <2>1, AppendProperties
  <2>5. Len(j.out) \in Nat
    BY <2>1, LenProperties
  <2>6. k \in Socket /\ k.client = j.client /\ k.readers = j.readers /\ Len(k.out) <= Capacity
    <3> DEFINE o == Append(j.out, l)
    <3>1. o \in Seq(Lines \cup {NoLine}) /\ Len(o) <= Capacity
      BY <1>1, <2>3, <2>4, <2>5
    <3> HIDE DEF o
    <3> QED
      BY <1>1, <3>1, SocketOut DEF o
  <2> HIDE DEF k
  <2>7. Stepped(c, m, SaidMore(m), j, k)
    BY <1>1, <1>3, <2>2, <2>6 DEF Stepped, Send
  <2> QED
    BY <2>7 DEF m, j
<1>5. CASE thr' = [thr EXCEPT ![c] = SaidAll(@)] /\ UNCHANGED sock
  <2>1. sock' = [sock EXCEPT ![c] = j] /\ thr' = [thr EXCEPT ![c] = SaidAll(m)]
    BY <1>1, <1>5 DEF m, j
  <2>2. Stepped(c, m, SaidAll(m), j, j)
    BY <1>1, <1>3, <2>1 DEF Stepped, Send
  <2> QED
    BY <2>2 DEF m, j
<1> QED
  BY <1>4, <1>5 DEF Send

\* What StreamService sees of a thread at each of its labels.
LEMMA Views ==
  ASSUME NEW n
  PROVE  /\ n.pc \in {"none", "recv", "gone"} => Shows(n, "idle", {}, {}) /\ ~Tracing(n)
         /\ n.pc = "attach" => Shows(n, "attaching", {}, {}) /\ ~Tracing(n)
         /\ n.pc \in {"alloc", "loop"} => Shows(n, "streaming", {"writer"}, {}) /\ Tracing(n)
         /\ n.pc = "resume" => Shows(n, "streaming", {"writer"}, {"writer"}) /\ Tracing(n)
         /\ n.pc = "detach" => Shows(n, "closing", {"writer"}, {}) /\ Tracing(n)
         /\ n.pc = "send" =>
              /\ n.next = "recv" => Shows(n, "idle", {}, {}) /\ ~Tracing(n)
              /\ n.next = "alloc" => Shows(n, "streaming", {"writer"}, {}) /\ Tracing(n)
              /\ n.next = "resume" => Shows(n, "streaming", {"writer"}, {"writer"}) /\ Tracing(n)
BY DEF Shows, Phase, Watched, Writing, Tracing

LEMMA SayType ==
  ASSUME NEW l \in Lines, NEW next \in {"recv", "alloc", "resume"}
  PROVE  LET n == [pc |-> "send", line |-> l, left |-> 2, next |-> next]
         IN  n \in Thread /\ Sending(n) /\ n.pc = "send" /\ n.line = l /\ n.next = next
BY DEF Thread, Labels, Sending

LEMMA GotoType ==
  ASSUME NEW m \in Thread, NEW p \in Labels \ {"send"}
  PROVE  LET n == [m EXCEPT !.pc = p]
         IN  n \in Thread /\ Sending(n) /\ n.pc = p /\ n.line = m.line
BY DEF Thread, Sending

\* A thread that says a line and goes nowhere else.
LEMMA SaySteps ==
  ASSUME LinkInv, NEW c \in Conns, NEW l \in Lines, NEW next \in {"recv", "alloc", "resume"},
         Say(c, l, next), thr[c].pc # "none", l = "cut" => cap > MaxWhole,
         NEW k \in Socket, sock' = [sock EXCEPT ![c] = k],
         k.client = sock[c].client, k.readers = sock[c].readers, Len(k.out) <= Capacity,
         target' \in Target,
         ui' = ui, cap' = cap,
         LET n == [pc |-> "send", line |-> l, left |-> 2, next |-> next]
         IN  /\ Promised(thr[c], n)
             /\ \/ target'.tracer = target.tracer /\ (Tracing(n) <=> Tracing(thr[c]))
                \/ target.tracer = NoConn /\ target'.tracer = c /\ Tracing(n)
                \/ target.tracer = c /\ target'.tracer = NoConn /\ ~Tracing(n)
  PROVE  \E n, j : Stepped(c, thr[c], n, sock[c], j)
<1> DEFINE n == [pc |-> "send", line |-> l, left |-> 2, next |-> next]
<1>1. n \in Thread /\ Sending(n) /\ n.line = l
  BY SayType
<1>2. thr' = [thr EXCEPT ![c] = n]
  BY DEF Say
<1> HIDE DEF n
<1>3. Stepped(c, thr[c], n, sock[c], k)
  BY <1>1, <1>2 DEF Stepped, n
<1> QED
  BY <1>3

\* A thread that goes to another label.
LEMMA GotoSteps ==
  ASSUME LinkInv, NEW c \in Conns, NEW p \in Labels \ {"send"}, Goto(c, p), thr[c].pc # "none",
         NEW k \in Socket, sock' = [sock EXCEPT ![c] = k],
         k.client = sock[c].client, k.readers = sock[c].readers, Len(k.out) <= Capacity,
         target' \in Target,
         target'.tracer = target.tracer, ui' = ui, cap' = cap,
         \A n : n.pc = p => Promised(thr[c], n) /\ (Tracing(n) <=> Tracing(thr[c]))
  PROVE  \E n, j : Stepped(c, thr[c], n, sock[c], j)
<1> DEFINE n == [thr[c] EXCEPT !.pc = p]
<1>1. thr[c] \in Thread /\ thr \in [Conns -> Thread]
  BY LinkTypes
<1>2. n \in Thread /\ Sending(n) /\ n.line = thr[c].line /\ n.pc = p
  BY <1>1, GotoType
<1>3. thr' = [thr EXCEPT ![c] = n]
  BY <1>1 DEF Goto
<1> HIDE DEF n
<1>4. Stepped(c, thr[c], n, sock[c], k)
  BY <1>2, <1>3 DEF Stepped
<1> QED
  BY <1>4

LEMMA TargetType ==
  ASSUME target \in Target, NEW x \in Conns \cup {NoConn}
  PROVE  /\ Running(target) \in Target /\ Running(target).tracer = target.tracer
         /\ [target EXCEPT !.tracer = x] \in Target
         /\ [target EXCEPT !.tracer = x].tracer = x
         /\ [Running(target) EXCEPT !.tracer = x] \in Target
         /\ [Running(target) EXCEPT !.tracer = x].tracer = x
BY DEF Target, Running

LEMMA SockStays ==
  ASSUME LinkInv, NEW c \in Conns, UNCHANGED sock
  PROVE  /\ sock[c] \in Socket /\ sock' = [sock EXCEPT ![c] = sock[c]]
         /\ Len(sock[c].out) <= Capacity
<1>1. sock[c] \in Socket /\ sock \in [Conns -> Socket] /\ Len(sock[c].out) <= Capacity
  BY LinkTypes
<1> QED
  BY <1>1

LEMMA RecvSteps ==
  ASSUME LinkInv, NEW c \in Conns, Recv(c)
  PROVE  \E n, k : Stepped(c, thr[c], n, sock[c], k)
<1> DEFINE j == sock[c]
           i == SubSeq(j.in, FirstLine(j.in) + 1, Len(j.in))
           k == [j EXCEPT !.in = i]
<1>1. /\ j \in Socket /\ sock \in [Conns -> Socket] /\ Len(j.out) <= Capacity
      /\ target \in Target /\ thr[c].pc = "recv"
  BY LinkTypes DEF Recv, At
<1>2. j.in \in Seq(Piece) /\ FirstLine(j.in) > 0
  BY <1>1 DEF Recv, Socket
<1>3. i \in Seq(Piece)
  BY <1>2, RecvRest
<1>4. sock' = [sock EXCEPT ![c] = k]
  BY <1>1 DEF Recv
<1> HIDE DEF i
<1>5. k \in Socket /\ k.client = j.client /\ k.readers = j.readers /\ k.out = j.out
  BY <1>1, <1>3, SocketIn
<1> HIDE DEF k, j
<1>6. /\ target' = target /\ ui' = ui /\ cap' = cap
      /\ k.client = sock[c].client /\ k.readers = sock[c].readers /\ Len(k.out) <= Capacity
  BY <1>1, <1>5 DEF Recv, j
<1>7. Shows(thr[c], "idle", {}, {}) /\ ~Tracing(thr[c])
  BY <1>1, Views
<1>8. CASE Goto(c, "attach")
  <2>1. \A n : n.pc = "attach" => Promised(thr[c], n) /\ (Tracing(n) <=> Tracing(thr[c]))
    BY <1>7, Views DEF Promised, Shows
  <2>2. "attach" \in Labels \ {"send"}
    BY DEF Labels
  <2> QED
    BY <1>1, <1>4, <1>5, <1>6, <1>8, <2>1, <2>2, GotoSteps
<1>9. ASSUME NEW l \in {"pong", "error"}, Say(c, l, "recv")
      PROVE  \E n, jj : Stepped(c, thr[c], n, sock[c], jj)
  <2> DEFINE n == [pc |-> "send", line |-> l, left |-> 2, next |-> "recv"]
  <2>1. l \in Lines /\ l # "cut"
    BY DEF Lines
  <2>2. n.pc = "send" /\ n.next = "recv"
    OBVIOUS
  <2> HIDE DEF n
  <2>3. Promised(thr[c], n) /\ (Tracing(n) <=> Tracing(thr[c]))
    BY <1>7, <2>2, Views DEF Promised, Shows
  <2> QED
    BY <1>1, <1>4, <1>5, <1>6, <1>9, <2>1, <2>3, SaySteps DEF n
<1> QED
  BY <1>8, <1>9 DEF Recv

\* A thread that says a line and leaves its socket alone.
LEMMA SayStepsOnly ==
  ASSUME LinkInv, NEW c \in Conns, NEW l \in Lines, NEW next \in {"recv", "alloc", "resume"},
         Say(c, l, next), thr[c].pc # "none", l = "cut" => cap > MaxWhole,
         target' \in Target, UNCHANGED <<sock, ui, cap>>,
         \A n : n.pc = "send" /\ n.next = next =>
           /\ Promised(thr[c], n)
           /\ \/ target'.tracer = target.tracer /\ (Tracing(n) <=> Tracing(thr[c]))
              \/ target.tracer = NoConn /\ target'.tracer = c /\ Tracing(n)
              \/ target.tracer = c /\ target'.tracer = NoConn /\ ~Tracing(n)
  PROVE  \E n, k : Stepped(c, thr[c], n, sock[c], k)
<1> DEFINE n == [pc |-> "send", line |-> l, left |-> 2, next |-> next]
<1>1. /\ sock[c] \in Socket /\ sock' = [sock EXCEPT ![c] = sock[c]]
      /\ Len(sock[c].out) <= Capacity
  BY SockStays
<1>2. n.pc = "send" /\ n.next = next
  OBVIOUS
<1> HIDE DEF n
<1>3. /\ Promised(thr[c], n)
      /\ \/ target'.tracer = target.tracer /\ (Tracing(n) <=> Tracing(thr[c]))
         \/ target.tracer = NoConn /\ target'.tracer = c /\ Tracing(n)
         \/ target.tracer = c /\ target'.tracer = NoConn /\ ~Tracing(n)
  BY <1>2
<1> QED
  BY <1>1, <1>3, SaySteps DEF n

\* A thread that goes to another label and leaves its socket alone.
LEMMA GotoStepsOnly ==
  ASSUME LinkInv, NEW c \in Conns, NEW p \in Labels \ {"send"}, Goto(c, p), thr[c].pc # "none",
         target' \in Target, target'.tracer = target.tracer, UNCHANGED <<sock, ui, cap>>,
         \A n : n.pc = p => Promised(thr[c], n) /\ (Tracing(n) <=> Tracing(thr[c]))
  PROVE  \E n, k : Stepped(c, thr[c], n, sock[c], k)
<1>1. /\ sock[c] \in Socket /\ sock' = [sock EXCEPT ![c] = sock[c]]
      /\ Len(sock[c].out) <= Capacity
  BY SockStays
<1> QED
  BY <1>1, GotoSteps

LEMMA RecvClosedSteps ==
  ASSUME LinkInv, NEW c \in Conns, RecvClosed(c)
  PROVE  \E n, k : Stepped(c, thr[c], n, sock[c], k)
<1>1. thr[c].pc = "recv" /\ target' = target /\ target \in Target
  BY LinkTypes DEF RecvClosed, At
<1>2. \A n : n.pc = "gone" => Promised(thr[c], n) /\ (Tracing(n) <=> Tracing(thr[c]))
  BY <1>1, Views DEF Promised, Shows
<1>3. "gone" \in Labels \ {"send"}
  BY DEF Labels
<1> QED
  BY <1>1, <1>2, <1>3, GotoStepsOnly DEF RecvClosed

LEMMA AttachSteps ==
  ASSUME LinkInv, NEW c \in Conns, Attach(c)
  PROVE  \E n, k : Stepped(c, thr[c], n, sock[c], k)
<1>1. thr[c].pc = "attach" /\ target \in Target /\ "attached" \in Lines /\ "error" \in Lines
  BY LinkTypes DEF Attach, At, Lines
<1>2. Shows(thr[c], "attaching", {}, {}) /\ ~Tracing(thr[c])
  BY <1>1, Views
<1>3. CASE /\ target.tracer = NoConn /\ target' = [target EXCEPT !.tracer = c]
           /\ Say(c, "attached", "alloc")
  <2>1. target' \in Target /\ target'.tracer = c
    BY <1>1, <1>3, TargetType
  <2>2. \A n : n.pc = "send" /\ n.next = "alloc" => Promised(thr[c], n) /\ Tracing(n)
    BY <1>2, Views DEF Promised, Shows
  <2> QED
    BY <1>1, <1>3, <2>1, <2>2, SayStepsOnly DEF Attach
<1>4. CASE Say(c, "error", "recv") /\ UNCHANGED target
  <2>1. \A n : n.pc = "send" /\ n.next = "recv" =>
           Promised(thr[c], n) /\ (Tracing(n) <=> Tracing(thr[c]))
    BY <1>2, Views DEF Promised, Shows
  <2> QED
    BY <1>1, <1>4, <2>1, SayStepsOnly DEF Attach
<1> QED
  BY <1>3, <1>4 DEF Attach

LEMMA AllocSteps ==
  ASSUME LinkInv, NEW c \in Conns, Alloc(c)
  PROVE  \E n, k : Stepped(c, thr[c], n, sock[c], k)
<1>1. thr[c].pc = "alloc" /\ target \in Target /\ "error" \in Lines
  BY LinkTypes DEF Alloc, At, Lines
<1>2. Shows(thr[c], "streaming", {"writer"}, {}) /\ Tracing(thr[c])
  BY <1>1, Views
<1>3. CASE Goto(c, "loop") /\ UNCHANGED target
  <2>1. \A n : n.pc = "loop" => Promised(thr[c], n) /\ (Tracing(n) <=> Tracing(thr[c]))
    BY <1>2, Views DEF Promised, Shows
  <2>2. "loop" \in Labels \ {"send"}
    BY DEF Labels
  <2> QED
    BY <1>1, <1>3, <2>1, <2>2, GotoStepsOnly DEF Alloc
<1>4. CASE /\ target' = [Running(target) EXCEPT !.tracer = NoConn]
           /\ Say(c, "error", "recv")
  <2>1. target' \in Target /\ target'.tracer = NoConn
    BY <1>1, <1>4, TargetType
  <2>2. target.tracer = c
    BY <1>2, LinkTypes
  <2>3. \A n : n.pc = "send" /\ n.next = "recv" => Promised(thr[c], n) /\ ~Tracing(n)
    BY <1>2, Views DEF Promised, Shows
  <2> QED
    BY <1>1, <1>4, <2>1, <2>2, <2>3, SayStepsOnly DEF Alloc
<1> QED
  BY <1>3, <1>4 DEF Alloc

LEMMA ReapSteps ==
  ASSUME LinkInv, NEW c \in Conns, Reap(c)
  PROVE  \E n, k : Stepped(c, thr[c], n, sock[c], k)
<1>1. /\ thr[c].pc = "loop" /\ target \in Target /\ target' = target
      /\ "write" \in Lines /\ "cut" \in Lines /\ cap \in Nat
  BY LinkTypes DEF Reap, At, Lines
<1>2. Shows(thr[c], "streaming", {"writer"}, {}) /\ Tracing(thr[c])
  BY <1>1, Views
<1>3. PICK w \in Writes :
        \/ Say(c, IF Whole(WriteLen(Captured(w))) THEN "write" ELSE "cut", "resume")
        \/ Goto(c, "resume")
  BY DEF Reap
<1> DEFINE n == Captured(w)
           l == IF Whole(WriteLen(n)) THEN "write" ELSE "cut"
<1>4. CASE Say(c, l, "resume")
  <2>1. l \in Lines
    BY <1>1
  <2>2. cap <= MaxWhole => Whole(WriteLen(n))
    <3> SUFFICES ASSUME cap <= MaxWhole PROVE Whole(WriteLen(n))
      OBVIOUS
    <3>1. w \in Nat
      BY LinkAssumption
    <3>2. n \in 0 .. MaxWhole
      BY <1>1, <3>1 DEF Captured, MaxWhole
    <3> QED
      BY <3>2, WholeFits
  <2>3. l = "cut" => cap > MaxWhole
    <3>1. MaxWhole \in Int
      BY DEF MaxWhole
    <3> QED BY <1>1, <2>2, <3>1
  <2> HIDE DEF l
  <2>4. \A th : th.pc = "send" /\ th.next = "resume" =>
           Promised(thr[c], th) /\ (Tracing(th) <=> Tracing(thr[c]))
    BY <1>2, Views DEF Promised
  <2> QED
    BY <1>1, <1>4, <2>1, <2>3, <2>4, SayStepsOnly DEF Reap
<1>5. CASE Goto(c, "resume")
  <2>1. \A th : th.pc = "resume" => Promised(thr[c], th) /\ (Tracing(th) <=> Tracing(thr[c]))
    BY <1>2, Views DEF Promised
  <2>2. "resume" \in Labels \ {"send"}
    BY DEF Labels
  <2> QED
    BY <1>1, <1>5, <2>1, <2>2, GotoStepsOnly DEF Reap
<1> QED
  BY <1>3, <1>4, <1>5

LEMMA ResumeSteps ==
  ASSUME LinkInv, NEW c \in Conns, Resume(c)
  PROVE  \E n, k : Stepped(c, thr[c], n, sock[c], k)
<1>1. thr[c].pc = "resume" /\ target \in Target /\ target' = Running(target)
  BY LinkTypes DEF Resume, At
<1>2. target' \in Target /\ target'.tracer = target.tracer
  BY <1>1, TargetType
<1>3. \A n : n.pc = "loop" => Promised(thr[c], n) /\ (Tracing(n) <=> Tracing(thr[c]))
  BY <1>1, Views DEF Promised
<1>4. "loop" \in Labels \ {"send"}
  BY DEF Labels
<1> QED
  BY <1>1, <1>2, <1>3, <1>4, GotoStepsOnly DEF Resume

LEMMA PollSteps ==
  ASSUME LinkInv, NEW c \in Conns, Poll(c)
  PROVE  \E n, k : Stepped(c, thr[c], n, sock[c], k)
<1>1. /\ thr[c].pc = "loop" /\ target \in Target /\ target' = target
      /\ thr[c] \in Thread /\ thr \in [Conns -> Thread] /\ Sending(thr[c])
      /\ sock[c] \in Socket /\ sock \in [Conns -> Socket] /\ Len(sock[c].out) <= Capacity
  BY LinkTypes DEF Poll, At
<1>2. \A n : n.pc = "detach" => Promised(thr[c], n) /\ (Tracing(n) <=> Tracing(thr[c]))
  BY <1>1, Views DEF Promised, Shows
<1>3. "detach" \in Labels \ {"send"}
  BY DEF Labels
<1>4. CASE /\ thr' = IF HasStop(Received(sock[c].in)) THEN [thr EXCEPT ![c].pc = "detach"] ELSE thr
           /\ sock' = [sock EXCEPT ![c].in = Unread(@)]
  <2> DEFINE k == [sock[c] EXCEPT !.in = Unread(sock[c].in)]
  <2>1. Unread(sock[c].in) \in Seq(Piece)
    BY <1>1, UnreadType DEF Socket
  <2>2. /\ k \in Socket /\ k.client = sock[c].client /\ k.readers = sock[c].readers
        /\ k.out = sock[c].out
    BY <1>1, <2>1, SocketIn
  <2>3. sock' = [sock EXCEPT ![c] = k]
    BY <1>1, <1>4
  <2> HIDE DEF k
  <2>4. CASE Goto(c, "detach")
    BY <1>1, <1>2, <1>3, <2>2, <2>3, <2>4, GotoSteps DEF Poll
  <2>5. CASE thr' = thr
    <3>1. thr' = [thr EXCEPT ![c] = thr[c]]
      BY <1>1, <2>5
    <3>2. Promised(thr[c], thr[c])
      BY DEF Promised, Shows
    <3>3. Stepped(c, thr[c], thr[c], sock[c], k)
      BY <1>1, <2>2, <2>3, <3>1, <3>2 DEF Stepped, Poll
    <3> QED
      BY <3>3
  <2> QED
    BY <1>4, <2>4, <2>5 DEF Goto
<1>5. CASE Goto(c, "detach") /\ UNCHANGED sock
  BY <1>1, <1>2, <1>3, <1>5, GotoStepsOnly DEF Poll
<1> QED
  BY <1>4, <1>5 DEF Poll

LEMMA EndSteps ==
  ASSUME LinkInv, NEW c \in Conns, Detach(c) \/ TargetGone(c)
  PROVE  \E n, k : Stepped(c, thr[c], n, sock[c], k)
<1>1. /\ thr[c].pc \in {"detach", "loop"} /\ target \in Target /\ "stream_end" \in Lines
      /\ Say(c, "stream_end", "recv") /\ UNCHANGED <<sock, ui, cap>>
  BY LinkTypes DEF Detach, TargetGone, At, Lines
<1>2. /\ Tracing(thr[c]) /\ Phase(thr[c]) \in {"streaming", "closing"}
      /\ target.tracer = c
  BY <1>1, Views, LinkTypes DEF Shows
<1>3. target' \in Target /\ target'.tracer = NoConn
  <2>1. CASE target' = [Running(target) EXCEPT !.tracer = NoConn]
    BY <1>1, <2>1, TargetType
  <2>2. CASE target' = [target EXCEPT !.tracer = NoConn]
    BY <1>1, <2>2, TargetType
  <2> QED
    BY <2>1, <2>2 DEF Detach, TargetGone
<1>4. \A n : n.pc = "send" /\ n.next = "recv" => Promised(thr[c], n) /\ ~Tracing(n)
  BY <1>2, Views DEF Promised
<1> QED
  BY <1>1, <1>2, <1>3, <1>4, SayStepsOnly

LEMMA ThreadSteps ==
  ASSUME LinkInv, NEW c \in Conns, ThreadStep(c)
  PROVE  \E n, k : Stepped(c, thr[c], n, sock[c], k)
BY SendSteps, RecvSteps, RecvClosedSteps, AttachSteps, AllocSteps, ReapSteps, ResumeSteps,
   PollSteps, EndSteps DEF ThreadStep

LEMMA ThreadKeeps ==
  ASSUME LinkInv, NEW c \in Conns, NEW n, NEW k, Stepped(c, thr[c], n, sock[c], k)
  PROVE  LinkInv'
<1>1. /\ thr \in [Conns -> Thread] /\ sock \in [Conns -> Socket] /\ target \in Target
      /\ (target.tracer = c <=> Tracing(thr[c]))
      /\ NoConn \notin Conns
  BY LinkTypes, LinkAssumption
<1>2. /\ thr' = [thr EXCEPT ![c] = n] /\ sock' = [sock EXCEPT ![c] = k]
      /\ n \in Thread /\ k \in Socket /\ target' \in Target
      /\ k.client = sock[c].client /\ Len(k.out) <= Capacity
      /\ thr[c].pc # "none" /\ Sending(n)
      /\ \/ target'.tracer = target.tracer /\ (Tracing(n) <=> Tracing(thr[c]))
         \/ target.tracer = NoConn /\ target'.tracer = c /\ Tracing(n)
         \/ target.tracer = c /\ target'.tracer = NoConn /\ ~Tracing(n)
      /\ ui' = ui /\ cap' = cap
  BY DEF Stepped
<1>3. thr' \in [Conns -> Thread] /\ sock' \in [Conns -> Socket]
  BY <1>1, <1>2
<1>4. \A d \in Conns : Len(sock'[d].out) <= Capacity
  BY <1>1, <1>2 DEF LinkInv, TypeOK
<1>5. TypeOK'
  BY <1>2, <1>3, <1>4 DEF LinkInv, TypeOK, Thread, Labels, Socket, Target
<1>6. UiShape'
  BY <1>2 DEF LinkInv, UiShape
<1>7. ASSUME NEW d \in Conns PROVE ThreadOK(d)'
  <2>1. CASE d = c
    <3>1. thr'[d] = n /\ sock'[d] = k
      BY <1>1, <1>2, <2>1
    <3>2. k.client # "new"
      BY <1>2 DEF LinkInv, ThreadOK
    <3>3. target'.tracer = c <=> Tracing(n)
      BY <1>1, <1>2
    <3> QED
      BY <1>2, <2>1, <3>1, <3>2, <3>3 DEF ThreadOK
  <2>2. CASE d # c
    <3>1. thr'[d] = thr[d] /\ sock'[d] = sock[d]
      BY <1>1, <1>2, <2>2
    <3>2. target'.tracer = d <=> target.tracer = d
      BY <1>1, <1>2, <2>2
    <3> QED
      BY <3>1, <3>2 DEF LinkInv, ThreadOK
  <2> QED BY <2>1, <2>2
<1> QED
  BY <1>5, <1>6, <1>7 DEF LinkInv

----------------------------------------------------------------------------
(* The program at the other end *)

LEMMA UiStep ==
  ASSUME UiOK, NEW st \in Stacks, NEW done, NEW new, new \subseteq Msgs, SetUi(st, done, new)
  PROVE  /\ UiOK'
         /\ ui'.stack = st /\ ui'.cmds = Exchanged(ui.cmds, done, new)
         /\ ui'.mode = ui.mode
<1>1. /\ DOMAIN ui' = DOMAIN ui
      /\ ui'.stack = st /\ ui'.cmds = Exchanged(ui.cmds, done, new)
      /\ ui'.mode = ui.mode /\ ui'.sent = ui.sent
  BY DEF SetUi, UiOK, UiShape
<1> DEFINE C == Exchanged(ui.cmds, done, new)
<1>2. IsABag(C) /\ BagToSet(C) \subseteq BagToSet(ui.cmds) \cup new
  BY ExchangedCopies, ExchangedSet DEF UiOK
<1> HIDE DEF C
<1>3. ui'.cmds = C
  BY <1>1 DEF C
<1> QED
  BY <1>1, <1>2, <1>3 DEF UiOK, UiShape

LEMMA EmptyIsBag == IsABag(EmptyBag) /\ BagToSet(EmptyBag) = {}
BY DEF EmptyBag, IsABag, BagToSet, SetToBag

LEMMA MsgTypes ==
  /\ \A k \in {"push", "open", "pop", "event", "end"} : Msg(k) \in Msgs
  /\ \A c \in Conns : [k |-> "attached", c |-> c] \in Msgs
BY DEF Msg, Msgs

\* What a step of the client leaves as it is, or may change.
Served(c, j, k) ==
  /\ k \in Socket /\ Len(k.out) <= Capacity
  /\ k.client = "new" => j.client = "new"

LEMMA ClientKeeps ==
  ASSUME LinkInv, UiOK', UNCHANGED <<target, thr, cap>>,
         sock' = [c \in Conns |-> sock'[c]],
         \A c \in Conns : Served(c, sock[c], sock'[c])
  PROVE  LinkInv'
<1>1. sock' \in [Conns -> Socket] /\ \A c \in Conns : Len(sock'[c].out) <= Capacity
  BY DEF Served
<1>2. TypeOK'
  BY <1>1 DEF LinkInv, TypeOK, UiOK, Stacks, Socket
<1>3. \A c \in Conns : ThreadOK(c)'
  BY DEF LinkInv, ThreadOK, Served
<1> QED
  BY <1>2, <1>3 DEF LinkInv, UiOK

LEMMA UiFromInv == LinkInv => UiOK
BY DEF LinkInv, TypeOK, UiOK, Stacks

LEMMA SockKept ==
  ASSUME LinkInv, UNCHANGED sock
  PROVE  /\ sock' = [c \in Conns |-> sock'[c]]
         /\ \A c \in Conns : Served(c, sock[c], sock'[c])
<1>1. sock \in [Conns -> Socket] /\ \A d \in Conns : Len(sock[d].out) <= Capacity
  BY DEF LinkInv, TypeOK, Socket
<1>2. \A d \in Conns : Served(d, sock[d], sock[d])
  BY <1>1 DEF Served
<1> QED
  BY <1>1, <1>2

LEMMA SockOne ==
  ASSUME LinkInv, NEW c \in Conns, NEW k, sock' = [sock EXCEPT ![c] = k], Served(c, sock[c], k)
  PROVE  /\ sock' = [d \in Conns |-> sock'[d]]
         /\ \A d \in Conns : Served(d, sock[d], sock'[d])
<1>1. sock \in [Conns -> Socket] /\ \A d \in Conns : Served(d, sock[d], sock[d])
  BY LinkTypes DEF Served
<1>2. sock'[c] = k /\ \A d \in Conns \ {c} : sock'[d] = sock[d]
  BY <1>1
<1>3. sock' = [d \in Conns |-> sock'[d]]
  BY <1>1
<1>4. ASSUME NEW d \in Conns PROVE Served(d, sock[d], sock'[d])
  BY <1>1, <1>2
<1> QED BY <1>3, <1>4

LEMMA ClosedServed ==
  ASSUME LinkInv, NEW C, NEW c \in Conns
  PROVE  LET k == Closed(sock, C)[c]
         IN  /\ Served(c, sock[c], k)
             /\ k.in = sock[c].in /\ k.out = sock[c].out /\ k.readers = sock[c].readers
             /\ k.client = IF c \in C /\ sock[c].client = "open" THEN "closed" ELSE sock[c].client
<1>1. sock[c] \in Socket /\ Len(sock[c].out) <= Capacity
  BY LinkTypes
<1> DEFINE k == [sock[c] EXCEPT !.client = "closed"]
<1>2. /\ k \in Socket /\ k.in = sock[c].in /\ k.out = sock[c].out
      /\ k.readers = sock[c].readers /\ k.client = "closed"
  BY <1>1 DEF Socket
<1>3. Closed(sock, C)[c] = IF c \in C /\ sock[c].client = "open" THEN k ELSE sock[c]
  BY DEF Closed
<1> HIDE DEF k
<1> QED
  BY <1>1, <1>2, <1>3 DEF Served

LEMMA ReadingServed ==
  ASSUME LinkInv, NEW c \in Conns, NEW r \in Nat
  PROVE  LET k == [sock[c] EXCEPT !.readers = r]
         IN  Served(c, sock[c], k) /\ k.client = sock[c].client /\ k.readers = r
<1>1. sock[c] \in Socket /\ Len(sock[c].out) <= Capacity
  BY LinkTypes
<1> QED
  BY <1>1 DEF Served, Socket

LEMMA OverKeeps ==
  ASSUME LinkInv, NEW mode \in {"tui", "raw", "over"}, Over(mode)
  PROVE  /\ LinkInv'
         /\ ui'.stack = << >> /\ ui'.cmds = EmptyBag /\ ui'.mode = mode
         /\ \A c \in Conns : sock'[c].readers = 0
<1> USE DEF Over
<1>1. UiOK
  BY UiFromInv
<1>2. /\ DOMAIN ui' = DOMAIN ui
      /\ ui'.stack = << >> /\ ui'.cmds = EmptyBag /\ ui'.mode = mode
      /\ ui'.sent = ui.sent
  BY <1>1 DEF UiOK, UiShape
<1>3. << >> \in Stacks
  BY DEF Stacks
<1>4. UiOK'
  BY <1>1, <1>2, <1>3, EmptyIsBag DEF UiOK, UiShape
<1>5. ASSUME NEW c \in Conns
      PROVE  Served(c, sock[c], sock'[c]) /\ sock'[c].readers = 0
  <2> DEFINE k == Closed(sock, Conns)[c]
  <2>1. Served(c, sock[c], k)
    BY ClosedServed
  <2>2. sock'[c] = [k EXCEPT !.readers = 0]
    OBVIOUS
  <2> HIDE DEF k
  <2> QED
    BY <2>1, <2>2 DEF Served, Socket
<1>6. sock' = [c \in Conns |-> sock'[c]]
  OBVIOUS
<1>7. UNCHANGED <<target, thr, cap>>
  OBVIOUS
<1> QED
  BY <1>2, <1>4, <1>5, <1>6, <1>7, ClientKeeps

LEMMA ScreenKeeps ==
  ASSUME LinkInv, KeyStream \/ KeyEsc \/ Push \/ Pop \/ End
  PROVE  LinkInv'
<1>1. UiOK /\ << >> \in Stacks
  BY UiFromInv DEF Stacks
<1>2. ASSUME NEW st \in Stacks, NEW done, NEW new, new \subseteq Msgs, SetUi(st, done, new),
             UNCHANGED <<target, thr, cap>>,
             sock' = sock \/ \E C : sock' = Closed(sock, C)
      PROVE  LinkInv'
  <2>1. UiOK'
    BY <1>1, <1>2, UiStep
  <2>2. /\ sock' = [c \in Conns |-> sock'[c]]
        /\ \A c \in Conns : Served(c, sock[c], sock'[c])
    <3>1. CASE sock' = sock
      BY <3>1, SockKept
    <3>2. ASSUME NEW C, sock' = Closed(sock, C)
          PROVE  /\ sock' = [c \in Conns |-> sock'[c]]
                 /\ \A c \in Conns : Served(c, sock[c], sock'[c])
      <4>1. sock' = [c \in Conns |-> sock'[c]]
        BY <3>2 DEF Closed
      <4> QED
        BY <3>2, <4>1, ClosedServed
    <3> QED BY <1>2, <3>1, <3>2
  <2> QED
    BY <1>2, <2>1, <2>2, ClientKeeps
<1>3. CASE KeyStream
  BY <1>1, <1>2, <1>3, MsgTypes DEF KeyStream
<1>4. CASE KeyEsc
  <2>1. ui.stack \in Stacks
    BY <1>1 DEF UiOK
  <2> QED
    BY <1>2, <1>4, <2>1, MsgTypes DEF KeyEsc
<1>5. CASE Push
  <2>1. Append(ui.stack, NoConn) \in Stacks
    BY <1>1 DEF UiOK, Stacks
  <2> QED
    BY <1>2, <1>5, <2>1, MsgTypes DEF Push
<1>6. CASE Pop
  <2>1. ui.stack # << >> => Front(ui.stack) \in Stacks
    BY <1>1, FrontType DEF UiOK, Stacks
  <2> QED
    BY <1>1, <1>2, <1>6, <2>1, MsgTypes DEF Pop
<1>7. CASE End
  BY <1>1, <1>2, <1>7, MsgTypes DEF End, UiOK
<1> QED
  BY <1>3, <1>4, <1>5, <1>6, <1>7

LEMMA OpenKeeps ==
  ASSUME LinkInv, Open
  PROVE  LinkInv'
<1>1. UiOK /\ ui.stack \in Stacks
  BY UiFromInv DEF UiOK
<1>2. CASE SetUi(ui.stack, {Msg("open")}, {}) /\ UNCHANGED <<sock, thr>>
  <2>1. UiOK'
    BY <1>1, <1>2, UiStep
  <2> QED
    BY <1>2, <2>1, SockKept, ClientKeeps DEF Open
<1>3. ASSUME NEW c \in New, sock' = [sock EXCEPT ![c] = [sock[c] EXCEPT !.client = "open", !.in = <<"STREAM">>]],
             thr' = [thr EXCEPT ![c].pc = "recv"],
             SetUi(ui.stack, {Msg("open")}, {[k |-> "attached", c |-> c]})
      PROVE  LinkInv'
  <2> DEFINE j == sock[c]
             k == [j EXCEPT !.client = "open", !.in = <<"STREAM">>]
             n == [thr[c] EXCEPT !.pc = "recv"]
  <2>1. /\ c \in Conns /\ j.client = "new"
        /\ j \in Socket /\ Len(j.out) <= Capacity
        /\ thr[c] \in Thread /\ thr \in [Conns -> Thread] /\ sock \in [Conns -> Socket]
    BY LinkTypes DEF New
  <2>2. thr[c].pc = "none" /\ target.tracer # c
    BY <2>1, Views DEF LinkInv, ThreadOK
  <2>3. UiOK'
    BY <1>1, <1>3, <2>1, MsgTypes, UiStep
  <2>4. sock' = [sock EXCEPT ![c] = k]
    BY <1>3
  <2>5. thr' = [thr EXCEPT ![c] = n]
    BY <1>3, <2>1
  <2>6. k \in Socket /\ Len(k.out) <= Capacity /\ k.client = "open"
    <3>1. <<"STREAM">> \in Seq(Piece)
      BY DEF Piece
    <3> QED
      BY <2>1, <3>1 DEF Socket
  <2>7. "recv" \in Labels \ {"send"}
    BY DEF Labels
  <2>8. n \in Thread /\ Sending(n) /\ n.pc = "recv" /\ ~Tracing(n)
    BY <2>1, <2>7, GotoType, Views
  <2> HIDE DEF j, k, n
  <2>9. target' = target /\ cap' = cap
    BY DEF Open
  <2>10. thr' \in [Conns -> Thread] /\ sock' \in [Conns -> Socket]
         /\ \A d \in Conns : Len(sock'[d].out) <= Capacity
    BY <2>1, <2>4, <2>5, <2>6, <2>8 DEF LinkInv, TypeOK
  <2>11. TypeOK'
    BY <2>3, <2>9, <2>10 DEF LinkInv, TypeOK, UiOK, Stacks, Thread, Labels, Socket
  <2>12. ASSUME NEW d \in Conns PROVE ThreadOK(d)'
    <3>1. CASE d = c
      <4>1. thr'[d] = n /\ sock'[d] = k
        BY <2>1, <2>4, <2>5, <3>1
      <4> QED
        BY <2>2, <2>6, <2>8, <2>9, <3>1, <4>1 DEF ThreadOK
    <3>2. CASE d # c
      <4>1. thr'[d] = thr[d] /\ sock'[d] = sock[d]
        BY <2>1, <2>4, <2>5, <3>2
      <4> QED
        BY <2>9, <4>1 DEF LinkInv, ThreadOK
    <3> QED BY <3>1, <3>2
  <2> QED
    BY <2>3, <2>11, <2>12 DEF LinkInv, UiOK
<1> QED
  BY <1>2, <1>3 DEF Open

LEMMA SessionKeeps ==
  ASSUME LinkInv, NEW c \in Conns, Attached(c) \/ Read(c) \/ ReadClosed(c)
  PROVE  LinkInv'
<1>1. /\ UiOK /\ ui.stack \in Stacks /\ << >> \in Stacks
      /\ sock[c] \in Socket /\ sock[c].readers \in Nat /\ Len(sock[c].out) <= Capacity
      /\ sock \in [Conns -> Socket]
      /\ Capacity \in Nat
  BY UiFromInv, LinkTypes DEF UiOK, Stacks, Socket
<1>2. ASSUME NEW st \in Stacks, NEW done, NEW new, new \subseteq Msgs, SetUi(st, done, new),
             UNCHANGED <<target, thr, cap>>,
             NEW k, sock' = [sock EXCEPT ![c] = k], Served(c, sock[c], k)
      PROVE  LinkInv'
  <2>1. UiOK'
    BY <1>1, <1>2, UiStep
  <2> QED
    BY <1>2, <2>1, SockOne, ClientKeeps
<1>3. CASE Attached(c)
  <2> DEFINE m == [k |-> "attached", c |-> c]
  <2>1. CASE ui.stack = << >>
    <3>1. SetUi(<< >>, {m}, {}) /\ UNCHANGED <<target, thr, sock, cap>>
      BY <1>3, <2>1 DEF Attached
    <3>2. UiOK'
      BY <1>1, <3>1, UiStep
    <3> QED
      BY <3>1, <3>2, SockKept, ClientKeeps
  <2>2. CASE ui.stack # << >>
    <3> DEFINE k == [sock[c] EXCEPT !.readers = sock[c].readers + 1]
    <3>1. SetUi(Append(Front(ui.stack), c), {m}, {}) /\ UNCHANGED <<target, thr, cap>>
      BY <1>3, <2>2 DEF Attached
    <3>2. sock' = [sock EXCEPT ![c] = k]
      BY <1>3, <2>2 DEF Attached, Reading
    <3>3. Front(ui.stack) \in Stacks
      BY <1>1, <2>2, FrontType DEF Stacks
    <3>4. Append(Front(ui.stack), c) \in Stacks
      BY <3>3 DEF Stacks
    <3>5. sock[c].readers + 1 \in Nat
      BY <1>1
    <3>6. Served(c, sock[c], k)
      BY <3>5, ReadingServed
    <3> HIDE DEF k
    <3> DEFINE st == Append(Front(ui.stack), c)
    <3>7. st \in Stacks /\ SetUi(st, {m}, {})
      BY <3>1, <3>4
    <3>8. UiOK'
      BY <1>1, <3>7, UiStep
    <3> QED
      BY <3>1, <3>2, <3>6, <3>8, SockOne, ClientKeeps
  <2> QED BY <2>1, <2>2
<1>4. CASE Read(c)
  <2> DEFINE l == Head(sock[c].out)
             goesOn == l \notin {"write", "cut", "stream_end", "error"}
             r == IF goesOn THEN sock[c].readers ELSE sock[c].readers - 1
             o == Tail(sock[c].out)
             k == [sock[c] EXCEPT !.out = o, !.readers = r]
             new == IF goesOn THEN {} ELSE {Msg(IF l = "write" THEN "event" ELSE "end")}
  <2>1. /\ SetUi(ui.stack, {}, new) /\ UNCHANGED <<target, thr, cap>>
        /\ sock' = [sock EXCEPT ![c] = k]
    BY <1>4 DEF Read
  <2>2. r \in Nat
    BY <1>1, <1>4 DEF Read
  <2>3. new \subseteq Msgs
    BY MsgTypes
  <2>4. sock[c].out \in Seq(Lines \cup {NoLine}) /\ sock[c].out # << >>
    BY <1>1, <1>4 DEF Read, Socket
  <2>5. o \in Seq(Lines \cup {NoLine}) /\ Len(o) = Len(sock[c].out) - 1 /\ Len(sock[c].out) \in Nat
    BY <2>4
  <2> HIDE DEF new, r, o
  <2>6. k \in Socket /\ k.client = sock[c].client /\ k.out = o
    <3>1. sock[c] \in Socket
      BY <1>1
    <3>2. o \in Seq(Lines \cup {NoLine})
      BY <2>5
    <3>3. k = [sock[c] EXCEPT !.out = o, !.readers = r]
      OBVIOUS
    <3> HIDE DEF k
    <3> QED
      BY <2>2, <3>1, <3>2, <3>3 DEF Socket
  <2> HIDE DEF k
  <2>7. Served(c, sock[c], k)
    BY <1>1, <2>5, <2>6 DEF Served
  <2> QED
    BY <1>1, <1>2, <2>1, <2>3, <2>7
<1>5. CASE ReadClosed(c)
  <2> DEFINE k == [sock[c] EXCEPT !.readers = sock[c].readers - 1]
  <2>1. /\ SetUi(ui.stack, {}, {Msg("end")}) /\ UNCHANGED <<target, thr, cap>>
        /\ sock' = [sock EXCEPT ![c] = k] /\ sock[c].readers > 0
    BY <1>5 DEF ReadClosed
  <2>2. Served(c, sock[c], k)
    <3>1. sock[c].readers - 1 \in Nat
      BY <1>1, <2>1
    <3> QED BY <3>1, ReadingServed
  <2> HIDE DEF k
  <2> QED
    BY <1>1, <1>2, <2>1, <2>2, MsgTypes
<1> QED
  BY <1>3, <1>4, <1>5

LEMMA EventKeeps ==
  ASSUME LinkInv, Event
  PROVE  LinkInv'
<1>1. UiOK /\ ui.stack \in Stacks
  BY UiFromInv DEF UiOK
<1>2. CASE Over("over")
  BY <1>2, OverKeeps
<1>3. CASE /\ ~(ui.stack # << >> /\ Last(ui.stack) = NoConn)
           /\ SetUi(ui.stack, {Msg("event")}, {})
           /\ sock' = IF ui.stack = << >> THEN sock ELSE Reading(Last(ui.stack))
           /\ UNCHANGED <<target, thr, cap>>
  <2>1. UiOK'
    BY <1>1, <1>3, UiStep
  <2>2. CASE ui.stack = << >>
    BY <1>3, <2>1, <2>2, SockKept, ClientKeeps
  <2>3. CASE ui.stack # << >>
    <3> DEFINE c == Last(ui.stack)
               k == [sock[c] EXCEPT !.readers = sock[c].readers + 1]
    <3>1. c \in Conns
      BY <1>1, <1>3, <2>3, FrontType DEF Stacks
    <3>2. sock' = [sock EXCEPT ![c] = k]
      BY <1>3, <2>3 DEF Reading
    <3> HIDE DEF c
    <3>3. sock[c].readers + 1 \in Nat
      BY <3>1, LinkTypes DEF Socket
    <3>4. Served(c, sock[c], k)
      BY <3>1, <3>3, ReadingServed
    <3> HIDE DEF k
    <3> QED
      BY <1>3, <2>1, <3>1, <3>2, <3>4, SockOne, ClientKeeps
  <2> QED BY <2>2, <2>3
<1> QED
  BY <1>2, <1>3 DEF Event

LEMMA RawKeeps ==
  ASSUME LinkInv, (\E r \in Request : RawSend(r)) \/ (\E c \in Conns : RawRead(c))
  PROVE  LinkInv'
<1>1. UiOK
  BY UiFromInv
<1>2. ASSUME NEW r \in Request, RawSend(r) PROVE LinkInv'
  <2>1. PICK c \in Conns : sock' = [sock EXCEPT ![c].in = @ \o Pieces(r)]
    BY <1>2 DEF RawSend
  <2> DEFINE k == [sock[c] EXCEPT !.in = sock[c].in \o Pieces(r)]
  <2>2. sock[c] \in Socket /\ Len(sock[c].out) <= Capacity /\ sock[c].in \in Seq(Piece)
    BY LinkTypes DEF Socket
  <2>3. sock[c].in \o Pieces(r) \in Seq(Piece)
    <3>1. /\ <<"ST", "OP">> \in Seq(Piece)
          /\ r # "STOP" => r \in Piece /\ <<r>> \in Seq(Piece)
      BY DEF Request, Piece
    <3>2. Pieces(r) \in Seq(Piece)
      BY <3>1 DEF Pieces
    <3> QED
      BY <2>2, <3>2
  <2>4. Served(c, sock[c], k)
    BY <2>2, <2>3, SocketIn DEF Served
  <2>5. sock' = [sock EXCEPT ![c] = k]
    BY <2>1
  <2> HIDE DEF k
  <2>6. UiOK'
    BY <1>1, <1>2 DEF RawSend, UiOK, UiShape
  <2> QED
    BY <1>2, <2>4, <2>5, <2>6, SockOne, ClientKeeps DEF RawSend
<1>3. ASSUME NEW c \in Conns, RawRead(c) PROVE LinkInv'
  <2> DEFINE o == Tail(sock[c].out)
             k == [sock[c] EXCEPT !.out = o]
  <2>1. /\ sock[c] \in Socket /\ Len(sock[c].out) <= Capacity /\ sock[c].out # << >>
        /\ sock[c].out \in Seq(Lines \cup {NoLine}) /\ Capacity \in Nat
    BY <1>3, LinkTypes DEF Socket, RawRead
  <2>2. /\ o \in Seq(Lines \cup {NoLine}) /\ Len(o) = Len(sock[c].out) - 1
        /\ Len(sock[c].out) \in Nat /\ Head(sock[c].out) \in Lines \cup {NoLine}
    BY <2>1
  <2>3. sock' = [sock EXCEPT ![c] = k]
    BY <1>3 DEF RawRead
  <2> HIDE DEF o
  <2>4. Served(c, sock[c], k)
    <3>1. sock[c] \in Socket
      BY <2>1
    <3>2. o \in Seq(Lines \cup {NoLine})
      BY <2>2
    <3>3. k \in Socket /\ k.client = sock[c].client /\ k.out = o
      BY <3>1, <3>2, SocketOut
    <3> HIDE DEF k
    <3> QED
      BY <2>1, <2>2, <3>3 DEF Served
  <2> HIDE DEF k
  <2>5. UiOK'
    BY <1>1, <1>3, <2>2 DEF RawRead, UiOK, UiShape
  <2> QED
    BY <1>3, <2>3, <2>4, <2>5, SockOne, ClientKeeps DEF RawRead
<1> QED
  BY <1>2, <1>3

----------------------------------------------------------------------------
(* The invariant *)

\* A step of the target or of the client, for the threads: one that has not been
\* started may begin to serve.
Aside ==
  /\ cap' = cap /\ target'.tracer = target.tracer
  /\ \A c \in Conns :
       /\ thr'[c].line = thr[c].line
       /\ thr'[c] = thr[c] \/ (thr[c].pc = "none" /\ thr'[c].pc = "recv")

LEMMA TargetKeeps ==
  ASSUME LinkInv, Write \/ Die
  PROVE  LinkInv' /\ Aside
<1>1. /\ target \in Target /\ UNCHANGED <<thr, sock, ui, cap>>
      /\ target' \in Target /\ target'.tracer = target.tracer
  BY DEF LinkInv, TypeOK, Write, Die, Target
<1>2. TypeOK' /\ UiShape'
  BY <1>1 DEF LinkInv, TypeOK, UiShape, Target
<1>3. \A c \in Conns : ThreadOK(c)'
  BY <1>1 DEF LinkInv, ThreadOK
<1> QED
  BY <1>1, <1>2, <1>3 DEF LinkInv, Aside

LEMMA ClientAside ==
  ASSUME LinkInv,
         \/ KeyStream \/ KeyEsc \/ Quit \/ ClientStep \/ RawClose
         \/ \E r \in Request : RawSend(r)
  PROVE  Aside
<1>1. CASE UNCHANGED <<target, thr, cap>>
  BY <1>1 DEF Aside
<1>2. CASE Open
  <2>1. ASSUME NEW c \in New, thr' = [thr EXCEPT ![c].pc = "recv"]
        PROVE  Aside
    <3>1. c \in Conns /\ sock[c].client = "new" /\ thr \in [Conns -> Thread] /\ thr[c] \in Thread
      BY LinkTypes DEF New
    <3>2. thr[c].pc = "none"
      BY <3>1 DEF LinkInv, ThreadOK
    <3>3. /\ thr'[c].pc = "recv" /\ thr'[c].line = thr[c].line
          /\ \A d \in Conns \ {c} : thr'[d] = thr[d]
      BY <2>1, <3>1 DEF Thread
    <3> QED
      BY <1>2, <3>2, <3>3 DEF Aside, Open
  <2> QED
    BY <1>1, <1>2, <2>1 DEF Open
<1> QED
  BY <1>1, <1>2 DEF KeyStream, KeyEsc, Quit, RawClose, Over, RawSend, ClientStep, Push, Pop, Event,
                    End, Attached, Read, ReadClosed, RawRead

LEMMA LinkInit == Init => LinkInv /\ LinesWhole
<1> SUFFICES ASSUME Init PROVE LinkInv /\ LinesWhole
  OBVIOUS
<1>1. /\ target = [st |-> "run", tracer |-> NoConn]
      /\ NoConn \notin Conns
  BY LinkAssumption DEF Init
<1>2. PICK mode \in {"tui", "raw"} :
        LET own(c) == mode = "raw" /\ c = CHOOSE x \in Conns : TRUE
        IN  /\ ui = [stack |-> << >>, cmds |-> EmptyBag, mode |-> mode, sent |-> << >>]
            /\ sock = [c \in Conns |-> [client |-> IF own(c) THEN "open" ELSE "new", out |-> << >>,
                                        in |-> IF own(c) THEN <<"STREAM">> ELSE << >>, readers |-> 0]]
            /\ thr = [c \in Conns |-> [pc |-> IF own(c) THEN "recv" ELSE "none", line |-> NoLine,
                                       left |-> 0, next |-> "recv"]]
  BY DEF Init
<1>3. UiOK
  <2>1. << >> \in Stacks
    BY DEF Stacks
  <2> QED
    BY <1>2, <2>1, EmptyIsBag DEF UiOK, UiShape
<1>4. cap \in 1 .. MAX_CAPTURE_HARD_LIMIT
  <2>1. PICK n \in Captures : cap = MaxCapture(n)
    BY DEF Init
  <2>2. n \in Nat
    BY LinkAssumption
  <2> QED
    BY <2>1, <2>2, CaptureType
<1>5. ASSUME NEW c \in Conns
      PROVE  /\ thr[c] \in Thread /\ sock[c] \in Socket /\ sock[c].out = << >>
             /\ thr[c].pc \in {"none", "recv"} /\ thr[c].line = NoLine
             /\ sock[c].client = "new" => thr[c].pc = "none"
  <2> DEFINE own == mode = "raw" /\ c = CHOOSE x \in Conns : TRUE
  <2>1. /\ thr[c] = [pc |-> IF own THEN "recv" ELSE "none", line |-> NoLine, left |-> 0,
                     next |-> "recv"]
        /\ sock[c] = [client |-> IF own THEN "open" ELSE "new", out |-> << >>,
                      in |-> IF own THEN <<"STREAM">> ELSE << >>, readers |-> 0]
    BY <1>2
  <2>2. << >> \in Seq(Piece) /\ <<"STREAM">> \in Seq(Piece) /\ << >> \in Seq(Lines \cup {NoLine})
    BY DEF Piece
  <2> HIDE DEF own
  <2>3. thr[c] \in Thread
    BY <2>1 DEF Thread, Labels
  <2>4. sock[c] \in Socket /\ sock[c].out = << >>
    BY <2>1, <2>2 DEF Socket
  <2>5. /\ thr[c].pc \in {"none", "recv"} /\ thr[c].line = NoLine
        /\ sock[c].client = "new" => thr[c].pc = "none"
    BY <2>1
  <2> QED
    BY <2>3, <2>4, <2>5
<1>6. thr \in [Conns -> Thread] /\ sock \in [Conns -> Socket]
  <2>1. thr = [c \in Conns |-> thr[c]] /\ sock = [c \in Conns |-> sock[c]]
    BY <1>2
  <2> QED
    BY <1>5, <2>1
<1>7. \A c \in Conns : Len(sock[c].out) <= Capacity
  BY <1>5, LinkAssumption
<1>8. TypeOK
  <2>1. target \in Target
    BY <1>1 DEF Target
  <2> QED
    BY <1>3, <1>4, <1>6, <1>7, <2>1 DEF TypeOK, UiOK, Stacks, Thread, Labels, Socket, Target
<1>9. ASSUME NEW c \in Conns PROVE ThreadOK(c)
  <2>1. ~Tracing(thr[c]) /\ Sending(thr[c])
    BY <1>5, Views DEF Sending
  <2> QED
    BY <1>1, <1>5, <2>1 DEF ThreadOK
<1>10. LinesWhole
  BY <1>5 DEF LinesWhole, NoLine
<1> QED
  BY <1>3, <1>8, <1>9, <1>10 DEF LinkInv, UiOK

LEMMA StepKinds ==
  ASSUME LinkInv, Next
  PROVE  /\ LinkInv'
         /\ Aside \/ \E c \in Conns : \E n, k : Stepped(c, thr[c], n, sock[c], k)
<1>1. CASE Write \/ Die
  BY <1>1, TargetKeeps
<1>2. ASSUME NEW c \in Conns, ThreadStep(c)
      PROVE  LinkInv' /\ \E n, k : Stepped(c, thr[c], n, sock[c], k)
  BY <1>2, ThreadSteps, ThreadKeeps
<1>3. CASE KeyStream \/ KeyEsc \/ Push \/ Pop \/ End
  BY <1>3, ScreenKeeps, ClientAside DEF ClientStep
<1>4. CASE Quit \/ RawClose
  BY <1>4, OverKeeps, ClientAside DEF Quit, RawClose
<1>5. CASE Open \/ Event
  BY <1>5, OpenKeeps, EventKeeps, ClientAside DEF ClientStep
<1>6. CASE \E c \in Conns : Attached(c) \/ Read(c) \/ ReadClosed(c)
  BY <1>6, SessionKeeps, ClientAside DEF ClientStep
<1>7. CASE (\E r \in Request : RawSend(r)) \/ (\E c \in Conns : RawRead(c))
  BY <1>7, RawKeeps, ClientAside DEF ClientStep
<1> QED
  BY <1>1, <1>2, <1>3, <1>4, <1>5, <1>6, <1>7 DEF Next, ClientStep

LEMMA LinkInvariant == Spec => []LinkInv
<1>1. Init => LinkInv
  BY LinkInit
<1>2. LinkInv /\ [Next]_vars => LinkInv'
  <2> SUFFICES ASSUME LinkInv, [Next]_vars PROVE LinkInv'
    OBVIOUS
  <2>1. CASE Next
    BY <2>1, StepKinds
  <2>2. CASE UNCHANGED vars
    BY <2>2 DEF vars, LinkInv, TypeOK, UiShape, ThreadOK
  <2> QED BY <2>1, <2>2
<1> QED
  BY <1>1, <1>2, PTL DEF Spec

\* The state of the daemon, of its connections and of the client keeps its type; in
\* particular the capture stays within MAX_CAPTURE_HARD_LIMIT, and the messages in
\* flight are ones that hsed sends.
THEOREM LinkTypeCorrect == Spec => []TypeOK
<1>1. LinkInv => TypeOK
  BY DEF LinkInv
<1> QED
  BY <1>1, LinkInvariant, PTL

\* hsed_send_linef cuts no write event as long as max_capture is at most MaxWhole,
\* whatever the target writes and however many connections there are.
THEOREM WritesWhole == Spec => []LinesWhole
<1>1. LinkInv /\ LinesWhole /\ [Next]_vars => LinesWhole'
  <2> SUFFICES ASSUME LinkInv, LinesWhole, [Next]_vars, cap' <= MaxWhole, NEW c \in Conns
               PROVE  thr'[c].line # "cut"
    BY DEF LinesWhole
  <2>1. ASSUME NEW d \in Conns, NEW n, NEW k, Stepped(d, thr[d], n, sock[d], k)
        PROVE  thr'[c].line # "cut"
    <3>1. /\ thr' = [thr EXCEPT ![d] = n] /\ cap' = cap
          /\ n.line = "cut" => thr[d].line = "cut" \/ cap > MaxWhole
      BY <2>1 DEF Stepped
    <3>2. thr \in [Conns -> Thread] /\ cap \in Nat /\ MaxWhole \in Nat
      BY LinkTypes DEF MaxWhole
    <3>3. thr[c].line # "cut" /\ thr[d].line # "cut"
      BY <3>1 DEF LinesWhole
    <3>4. n.line # "cut"
      BY <3>1, <3>2, <3>3
    <3> QED
      BY <3>1, <3>2, <3>3, <3>4
  <2>2. CASE Aside
    BY <2>2 DEF Aside, LinesWhole
  <2>3. CASE UNCHANGED vars
    BY <2>3 DEF vars, LinesWhole
  <2> QED
    BY <2>1, <2>2, <2>3, StepKinds
<1>2. Init => LinesWhole
  BY LinkInit
<1> QED
  BY <1>1, <1>2, LinkInvariant, PTL DEF Spec

----------------------------------------------------------------------------
(* Refinement *)

\* The refinement mapping of Service.
MapPhase ==
  [c \in Conns |-> CASE At(c, "attach") -> "attaching"
                     [] At(c, "detach") -> "closing"
                     [] target.tracer = c -> "streaming"
                     [] OTHER -> "idle"]
MapWatched == [c \in Conns |-> IF target.tracer = c THEN {"writer"} ELSE {}]
MapWriting ==
  [c \in Conns |->
     IF target.tracer = c /\ ((thr[c].next = "resume" /\ At(c, "send")) \/ At(c, "resume"))
     THEN {"writer"} ELSE {}]

Mapped ==
  /\ MapPhase = [c \in Conns |-> Phase(thr[c])]
  /\ MapWatched = [c \in Conns |-> Watched(thr[c])]
  /\ MapWriting = [c \in Conns |-> Writing(thr[c])]

LEMMA MappedState == LinkInv => Mapped
<1> SUFFICES ASSUME LinkInv PROVE Mapped
  OBVIOUS
<1>1. ASSUME NEW c \in Conns
      PROVE  /\ (CASE At(c, "attach") -> "attaching"
                   [] At(c, "detach") -> "closing"
                   [] target.tracer = c -> "streaming"
                   [] OTHER -> "idle") = Phase(thr[c])
             /\ (IF target.tracer = c THEN {"writer"} ELSE {}) = Watched(thr[c])
             /\ (IF target.tracer = c /\ ((thr[c].next = "resume" /\ At(c, "send")) \/ At(c, "resume"))
                 THEN {"writer"} ELSE {}) = Writing(thr[c])
  <2>1. target.tracer = c <=> Tracing(thr[c])
    BY DEF LinkInv, ThreadOK
  <2>2. (IF target.tracer = c THEN {"writer"} ELSE {}) = Watched(thr[c])
    BY <2>1 DEF Watched
  <2>3. (IF target.tracer = c /\ ((thr[c].next = "resume" /\ At(c, "send")) \/ At(c, "resume"))
                 THEN {"writer"} ELSE {}) = Writing(thr[c])
    BY <2>1 DEF Writing, Tracing, At
  <2>4. CASE At(c, "attach")
    BY <2>2, <2>3, <2>4 DEF Phase, At
  <2>5. CASE At(c, "detach")
    BY <2>2, <2>3, <2>5 DEF Phase, At
  <2>6. CASE ~At(c, "attach") /\ ~At(c, "detach") /\ target.tracer = c
    BY <2>1, <2>2, <2>3, <2>6 DEF Phase, At
  <2>7. CASE ~At(c, "attach") /\ ~At(c, "detach") /\ target.tracer # c
    BY <2>1, <2>2, <2>3, <2>7 DEF Phase, At
  <2> QED
    BY <2>4, <2>5, <2>6, <2>7
<1> QED
  BY <1>1 DEF Mapped, MapPhase, MapWatched, MapWriting

LEMMA MappedInit == Init => Service!Init
<1> SUFFICES ASSUME Init PROVE Service!Init
  OBVIOUS
<1>1. target.tracer = NoConn /\ NoConn \notin Conns
  BY LinkAssumption DEF Init
<1>2. ASSUME NEW c \in Conns PROVE thr[c].pc \in {"none", "recv"}
  BY DEF Init
<1>3. \A c \in Conns : ~At(c, "attach") /\ ~At(c, "detach") /\ target.tracer # c
  BY <1>1, <1>2 DEF At
<1> QED
  BY <1>3 DEF Service!Init

\* A thread that changes as promised takes a step of the service or none.
LEMMA MappedStep ==
  ASSUME Mapped, Mapped', thr \in [Conns -> Thread], NEW s \in Conns, NEW n,
         thr' = [thr EXCEPT ![s] = n], Promised(thr[s], n)
  PROVE  [Service!Next]_(Service!vars)
<1> DEFINE m == thr[s]
<1>1. MapPhase[s] = Phase(m) /\ MapWatched[s] = Watched(m) /\ MapWriting[s] = Writing(m)
  BY DEF Mapped
<1>2. thr'[s] = n /\ \A c \in Conns \ {s} : thr'[c] = thr[c]
  OBVIOUS
<1>3. /\ MapPhase' = [MapPhase EXCEPT ![s] = Phase(n)]
      /\ MapWatched' = [MapWatched EXCEPT ![s] = Watched(n)]
      /\ MapWriting' = [MapWriting EXCEPT ![s] = Writing(n)]
  <2>1. /\ MapPhase' = [c \in Conns |-> Phase(thr'[c])]
        /\ MapWatched' = [c \in Conns |-> Watched(thr'[c])]
        /\ MapWriting' = [c \in Conns |-> Writing(thr'[c])]
    BY DEF Mapped, Phase, Watched, Writing, Tracing
  <2> QED
    BY <1>2, <2>1 DEF Mapped
<1> HIDE DEF m
<1>4. ASSUME NEW p, NEW w, NEW x, Shows(n, p, w, x)
      PROVE  Service!Set(s, p, w, x)
  BY <1>3, <1>4 DEF Service!Set, Shows, MapPhase, MapWatched, MapWriting
<1>5. CASE Phase(n) = Phase(m) /\ Watched(n) = Watched(m) /\ Writing(n) = Writing(m)
  <2>1. MapPhase' = MapPhase /\ MapWatched' = MapWatched /\ MapWriting' = MapWriting
    BY <1>1, <1>3, <1>5 DEF Mapped
  <2> QED
    BY <2>1 DEF Service!vars, MapPhase, MapWatched, MapWriting
<1>6. CASE Phase(m) = "idle" /\ Shows(n, "attaching", {}, {})
  BY <1>1, <1>4, <1>6 DEF Service!Next, Service!Ask, MapPhase
<1>7. CASE Phase(m) = "attaching" /\ Shows(n, "idle", {}, {})
  BY <1>1, <1>4, <1>7 DEF Service!Next, Service!Refuse, MapPhase
<1>8. CASE Phase(m) = "attaching" /\ Shows(n, "streaming", {"writer"}, {})
  <2>1. Service!Attach(s, {"writer"}, "streaming")
    BY <1>1, <1>4, <1>8 DEF Service!Attach, MapPhase
  <2> QED
    BY <2>1 DEF Service!Next
<1>9. CASE Shows(m, "streaming", {"writer"}, {}) /\ Shows(n, "streaming", {"writer"}, {"writer"})
  <2>2. /\ MapPhase[s] = "streaming" /\ "writer" \in MapWatched[s] \ MapWriting[s]
        /\ Shows(n, "streaming", MapWatched[s], MapWriting[s] \cup {"writer"})
    BY <1>1, <1>9 DEF Shows
  <2>3. Service!Set(s, "streaming", MapWatched[s], MapWriting[s] \cup {"writer"})
    BY <1>3, <2>2 DEF Service!Set, Shows, MapPhase, MapWatched, MapWriting
  <2>4. Service!WriteBegins(s, "writer")
    BY <2>2, <2>3 DEF Service!WriteBegins, MapPhase, MapWatched, MapWriting
  <2> QED
    BY <2>4 DEF Service!Next
<1>10. CASE Shows(m, "streaming", {"writer"}, {"writer"}) /\ Shows(n, "streaming", {"writer"}, {})
  <2>2. /\ MapPhase[s] = "streaming" /\ "writer" \in MapWriting[s]
        /\ Shows(n, "streaming", MapWatched[s], MapWriting[s] \ {"writer"})
    BY <1>1, <1>10 DEF Shows
  <2>3. Service!Set(s, "streaming", MapWatched[s], MapWriting[s] \ {"writer"})
    BY <1>3, <2>2 DEF Service!Set, Shows, MapPhase, MapWatched, MapWriting
  <2>4. Service!WriteReported(s, "writer")
    BY <2>2, <2>3 DEF Service!WriteReported, MapPhase, MapWatched, MapWriting
  <2> QED
    BY <2>4 DEF Service!Next
<1>11. CASE Phase(m) = "streaming" /\ Shows(n, "closing", Watched(m), Writing(m))
  <2>1. MapPhase[s] = "streaming" /\ Shows(n, "closing", MapWatched[s], MapWriting[s])
    BY <1>1, <1>11 DEF Shows
  <2>2. Service!Set(s, "closing", MapWatched[s], MapWriting[s])
    BY <1>3, <2>1 DEF Service!Set, Shows, MapPhase, MapWatched, MapWriting
  <2>3. Service!Leave(s)
    BY <2>1, <2>2 DEF Service!Leave, MapPhase, MapWatched, MapWriting
  <2> QED
    BY <2>3 DEF Service!Next
<1>12. CASE Phase(m) \in {"streaming", "closing"} /\ Shows(n, "idle", {}, {})
  BY <1>1, <1>4, <1>12 DEF Service!Next, Service!End, MapPhase
<1>13. Promised(m, n)
  BY DEF m
<1> QED
  BY <1>5, <1>6, <1>7, <1>8, <1>9, <1>10, <1>11, <1>12, <1>13 DEF Promised, Shows

\* The stream as the socket carries it is one that StreamService promises, whatever
\* the target writes, whenever its client reads, stops or leaves, and however many
\* clients ask for it.
THEOREM LinkPromised == Spec => ImplementsService
<1>1. LinkInv /\ LinkInv' /\ [Next]_vars => [Service!Next]_(Service!vars)
  <2> SUFFICES ASSUME LinkInv, LinkInv', [Next]_vars PROVE [Service!Next]_(Service!vars)
    OBVIOUS
  <2>1. Mapped
    BY MappedState
  <2>2. Mapped'
    BY MappedState, PTL
  <2>3. ASSUME NEW c \in Conns, NEW n, NEW k, Stepped(c, thr[c], n, sock[c], k)
        PROVE  [Service!Next]_(Service!vars)
    <3>1. thr \in [Conns -> Thread] /\ thr' = [thr EXCEPT ![c] = n] /\ Promised(thr[c], n)
      BY <2>3, LinkTypes DEF Stepped
    <3> QED
      BY <2>1, <2>2, <3>1, MappedStep
  <2>4. CASE Aside
    <3>1. target'.tracer = target.tracer
      BY <2>4 DEF Aside
    <3>2. ASSUME NEW c \in Conns
          PROVE  /\ Phase(thr'[c]) = Phase(thr[c]) /\ Watched(thr'[c]) = Watched(thr[c])
                 /\ Writing(thr'[c]) = Writing(thr[c])
      BY <2>4, Views DEF Aside, Shows
    <3>3. /\ MapPhase' = [c \in Conns |-> Phase(thr'[c])]
          /\ MapWatched' = [c \in Conns |-> Watched(thr'[c])]
          /\ MapWriting' = [c \in Conns |-> Writing(thr'[c])]
      BY <2>2 DEF Mapped, Phase, Watched, Writing, Tracing
    <3>4. MapPhase' = MapPhase /\ MapWatched' = MapWatched /\ MapWriting' = MapWriting
      BY <2>1, <3>2, <3>3 DEF Mapped
    <3> QED
      BY <3>4 DEF Service!vars, MapPhase, MapWatched, MapWriting
  <2>5. CASE UNCHANGED vars
    BY <2>5 DEF vars, Service!vars, At
  <2> QED
    BY <2>3, <2>4, <2>5, StepKinds
<1> QED
  BY <1>1, MappedInit, LinkInvariant, PTL DEF Spec, Service!Spec, ImplementsService

----------------------------------------------------------------------------
(* A patient user *)

Only(K) == BagToSet(ui.cmds) \subseteq K
Flying(m) == Copies(m, ui.cmds)
Joined(c) == [k |-> "attached", c |-> c]

Quiet == \A c \in Conns : sock[c].readers = 0
NoneOpen == \A c \in Conns : sock[c].client # "open"
OpenAt(c) == \A d \in Conns \ {c} : sock[d].client # "open"

\* A goroutine that reads from c, or the event it has read, and no other.
ReadAt(c) ==
  /\ sock[c].readers + Flying(Msg("event")) <= 1
  /\ \A d \in Conns \ {c} : sock[d].readers = 0

\* Where a user who waits can be: on the detail screen, with what is left of the
\* last stream; about to see the stream screen; on one without a session; on one
\* whose session is on its way; and on one with its session, until it is gone.
Idle ==
  /\ ui.stack = << >> /\ Only({Msg("event"), Msg("end")}) /\ NoneOpen
  /\ Quiet \/ \E c \in Conns : ReadAt(c)
Asked ==
  /\ ui.stack = << >> /\ Only({Msg("push")}) /\ Flying(Msg("push")) <= 1
  /\ NoneOpen /\ Quiet
Blank ==
  /\ ui.stack = <<NoConn>> /\ Only({Msg("open"), Msg("pop")})
  /\ Flying(Msg("open")) + Flying(Msg("pop")) <= 1
  /\ NoneOpen /\ Quiet
Connecting(c) ==
  /\ ui.stack = <<NoConn>> /\ BagToSet(ui.cmds) = {Joined(c)} /\ Flying(Joined(c)) = 1
  /\ sock[c].client = "open" /\ OpenAt(c) /\ Quiet
Showing(c) ==
  /\ ui.stack = <<c>> /\ Only({Msg("event"), Msg("end"), Msg("pop")})
  /\ Flying(Msg("pop")) <= 1
  /\ sock[c].client # "new" /\ (Msg("pop") \in BagToSet(ui.cmds) => sock[c].client # "open")
  /\ OpenAt(c) /\ ReadAt(c)

Stage == Idle \/ Asked \/ Blank \/ \E c \in Conns : Connecting(c) \/ Showing(c)

PatientInv ==
  /\ \A c \in Conns : sock[c].client = "new" => sock[c].readers = 0
  /\ ui.mode = "tui" => Stage
  /\ ui.mode # "tui" => ui.stack = << >> /\ Quiet

LEMMA Distinct ==
  /\ \A a, b : Msg(a) = Msg(b) <=> a = b
  /\ \A a, c : Joined(c) = Msg(a) => a = "attached"
  /\ \A c, d : Joined(c) = Joined(d) <=> c = d
  /\ \A a : Msg(a).k = a
  /\ \A c : Joined(c).k = "attached"
BY DEF Msg, Joined

\* What is in flight after a delivery.
LEMMA Flights ==
  ASSUME UiOK, NEW st \in Stacks, NEW done, NEW new, new \subseteq Msgs, SetUi(st, done, new)
  PROVE  /\ ui'.stack = st /\ ui'.mode = ui.mode
         /\ BagToSet(ui'.cmds) \subseteq BagToSet(ui.cmds) \cup new
         /\ new \subseteq BagToSet(ui'.cmds)
         /\ \A e : /\ Flying(e) \in Nat /\ (Flying(e) > 0 <=> e \in BagToSet(ui.cmds))
                   /\ Flying(e)' \in Nat /\ (Flying(e)' > 0 <=> e \in BagToSet(ui'.cmds))
                   /\ Flying(e)' =
                        (IF e \in done /\ e \in BagToSet(ui.cmds) THEN Flying(e) - 1 ELSE Flying(e))
                          + (IF e \in new THEN 1 ELSE 0)
<1> DEFINE B == ui.cmds
           C == Exchanged(B, done, new)
<1>1. ui'.stack = st /\ ui'.cmds = C /\ ui'.mode = ui.mode
  BY UiStep
<1>2. IsABag(B)
  BY DEF UiOK
<1>3. /\ IsABag(C)
      /\ \A e : Copies(e, C) =
                  (IF e \in done /\ e \in DOMAIN B THEN Copies(e, B) - 1 ELSE Copies(e, B))
                    + (IF e \in new THEN 1 ELSE 0)
  BY <1>2, ExchangedCopies
<1>4. /\ BagToSet(C) \subseteq BagToSet(B) \cup new
      /\ new \subseteq BagToSet(C)
  BY <1>2, ExchangedSet
<1>5. DOMAIN B = BagToSet(B)
  BY DEF BagToSet
<1> HIDE DEF C
<1>6. \A e : /\ Copies(e, B) \in Nat /\ (Copies(e, B) > 0 <=> e \in BagToSet(B))
             /\ Copies(e, C) \in Nat /\ (Copies(e, C) > 0 <=> e \in BagToSet(C))
  BY <1>2, <1>3, CopiesType
<1>7. \A e : Flying(e) = Copies(e, B) /\ Flying(e)' = Copies(e, C)
  BY <1>1 DEF Flying
<1> HIDE DEF B
<1>8. \A e : Copies(e, C) =
               (IF e \in done /\ e \in BagToSet(B) THEN Copies(e, B) - 1 ELSE Copies(e, B))
                 + (IF e \in new THEN 1 ELSE 0)
  BY <1>3, <1>5
<1>9. \A e : /\ Flying(e) \in Nat /\ (Flying(e) > 0 <=> e \in BagToSet(B))
             /\ Flying(e)' \in Nat /\ (Flying(e)' > 0 <=> e \in BagToSet(C))
             /\ Flying(e)' =
                  (IF e \in done /\ e \in BagToSet(B) THEN Flying(e) - 1 ELSE Flying(e))
                    + (IF e \in new THEN 1 ELSE 0)
  BY <1>6, <1>7, <1>8
<1> QED
  BY <1>1, <1>4, <1>9 DEF B

Same(c) == sock'[c].client = sock[c].client /\ sock'[c].readers = sock[c].readers

\* The daemon and the target do not change what the user sees.
LEMMA PatientStays ==
  ASSUME PatientInv, ui' = ui, \A c \in Conns : Same(c)
  PROVE  PatientInv'
<1>1. /\ Quiet' <=> Quiet
      /\ NoneOpen' <=> NoneOpen
  BY DEF Same, Quiet, NoneOpen
<1>2. \A c \in Conns : (OpenAt(c)' <=> OpenAt(c)) /\ (ReadAt(c)' <=> ReadAt(c))
  BY DEF Same, OpenAt, ReadAt, Flying
<1>3. (Idle' <=> Idle) /\ (Asked' <=> Asked) /\ (Blank' <=> Blank)
  BY <1>1, <1>2 DEF Idle, Asked, Blank, Only, Flying
<1>4. \A c \in Conns : (Connecting(c)' <=> Connecting(c)) /\ (Showing(c)' <=> Showing(c))
  BY <1>1, <1>2 DEF Same, Connecting, Showing, Only, Flying
<1> QED
  BY <1>1, <1>3, <1>4 DEF Same, PatientInv, Stage

LEMMA PatientOver ==
  ASSUME LinkInv, Over("over")
  PROVE  PatientInv'
<1>1. ui'.stack = << >> /\ ui'.mode = "over" /\ \A c \in Conns : sock'[c].readers = 0
  BY OverKeeps
<1> QED
  BY <1>1 DEF PatientInv, Quiet

LEMMA SeqFacts ==
  /\ \A a : Front(<<a>>) = << >> /\ Last(<<a>>) = a /\ <<a>> # << >>
  /\ \A a : Append(<< >>, a) = <<a>>
BY DEF Front, Last

LEMMA PatientKeyStream ==
  ASSUME Patient, LinkInv, PatientInv, KeyStream
  PROVE  PatientInv'
<1>1. /\ ui.mode = "tui" /\ ui.stack = << >> /\ Settled /\ sock' = sock
      /\ SetUi(<< >>, {}, {Msg("push")})
  BY DEF KeyStream
<1>2. UiOK /\ << >> \in Stacks /\ Msg("push") \in Msgs
  BY UiFromInv, MsgTypes DEF Stacks
<1>3. /\ ui'.stack = << >> /\ ui'.mode = "tui"
      /\ BagToSet(ui'.cmds) \subseteq BagToSet(ui.cmds) \cup {Msg("push")}
      /\ Flying(Msg("push"))' = Flying(Msg("push")) + 1
      /\ Flying(Msg("push")) \in Nat
      /\ Flying(Msg("push")) > 0 <=> Msg("push") \in BagToSet(ui.cmds)
  BY <1>1, <1>2, Flights
<1>4. BagToSet(ui.cmds) = {}
  BY <1>1, EmptyIsBag DEF Settled
<1>5. Idle \/ Asked
  BY <1>1, SeqFacts DEF PatientInv, Stage, Blank, Connecting, Showing
<1>6. NoneOpen
  BY <1>5 DEF Idle, Asked
<1>7. Quiet
  <2> SUFFICES ASSUME NEW c \in Conns PROVE sock[c].readers = 0
    BY DEF Quiet
  <2>1. sock[c].client \in {"new", "open", "closed"}
    BY LinkTypes DEF Socket
  <2> QED
    BY <1>1, <1>6, <2>1 DEF NoneOpen, Settled, PatientInv
<1>8. Asked'
  BY <1>1, <1>3, <1>4, <1>6, <1>7 DEF Asked, Only, NoneOpen, Quiet
<1> QED
  BY <1>1, <1>3, <1>8 DEF PatientInv, Stage

LEMMA PatientKeyEsc ==
  ASSUME Patient, LinkInv, PatientInv, KeyEsc
  PROVE  PatientInv'
<1>1. /\ ui.mode = "tui" /\ ui.stack # << >> /\ Arrived
      /\ sock' = Closed(sock, {Last(ui.stack)}) /\ SetUi(ui.stack, {}, {Msg("pop")})
  BY DEF KeyEsc
<1>2. UiOK /\ ui.stack \in Stacks /\ Msg("pop") \in Msgs
  BY UiFromInv, MsgTypes DEF UiOK
<1>3. /\ ui'.stack = ui.stack /\ ui'.mode = "tui"
      /\ BagToSet(ui'.cmds) \subseteq BagToSet(ui.cmds) \cup {Msg("pop")}
      /\ \A e : /\ Flying(e) \in Nat /\ (Flying(e) > 0 <=> e \in BagToSet(ui.cmds))
                /\ Flying(e)' = Flying(e) + IF e = Msg("pop") THEN 1 ELSE 0
  <2>1. /\ ui'.stack = ui.stack /\ ui'.mode = ui.mode
        /\ BagToSet(ui'.cmds) \subseteq BagToSet(ui.cmds) \cup {Msg("pop")}
        /\ \A e : /\ Flying(e) \in Nat /\ (Flying(e) > 0 <=> e \in BagToSet(ui.cmds))
                  /\ Flying(e)' =
                        (IF e \in {} /\ e \in BagToSet(ui.cmds) THEN Flying(e) - 1 ELSE Flying(e))
                          + (IF e \in {Msg("pop")} THEN 1 ELSE 0)
    BY <1>1, <1>2, Flights
  <2> QED BY <1>1, <2>1
<1>4. Msg("open") \notin BagToSet(ui.cmds) /\ Msg("pop") \notin BagToSet(ui.cmds)
  BY <1>1, Distinct DEF Arrived, Still
<1>5. ASSUME NEW c \in Conns PROVE ~Connecting(c)
  BY <1>1, Distinct DEF Arrived, Still, Connecting
<1>6. ASSUME NEW c \in Conns
      PROVE  /\ sock'[c].readers = sock[c].readers
             /\ sock'[c].client = IF c = Last(ui.stack) /\ sock[c].client = "open" THEN "closed"
                                  ELSE sock[c].client
  BY <1>1, ClosedServed
<1>7. \A c \in Conns : sock'[c].client = "new" => sock'[c].readers = 0
  BY <1>6 DEF PatientInv
<1>8. CASE Blank
  <2>1. Last(ui.stack) = NoConn /\ NoConn \notin Conns
    BY <1>8, SeqFacts, LinkAssumption DEF Blank
  <2>2. NoneOpen' /\ Quiet'
    BY <1>6, <1>8, <2>1 DEF Blank, NoneOpen, Quiet
  <2>3. Flying(Msg("open"))' = 0 /\ Flying(Msg("pop"))' = 1
    <3>1. Msg("open") # Msg("pop")
      BY Distinct
    <3> QED BY <1>3, <1>4, <3>1
  <2>4. Only({Msg("open"), Msg("pop")})'
    BY <1>3, <1>8 DEF Blank, Only
  <2>5. Blank'
    BY <1>3, <1>8, <2>2, <2>3, <2>4 DEF Blank
  <2> QED
    BY <1>3, <1>7, <2>5 DEF PatientInv, Stage
<1>9. ASSUME NEW c \in Conns, Showing(c)
      PROVE  PatientInv'
  <2>1. Last(ui.stack) = c
    BY <1>9, SeqFacts DEF Showing
  <2>2. sock'[c].client \notin {"new", "open"}
    BY <1>6, <1>9, <2>1 DEF Showing
  <2>3. OpenAt(c)'
    BY <1>6, <1>9, <2>1 DEF Showing, OpenAt
  <2>4. Flying(Msg("event"))' = Flying(Msg("event")) /\ Flying(Msg("pop"))' = 1
    <3>1. Msg("event") # Msg("pop")
      BY Distinct
    <3> QED BY <1>3, <1>4, <3>1
  <2>5. ReadAt(c)'
    BY <1>6, <1>9, <2>4 DEF Showing, ReadAt
  <2>6. Only({Msg("event"), Msg("end"), Msg("pop")})'
    BY <1>3, <1>9 DEF Showing, Only
  <2>7. Showing(c)'
    BY <1>3, <1>9, <2>2, <2>3, <2>4, <2>5, <2>6 DEF Showing
  <2> QED
    BY <1>3, <1>7, <2>7 DEF PatientInv, Stage
<1> QED
  BY <1>1, <1>5, <1>8, <1>9 DEF PatientInv, Stage, Idle, Asked

LEMMA PatientPush ==
  ASSUME LinkInv, PatientInv, Push
  PROVE  PatientInv'
<1>1. /\ ui.mode = "tui" /\ Msg("push") \in BagToSet(ui.cmds) /\ sock' = sock
      /\ SetUi(Append(ui.stack, NoConn), {Msg("push")}, {Msg("open")})
  BY DEF Push, InFlight, BagIn
<1>2. Asked
  BY <1>1, Distinct DEF PatientInv, Stage, Idle, Blank, Connecting, Showing, Only
<1>3. ui.stack = << >> /\ SetUi(<<NoConn>>, {Msg("push")}, {Msg("open")})
  BY <1>1, <1>2, SeqFacts DEF Asked
<1>4. UiOK /\ <<NoConn>> \in Stacks /\ Msg("open") \in Msgs
  BY UiFromInv, MsgTypes DEF Stacks
<1>5. /\ ui'.stack = <<NoConn>> /\ ui'.mode = ui.mode
      /\ BagToSet(ui'.cmds) \subseteq BagToSet(ui.cmds) \cup {Msg("open")}
      /\ \A e : /\ Flying(e) \in Nat /\ (Flying(e) > 0 <=> e \in BagToSet(ui.cmds))
                /\ Flying(e)' \in Nat /\ (Flying(e)' > 0 <=> e \in BagToSet(ui'.cmds))
                /\ Flying(e)' =
                     (IF e \in {Msg("push")} /\ e \in BagToSet(ui.cmds) THEN Flying(e) - 1
                      ELSE Flying(e)) + (IF e \in {Msg("open")} THEN 1 ELSE 0)
  BY <1>3, <1>4, Flights
<1>6. Msg("push") # Msg("open") /\ Msg("pop") # Msg("open") /\ Msg("pop") # Msg("push")
  BY Distinct
<1>7. BagToSet(ui.cmds) \subseteq {Msg("push")} /\ Flying(Msg("push")) <= 1
  BY <1>2 DEF Asked, Only
<1>8. /\ Flying(Msg("push"))' = 0 /\ Flying(Msg("open"))' = 1 /\ Flying(Msg("pop"))' = 0
  BY <1>1, <1>5, <1>6, <1>7
<1>9. Msg("push") \notin BagToSet(ui'.cmds)
  BY <1>5, <1>8
<1>10. Only({Msg("open"), Msg("pop")})'
  BY <1>5, <1>7, <1>9 DEF Only
<1>11. Blank'
  BY <1>1, <1>2, <1>5, <1>8, <1>10 DEF Blank, Asked, NoneOpen, Quiet
<1> QED
  BY <1>1, <1>5, <1>11 DEF PatientInv, Stage

LEMMA PatientPop ==
  ASSUME LinkInv, PatientInv, Pop
  PROVE  PatientInv'
<1>1. /\ ui.mode = "tui" /\ Msg("pop") \in BagToSet(ui.cmds) /\ sock' = sock
      /\ SetUi(IF ui.stack = << >> THEN << >> ELSE Front(ui.stack), {Msg("pop")}, {})
  BY DEF Pop, InFlight, BagIn
<1>2. Blank \/ \E c \in Conns : Showing(c)
  BY <1>1, Distinct DEF PatientInv, Stage, Idle, Asked, Connecting, Only
<1>3. SetUi(<< >>, {Msg("pop")}, {})
  BY <1>1, <1>2, SeqFacts DEF Blank, Showing
<1>4. UiOK /\ << >> \in Stacks
  BY UiFromInv DEF Stacks
<1>5. /\ ui'.stack = << >> /\ ui'.mode = ui.mode
      /\ BagToSet(ui'.cmds) \subseteq BagToSet(ui.cmds) \cup {}
      /\ \A e : /\ Flying(e) \in Nat /\ (Flying(e) > 0 <=> e \in BagToSet(ui.cmds))
                /\ Flying(e)' \in Nat /\ (Flying(e)' > 0 <=> e \in BagToSet(ui'.cmds))
                /\ Flying(e)' =
                     (IF e \in {Msg("pop")} /\ e \in BagToSet(ui.cmds) THEN Flying(e) - 1
                      ELSE Flying(e)) + (IF e \in {} THEN 1 ELSE 0)
  BY <1>3, <1>4, Flights
<1>6. Msg("event") # Msg("pop") /\ Msg("open") # Msg("pop")
  BY Distinct
<1>7. CASE Blank
  <2>1. /\ Flying(Msg("open")) + Flying(Msg("pop")) <= 1
        /\ BagToSet(ui.cmds) \subseteq {Msg("open"), Msg("pop")}
    BY <1>7 DEF Blank, Only
  <2>2. Flying(Msg("pop"))' = 0 /\ Flying(Msg("open"))' = 0
    BY <1>1, <1>5, <1>6, <2>1
  <2>3. Msg("pop") \notin BagToSet(ui'.cmds) /\ Msg("open") \notin BagToSet(ui'.cmds)
    BY <1>5, <2>2
  <2>4. Only({Msg("event"), Msg("end")})'
    BY <1>5, <2>1, <2>3 DEF Only
  <2>5. Idle'
    BY <1>1, <1>5, <1>7, <2>4 DEF Idle, Blank, NoneOpen, Quiet
  <2> QED
    BY <1>1, <1>5, <2>5 DEF PatientInv, Stage
<1>8. ASSUME NEW c \in Conns, Showing(c) PROVE PatientInv'
  <2>1. /\ Flying(Msg("pop")) <= 1
        /\ BagToSet(ui.cmds) \subseteq {Msg("event"), Msg("end"), Msg("pop")}
    BY <1>8 DEF Showing, Only
  <2>2. Flying(Msg("pop"))' = 0 /\ Flying(Msg("event"))' = Flying(Msg("event"))
    BY <1>1, <1>5, <1>6, <2>1
  <2>3. Msg("pop") \notin BagToSet(ui'.cmds)
    BY <1>5, <2>2
  <2>4. Only({Msg("event"), Msg("end")})'
    BY <1>5, <2>1, <2>3 DEF Only
  <2>5. NoneOpen'
    BY <1>1, <1>8 DEF Showing, OpenAt, NoneOpen
  <2>6. ReadAt(c)'
    BY <1>1, <1>8, <2>2 DEF Showing, ReadAt
  <2>7. Idle'
    BY <1>5, <2>4, <2>5, <2>6 DEF Idle
  <2> QED
    BY <1>1, <1>5, <2>7 DEF PatientInv, Stage
<1> QED
  BY <1>2, <1>7, <1>8

LEMMA PatientOpen ==
  ASSUME LinkInv, PatientInv, Open
  PROVE  PatientInv'
<1>1. ui.mode = "tui" /\ Msg("open") \in BagToSet(ui.cmds)
  BY DEF Open, InFlight, BagIn
<1>2. Blank
  BY <1>1, Distinct DEF PatientInv, Stage, Idle, Asked, Connecting, Showing, Only
<1>3. UiOK /\ ui.stack \in Stacks
  BY UiFromInv DEF UiOK
<1>4. ui.stack = <<NoConn>> /\ NoneOpen /\ Quiet
  BY <1>2 DEF Blank
<1>5. /\ Flying(Msg("open")) + Flying(Msg("pop")) <= 1
      /\ BagToSet(ui.cmds) \subseteq {Msg("open"), Msg("pop")}
  BY <1>2 DEF Blank, Only
<1>6. Msg("open") # Msg("pop")
  BY Distinct
<1>7. CASE SetUi(ui.stack, {Msg("open")}, {}) /\ UNCHANGED sock
  <2>1. /\ ui'.stack = ui.stack /\ ui'.mode = ui.mode
        /\ BagToSet(ui'.cmds) \subseteq BagToSet(ui.cmds) \cup {}
        /\ \A e : /\ Flying(e) \in Nat /\ (Flying(e) > 0 <=> e \in BagToSet(ui.cmds))
                  /\ Flying(e)' =
                       (IF e \in {Msg("open")} /\ e \in BagToSet(ui.cmds) THEN Flying(e) - 1
                        ELSE Flying(e)) + (IF e \in {} THEN 1 ELSE 0)
    BY <1>3, <1>7, Flights
  <2>2. Flying(Msg("open"))' + Flying(Msg("pop"))' <= 1
    BY <1>1, <1>5, <1>6, <2>1
  <2>3. Only({Msg("open"), Msg("pop")})'
    BY <1>5, <2>1 DEF Only
  <2>4. Blank'
    BY <1>4, <1>7, <2>1, <2>2, <2>3 DEF Blank, NoneOpen, Quiet
  <2> QED
    BY <1>1, <1>7, <2>1, <2>4 DEF PatientInv, Stage
<1>8. ASSUME NEW c \in New,
             sock' = [sock EXCEPT ![c] = [sock[c] EXCEPT !.client = "open", !.in = <<"STREAM">>]],
             SetUi(ui.stack, {Msg("open")}, {[k |-> "attached", c |-> c]})
      PROVE  PatientInv'
  <2>1. c \in Conns /\ sock[c].client = "new" /\ sock \in [Conns -> Socket] /\ sock[c] \in Socket
    BY LinkTypes DEF New
  <2>2. SetUi(ui.stack, {Msg("open")}, {Joined(c)}) /\ Joined(c) \in Msgs
    BY <1>8, <2>1, MsgTypes DEF Joined
  <2>3. /\ sock'[c].client = "open" /\ sock'[c].readers = sock[c].readers
        /\ \A d \in Conns \ {c} : sock'[d] = sock[d]
    BY <1>8, <2>1 DEF Socket
  <2>4. /\ ui'.stack = ui.stack /\ ui'.mode = ui.mode
        /\ BagToSet(ui'.cmds) \subseteq BagToSet(ui.cmds) \cup {Joined(c)}
        /\ {Joined(c)} \subseteq BagToSet(ui'.cmds)
        /\ \A e : /\ Flying(e) \in Nat /\ (Flying(e) > 0 <=> e \in BagToSet(ui.cmds))
                  /\ Flying(e)' \in Nat /\ (Flying(e)' > 0 <=> e \in BagToSet(ui'.cmds))
                  /\ Flying(e)' =
                       (IF e \in {Msg("open")} /\ e \in BagToSet(ui.cmds) THEN Flying(e) - 1
                        ELSE Flying(e)) + (IF e \in {Joined(c)} THEN 1 ELSE 0)
    BY <1>3, <2>2, Flights
  <2>5. Joined(c) # Msg("open") /\ Joined(c) # Msg("pop")
    BY Distinct
  <2>6. Flying(Msg("open"))' = 0 /\ Flying(Msg("pop"))' = 0 /\ Flying(Joined(c))' = 1
    BY <1>1, <1>5, <1>6, <2>4, <2>5
  <2>7. BagToSet(ui'.cmds) = {Joined(c)}
    BY <1>5, <2>4, <2>6
  <2>8. Connecting(c)'
    BY <1>4, <2>3, <2>4, <2>6, <2>7 DEF Connecting, OpenAt, NoneOpen, Quiet
  <2>9. \A d \in Conns : sock'[d].client = "new" => sock'[d].readers = 0
    BY <1>4, <2>3 DEF Quiet
  <2> QED
    BY <1>1, <2>1, <2>4, <2>8, <2>9 DEF PatientInv, Stage
<1> QED
  BY <1>7, <1>8 DEF Open

LEMMA PatientAttached ==
  ASSUME LinkInv, PatientInv, NEW c \in Conns, Attached(c)
  PROVE  PatientInv'
<1>1. /\ ui.mode = "tui" /\ Joined(c) \in BagToSet(ui.cmds)
      /\ IF ui.stack = << >> THEN SetUi(<< >>, {Joined(c)}, {}) /\ UNCHANGED sock
         ELSE SetUi(Append(Front(ui.stack), c), {Joined(c)}, {}) /\ sock' = Reading(c)
  BY DEF Attached, InFlight, BagIn, Joined
<1>2. Connecting(c)
  <2>1. ~Idle /\ ~Asked /\ ~Blank /\ \A d \in Conns : ~Showing(d)
    BY <1>1, Distinct DEF Idle, Asked, Blank, Showing, Only
  <2>2. PICK d \in Conns : Connecting(d)
    BY <1>1, <2>1 DEF PatientInv, Stage
  <2>3. d = c
    BY <1>1, <2>2, Distinct DEF Connecting
  <2> QED BY <2>2, <2>3
<1>3. ui.stack = <<NoConn>> /\ SetUi(<<c>>, {Joined(c)}, {}) /\ sock' = Reading(c)
  BY <1>1, <1>2, SeqFacts DEF Connecting
<1>4. UiOK /\ <<c>> \in Stacks
  BY UiFromInv DEF Stacks
<1>5. /\ ui'.stack = <<c>> /\ ui'.mode = ui.mode
      /\ BagToSet(ui'.cmds) \subseteq BagToSet(ui.cmds) \cup {}
      /\ \A e : /\ Flying(e)' \in Nat /\ (Flying(e)' > 0 <=> e \in BagToSet(ui'.cmds))
                /\ Flying(e)' =
                     (IF e \in {Joined(c)} /\ e \in BagToSet(ui.cmds) THEN Flying(e) - 1
                      ELSE Flying(e)) + (IF e \in {} THEN 1 ELSE 0)
  BY <1>3, <1>4, Flights
<1>6. Flying(Joined(c))' = 0
  BY <1>1, <1>2, <1>5 DEF Connecting
<1>7. BagToSet(ui'.cmds) = {}
  BY <1>2, <1>5, <1>6 DEF Connecting
<1>8. Flying(Msg("event"))' = 0 /\ Flying(Msg("pop"))' = 0
  BY <1>5, <1>7
<1>9. sock \in [Conns -> Socket] /\ sock[c] \in Socket
  BY LinkTypes
<1>10. /\ sock'[c].client = "open" /\ sock'[c].readers = 1
       /\ \A d \in Conns \ {c} : sock'[d] = sock[d]
  BY <1>2, <1>3, <1>9 DEF Reading, Connecting, Quiet, Socket
<1>11. Showing(c)'
  BY <1>2, <1>5, <1>7, <1>8, <1>10 DEF Showing, Connecting, Only, OpenAt, ReadAt, Quiet
<1>12. \A d \in Conns : sock'[d].client = "new" => sock'[d].readers = 0
  BY <1>2, <1>10 DEF Connecting, Quiet
<1> QED
  BY <1>1, <1>5, <1>11, <1>12 DEF PatientInv, Stage

LEMMA EventStage ==
  ASSUME PatientInv, ui.mode = "tui",
         Msg("event") \in BagToSet(ui.cmds) \/ Msg("end") \in BagToSet(ui.cmds)
  PROVE  Idle \/ \E c \in Conns : Showing(c)
BY Distinct DEF PatientInv, Stage, Asked, Blank, Connecting, Only

LEMMA PatientEvent ==
  ASSUME LinkInv, PatientInv, Event
  PROVE  PatientInv'
<1>1. ui.mode = "tui" /\ Msg("event") \in BagToSet(ui.cmds)
  BY DEF Event, InFlight, BagIn
<1>2. UiOK /\ ui.stack \in Stacks /\ NoConn \notin Conns
  BY UiFromInv, LinkAssumption DEF UiOK
<1>3. Msg("event") # Msg("pop")
  BY Distinct
<1>4. ASSUME SetUi(ui.stack, {Msg("event")}, {})
      PROVE  /\ ui'.stack = ui.stack /\ ui'.mode = "tui"
             /\ BagToSet(ui'.cmds) \subseteq BagToSet(ui.cmds)
             /\ Flying(Msg("event"))' = Flying(Msg("event")) - 1 /\ Flying(Msg("event")) \in Nat
             /\ Flying(Msg("pop"))' = Flying(Msg("pop"))
  <2>1. /\ ui'.stack = ui.stack /\ ui'.mode = ui.mode
        /\ BagToSet(ui'.cmds) \subseteq BagToSet(ui.cmds) \cup {}
        /\ \A e : /\ Flying(e) \in Nat
                  /\ Flying(e)' =
                       (IF e \in {Msg("event")} /\ e \in BagToSet(ui.cmds) THEN Flying(e) - 1
                        ELSE Flying(e)) + (IF e \in {} THEN 1 ELSE 0)
    BY <1>2, <1>4, Flights
  <2> QED
    BY <1>1, <1>3, <2>1
<1>5. ASSUME NEW c \in Conns PROVE sock[c].readers \in Nat
  BY LinkTypes DEF Socket
<1>6. CASE Idle
  <2>1. ui.stack = << >> /\ SetUi(ui.stack, {Msg("event")}, {}) /\ sock' = sock
    BY <1>6 DEF Idle, Event
  <2>2. Only({Msg("event"), Msg("end")})'
    BY <1>4, <1>6, <2>1 DEF Idle, Only
  <2>3. (Quiet \/ \E c \in Conns : ReadAt(c))'
    BY <1>4, <1>5, <1>6, <2>1 DEF Idle, Quiet, ReadAt
  <2>4. Idle'
    BY <1>4, <1>6, <2>1, <2>2, <2>3 DEF Idle, NoneOpen
  <2> QED
    BY <1>4, <2>1, <2>4 DEF PatientInv, Stage
<1>7. ASSUME NEW c \in Conns, Showing(c) PROVE PatientInv'
  <2>1. ui.stack # << >> /\ Last(ui.stack) = c
    BY <1>7, SeqFacts DEF Showing
  <2>2. SetUi(ui.stack, {Msg("event")}, {}) /\ sock' = Reading(c)
    BY <1>2, <2>1 DEF Event
  <2>3. sock \in [Conns -> Socket] /\ sock[c] \in Socket
    BY LinkTypes
  <2>4. /\ sock'[c].client = sock[c].client /\ sock'[c].readers = sock[c].readers + 1
        /\ \A d \in Conns \ {c} : sock'[d] = sock[d]
    BY <2>2, <2>3 DEF Reading, Socket
  <2>5. Only({Msg("event"), Msg("end"), Msg("pop")})'
    BY <1>4, <1>7, <2>2 DEF Showing, Only
  <2>6. OpenAt(c)' /\ ReadAt(c)'
    BY <1>4, <1>5, <1>7, <2>2, <2>4 DEF Showing, OpenAt, ReadAt
  <2>7. Showing(c)'
    BY <1>4, <1>7, <2>2, <2>4, <2>5, <2>6 DEF Showing
  <2>8. \A d \in Conns : sock'[d].client = "new" => sock'[d].readers = 0
    BY <1>7, <2>4 DEF Showing, PatientInv
  <2> QED
    BY <1>4, <2>2, <2>7, <2>8 DEF PatientInv, Stage
<1> QED
  BY <1>1, <1>6, <1>7, EventStage

LEMMA PatientEnd ==
  ASSUME LinkInv, PatientInv, End
  PROVE  PatientInv'
<1>1. /\ ui.mode = "tui" /\ Msg("end") \in BagToSet(ui.cmds) /\ sock' = sock
      /\ SetUi(ui.stack, {Msg("end")}, {})
  BY DEF End, InFlight, BagIn
<1>2. UiOK /\ ui.stack \in Stacks
  BY UiFromInv DEF UiOK
<1>3. Msg("end") # Msg("event") /\ Msg("end") # Msg("pop")
  BY Distinct
<1>4. /\ ui'.stack = ui.stack /\ ui'.mode = ui.mode
      /\ BagToSet(ui'.cmds) \subseteq BagToSet(ui.cmds) \cup {}
      /\ \A e : /\ Flying(e) \in Nat
                /\ Flying(e)' =
                     (IF e \in {Msg("end")} /\ e \in BagToSet(ui.cmds) THEN Flying(e) - 1
                      ELSE Flying(e)) + (IF e \in {} THEN 1 ELSE 0)
  BY <1>1, <1>2, Flights
<1>5. Flying(Msg("event"))' = Flying(Msg("event")) /\ Flying(Msg("pop"))' = Flying(Msg("pop"))
  BY <1>3, <1>4
<1>6. \A c \in Conns : ReadAt(c)' <=> ReadAt(c)
  BY <1>1, <1>5 DEF ReadAt
<1>7. CASE Idle
  <2>1. Idle'
    BY <1>1, <1>4, <1>6, <1>7 DEF Idle, Only, NoneOpen, Quiet
  <2> QED
    BY <1>1, <1>4, <2>1 DEF PatientInv, Stage
<1>8. ASSUME NEW c \in Conns, Showing(c) PROVE PatientInv'
  <2>1. Showing(c)'
    BY <1>1, <1>4, <1>5, <1>6, <1>8 DEF Showing, Only, OpenAt
  <2> QED
    BY <1>1, <1>4, <2>1 DEF PatientInv, Stage
<1> QED
  BY <1>1, <1>7, <1>8, EventStage

\* A goroutine that reads on, or ends with one message.
LEMMA PatientReads ==
  ASSUME LinkInv, PatientInv, ui.mode = "tui", NEW c \in Conns, sock[c].readers > 0,
         NEW new \in SUBSET {Msg("event"), Msg("end")}, SetUi(ui.stack, {}, new),
         sock'[c].client = sock[c].client,
         \/ sock'[c].readers = sock[c].readers - 1
         \/ sock'[c].readers = sock[c].readers /\ new = {},
         \A d \in Conns \ {c} : sock'[d] = sock[d]
  PROVE  PatientInv'
<1>1. UiOK /\ ui.stack \in Stacks /\ new \subseteq Msgs
  BY UiFromInv, MsgTypes DEF UiOK
<1>2. Msg("event") # Msg("pop") /\ Msg("end") # Msg("pop")
  BY Distinct
<1>3. /\ ui'.stack = ui.stack /\ ui'.mode = ui.mode
      /\ BagToSet(ui'.cmds) \subseteq BagToSet(ui.cmds) \cup new
      /\ \A e : /\ Flying(e) \in Nat
                /\ Flying(e) > 0 <=> e \in BagToSet(ui.cmds)
                /\ Flying(e)' > 0 <=> e \in BagToSet(ui'.cmds)
                /\ Flying(e)' =
                     (IF e \in {} /\ e \in BagToSet(ui.cmds) THEN Flying(e) - 1
                      ELSE Flying(e)) + (IF e \in new THEN 1 ELSE 0)
  BY <1>1, Flights
<1>4. /\ Flying(Msg("pop"))' = Flying(Msg("pop"))
      /\ Flying(Msg("event"))' = Flying(Msg("event")) + (IF Msg("event") \in new THEN 1 ELSE 0)
      /\ Flying(Msg("event")) \in Nat
  BY <1>2, <1>3
<1>5. sock[c].readers \in Nat
  BY LinkTypes DEF Socket
<1>6. ASSUME ReadAt(c) PROVE ReadAt(c)'
  BY <1>4, <1>5, <1>6 DEF ReadAt
<1>7. \A d \in Conns : ReadAt(d) => d = c
  BY <1>5 DEF ReadAt
<1>8. ~Quiet
  BY <1>5 DEF Quiet
<1>9. \A d \in Conns : sock'[d].client = "new" => sock'[d].readers = 0
  BY <1>5 DEF PatientInv
<1>10. CASE Idle
  <2>1. ReadAt(c)
    BY <1>7, <1>8, <1>10 DEF Idle
  <2>2. NoneOpen'
    BY <1>10 DEF Idle, NoneOpen
  <2>3. Only({Msg("event"), Msg("end")})'
    BY <1>3, <1>10 DEF Idle, Only
  <2>4. Idle'
    BY <1>3, <1>6, <1>10, <2>1, <2>2, <2>3 DEF Idle
  <2> QED
    BY <1>3, <1>9, <2>4 DEF PatientInv, Stage
<1>11. CASE Showing(c)
  <2>1. ReadAt(c)' /\ OpenAt(c)'
    BY <1>6, <1>11 DEF Showing, OpenAt
  <2>2. Only({Msg("event"), Msg("end"), Msg("pop")})'
    BY <1>3, <1>11 DEF Showing, Only
  <2>3. Msg("pop") \in BagToSet(ui'.cmds) => Msg("pop") \in BagToSet(ui.cmds)
    BY <1>2, <1>3
  <2>4. Showing(c)'
    BY <1>3, <1>4, <1>11, <2>1, <2>2, <2>3 DEF Showing
  <2> QED
    BY <1>3, <1>9, <2>4 DEF PatientInv, Stage
<1> QED
  BY <1>7, <1>8, <1>10, <1>11 DEF PatientInv, Stage, Asked, Blank, Connecting, Showing

LEMMA PatientReader ==
  ASSUME LinkInv, PatientInv, NEW c \in Conns, Read(c) \/ ReadClosed(c)
  PROVE  PatientInv'
<1>1. sock \in [Conns -> Socket] /\ sock[c] \in Socket /\ sock[c].readers > 0 /\ ui.mode = "tui"
  BY LinkTypes DEF Read, ReadClosed
<1>2. CASE Read(c)
  <2> DEFINE l == Head(sock[c].out)
             goesOn == l \notin {"write", "cut", "stream_end", "error"}
             r == IF goesOn THEN sock[c].readers ELSE sock[c].readers - 1
             k == [sock[c] EXCEPT !.out = Tail(sock[c].out), !.readers = r]
             new == IF goesOn THEN {} ELSE {Msg(IF l = "write" THEN "event" ELSE "end")}
  <2>1. SetUi(ui.stack, {}, new) /\ sock' = [sock EXCEPT ![c] = k]
    BY <1>2 DEF Read
  <2>2. new \in SUBSET {Msg("event"), Msg("end")}
    OBVIOUS
  <2>3. r = sock[c].readers - 1 \/ (r = sock[c].readers /\ new = {})
    OBVIOUS
  <2> HIDE DEF r, new, l
  <2>4. k.client = sock[c].client /\ k.readers = r
    BY <1>1 DEF Socket
  <2> HIDE DEF k
  <2>5. sock'[c] = k /\ \A d \in Conns \ {c} : sock'[d] = sock[d]
    BY <1>1, <2>1
  <2> QED
    BY <1>1, <2>1, <2>2, <2>3, <2>4, <2>5, PatientReads
<1>3. CASE ReadClosed(c)
  <2> DEFINE k == [sock[c] EXCEPT !.readers = sock[c].readers - 1]
  <2>1. SetUi(ui.stack, {}, {Msg("end")}) /\ sock' = [sock EXCEPT ![c] = k]
    BY <1>3 DEF ReadClosed
  <2>2. k.client = sock[c].client /\ k.readers = sock[c].readers - 1
    BY <1>1 DEF Socket
  <2> HIDE DEF k
  <2>3. sock'[c] = k /\ \A d \in Conns \ {c} : sock'[d] = sock[d]
    BY <1>1, <2>1
  <2> QED
    BY <1>1, <2>1, <2>2, <2>3, PatientReads
<1> QED
  BY <1>2, <1>3

LEMMA PatientRaw ==
  ASSUME LinkInv, PatientInv, (\E r \in Request : RawSend(r)) \/ (\E c \in Conns : RawRead(c))
  PROVE  PatientInv'
<1>1. ui.mode = "raw" /\ ui.stack = << >> /\ Quiet
  BY DEF PatientInv, RawSend, RawRead
<1>2. ui'.mode = "raw" /\ ui'.stack = << >>
  BY <1>1, UiFromInv DEF UiOK, UiShape, RawSend, RawRead
<1>3. PICK c \in Conns :
        \/ \E r \in Request : sock' = [sock EXCEPT ![c].in = @ \o Pieces(r)]
        \/ sock' = [sock EXCEPT ![c].out = Tail(@)]
  BY DEF RawSend, RawRead
<1>4. sock \in [Conns -> Socket] /\ sock[c] \in Socket
  BY LinkTypes
<1>5. sock'[c].readers = sock[c].readers /\ \A d \in Conns \ {c} : sock'[d] = sock[d]
  BY <1>3, <1>4 DEF Socket
<1>6. Quiet'
  BY <1>1, <1>5 DEF Quiet
<1> QED
  BY <1>2, <1>6 DEF PatientInv, Quiet

LEMMA PatientNext ==
  ASSUME Patient, LinkInv, PatientInv, Next
  PROVE  PatientInv'
<1>1. CASE Write \/ Die
  <2>1. ui' = ui /\ sock' = sock
    BY <1>1 DEF Write, Die
  <2> QED
    BY <2>1, PatientStays DEF Same
<1>2. ASSUME NEW c \in Conns, ThreadStep(c) PROVE PatientInv'
  <2>1. PICK n, k : Stepped(c, thr[c], n, sock[c], k)
    BY <1>2, ThreadSteps
  <2>2. sock \in [Conns -> Socket]
    BY LinkTypes
  <2>3. /\ ui' = ui /\ sock' = [sock EXCEPT ![c] = k]
        /\ k.client = sock[c].client /\ k.readers = sock[c].readers
    BY <2>1 DEF Stepped
  <2>4. sock'[c] = k /\ \A d \in Conns \ {c} : sock'[d] = sock[d]
    BY <2>2, <2>3
  <2>5. \A d \in Conns : Same(d)
    BY <2>3, <2>4 DEF Same
  <2> QED
    BY <2>3, <2>5, PatientStays
<1>3. CASE KeyStream \/ KeyEsc \/ Push \/ Pop \/ Open \/ Event \/ End
  BY <1>3, PatientKeyStream, PatientKeyEsc, PatientPush, PatientPop, PatientOpen, PatientEvent,
     PatientEnd
<1>4. CASE Quit \/ RawClose
  BY <1>4, PatientOver DEF Quit, RawClose
<1>5. CASE \E c \in Conns : Attached(c) \/ Read(c) \/ ReadClosed(c)
  BY <1>5, PatientAttached, PatientReader
<1>6. CASE (\E r \in Request : RawSend(r)) \/ (\E c \in Conns : RawRead(c))
  BY <1>6, PatientRaw
<1> QED
  BY <1>1, <1>2, <1>3, <1>4, <1>5, <1>6 DEF Next, ClientStep

LEMMA PatientInit == Init => PatientInv
<1> SUFFICES ASSUME Init PROVE PatientInv
  OBVIOUS
<1>1. \A c \in Conns : sock[c].readers = 0
  BY DEF Init
<1>2. ui.stack = << >> /\ ui.cmds = EmptyBag
  BY DEF Init
<1>3. ui.mode = "tui" => \A c \in Conns : sock[c].client = "new"
  BY DEF Init
<1>4. ui.mode = "tui" => Idle
  BY <1>1, <1>2, <1>3, EmptyIsBag DEF Idle, Only, NoneOpen, Quiet
<1> QED
  BY <1>1, <1>2, <1>4 DEF PatientInv, Stage, Quiet

LEMMA PatientInvariant == ASSUME Patient PROVE Spec => [](LinkInv /\ PatientInv)
<1>1. LinkInv /\ PatientInv /\ [Next]_vars => PatientInv'
  <2> SUFFICES ASSUME LinkInv, PatientInv, [Next]_vars PROVE PatientInv'
    OBVIOUS
  <2>1. CASE Next
    BY <2>1, PatientNext
  <2>2. CASE UNCHANGED vars
    BY <2>2, PatientStays DEF vars, Same
  <2> QED BY <2>1, <2>2
<1> QED
  BY <1>1, PatientInit, LinkInvariant, PTL DEF Spec

\* A user who waits for the screen to follow each key leaves no stream behind on the
\* way in or out: every open connection has a stream screen that Esc will close.
THEOREM StreamsKept == ASSUME Patient PROVE Spec => []NoStrayStream
<1>1. LinkInv /\ PatientInv => NoStrayStream
  <2> SUFFICES ASSUME PatientInv, ui.mode = "tui", NEW c \in Conns, sock[c].client = "open"
               PROVE  \/ \E i \in DOMAIN ui.stack : ui.stack[i] = c
                      \/ ui.stack # << >> /\ BagIn([k |-> "attached", c |-> c], ui.cmds)
    BY DEF NoStrayStream
  <2>1. PICK d \in Conns : Connecting(d) \/ Showing(d)
    BY DEF PatientInv, Stage, Idle, Asked, Blank, NoneOpen
  <2>2. d = c
    BY <2>1 DEF Connecting, Showing, OpenAt
  <2>3. CASE Connecting(c)
    BY <2>3, SeqFacts DEF Connecting, BagIn, Joined
  <2>4. CASE Showing(c)
    <3>1. ui.stack = <<c>>
      BY <2>4 DEF Showing
    <3> QED BY <3>1
  <2> QED
    BY <2>1, <2>2, <2>3, <2>4
<1> QED
  BY <1>1, PatientInvariant, PTL

\* For such a user no two goroutines ever read one connection's bufio.Reader, and no
\* event reaches a screen whose session is still nil.
THEOREM ReadersAlone == ASSUME Patient PROVE Spec => []OneReader
<1>1. LinkInv /\ PatientInv => OneReader
  <2> SUFFICES ASSUME LinkInv, PatientInv PROVE OneReader
    OBVIOUS
  <2>1. IsABag(ui.cmds)
    BY UiFromInv DEF UiOK
  <2>2. Flying(Msg("event")) \in Nat
    BY <2>1, CopiesType DEF Flying
  <2>3. ASSUME NEW c \in Conns PROVE sock[c].readers <= 1
    <3>1. sock[c].readers \in Nat
      BY LinkTypes DEF Socket
    <3>2. ASSUME NEW d \in Conns, ReadAt(d) PROVE sock[c].readers <= 1
      <4>1. sock[d].readers \in Nat
        BY LinkTypes DEF Socket
      <4> QED
        BY <2>2, <3>1, <3>2, <4>1 DEF ReadAt
    <3>3. CASE Quiet
      BY <3>3 DEF Quiet
    <3> QED
      BY <3>2, <3>3 DEF PatientInv, Stage, Idle, Asked, Blank, Connecting, Showing
  <2>4. ASSUME ui.stack # << >>, Last(ui.stack) = NoConn PROVE Still({"event"})
    <3>1. ui.mode = "tui"
      BY <2>4 DEF PatientInv
    <3>2. \A c \in Conns : ~Showing(c)
      BY <2>4, SeqFacts, LinkAssumption DEF Showing
    <3>3. Blank \/ \E c \in Conns : Connecting(c)
      BY <2>4, <3>1, <3>2 DEF PatientInv, Stage, Idle, Asked
    <3> QED
      BY <3>3, Distinct DEF Blank, Connecting, Only, Still
  <2> QED
    BY <2>3, <2>4 DEF OneReader
<1> QED
  BY <1>1, PatientInvariant, PTL
=============================================================================
