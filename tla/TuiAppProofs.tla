---------------------------- MODULE TuiAppProofs ----------------------------
(***************************************************************************)
(* The event loop of hsed, for any number of streams and any bounds: its   *)
(* types, that the auto-rescan never multiplies, that nothing is done to a *)
(* process without an answer, and that a user who waits for each screen    *)
(* answers the question DetailScreen has asked.                            *)
(***************************************************************************)
EXTENDS TuiApp, DataLemmas, SequenceTheorems

Changing(c) == c.k \in {"push", "pop", "act"}
Asks(sc) == sc.kind \in {"confirm", "kill"}
Waits(sc) == sc.kind = "detail" /\ sc.pending # ""

\* A handler leaves its kind of screen on top and what it waits for.
Keeps(sc, new) ==
  /\ new \in Screen /\ new.kind = sc.kind
  /\ Waits(new) <=> Waits(sc)
  /\ Waits(sc) => new.pending = sc.pending

\* A "yes" comes from the question that was on the screen.
Answered(sc, v, by) ==
  /\ sc.kind # "table"
  /\ Asks(sc) => v # "none"
  /\ v = "yes" => (sc.kind = "confirm" /\ by = "confirm") \/ (sc.kind = "kill" /\ by = "typed")

\* What a key does, whichever screen it is given to: nothing to the stack, a new
\* screen that asks nothing, a question that is remembered, or an answer.
Effect(sc, out) ==
  /\ out.screen \in Screen /\ out.cmds \subseteq Cmd /\ tickCmd \notin out.cmds
  /\ out.screen.kind = sc.kind
  /\ \/ Keeps(sc, out.screen) /\ \A c \in out.cmds : ~Changing(c)
     \/ /\ Keeps(sc, out.screen) /\ ~Asks(sc)
        /\ \E q \in Screen : out.cmds = {PushScreen(q)} /\ ~Asks(q) /\ ~Waits(q)
     \/ /\ Waits(out.screen)
        /\ \E q \in Screen : out.cmds = {PushScreen(q)} /\ q.kind = Question(out.screen.pending)
     \/ /\ Keeps(sc, out.screen)
        /\ \E v \in {"none", "yes", "no"}, by \in Answerer :
             out.cmds = {PopScreenWithResult(v, by)} /\ Answered(sc, v, by)

\* What a screen waits for is what the screen above it asks.
Follows(a, b) == (Waits(a) <=> Asks(b)) /\ (Waits(a) => b.kind = Question(a.pending))

\* A command in flight belongs to the screen on top.
Coming(sc, c) ==
  /\ c.k = "push" => Follows(sc, c.screen) /\ ~Waits(c.screen)
  /\ c.k = "pop" => Answered(sc, c.result, c.by)
  /\ c.k = "act" => (c.op = "kill" => c.by = "typed")

Matched(st) == \A i \in 1 .. Len(st) - 1 : Follows(st[i], st[i + 1])
Single(B) == \A c, d \in BagToSet(B) : Changing(c) /\ Changing(d) => c = d /\ Copies(c, B) = 1

\* What a user who waits sees: one change of the stack at a time, and it is what
\* the screen on top has asked for.
CalmAt(st, B) ==
  /\ Matched(st) /\ Single(B)
  /\ \A c \in BagToSet(B) : Coming(Last(st), c)
  /\ Waits(Last(st)) => \E c \in BagToSet(B) : c.k = "push"

Rooted(st) == st \in Seq(Screen) /\ st # << >> /\ st[1].kind = "table"

\* However screens and answers are mixed up, a yes was given by someone.
Genuine(c) ==
  /\ c.k = "pop" /\ c.result = "yes" => c.by \in {"confirm", "typed"}
  /\ c.k = "act" => c.by \in {"confirm", "typed"}
Flight(B) ==
  /\ IsABag(B) /\ BagToSet(B) \subseteq Cmd /\ Copies(tickCmd, B) <= 1
  /\ \A c \in BagToSet(B) : Genuine(c)

\* Calm is about any stack and bag, so that a step is a fact about both.
Rest == /\ conn \in [Streams -> {"new", "open", "closed"}]
        /\ status \in {"running", "quit", "panic"}
        /\ hasty \in BOOLEAN
TuiInv ==
  /\ Rooted(stack) /\ Flight(cmds) /\ Rest
  /\ status = "running" /\ ~hasty => CalmAt(stack, cmds)
  /\ status # "running" => BagToSet(cmds) = {}

----------------------------------------------------------------------------
(* Screens and commands *)

LEMMA Kinds ==
  ASSUME NEW sc \in Screen
  PROVE  /\ sc.kind \in {"table", "tree", "detail", "stream", "confirm", "kill"}
         /\ sc.kind = "table" => sc \in TableScreen
         /\ sc.kind = "detail" => sc \in DetailScreen
         /\ sc.kind = "stream" => sc \in StreamScreen
         /\ sc.kind = "kill" => sc \in KillConfirmScreen
BY DEF Screen, TableScreen, TreeScreen, DetailScreen, StreamScreen, ConfirmScreen,
       KillConfirmScreen

LEMMA NewScreens ==
  /\ NewTreeScreen \in Screen /\ NewTreeScreen.kind = "tree"
  /\ NewDetailScreen \in Screen /\ NewDetailScreen.kind = "detail" /\ NewDetailScreen.pending = ""
  /\ NewStreamScreen \in Screen /\ NewStreamScreen.kind = "stream"
  /\ NewConfirmScreen \in Screen /\ NewConfirmScreen.kind = "confirm"
  /\ NewKillConfirmScreen \in Screen /\ NewKillConfirmScreen.kind = "kill"
  /\ NewTableScreen \in Screen /\ NewTableScreen.kind = "table"
BY DEF NewTreeScreen, NewDetailScreen, NewStreamScreen, NewConfirmScreen, NewKillConfirmScreen,
       NewTableScreen, Screen, TableScreen, TreeScreen, DetailScreen, StreamScreen, ConfirmScreen,
       KillConfirmScreen

LEMMA PlainCmds ==
  /\ scanCmd \in Cmd /\ ~Changing(scanCmd) /\ scanCmd # tickCmd
  /\ quitCmd \in Cmd /\ ~Changing(quitCmd) /\ quitCmd # tickCmd
  /\ openCmd \in Cmd /\ ~Changing(openCmd) /\ openCmd # tickCmd
  /\ tickCmd \in Cmd /\ ~Changing(tickCmd)
  /\ tickCmd.k = "tick" /\ scanCmd.k = "scan" /\ openCmd.k = "open" /\ quitCmd.k = "quit"
BY DEF scanCmd, quitCmd, openCmd, tickCmd, Cmd, Changing

LEMMA StackCmds ==
  /\ \A q \in Screen : /\ PushScreen(q) \in Cmd /\ PushScreen(q) # tickCmd
                       /\ PushScreen(q).k = "push" /\ PushScreen(q).screen = q
  /\ \A v \in {"none", "yes", "no", "label"}, by \in Answerer :
       /\ PopScreenWithResult(v, by) \in Cmd /\ PopScreenWithResult(v, by) # tickCmd
       /\ PopScreenWithResult(v, by).k = "pop"
       /\ PopScreenWithResult(v, by).result = v /\ PopScreenWithResult(v, by).by = by
  /\ \A op \in Actions, by \in Answerer :
       /\ actionCmd(op, by) \in Cmd /\ actionCmd(op, by) # tickCmd
       /\ actionCmd(op, by).k = "act" /\ actionCmd(op, by).op = op /\ actionCmd(op, by).by = by
  /\ PopScreen = PopScreenWithResult("none", "none")
<1>1. ASSUME NEW q \in Screen
      PROVE  /\ PushScreen(q) \in Cmd /\ PushScreen(q) # tickCmd
             /\ PushScreen(q).k = "push" /\ PushScreen(q).screen = q
  BY DEF PushScreen, tickCmd, Cmd
<1>2. ASSUME NEW v \in {"none", "yes", "no", "label"}, NEW by \in Answerer
      PROVE  /\ PopScreenWithResult(v, by) \in Cmd /\ PopScreenWithResult(v, by) # tickCmd
             /\ PopScreenWithResult(v, by).k = "pop"
             /\ PopScreenWithResult(v, by).result = v /\ PopScreenWithResult(v, by).by = by
  BY DEF PopScreenWithResult, tickCmd, Cmd
<1>3. ASSUME NEW op \in Actions, NEW by \in Answerer
      PROVE  /\ actionCmd(op, by) \in Cmd /\ actionCmd(op, by) # tickCmd
             /\ actionCmd(op, by).k = "act" /\ actionCmd(op, by).op = op
             /\ actionCmd(op, by).by = by
  BY DEF actionCmd, tickCmd, Cmd
<1> QED
  BY <1>1, <1>2, <1>3 DEF PopScreen, PopScreenWithResult

LEMMA ReadCmds ==
  ASSUME NEW x \in Streams \cup {NoStream}, NEW l \in BOOLEAN
  PROVE  LET c == [k |-> "read", of |-> x, live |-> l]
         IN  c \in Cmd /\ ~Changing(c) /\ c # tickCmd
BY DEF Cmd, Changing, tickCmd

LEMMA CmdKinds ==
  ASSUME NEW c \in Cmd
  PROVE  /\ c.k = "push" => c.screen \in Screen
         /\ c.k = "pop" => c.result \in {"none", "yes", "no", "label"} /\ c.by \in Answerer
         /\ c.k = "act" => c.op \in Actions /\ c.by \in Answerer
         /\ c.k = "read" => c.of \in Streams \cup {NoStream}
BY DEF Cmd

----------------------------------------------------------------------------
(* The stack *)

LEMMA LastOf ==
  ASSUME NEW S, NEW st \in Seq(S), st # << >>
  PROVE  /\ Len(st) \in Nat /\ Len(st) > 0 /\ Last(st) = st[Len(st)] /\ Last(st) \in S
         /\ \A i \in 1 .. Len(st) : st[i] \in S
BY DEF Last

LEMMA Above ==
  ASSUME NEW n \in Nat, n > 0
  PROVE  /\ (IF 1 <= n - 1 THEN n - 1 - 1 + 1 ELSE 0) = n - 1
         /\ n # 1 => 1 \in 1 .. n - 1
OBVIOUS

LEMMA FrontOf ==
  ASSUME NEW S, NEW st \in Seq(S), st # << >>
  PROVE  /\ Front(st) \in Seq(S) /\ Len(Front(st)) = Len(st) - 1
         /\ \A i \in 1 .. Len(st) - 1 : Front(st)[i] = st[i]
<1> DEFINE n == Len(st)
           f == SubSeq(st, 1, n - 1)
<1>1. n \in Nat /\ n > 0 /\ \A i \in 1 .. n : st[i] \in S
  BY LastOf
<1> HIDE DEF n
<1>2. 1 \in Int /\ n - 1 \in Int /\ \A i \in 1 .. n - 1 : st[i] \in S
  BY <1>1
<1>3. /\ f \in Seq(S) /\ Len(f) = IF 1 <= n - 1 THEN n - 1 - 1 + 1 ELSE 0
      /\ \A i \in 1 .. n - 1 - 1 + 1 : f[i] = st[1 + i - 1]
  BY <1>2, SubSeqProperties
<1>4. /\ (IF 1 <= n - 1 THEN n - 1 - 1 + 1 ELSE 0) = n - 1
      /\ n - 1 - 1 + 1 = n - 1 /\ \A i \in 1 .. n - 1 : 1 + i - 1 = i
  BY <1>1, Above
<1> HIDE DEF f
<1>5. Len(f) = n - 1 /\ \A i \in 1 .. n - 1 : f[i] = st[i]
  BY <1>3, <1>4
<1> QED
  BY <1>3, <1>5 DEF f, n, Front

\* App.Update replaces the screen on top.
LEMMA Replaced ==
  ASSUME NEW S, NEW st \in Seq(S), st # << >>, NEW x \in S
  PROVE  LET t == Append(Front(st), x)
         IN  /\ t \in Seq(S) /\ t # << >> /\ Len(t) = Len(st) /\ Last(t) = x
             /\ t[Len(st)] = x
             /\ \A i \in 1 .. Len(st) - 1 : t[i] = st[i]
<1> DEFINE f == Front(st)
           t == Append(f, x)
<1>1. /\ f \in Seq(S) /\ Len(f) = Len(st) - 1
      /\ \A i \in 1 .. Len(st) - 1 : f[i] = st[i]
      /\ Len(st) \in Nat /\ Len(st) > 0
  BY FrontOf, LastOf
<1> HIDE DEF f
<1>2. /\ t \in Seq(S) /\ Len(t) = Len(f) + 1 /\ t[Len(f) + 1] = x
      /\ \A i \in 1 .. Len(f) : t[i] = f[i]
  BY <1>1, AppendProperties
<1>3. t # << >> /\ Last(t) = t[Len(t)]
  BY <1>1, <1>2 DEF Last
<1> HIDE DEF t
<1>4. Len(t) = Len(st) /\ Len(f) + 1 = Len(st)
  BY <1>1, <1>2
<1> QED
  BY <1>1, <1>2, <1>3, <1>4 DEF t, f

\* Nothing about a stack depends on anything but the kinds of its screens and on
\* what they wait for.
LEMMA MatchedOnTop ==
  ASSUME NEW st \in Seq(Screen), st # << >>, Matched(st), NEW x \in Screen, x.kind = Last(st).kind
  PROVE  Matched(Append(Front(st), x))
<1> DEFINE t == Append(Front(st), x)
<1>1. /\ Len(t) = Len(st) /\ t[Len(st)] = x /\ \A i \in 1 .. Len(st) - 1 : t[i] = st[i]
  BY Replaced
<1>2. Len(st) \in Nat /\ Last(st) = st[Len(st)]
  BY LastOf
<1> HIDE DEF t
<1> SUFFICES ASSUME NEW i \in 1 .. Len(st) - 1 PROVE Follows(t[i], t[i + 1])
  BY <1>1 DEF Matched, t
<1>3. Follows(st[i], st[i + 1])
  BY DEF Matched
<1>4. t[i] = st[i] /\ t[i + 1].kind = st[i + 1].kind
  <2>1. CASE i + 1 = Len(st)
    BY <2>1, <1>1, <1>2
  <2>2. CASE i + 1 # Len(st)
    <3>1. i + 1 \in 1 .. Len(st) - 1
      BY <2>2, <1>2
    <3> QED BY <3>1, <1>1
  <2> QED BY <2>1, <2>2
<1> QED
  BY <1>3, <1>4 DEF Follows, Asks

LEMMA RootedOnTop ==
  ASSUME NEW st, Rooted(st), NEW x \in Screen, x.kind = Last(st).kind
  PROVE  Rooted(Append(Front(st), x))
<1> DEFINE t == Append(Front(st), x)
<1>1. st \in Seq(Screen) /\ st # << >> /\ st[1].kind = "table"
  BY DEF Rooted
<1>2. /\ t \in Seq(Screen) /\ t # << >> /\ t[Len(st)] = x
      /\ \A i \in 1 .. Len(st) - 1 : t[i] = st[i]
  BY <1>1, Replaced
<1>3. Len(st) \in Nat /\ Len(st) > 0 /\ Last(st) = st[Len(st)]
  BY <1>1, LastOf
<1> HIDE DEF t
<1>4. t[1].kind = "table"
  <2>1. CASE Len(st) = 1
    BY <2>1, <1>1, <1>2, <1>3
  <2>2. CASE Len(st) # 1
    <3>1. 1 \in 1 .. Len(st) - 1
      BY <2>2, <1>3, Above
    <3> QED BY <3>1, <1>1, <1>2
  <2> QED BY <2>1, <2>2
<1> QED
  BY <1>2, <1>4 DEF Rooted, t

LEMMA OnePushed ==
  ASSUME NEW st, Rooted(st), NEW sc \in Screen
  PROVE  LET t == Append(st, sc)
         IN  /\ Rooted(t) /\ Last(t) = sc
             /\ Matched(st) /\ Follows(Last(st), sc) => Matched(t)
<1> DEFINE t == Append(st, sc)
<1>1. st \in Seq(Screen) /\ st # << >> /\ st[1].kind = "table"
  BY DEF Rooted
<1>2. Len(st) \in Nat /\ Len(st) > 0 /\ Last(st) = st[Len(st)]
  BY <1>1, LastOf
<1>3. /\ t \in Seq(Screen) /\ Len(t) = Len(st) + 1 /\ t[Len(st) + 1] = sc
      /\ \A i \in 1 .. Len(st) : t[i] = st[i]
  BY <1>1, AppendProperties
<1>4. t # << >> /\ Last(t) = sc
  BY <1>3, <1>2 DEF Last
<1> HIDE DEF t
<1>5. Rooted(t)
  <2>1. 1 \in 1 .. Len(st)
    BY <1>2
  <2> QED BY <1>1, <1>3, <1>4, <2>1 DEF Rooted
<1>6. ASSUME Matched(st), Follows(Last(st), sc)
      PROVE  Matched(t)
  <2> SUFFICES ASSUME NEW i \in 1 .. Len(st) PROVE Follows(t[i], t[i + 1])
    <3>1. Len(t) - 1 = Len(st)
      BY <1>2, <1>3
    <3> QED BY <3>1 DEF Matched
  <2>1. CASE i = Len(st)
    BY <2>1, <1>2, <1>3, <1>6
  <2>2. CASE i # Len(st)
    <3>1. i \in 1 .. Len(st) - 1 /\ i + 1 \in 1 .. Len(st)
      BY <2>2, <1>2
    <3> QED BY <3>1, <1>3, <1>6 DEF Matched
  <2> QED BY <2>1, <2>2
<1> QED
  BY <1>4, <1>5, <1>6 DEF t

LEMMA OnePopped ==
  ASSUME NEW st, Rooted(st)
  PROVE  /\ Rooted(Popped(st))
         /\ Matched(st) => Matched(Popped(st))
         /\ Matched(st) /\ Last(st).kind # "table" => Follows(Last(Popped(st)), Last(st))
<1> DEFINE f == Front(st)
<1>1. st \in Seq(Screen) /\ st # << >> /\ st[1].kind = "table"
  BY DEF Rooted
<1>2. Len(st) \in Nat /\ Len(st) > 0 /\ Last(st) = st[Len(st)]
  BY <1>1, LastOf
<1>3. CASE Len(st) = 1
  BY <1>1, <1>2, <1>3 DEF Popped
<1>4. CASE Len(st) > 1
  <2>1. Popped(st) = f
    BY <1>4 DEF Popped
  <2>2. /\ f \in Seq(Screen) /\ Len(f) = Len(st) - 1
        /\ \A i \in 1 .. Len(st) - 1 : f[i] = st[i]
    BY <1>1, FrontOf
  <2>3. Len(st) # 1 /\ 1 \in 1 .. Len(st) - 1 /\ Len(f) > 0
    BY <1>2, <1>4, <2>2
  <2>4. f # << >> /\ f[1].kind = "table" /\ Last(f) = f[Len(f)]
    BY <2>2, <2>3, <1>1 DEF Last
  <2> HIDE DEF f
  <2>5. Rooted(f)
    BY <2>2, <2>4 DEF Rooted
  <2>6. Last(f) = st[Len(st) - 1] /\ Len(st) - 1 \in 1 .. Len(st) - 1 /\ Len(st) - 1 + 1 = Len(st)
    BY <2>2, <2>3, <2>4, <1>2
  <2>7. ASSUME Matched(st)
        PROVE  Matched(f) /\ Follows(Last(f), Last(st))
    <3>1. \A i \in 1 .. Len(st) - 1 : Follows(st[i], st[i + 1])
      BY <2>7 DEF Matched
    <3>2. Follows(Last(f), Last(st))
      BY <3>1, <2>6, <1>2
    <3> SUFFICES ASSUME NEW i \in 1 .. Len(f) - 1 PROVE Follows(f[i], f[i + 1])
      BY <3>2 DEF Matched
    <3>3. i \in 1 .. Len(st) - 1 /\ i + 1 \in 1 .. Len(st) - 1
      BY <2>2, <1>2
    <3> QED BY <3>1, <3>3, <2>2
  <2> QED
    BY <2>1, <2>5, <2>7
<1> QED
  BY <1>2, <1>3, <1>4

----------------------------------------------------------------------------
(* The commands in flight *)

LEMMA FlightStep ==
  ASSUME NEW B, Flight(B), NEW done, NEW new, new \subseteq Cmd, \A c \in new : Genuine(c),
         tickCmd \in new => tickCmd \in done /\ tickCmd \in BagToSet(B)
  PROVE  Flight(Exchanged(B, done, new))
<1> DEFINE C == Exchanged(B, done, new)
<1>1. IsABag(B) /\ BagToSet(B) \subseteq Cmd /\ Copies(tickCmd, B) <= 1
      /\ \A c \in BagToSet(B) : Genuine(c)
  BY DEF Flight
<1>2. /\ IsABag(C)
      /\ \A e : Copies(e, C) =
           (IF e \in done /\ e \in DOMAIN B THEN Copies(e, B) - 1 ELSE Copies(e, B))
             + (IF e \in new THEN 1 ELSE 0)
      /\ BagToSet(C) \subseteq BagToSet(B) \cup new
  BY <1>1, ExchangedCopies, ExchangedSet
<1>3. Copies(tickCmd, B) \in Nat /\ BagToSet(B) = DOMAIN B
  BY <1>1, CopiesType DEF BagToSet
<1> HIDE DEF C
<1>4. Copies(tickCmd, C) <= 1
  BY <1>1, <1>2, <1>3
<1> QED
  BY <1>1, <1>2, <1>4 DEF Flight, C

\* A step that does not touch the stack.
LEMMA CalmKept ==
  ASSUME NEW st, Rooted(st), NEW B, Flight(B), CalmAt(st, B), NEW x, Keeps(Last(st), x),
         NEW done, NEW new, \A c \in done \cup new : ~Changing(c)
  PROVE  CalmAt(Append(Front(st), x), Exchanged(B, done, new))
<1> DEFINE C == Exchanged(B, done, new)
           t == Append(Front(st), x)
<1>1. st \in Seq(Screen) /\ st # << >> /\ x \in Screen /\ x.kind = Last(st).kind
  BY DEF Rooted, Keeps
<1>2. Last(t) = x /\ Matched(t)
  BY <1>1, Replaced, MatchedOnTop DEF CalmAt
<1>3. /\ IsABag(B) /\ IsABag(C)
      /\ \A e : Copies(e, C) =
           (IF e \in done /\ e \in DOMAIN B THEN Copies(e, B) - 1 ELSE Copies(e, B))
             + (IF e \in new THEN 1 ELSE 0)
      /\ BagToSet(C) \subseteq BagToSet(B) \cup new
      /\ BagToSet(B) \ done \subseteq BagToSet(C)
  BY ExchangedCopies, ExchangedSet DEF Flight
<1>4. \A e : Copies(e, B) \in Nat
  BY <1>3, CopiesType
<1> HIDE DEF C, t
<1>5. \A e : Changing(e) => (e \in BagToSet(C) <=> e \in BagToSet(B)) /\ Copies(e, C) = Copies(e, B)
  BY <1>3, <1>4
<1>6. Single(C)
  BY <1>5 DEF CalmAt, Single
<1>7. \A c \in BagToSet(C) : Coming(x, c)
  <2> SUFFICES ASSUME NEW c \in BagToSet(C), Changing(c) PROVE Coming(x, c)
    BY DEF Coming, Changing
  <2>1. Coming(Last(st), c)
    BY <1>5 DEF CalmAt
  <2> QED
    BY <2>1 DEF Coming, Keeps, Follows, Answered, Asks
<1>8. ASSUME Waits(x) PROVE \E c \in BagToSet(C) : c.k = "push"
  <2>1. Waits(Last(st))
    BY <1>8 DEF Keeps
  <2>2. PICK c \in BagToSet(B) : c.k = "push"
    BY <2>1 DEF CalmAt
  <2> QED
    BY <2>2, <1>5 DEF Changing
<1> QED
  BY <1>2, <1>6, <1>7, <1>8 DEF CalmAt, C, t

\* A step that leaves at most one change to come, its own.
LEMMA CalmNext ==
  ASSUME NEW st, Rooted(st), Matched(st), NEW B, Flight(B),
         NEW x \in Screen, x.kind = Last(st).kind, NEW done, NEW new,
         \A c \in BagToSet(B) : Changing(c) => c \in done /\ Copies(c, B) = 1,
         \A c, d \in new : Changing(c) /\ Changing(d) => c = d,
         \A c \in new : Coming(x, c),
         Waits(x) => \E c \in new : c.k = "push"
  PROVE  CalmAt(Append(Front(st), x), Exchanged(B, done, new))
<1> DEFINE C == Exchanged(B, done, new)
           t == Append(Front(st), x)
<1>1. st \in Seq(Screen) /\ st # << >>
  BY DEF Rooted
<1>2. Last(t) = x /\ Matched(t)
  BY <1>1, Replaced, MatchedOnTop
<1>3. /\ IsABag(B) /\ IsABag(C)
      /\ \A e : Copies(e, C) =
           (IF e \in done /\ e \in DOMAIN B THEN Copies(e, B) - 1 ELSE Copies(e, B))
             + (IF e \in new THEN 1 ELSE 0)
      /\ BagToSet(C) \subseteq BagToSet(B) \cup new
      /\ new \subseteq BagToSet(C)
  BY ExchangedCopies, ExchangedSet DEF Flight
<1>4. \A e : /\ Copies(e, B) \in Nat /\ (Copies(e, B) > 0 <=> e \in BagToSet(B))
             /\ Copies(e, C) > 0 <=> e \in BagToSet(C)
  BY <1>3, CopiesType
<1> HIDE DEF C, t
<1>5. ASSUME NEW c \in BagToSet(C), Changing(c)
      PROVE  c \in new /\ Copies(c, C) = 1
  <2>1. Copies(c, C) > 0
    BY <1>4
  <2>2. (IF c \in done /\ c \in DOMAIN B THEN Copies(c, B) - 1 ELSE Copies(c, B)) = 0
    <3>1. CASE c \in BagToSet(B)
      BY <3>1, <1>5 DEF BagToSet
    <3>2. CASE c \notin BagToSet(B)
      BY <3>2, <1>4 DEF BagToSet
    <3> QED BY <3>1, <3>2
  <2> QED
    BY <2>1, <2>2, <1>3
<1>6. Single(C)
  BY <1>5 DEF Single
<1>7. \A c \in BagToSet(C) : Coming(x, c)
  BY <1>5 DEF Coming, Changing
<1> QED
  BY <1>2, <1>3, <1>6, <1>7 DEF CalmAt, C, t

----------------------------------------------------------------------------
(* Keys *)

\* The three things a handler may do, as Effect tells them apart.
LEMMA Plain ==
  ASSUME NEW sc \in Screen, NEW x \in Screen, x.kind = sc.kind, ~Waits(x), ~Waits(sc),
         NEW cs, cs \subseteq Cmd, \A c \in cs : ~Changing(c) /\ c # tickCmd
  PROVE  Effect(sc, Out(x, cs))
BY DEF Effect, Keeps, Out

LEMMA Unchanged ==
  ASSUME NEW sc \in Screen
  PROVE  /\ Effect(sc, Out(sc, {})) /\ Effect(sc, Out(sc, {quitCmd}))
         /\ Keeps(sc, sc)
BY PlainCmds DEF Effect, Keeps, Out

LEMMA Shows ==
  ASSUME NEW sc \in Screen, ~Asks(sc), NEW q \in Screen, ~Asks(q), ~Waits(q)
  PROVE  Effect(sc, Out(sc, {PushScreen(q)}))
<1>1. Keeps(sc, sc)
  BY DEF Keeps
<1>2. PushScreen(q) \in Cmd /\ PushScreen(q) # tickCmd
  BY StackCmds
<1> QED
  BY <1>1, <1>2 DEF Effect, Out

LEMMA AsksFor ==
  ASSUME NEW sc \in Screen, NEW x \in Screen, x.kind = sc.kind, Waits(x),
         NEW q \in Screen, q.kind = Question(x.pending)
  PROVE  Effect(sc, Out(x, {PushScreen(q)}))
<1>1. PushScreen(q) \in Cmd /\ PushScreen(q) # tickCmd
  BY StackCmds
<1> QED
  BY <1>1 DEF Effect, Out

LEMMA Replies ==
  ASSUME NEW sc \in Screen, NEW v \in {"none", "yes", "no"}, NEW by \in Answerer,
         Answered(sc, v, by)
  PROVE  Effect(sc, Out(sc, {PopScreenWithResult(v, by)}))
<1>1. Keeps(sc, sc)
  BY DEF Keeps
<1>2. PopScreenWithResult(v, by) \in Cmd /\ PopScreenWithResult(v, by) # tickCmd
  BY StackCmds
<1> QED
  BY <1>1, <1>2 DEF Effect, Out

LEMMA Leaves ==
  ASSUME NEW sc \in Screen, sc.kind \in {"tree", "detail", "stream"}
  PROVE  Effect(sc, Out(sc, {PopScreen}))
<1>1. Answered(sc, "none", "none")
  BY DEF Answered, Asks
<1>2. "none" \in Answerer
  BY DEF Answerer
<1>3. Effect(sc, Out(sc, {PopScreenWithResult("none", "none")}))
  BY <1>1, <1>2, Replies
<1> QED
  BY <1>3, StackCmds

LEMMA TableKeyEffect ==
  ASSUME NEW sc \in Screen, sc.kind = "table", sc = top, NEW key, NEW out \in TableKey(sc, key)
  PROVE  Effect(sc, out)
<1>1. sc \in TableScreen /\ ~Waits(sc) /\ ~Asks(sc)
  BY Kinds DEF Waits, Asks
<1>2. ASSUME NEW f \in BOOLEAN, NEW r \in BOOLEAN
      PROVE  Effect(sc, Out([sc EXCEPT !.filtering = f, !.rows = r], {}))
  <2> DEFINE x == [sc EXCEPT !.filtering = f, !.rows = r]
  <2>1. x \in Screen /\ x.kind = "table"
    BY <1>1 DEF TableScreen, Screen
  <2> HIDE DEF x
  <2>2. Effect(sc, Out(x, {}))
    BY <1>1, <2>1, Plain DEF Waits
  <2> QED BY <2>2 DEF x
<1>3. Effect(sc, Out([sc EXCEPT !.filtering = TRUE], {}))
  <2> DEFINE x == [sc EXCEPT !.filtering = TRUE]
  <2>1. x \in Screen /\ x.kind = "table"
    BY <1>1 DEF TableScreen, Screen
  <2> HIDE DEF x
  <2>2. Effect(sc, Out(x, {}))
    BY <1>1, <2>1, Plain DEF Waits
  <2> QED BY <2>2 DEF x
<1>4. Effect(sc, Ignored) /\ Effect(sc, Out(sc, {quitCmd}))
  BY Unchanged DEF Ignored
<1>5. Effect(sc, Out(sc, {scanCmd}))
  BY <1>1, PlainCmds, Plain
<1>6. Effect(sc, Out(sc, {PushScreen(NewTreeScreen)}))
  BY <1>1, NewScreens, Shows DEF Asks, Waits
<1>7. Effect(sc, Out(sc, {PushScreen(NewDetailScreen)}))
  BY <1>1, NewScreens, Shows DEF Asks, Waits
<1>8. CASE sc.filtering
  BY <1>2, <1>4, <1>8 DEF TableKey
<1>9. CASE ~sc.filtering
  <2>1. out \in {Out(sc, {quitCmd}), Out(sc, {scanCmd}), Out([sc EXCEPT !.filtering = TRUE], {}),
                 Out(sc, {PushScreen(NewTreeScreen)}), Out(sc, {PushScreen(NewDetailScreen)}),
                 Ignored}
    BY <1>9 DEF TableKey
  <2> QED
    BY <2>1, <1>3, <1>4, <1>5, <1>6, <1>7
<1> QED BY <1>8, <1>9

LEMMA DetailKeyEffect ==
  ASSUME NEW sc \in Screen, sc.kind = "detail", sc = top, NEW key
  PROVE  Effect(sc, DetailKey(sc, key))
<1>1. sc \in DetailScreen /\ ~Asks(sc)
  BY Kinds DEF Asks
<1>2. ASSUME NEW op \in Actions, NEW q \in Screen, q.kind = Question(op)
      PROVE  Effect(sc, Out([sc EXCEPT !.pending = op], {PushScreen(q)}))
  <2> DEFINE x == [sc EXCEPT !.pending = op]
  <2>1. x \in Screen /\ x.kind = "detail" /\ x.pending = op
    BY <1>1 DEF DetailScreen, Screen
  <2> HIDE DEF x
  <2>2. Waits(x)
    BY <2>1 DEF Waits, Actions
  <2>3. Effect(sc, Out(x, {PushScreen(q)}))
    BY <1>2, <2>1, <2>2, AsksFor
  <2> QED BY <2>3 DEF x
<1>3. Effect(sc, Out([sc EXCEPT !.pending = "truncate"], {PushScreen(NewConfirmScreen)}))
  BY <1>2, NewScreens DEF Actions, Question
<1>4. Effect(sc, Out([sc EXCEPT !.pending = "hup"], {PushScreen(NewConfirmScreen)}))
  BY <1>2, NewScreens DEF Actions, Question
<1>5. Effect(sc, Out([sc EXCEPT !.pending = "kill"], {PushScreen(NewKillConfirmScreen)}))
  BY <1>2, NewScreens DEF Actions, Question
<1>6. Effect(sc, Out(sc, {PopScreen}))
  BY Leaves
<1>7. Effect(sc, Out(sc, {PushScreen(NewStreamScreen)}))
  BY <1>1, NewScreens, Shows DEF Asks, Waits
<1>8. Effect(sc, Ignored)
  BY Unchanged DEF Ignored
<1> QED
  BY <1>3, <1>4, <1>5, <1>6, <1>7, <1>8 DEF DetailKey

LEMMA ConfirmKeyEffect ==
  ASSUME NEW sc \in Screen, sc.kind = "confirm", sc = top, NEW key
  PROVE  Effect(sc, ConfirmKey(sc, key))
<1>1. \A v \in {"yes", "no"} : Answered(sc, v, "confirm")
  BY DEF Answered, Asks
<1>2. "confirm" \in Answerer
  BY DEF Answerer
<1>3. /\ Effect(sc, Out(sc, {PopScreenWithResult("yes", "confirm")}))
      /\ Effect(sc, Out(sc, {PopScreenWithResult("no", "confirm")}))
  BY <1>1, <1>2, Replies
<1>4. Effect(sc, Ignored)
  BY Unchanged DEF Ignored
<1> QED
  BY <1>3, <1>4 DEF ConfirmKey

LEMMA KillConfirmKeyEffect ==
  ASSUME NEW sc \in Screen, sc.kind = "kill", NEW key
  PROVE  Effect(sc, KillConfirmKey(sc, key))
<1>1. sc \in KillConfirmScreen
  BY Kinds
<1>2. /\ Answered(sc, "no", "kill")
      /\ Answered(sc, Answer(sc.word), IF sc.word THEN "typed" ELSE "kill")
      /\ Answer(sc.word) \in {"yes", "no"} /\ "kill" \in Answerer /\ "typed" \in Answerer
  BY DEF Answered, Asks, Answer, Answerer
<1>3. Effect(sc, Out(sc, {PopScreenWithResult("no", "kill")}))
  BY <1>2, Replies
<1>4. Effect(sc, Out(sc, {PopScreenWithResult(Answer(sc.word),
                                             IF sc.word THEN "typed" ELSE "kill")}))
  BY <1>2, Replies
<1>5. ASSUME NEW w \in BOOLEAN
      PROVE  Effect(sc, Out([sc EXCEPT !.word = w], {}))
  <2> DEFINE x == [sc EXCEPT !.word = w]
  <2>1. x \in Screen /\ x.kind = "kill"
    BY <1>1 DEF KillConfirmScreen, Screen
  <2> HIDE DEF x
  <2>2. Effect(sc, Out(x, {}))
    BY <2>1, Plain DEF Waits
  <2> QED BY <2>2 DEF x
<1>6. Effect(sc, Out([sc EXCEPT !.word = (key = "word")], {}))
  BY <1>5
<1> QED
  BY <1>3, <1>4, <1>6 DEF KillConfirmKey

LEMMA TreeKeyEffect ==
  ASSUME NEW sc \in Screen, sc.kind = "tree", sc = top, NEW key, NEW out \in TreeKey(sc, key)
  PROVE  Effect(sc, out)
<1>1. Effect(sc, Out(sc, {PopScreen}))
  BY Leaves
<1>2. Effect(sc, Out(sc, {PushScreen(NewDetailScreen)}))
  BY NewScreens, Shows DEF Asks, Waits
<1>3. Effect(sc, Ignored)
  BY Unchanged DEF Ignored
<1> QED
  BY <1>1, <1>2, <1>3 DEF TreeKey

\* Whichever screen is on top.
LEMMA KeyEffect ==
  ASSUME NEW sc \in Screen, sc = top, sc.kind # "stream", NEW key, NEW out \in KeyOutcomes(sc, key)
  PROVE  Effect(sc, out)
<1>1. sc.kind \in {"table", "tree", "detail", "confirm", "kill"}
  BY Kinds
<1>2. CASE sc.kind = "table"
  BY <1>2, TableKeyEffect DEF KeyOutcomes
<1>3. CASE sc.kind = "tree"
  BY <1>3, TreeKeyEffect DEF KeyOutcomes
<1>4. CASE sc.kind = "detail"
  BY <1>4, DetailKeyEffect DEF KeyOutcomes
<1>5. CASE sc.kind = "confirm"
  BY <1>5, ConfirmKeyEffect DEF KeyOutcomes
<1>6. CASE sc.kind = "kill"
  BY <1>6, KillConfirmKeyEffect DEF KeyOutcomes
<1> QED
  BY <1>1, <1>2, <1>3, <1>4, <1>5, <1>6

LEMMA QuestionAsked ==
  ASSUME NEW op, NEW q, q.kind = Question(op)
  PROVE  Asks(q) /\ ~Waits(q)
BY DEF Question, Asks, Waits

\* A key keeps the invariant: when the user has waited, nothing else is to come.
LEMMA EffectStep ==
  ASSUME NEW st, Rooted(st), NEW B, Flight(B), NEW out, Effect(Last(st), out)
  PROVE  LET t == Append(Front(st), out.screen)
             C == Exchanged(B, {}, out.cmds)
         IN  /\ Rooted(t) /\ Flight(C)
             /\ CalmAt(st, B) /\ (\A c \in BagToSet(B) : ~Changing(c)) => CalmAt(t, C)
<1> DEFINE sc == Last(st)
           x == out.screen
           t == Append(Front(st), x)
           C == Exchanged(B, {}, out.cmds)
<1>1. /\ x \in Screen /\ out.cmds \subseteq Cmd /\ tickCmd \notin out.cmds
      /\ x.kind = sc.kind
  BY DEF Effect
<1>2. Rooted(t)
  BY <1>1, RootedOnTop
<1>3. \A c \in out.cmds : Genuine(c)
  <2>1. CASE \A c \in out.cmds : ~Changing(c)
    BY <2>1 DEF Genuine, Changing
  <2>2. CASE \E q \in Screen : out.cmds = {PushScreen(q)}
    BY <2>2, StackCmds DEF Genuine
  <2>3. ASSUME NEW v \in {"none", "yes", "no"}, NEW by \in Answerer,
               out.cmds = {PopScreenWithResult(v, by)}, Answered(sc, v, by)
        PROVE  \A c \in out.cmds : Genuine(c)
    <3>1. /\ PopScreenWithResult(v, by).k = "pop"
          /\ PopScreenWithResult(v, by).result = v /\ PopScreenWithResult(v, by).by = by
      BY StackCmds
    <3>2. v = "yes" => by \in {"confirm", "typed"}
      BY <2>3 DEF Answered
    <3> QED BY <2>3, <3>1, <3>2 DEF Genuine
  <2> QED
    BY <2>1, <2>2, <2>3 DEF Effect
<1>4. Flight(C)
  BY <1>1, <1>3, FlightStep
<1>5. ASSUME CalmAt(st, B), \A c \in BagToSet(B) : ~Changing(c)
      PROVE  CalmAt(t, C)
  <2>1. Matched(st) /\ ~Waits(sc)
    BY <1>5 DEF CalmAt, Changing
  <2>2. ASSUME NEW c, out.cmds = {c}, Coming(x, c), Waits(x) => c.k = "push"
        PROVE  CalmAt(t, C)
    BY <1>1, <1>5, <2>1, <2>2, CalmNext
  <2>3. CASE Keeps(sc, x) /\ \A c \in out.cmds : ~Changing(c)
    BY <1>5, <2>3, CalmKept
  <2>4. CASE /\ Keeps(sc, x) /\ ~Asks(sc)
             /\ \E q \in Screen : out.cmds = {PushScreen(q)} /\ ~Asks(q) /\ ~Waits(q)
    <3>1. PICK q \in Screen : out.cmds = {PushScreen(q)} /\ ~Asks(q) /\ ~Waits(q)
      BY <2>4
    <3>2. PushScreen(q).k = "push" /\ PushScreen(q).screen = q
      BY StackCmds
    <3>3. ~Waits(x)
      BY <2>1, <2>4 DEF Keeps
    <3>4. Coming(x, PushScreen(q))
      BY <3>1, <3>2, <3>3 DEF Coming, Follows
    <3> QED BY <3>1, <3>2, <3>4, <2>2
  <2>5. CASE /\ Waits(x)
             /\ \E q \in Screen : out.cmds = {PushScreen(q)} /\ q.kind = Question(x.pending)
    <3>1. PICK q \in Screen : out.cmds = {PushScreen(q)} /\ q.kind = Question(x.pending)
      BY <2>5
    <3>2. PushScreen(q).k = "push" /\ PushScreen(q).screen = q
      BY StackCmds
    <3>3. Asks(q) /\ ~Waits(q)
      BY <3>1, QuestionAsked
    <3>4. Coming(x, PushScreen(q))
      BY <2>5, <3>1, <3>2, <3>3 DEF Coming, Follows
    <3> QED BY <3>1, <3>2, <3>4, <2>2
  <2>6. ASSUME Keeps(sc, x), NEW v \in {"none", "yes", "no"}, NEW by \in Answerer,
               out.cmds = {PopScreenWithResult(v, by)}, Answered(sc, v, by)
        PROVE  CalmAt(t, C)
    <3>1. /\ PopScreenWithResult(v, by).k = "pop"
          /\ PopScreenWithResult(v, by).result = v /\ PopScreenWithResult(v, by).by = by
      BY StackCmds
    <3>2. ~Waits(x)
      BY <2>1, <2>6 DEF Keeps
    <3>3. Answered(x, v, by)
      BY <1>1, <2>6 DEF Answered, Asks
    <3>4. Coming(x, PopScreenWithResult(v, by))
      BY <3>1, <3>3 DEF Coming
    <3> QED BY <2>6, <3>2, <3>4, <2>2
  <2> QED
    BY <2>3, <2>4, <2>5, <2>6 DEF Effect
<1> QED
  BY <1>2, <1>4, <1>5

LEMMA RestKept ==
  ASSUME Rest, conn' \in [Streams -> {"new", "open", "closed"}], status' = status,
         hasty' \in BOOLEAN
  PROVE  Rest'
BY DEF Rest

\* Pressed keys, seen from the invariant.
LEMMA Pressed ==
  ASSUME TuiInv, NEW out, Effect(top, out), Press, Handled(stack, out, {}),
         conn' \in [Streams -> {"new", "open", "closed"}]
  PROVE  TuiInv'
<1>1. /\ stack' = Append(Front(stack), out.screen) /\ cmds' = Exchanged(cmds, {}, out.cmds)
      /\ status = "running" /\ status' = status /\ hasty' = (hasty \/ StackChanging)
  BY DEF Press, Handled
<1>2. Rooted(stack) /\ Flight(cmds) /\ Rest /\ hasty \in BOOLEAN
  BY DEF TuiInv, Rest
<1>3. /\ Rooted(stack') /\ Flight(cmds')
      /\ CalmAt(stack, cmds) /\ (\A c \in BagToSet(cmds) : ~Changing(c)) => CalmAt(stack', cmds')
  BY <1>1, <1>2, EffectStep DEF top
<1>4. ASSUME ~hasty' PROVE CalmAt(stack', cmds')
  <2>1. CalmAt(stack, cmds)
    BY <1>1, <1>4 DEF TuiInv
  <2>2. \A c \in BagToSet(cmds) : ~Changing(c)
    BY <1>1, <1>4 DEF StackChanging, Changing
  <2> QED BY <1>3, <2>1, <2>2
<1>5. Rest'
  <2>1. hasty' \in BOOLEAN
    BY <1>1, <1>2 DEF StackChanging
  <2> QED BY <1>1, <1>2, <2>1, RestKept
<1> QED
  BY <1>1, <1>3, <1>4, <1>5 DEF TuiInv

LEMMA ConnTypes ==
  ASSUME TuiInv, NEW closing
  PROVE  /\ conn \in [Streams -> {"new", "open", "closed"}]
         /\ CloseSessions(closing) => conn' \in [Streams -> {"new", "open", "closed"}]
BY DEF TuiInv, Rest, CloseSessions

LEMMA TopType ==
  ASSUME TuiInv
  PROVE  top \in Screen
BY LastOf DEF TuiInv, Rooted, top

LEMMA KeyCtrlCStep ==
  ASSUME TuiInv, KeyCtrlC
  PROVE  TuiInv'
<1>1. PICK out : out = Out(top, {quitCmd})
  OBVIOUS
<1>2. Press /\ Handled(stack, out, {}) /\ conn' = conn
  BY <1>1 DEF KeyCtrlC
<1>3. Effect(top, out)
  BY <1>1, TopType, Unchanged
<1> QED
  BY <1>2, <1>3, ConnTypes, Pressed

LEMMA KeyStreamStep ==
  ASSUME TuiInv, NEW key, KeyStream(key)
  PROVE  TuiInv'
<1>1. PICK out : out = Out(top, {PopScreen})
  OBVIOUS
<1>2. PICK s : s = top.session
  OBVIOUS
<1>3. Press /\ Handled(stack, out, {}) /\ CloseSessions({s}) /\ top.kind = "stream"
  BY <1>1, <1>2 DEF KeyStream
<1>4. Effect(top, out)
  BY <1>1, <1>3, TopType, Leaves
<1>5. conn' \in [Streams -> {"new", "open", "closed"}]
  BY <1>3, ConnTypes
<1> QED
  BY <1>3, <1>4, <1>5, Pressed

LEMMA KeyStep ==
  ASSUME TuiInv, NEW key, Key(key)
  PROVE  TuiInv'
<1>1. PICK sc \in Screen : sc = top
  BY TopType
<1>2. PICK out \in KeyOutcomes(sc, key) : Handled(stack, out, {})
  BY <1>1 DEF Key
<1>3. Press /\ sc.kind # "stream" /\ conn' = conn
  BY <1>1 DEF Key
<1>4. Effect(top, out)
  BY <1>1, <1>2, <1>3, KeyEffect
<1> QED
  BY <1>2, <1>3, <1>4, ConnTypes, Pressed

----------------------------------------------------------------------------
(* Messages *)

\* A message that is none of the stack's business.
LEMMA Received ==
  ASSUME TuiInv, NEW c, Deliver(c), ~Changing(c), status' = status,
         conn' \in [Streams -> {"new", "open", "closed"}],
         NEW out, Keeps(top, out.screen), out.cmds \subseteq Cmd,
         \A d \in out.cmds : ~Changing(d), tickCmd \in out.cmds => c = tickCmd,
         Handled(stack, out, {c})
  PROVE  TuiInv'
<1>1. /\ stack' = Append(Front(stack), out.screen) /\ cmds' = Exchanged(cmds, {c}, out.cmds)
      /\ status = "running" /\ hasty' = hasty /\ c \in BagToSet(cmds)
  BY DEF Deliver, Handled, BagIn
<1>2. Rooted(stack) /\ Flight(cmds) /\ Rest /\ hasty \in BOOLEAN
  BY DEF TuiInv, Rest
<1>3. Rooted(stack')
  BY <1>1, <1>2, RootedOnTop DEF Keeps, top
<1>4. Flight(cmds')
  <2>1. \A d \in out.cmds : Genuine(d)
    BY DEF Genuine, Changing
  <2> QED BY <1>1, <1>2, <2>1, FlightStep
<1>5. ASSUME ~hasty' PROVE CalmAt(stack', cmds')
  <2>1. CalmAt(stack, cmds)
    BY <1>1, <1>5 DEF TuiInv
  <2> QED BY <1>1, <1>2, <2>1, CalmKept DEF top
<1>6. Rest'
  BY <1>1, <1>2, RestKept
<1> QED
  BY <1>1, <1>3, <1>4, <1>5, <1>6 DEF TuiInv

LEMMA TickStep ==
  ASSUME TuiInv, Tick
  PROVE  TuiInv'
<1>1. PICK out : out = IF top.kind = "table" THEN Out(top, {scanCmd, tickCmd}) ELSE Ignored
  OBVIOUS
<1>2. Handled(stack, out, {tickCmd}) /\ Deliver(tickCmd) /\ status' = status /\ conn' = conn
  BY <1>1 DEF Tick
<1>3. out.screen = top /\ out.cmds \subseteq {scanCmd, tickCmd}
  BY <1>1 DEF Out, Ignored
<1>4. Keeps(top, out.screen)
  BY <1>3, TopType, Unchanged
<1>5. /\ out.cmds \subseteq Cmd /\ \A d \in out.cmds : ~Changing(d)
      /\ ~Changing(tickCmd)
  BY <1>3, PlainCmds
<1> QED
  BY <1>2, <1>4, <1>5, ConnTypes, Received

LEMMA ScanStep ==
  ASSUME TuiInv, Scan
  PROVE  TuiInv'
<1>1. PICK sc \in Screen : sc = top
  BY TopType
<1>2. /\ Deliver(scanCmd) /\ status' = status /\ conn' = conn
      /\ \E out \in {Out(sc, {})} \cup {Out([sc EXCEPT !.rows = r], {}) :
                                       r \in IF sc.kind = "table" THEN BOOLEAN ELSE {}} :
           Handled(stack, out, {scanCmd})
  BY <1>1 DEF Scan, Ignored
<1>3. PICK out \in {Out(sc, {})} \cup {Out([sc EXCEPT !.rows = r], {}) :
                                       r \in IF sc.kind = "table" THEN BOOLEAN ELSE {}} :
        Handled(stack, out, {scanCmd})
  BY <1>2
<1>4. Keeps(sc, out.screen) /\ out.cmds = {}
  <2>1. CASE out = Out(sc, {})
    BY <2>1, Unchanged DEF Out
  <2>2. ASSUME sc.kind = "table", NEW r \in BOOLEAN, out = Out([sc EXCEPT !.rows = r], {})
        PROVE  Keeps(sc, out.screen) /\ out.cmds = {}
    <3> DEFINE x == [sc EXCEPT !.rows = r]
    <3>1. x \in Screen /\ x.kind = "table"
      BY <2>2, Kinds DEF TableScreen, Screen
    <3>2. out.screen = x /\ out.cmds = {}
      BY <2>2 DEF Out
    <3> HIDE DEF x
    <3> QED BY <2>2, <3>1, <3>2 DEF Keeps, Waits
  <2> QED BY <1>3, <2>1, <2>2
<1>5. ~Changing(scanCmd) /\ Keeps(top, out.screen)
  BY <1>1, <1>4, PlainCmds
<1> QED
  BY <1>2, <1>3, <1>4, <1>5, ConnTypes, Received

LEMMA OpenStep ==
  ASSUME TuiInv, Open
  PROVE  TuiInv'
<1>1. PICK sc \in Screen : sc = top
  BY TopType
<1>2. Deliver(openCmd) /\ status' = status /\ ~Changing(openCmd)
  BY PlainCmds DEF Open
<1>3. CASE Handled(stack, Ignored, {openCmd}) /\ conn' = conn
  <2>1. PICK out : out = Ignored
    OBVIOUS
  <2>2. out.screen = sc /\ out.cmds = {} /\ Handled(stack, out, {openCmd})
    BY <1>1, <1>3, <2>1 DEF Ignored, Out
  <2>3. Keeps(top, out.screen)
    BY <1>1, <2>2, Unchanged
  <2> QED BY <1>2, <1>3, <2>2, <2>3, ConnTypes, Received
<1>4. ASSUME NEW x \in Streams,
             conn' = [conn EXCEPT ![x] = "open"],
             Handled(stack, IF top.kind = "stream"
                            THEN Out([top EXCEPT !.session = x],
                                     {[k |-> "read", of |-> x, live |-> TRUE]})
                            ELSE Ignored, {openCmd})
      PROVE  TuiInv'
  <2> DEFINE r == [k |-> "read", of |-> x, live |-> TRUE]
  <2>1. PICK out : out = IF sc.kind = "stream" THEN Out([sc EXCEPT !.session = x], {r})
                         ELSE Out(sc, {})
    OBVIOUS
  <2>2. Handled(stack, out, {openCmd})
    BY <1>1, <1>4, <2>1 DEF Ignored
  <2>3. r \in Cmd /\ ~Changing(r) /\ r # tickCmd
    BY ReadCmds
  <2> HIDE DEF r
  <2>4. Keeps(sc, out.screen) /\ out.cmds \subseteq {r}
    <3>1. CASE sc.kind # "stream"
      BY <3>1, <2>1, Unchanged DEF Out
    <3>2. CASE sc.kind = "stream"
      <4> DEFINE n == [sc EXCEPT !.session = x]
      <4>1. n \in Screen /\ n.kind = "stream"
        BY <3>2, Kinds DEF StreamScreen, Screen
      <4>2. out.screen = n /\ out.cmds = {r}
        BY <3>2, <2>1 DEF Out
      <4> HIDE DEF n
      <4> QED BY <3>2, <4>1, <4>2 DEF Keeps, Waits
    <3> QED BY <3>1, <3>2
  <2>5. out.cmds \subseteq Cmd /\ \A d \in out.cmds : ~Changing(d) /\ d # tickCmd
    BY <2>3, <2>4
  <2>6. conn' \in [Streams -> {"new", "open", "closed"}]
    BY <1>4, ConnTypes
  <2>7. Keeps(top, out.screen)
    BY <1>1, <2>4
  <2> QED BY <1>2, <2>2, <2>5, <2>6, <2>7, Received
<1> QED
  BY <1>3, <1>4 DEF Open

LEMMA ReadEventStep ==
  ASSUME TuiInv, NEW c, ReadEvent(c)
  PROVE  TuiInv'
<1>1. PICK sc \in Screen : sc = top
  BY TopType
<1>2. Deliver(c) /\ status' = status /\ conn' = conn /\ ~Changing(c) /\ c.k = "read"
  BY DEF ReadEvent, Changing
<1>3. PICK out : out = IF top.kind = "stream" THEN Out(top, {readNextCmd(top.session)})
                       ELSE Ignored
  OBVIOUS
<1>4. Handled(stack, out, {c})
  BY <1>3 DEF ReadEvent
<1>5. PICK l \in BOOLEAN : l = (sc.session \in Streams /\ conn[sc.session] = "open")
  OBVIOUS
<1>6. out.screen = sc /\ out.cmds \subseteq Cmd /\ \A d \in out.cmds : ~Changing(d) /\ d # tickCmd
  <2>1. CASE sc.kind # "stream"
    BY <1>1, <1>3, <2>1 DEF Out, Ignored
  <2>2. CASE sc.kind = "stream"
    <3> DEFINE r == [k |-> "read", of |-> sc.session, live |-> l]
    <3>1. sc.session \in Streams \cup {NoStream}
      BY <2>2, Kinds DEF StreamScreen
    <3>2. r \in Cmd /\ ~Changing(r) /\ r # tickCmd
      BY <3>1, ReadCmds
    <3>3. out = Out(sc, {r})
      BY <1>1, <1>3, <1>5, <2>2 DEF readNextCmd
    <3> HIDE DEF r
    <3> QED BY <3>2, <3>3 DEF Out
  <2> QED BY <2>1, <2>2
<1>7. Keeps(top, out.screen)
  BY <1>1, <1>6, Unchanged
<1> QED
  BY <1>2, <1>4, <1>6, <1>7, ConnTypes, Received

LEMMA ReadEndStep ==
  ASSUME TuiInv, NEW c, ReadEnd(c)
  PROVE  TuiInv'
<1>1. PICK out : out = Ignored
  OBVIOUS
<1>2. /\ Handled(stack, out, {c}) /\ Deliver(c) /\ status' = status /\ conn' = conn
      /\ ~Changing(c)
  BY <1>1 DEF ReadEnd, Changing
<1>3. out.cmds = {} /\ Keeps(top, out.screen)
  BY <1>1, TopType, Unchanged DEF Out, Ignored
<1> QED
  BY <1>2, <1>3, ConnTypes, Received

LEMMA EndStep ==
  ASSUME TuiInv, NEW closing, CloseSessions(closing), cmds' = EmptyBag, stack' = stack,
         status' \in {"quit", "panic"}, hasty' = hasty
  PROVE  TuiInv'
<1>1. Rooted(stack) /\ hasty \in BOOLEAN
  BY DEF TuiInv, Rest
<1>2. Flight(cmds') /\ BagToSet(cmds') = {}
  BY DEF Flight, EmptyBag, SetToBag, IsABag, BagToSet, Copies, BagIn
<1>3. Rest'
  BY <1>1, ConnTypes DEF Rest
<1> QED
  BY <1>1, <1>2, <1>3 DEF TuiInv

----------------------------------------------------------------------------
(* Messages that change the stack *)

LEMMA OnlyOne ==
  ASSUME NEW st, NEW B, CalmAt(st, B), NEW c \in BagToSet(B), Changing(c)
  PROVE  /\ \A d \in BagToSet(B) : Changing(d) => d \in {c} /\ Copies(d, B) = 1
         /\ Coming(Last(st), c)
         /\ c.k # "push" => ~Waits(Last(st))
<1>1. \A d \in BagToSet(B) : Changing(d) => d = c /\ Copies(d, B) = 1
  BY DEF CalmAt, Single
<1>2. Waits(Last(st)) => c.k = "push"
  BY <1>1 DEF CalmAt, Changing
<1> QED
  BY <1>1, <1>2 DEF CalmAt

\* The change in flight is delivered; st is the stack with one screen more or less.
LEMMA Changed ==
  ASSUME TuiInv, NEW c, Deliver(c), Changing(c), status' = status, conn' = conn,
         NEW st, Rooted(st), NEW out, out.screen \in Screen, out.screen.kind = Last(st).kind,
         out.cmds \subseteq Cmd, tickCmd \notin out.cmds, \A d \in out.cmds : Genuine(d),
         CalmAt(stack, cmds) =>
           /\ Matched(st) /\ ~Waits(out.screen)
           /\ \A d, e \in out.cmds : Changing(d) /\ Changing(e) => d = e
           /\ \A d \in out.cmds : Coming(out.screen, d),
         Handled(st, out, {c})
  PROVE  TuiInv'
<1>1. /\ stack' = Append(Front(st), out.screen) /\ cmds' = Exchanged(cmds, {c}, out.cmds)
      /\ status = "running" /\ hasty' = hasty /\ c \in BagToSet(cmds)
  BY DEF Deliver, Handled, BagIn
<1>2. Flight(cmds) /\ Rest /\ hasty \in BOOLEAN
  BY DEF TuiInv, Rest
<1>3. Rooted(stack')
  BY <1>1, RootedOnTop
<1>4. Flight(cmds')
  BY <1>1, <1>2, FlightStep
<1>5. ASSUME ~hasty' PROVE CalmAt(stack', cmds')
  <2>1. CalmAt(stack, cmds)
    BY <1>1, <1>5 DEF TuiInv
  <2>2. \A d \in BagToSet(cmds) : Changing(d) => d \in {c} /\ Copies(d, cmds) = 1
    BY <1>1, <2>1, OnlyOne
  <2> QED BY <1>1, <1>2, <2>1, <2>2, CalmNext
<1>6. Rest'
  BY <1>1, <1>2, ConnTypes, RestKept
<1> QED
  BY <1>1, <1>3, <1>4, <1>5, <1>6 DEF TuiInv

LEMMA InFlight ==
  ASSUME TuiInv, NEW c, Deliver(c)
  PROVE  c \in BagToSet(cmds) /\ c \in Cmd /\ Genuine(c) /\ Rooted(stack)
BY DEF TuiInv, Flight, Deliver, BagIn

LEMMA PushStep ==
  ASSUME TuiInv, NEW c, Push(c)
  PROVE  TuiInv'
<1>1. /\ Deliver(c) /\ c.k = "push" /\ Changing(c) /\ status' = status /\ conn' = conn
  BY DEF Push, Changing
<1>2. c \in BagToSet(cmds) /\ c.screen \in Screen /\ Rooted(stack)
  BY <1>1, InFlight, CmdKinds
<1>3. PICK st : st = Append(stack, c.screen)
  OBVIOUS
<1>4. PICK out : out = Out(c.screen, InitCmds(c.screen))
  OBVIOUS
<1>5. Handled(st, out, {c})
  BY <1>3, <1>4 DEF Push
<1>6. /\ Rooted(st) /\ Last(st) = c.screen
      /\ Matched(stack) /\ Follows(top, c.screen) => Matched(st)
  BY <1>2, <1>3, OnePushed DEF top
<1>7. out.screen = c.screen /\ out.cmds \subseteq {openCmd}
  BY <1>4 DEF Out, InitCmds
<1>8. \A d \in out.cmds : d \in Cmd /\ ~Changing(d) /\ d # tickCmd
  BY <1>7, PlainCmds
<1>9. \A d \in out.cmds : Genuine(d) /\ Coming(out.screen, d)
  BY <1>8 DEF Genuine, Coming, Changing
<1>10. ASSUME CalmAt(stack, cmds)
       PROVE  Matched(st) /\ ~Waits(out.screen)
  <2>1. Coming(top, c) /\ Matched(stack)
    BY <1>1, <1>2, <1>10, OnlyOne DEF CalmAt, top
  <2> QED BY <1>1, <1>6, <1>7, <2>1 DEF Coming
<1> QED
  BY <1>1, <1>2, <1>5, <1>6, <1>7, <1>8, <1>9, <1>10, Changed

LEMMA ActStep ==
  ASSUME TuiInv, NEW c, Act(c)
  PROVE  TuiInv'
<1> DEFINE p == PopScreenWithResult("label", "detail")
<1>1. /\ Deliver(c) /\ c.k = "act" /\ Changing(c) /\ status' = status /\ conn' = conn
  BY DEF Act, Changing
<1>2. c \in BagToSet(cmds) /\ Rooted(stack) /\ top \in Screen
  BY <1>1, InFlight, TopType
<1>3. PICK out : /\ Handled(stack, out, {c})
                 /\ out = Out(top, {}) \/ (top.kind = "detail" /\ out = Out(top, {p}))
  BY DEF Act, Ignored
<1>4. /\ p \in Cmd /\ p # tickCmd /\ p.k = "pop" /\ p.result = "label"
  BY StackCmds DEF Answerer
<1> HIDE DEF p
<1>5. out.screen = top /\ out.cmds \subseteq {p} /\ (out.cmds # {} => top.kind = "detail")
  BY <1>3 DEF Out
<1>6. \A d \in out.cmds : d \in Cmd /\ d # tickCmd /\ Genuine(d)
  BY <1>4, <1>5 DEF Genuine
<1>7. \A d \in out.cmds : Coming(out.screen, d)
  BY <1>4, <1>5 DEF Coming, Answered, Asks
<1>8. ASSUME CalmAt(stack, cmds)
      PROVE  Matched(stack) /\ ~Waits(out.screen)
  BY <1>1, <1>2, <1>5, <1>8, OnlyOne DEF CalmAt, top
<1>9. PICK st : st = stack
  OBVIOUS
<1>10. Rooted(st) /\ out.screen.kind = Last(st).kind /\ Handled(st, out, {c}) /\ (Matched(stack) => Matched(st))
  BY <1>2, <1>3, <1>5, <1>9 DEF top
<1> QED
  BY <1>1, <1>2, <1>5, <1>6, <1>7, <1>8, <1>10, Changed

\* What the screen that shows again does with the answer.
LEMMA ResultGiven ==
  ASSUME NEW sc \in Screen, NEW c \in Cmd, c.k = "pop", Genuine(c)
  PROVE  LET out == GivenResult(sc, c)
         IN  /\ out.screen \in Screen /\ out.screen.kind = sc.kind
             /\ Waits(out.screen) => Waits(sc) /\ c.result = "none"
             /\ \/ out.cmds \subseteq {scanCmd}
                \/ /\ Waits(sc) /\ c.result = "yes" /\ sc.pending \in Actions
                   /\ out.cmds = {actionCmd(sc.pending, c.by)}
<1>1. CASE c.result # "none" /\ sc.kind = "table"
  BY <1>1 DEF GivenResult, TableResult, Out, Waits
<1>2. CASE c.result # "none" /\ sc.kind = "detail"
  <2> DEFINE x == [sc EXCEPT !.pending = ""]
  <2>1. x \in Screen /\ x.kind = "detail" /\ x.pending = "" /\ sc.pending \in Actions \cup {""}
    BY <1>2, Kinds DEF DetailScreen, Screen
  <2> DEFINE cs == IF c.result = "yes" /\ sc.pending # "" THEN {actionCmd(sc.pending, c.by)}
                   ELSE {}
  <2>2. GivenResult(sc, c) = Out(x, cs)
    BY <1>2 DEF GivenResult, DetailResult
  <2> HIDE DEF x, cs
  <2>3. GivenResult(sc, c).screen = x /\ GivenResult(sc, c).cmds = cs
    BY <2>2 DEF Out
  <2>4. GivenResult(sc, c).screen \in Screen /\ GivenResult(sc, c).screen.kind = sc.kind
    BY <1>2, <2>1, <2>3
  <2>5. ~Waits(GivenResult(sc, c).screen)
    BY <2>1, <2>3 DEF Waits
  <2>6. CASE c.result = "yes" /\ sc.pending # ""
    <3>1. Waits(sc) /\ sc.pending \in Actions
      BY <1>2, <2>1, <2>6 DEF Waits
    <3> QED BY <2>3, <2>4, <2>5, <2>6, <3>1 DEF cs
  <2>7. CASE ~(c.result = "yes" /\ sc.pending # "")
    BY <2>3, <2>4, <2>5, <2>7 DEF cs
  <2> QED
    BY <2>6, <2>7
<1>3. CASE ~(c.result # "none" /\ sc.kind \in {"table", "detail"})
  <2>1. GivenResult(sc, c) = Out(sc, {})
    BY <1>3 DEF GivenResult
  <2>2. GivenResult(sc, c).screen = sc /\ GivenResult(sc, c).cmds = {}
    BY <2>1 DEF Out
  <2>3. Waits(sc) => c.result = "none"
    BY <1>3 DEF Waits
  <2> QED
    BY <2>2, <2>3
<1> QED
  BY <1>1, <1>2, <1>3

LEMMA PopStep ==
  ASSUME TuiInv, NEW c, Pop(c)
  PROVE  TuiInv'
<1>1. /\ Deliver(c) /\ c.k = "pop" /\ Changing(c) /\ status' = status /\ conn' = conn
  BY DEF Pop, Changing
<1>2. c \in BagToSet(cmds) /\ c \in Cmd /\ Genuine(c) /\ Rooted(stack) /\ c.by \in Answerer
  BY <1>1, InFlight, CmdKinds
<1>3. PICK st : st = Popped(stack)
  OBVIOUS
<1>4. PICK out : out = GivenResult(Last(st), c)
  OBVIOUS
<1>5. Handled(st, out, {c})
  BY <1>3, <1>4 DEF Pop
<1>6. /\ Rooted(st) /\ (Matched(stack) => Matched(st))
      /\ Matched(stack) /\ top.kind # "table" => Follows(Last(st), top)
  BY <1>2, <1>3, OnePopped DEF top
<1> DEFINE sc == Last(st)
<1>7. sc \in Screen
  BY <1>6, LastOf DEF Rooted
<1>8. /\ out.screen \in Screen /\ out.screen.kind = sc.kind
      /\ Waits(out.screen) => Waits(sc) /\ c.result = "none"
      /\ \/ out.cmds \subseteq {scanCmd}
         \/ /\ Waits(sc) /\ c.result = "yes" /\ sc.pending \in Actions
            /\ out.cmds = {actionCmd(sc.pending, c.by)}
  BY <1>1, <1>2, <1>4, <1>7, ResultGiven
<1>9. ASSUME CalmAt(stack, cmds)
      PROVE  /\ Matched(stack) /\ Answered(top, c.result, c.by) /\ Follows(sc, top)
  <2>1. Coming(top, c) /\ Matched(stack)
    BY <1>1, <1>2, <1>9, OnlyOne DEF CalmAt, top
  <2>2. Answered(top, c.result, c.by)
    BY <1>1, <2>1 DEF Coming
  <2> QED BY <2>1, <2>2, <1>6 DEF Answered
<1>10. ASSUME CalmAt(stack, cmds) PROVE ~Waits(out.screen)
  BY <1>8, <1>9, <1>10 DEF Answered, Follows
<1> HIDE DEF sc
<1>11. CASE out.cmds \subseteq {scanCmd}
  <2>1. \A d \in out.cmds : d \in Cmd /\ ~Changing(d) /\ d # tickCmd
    BY <1>11, PlainCmds
  <2>2. \A d \in out.cmds : Genuine(d) /\ Coming(out.screen, d)
    BY <2>1 DEF Genuine, Coming, Changing
  <2> QED
    BY <1>1, <1>5, <1>6, <1>8, <1>9, <1>10, <2>1, <2>2, Changed DEF sc
<1>12. CASE /\ Waits(sc) /\ c.result = "yes" /\ sc.pending \in Actions
            /\ out.cmds = {actionCmd(sc.pending, c.by)}
  <2> DEFINE a == actionCmd(sc.pending, c.by)
  <2>1. a \in Cmd /\ a # tickCmd /\ a.k = "act" /\ a.op = sc.pending /\ a.by = c.by
    BY <1>2, <1>12, StackCmds
  <2> HIDE DEF a
  <2>2. out.cmds = {a}
    BY <1>12 DEF a
  <2>3. Genuine(a)
    BY <1>1, <1>2, <1>12, <2>1 DEF Genuine
  <2>4. ASSUME CalmAt(stack, cmds) PROVE Coming(out.screen, a)
    <3>1. sc.pending = "kill" => top.kind = "kill"
      BY <1>9, <1>12, <2>4 DEF Follows, Question
    <3>2. top.kind = "kill" => c.by = "typed"
      BY <1>9, <1>12, <2>4 DEF Answered
    <3> QED BY <2>1, <3>1, <3>2 DEF Coming
  <2> QED
    BY <1>1, <1>5, <1>6, <1>8, <1>9, <1>10, <2>1, <2>2, <2>3, <2>4, Changed DEF sc
<1> QED
  BY <1>8, <1>11, <1>12

----------------------------------------------------------------------------
(* The theorems *)

LEMMA TuiInit ==
  Init => TuiInv
<1> SUFFICES ASSUME Init PROVE TuiInv
  OBVIOUS
<1>1. /\ stack = <<NewTableScreen>> /\ cmds = SetToBag({scanCmd, tickCmd})
      /\ conn = [x \in Streams |-> "new"] /\ status = "running" /\ hasty = FALSE
  BY DEF Init
<1>2. /\ NewTableScreen \in Screen /\ NewTableScreen.kind = "table"
  BY NewScreens
<1>3. /\ stack \in Seq(Screen) /\ stack # << >> /\ Len(stack) = 1 /\ stack[1] = NewTableScreen
      /\ Last(stack) = NewTableScreen
  BY <1>1, <1>2 DEF Last
<1>4. Rooted(stack)
  BY <1>2, <1>3 DEF Rooted
<1>5. /\ IsABag(cmds) /\ BagToSet(cmds) = {scanCmd, tickCmd} /\ Copies(tickCmd, cmds) = 1
  BY <1>1 DEF SetToBag, IsABag, BagToSet, Copies, BagIn
<1>6. \A c \in BagToSet(cmds) : c \in Cmd /\ ~Changing(c)
  BY <1>5, PlainCmds
<1>7. Flight(cmds)
  BY <1>5, <1>6 DEF Flight, Genuine, Changing
<1>8. Rest
  BY <1>1 DEF Rest
<1>9. CalmAt(stack, cmds)
  <2>1. Matched(stack)
    BY <1>3 DEF Matched
  <2>2. ~Waits(Last(stack))
    BY <1>2, <1>3 DEF Waits
  <2>3. Single(cmds) /\ \A c \in BagToSet(cmds) : Coming(Last(stack), c)
    BY <1>6 DEF Single, Coming, Changing
  <2> QED BY <2>1, <2>2, <2>3 DEF CalmAt
<1> QED
  BY <1>1, <1>4, <1>7, <1>8, <1>9 DEF TuiInv

LEMMA TuiStep ==
  TuiInv /\ [Next]_vars => TuiInv'
<1> SUFFICES ASSUME TuiInv, [Next]_vars PROVE TuiInv'
  OBVIOUS
<1>1. CASE KeyCtrlC
  BY <1>1, KeyCtrlCStep
<1>2. ASSUME NEW key, KeyStream(key) \/ Key(key) PROVE TuiInv'
  BY <1>2, KeyStreamStep, KeyStep
<1>3. ASSUME NEW c, Push(c) PROVE TuiInv'
  BY <1>3, PushStep
<1>4. ASSUME NEW c, Pop(c) PROVE TuiInv'
  BY <1>4, PopStep
<1>5. ASSUME NEW c, Act(c) PROVE TuiInv'
  BY <1>5, ActStep
<1>6. ASSUME NEW c, ReadEvent(c) PROVE TuiInv'
  BY <1>6, ReadEventStep
<1>7. ASSUME NEW c, ReadEnd(c) PROVE TuiInv'
  BY <1>7, ReadEndStep
<1>8. PICK closing : closing =
        {stack[i].session : i \in {j \in DOMAIN stack : stack[j].kind = "stream"}}
  OBVIOUS
<1>9. ASSUME NEW c, ReadNil(c) PROVE TuiInv'
  <2>1. /\ CloseSessions(closing) /\ cmds' = EmptyBag /\ stack' = stack
        /\ status' \in {"quit", "panic"} /\ hasty' = hasty
    BY <1>8, <1>9 DEF ReadNil, Deliver
  <2> QED BY <2>1, EndStep
<1>10. CASE Quit
  <2>1. /\ CloseSessions(closing) /\ cmds' = EmptyBag /\ stack' = stack
        /\ status' \in {"quit", "panic"} /\ hasty' = hasty
    BY <1>8, <1>10 DEF Quit, Deliver
  <2> QED BY <2>1, EndStep
<1>11. CASE Tick \/ Scan \/ Open
  BY <1>11, TickStep, ScanStep, OpenStep
<1>12. CASE UNCHANGED vars
  BY <1>12 DEF vars, TuiInv, Rest
<1> QED
  BY <1>1, <1>2, <1>3, <1>4, <1>5, <1>6, <1>7, <1>9, <1>10, <1>11, <1>12 DEF Next

LEMMA TuiInvariant ==
  Spec => []TuiInv
BY TuiInit, TuiStep, PTL DEF Spec

\* App.stack is never empty and holds screens, and what is in flight are
\* commands of the handlers.
THEOREM TuiTypeCorrect ==
  Spec => []TypeOK
<1>1. TuiInv => TypeOK
  BY DEF TuiInv, Rooted, Flight, Rest, TypeOK
<1> QED
  BY <1>1, TuiInvariant, PTL

\* The auto-rescan of TableScreen never multiplies: TableScreen.Update starts a
\* tick only for the tick it was given, and nothing else starts one.
THEOREM TickAlone ==
  Spec => []OneTick
<1>1. TuiInv => OneTick
  BY DEF TuiInv, Flight, OneTick
<1> QED
  BY <1>1, TuiInvariant, PTL

\* DetailScreen starts no action without a yes that a question gave, and when the
\* user waits for each screen, SIGKILL only after KILL was typed.
THEOREM ActionsConfirmed ==
  Spec => []ActsConfirmed
<1>1. TuiInv => ActsConfirmed
  <2> SUFFICES ASSUME TuiInv, NEW c \in BagToSet(cmds), c.k = "act"
               PROVE  /\ c.by \in {"confirm", "typed"}
                      /\ ~hasty /\ c.op = "kill" => c.by = "typed"
    BY DEF ActsConfirmed
  <2>1. c.by \in {"confirm", "typed"}
    BY DEF TuiInv, Flight, Genuine
  <2>2. ASSUME ~hasty, c.op = "kill" PROVE c.by = "typed"
    BY <2>2 DEF TuiInv, CalmAt, Coming
  <2> QED BY <2>1, <2>2
<1> QED
  BY <1>1, TuiInvariant, PTL

\* What DetailScreen remembers in pendingOp is what the screen above it asks, and
\* a question always stands on a detail screen that has asked it, as long as the
\* user waits for each screen to appear.
THEOREM PendingMatched ==
  Spec => []PendingMatches
<1>1. TuiInv => PendingMatches
  <2> SUFFICES ASSUME TuiInv, status = "running", ~hasty, ~StackChanging,
                      NEW i \in DOMAIN stack
               PROVE  /\ stack[i].kind = "detail" /\ stack[i].pending # "" =>
                           i < Len(stack) /\ stack[i + 1].kind = Question(stack[i].pending)
                      /\ stack[i].kind \in {"confirm", "kill"} =>
                           /\ stack[i - 1].kind = "detail" /\ stack[i - 1].pending # ""
                           /\ stack[i].kind = Question(stack[i - 1].pending)
    BY DEF PendingMatches
  <2>1. /\ stack \in Seq(Screen) /\ stack # << >> /\ stack[1].kind = "table"
        /\ CalmAt(stack, cmds)
    BY DEF TuiInv, Rooted
  <2>2. /\ Len(stack) \in Nat /\ Len(stack) > 0 /\ Last(stack) = stack[Len(stack)]
        /\ i \in 1 .. Len(stack)
    BY <2>1, LastOf
  <2>3. \A j \in 1 .. Len(stack) - 1 : Follows(stack[j], stack[j + 1])
    BY <2>1 DEF CalmAt, Matched
  <2>4. ~Waits(Last(stack))
    BY <2>1 DEF CalmAt, StackChanging
  <2>5. ASSUME Waits(stack[i])
        PROVE  i < Len(stack) /\ stack[i + 1].kind = Question(stack[i].pending)
    <3>1. i # Len(stack)
      BY <2>2, <2>4, <2>5
    <3>2. i \in 1 .. Len(stack) - 1 /\ i < Len(stack)
      BY <2>2, <3>1
    <3> QED BY <2>3, <2>5, <3>2 DEF Follows
  <2>6. ASSUME Asks(stack[i])
        PROVE  Waits(stack[i - 1]) /\ stack[i].kind = Question(stack[i - 1].pending)
    <3>1. i # 1
      BY <2>1, <2>6 DEF Asks
    <3>2. i - 1 \in 1 .. Len(stack) - 1 /\ (i - 1) + 1 = i
      BY <2>2, <3>1
    <3>3. Follows(stack[i - 1], stack[i])
      BY <2>3, <3>2
    <3> QED BY <2>6, <3>3 DEF Follows
  <2> QED
    BY <2>5, <2>6 DEF Waits, Asks
<1> QED
  BY <1>1, TuiInvariant, PTL
=============================================================================
