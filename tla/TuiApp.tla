------------------------------- MODULE TuiApp -------------------------------
(***************************************************************************)
(* The event loop of hsed, the terminal client (tui/ui): a stack of        *)
(* screens whose handlers run one at a time, and the commands they return, *)
(* which Bubble Tea runs in goroutines of their own.  A command's message  *)
(* comes back whenever its goroutine gets to send it, after any number of  *)
(* key presses, and App.Update hands it to whatever screen is on top then. *)
(*                                                                         *)
(* A command in flight stands for its message too: what it finds out is    *)
(* chosen when the message is delivered.  Layout, window sizes, the        *)
(* contents of the table and of the tree, and the cursor in them are left  *)
(* out.                                                                    *)
(***************************************************************************)
EXTENDS Integers, Sequences, SequencesExt, Mailbox

CONSTANTS Streams,       \* the stream connections the client may open
          NoStream,      \* nil
          MaxStack,      \* bound on the screens pushed
          MaxCmds        \* bound on the commands in flight

ASSUME TuiAssumption ==
  /\ NoStream \notin Streams
  /\ MaxStack \in Nat \ {0} /\ MaxCmds \in Nat \ {0}

VARIABLES stack,    \* App.stack
          cmds,     \* bag of commands in flight
          conn,     \* each stream connection
          status,   \* of the program
          hasty     \* history: a key was pressed while the stack was to change

vars == <<stack, cmds, conn, status, hasty>>

Actions == {"truncate", "hup", "kill"}

TableScreen       == [kind : {"table"}, filtering : BOOLEAN, rows : BOOLEAN]
TreeScreen        == [kind : {"tree"}]
DetailScreen      == [kind : {"detail"}, pending : Actions \cup {""}]
StreamScreen      == [kind : {"stream"}, session : Streams \cup {NoStream}]
ConfirmScreen     == [kind : {"confirm"}]
KillConfirmScreen == [kind : {"kill"}, word : BOOLEAN]   \* does the input say KILL
Screen == TableScreen \cup TreeScreen \cup DetailScreen \cup StreamScreen
            \cup ConfirmScreen \cup KillConfirmScreen

\* "by" and "live" are history: who answered the question, and whether the
\* connection was open when the read began.
Answerer == {"confirm", "kill", "typed", "detail", "none"}
Cmd == [k : {"push"}, screen : Screen]
  \cup [k : {"pop"}, result : {"none", "yes", "no", "label"}, by : Answerer]
  \cup [k : {"act"}, op : Actions, by : Answerer]
  \cup [k : {"read"}, of : Streams \cup {NoStream}, live : BOOLEAN]
  \cup [k : {"tick", "scan", "open", "quit"}]

TypeOK ==
  /\ stack \in Seq(Screen) /\ stack # << >>
  /\ IsABag(cmds) /\ BagToSet(cmds) \subseteq Cmd
  /\ conn \in [Streams -> {"new", "open", "closed"}]
  /\ status \in {"running", "quit", "panic"}
  /\ hasty \in BOOLEAN

----------------------------------------------------------------------------
(* Commands and new screens *)

PushScreen(sc) == [k |-> "push", screen |-> sc]
PopScreen == [k |-> "pop", result |-> "none", by |-> "none"]
PopScreenWithResult(v, by) == [k |-> "pop", result |-> v, by |-> by]
Answer(yes) == IF yes THEN "yes" ELSE "no"

tickCmd == [k |-> "tick"]
scanCmd == [k |-> "scan"]
openCmd == [k |-> "open"]
quitCmd == [k |-> "quit"]
readNextCmd(x) == [k |-> "read", of |-> x, live |-> x \in Streams /\ conn[x] = "open"]
actionCmd(op, by) == [k |-> "act", op |-> op, by |-> by]

NewTableScreen       == [kind |-> "table", filtering |-> FALSE, rows |-> FALSE]
NewTreeScreen        == [kind |-> "tree"]
NewDetailScreen      == [kind |-> "detail", pending |-> ""]
NewStreamScreen      == [kind |-> "stream", session |-> NoStream]
NewConfirmScreen     == [kind |-> "confirm"]
NewKillConfirmScreen == [kind |-> "kill", word |-> FALSE]

\* Screen.Init of a screen that is pushed.
InitCmds(sc) == IF sc.kind = "stream" THEN {openCmd} ELSE {}

top == Last(stack)

\* What a handler returns: the screen that replaces the top and the commands.
Out(sc, cs) == [screen |-> sc, cmds |-> cs]
Ignored == Out(top, {})

\* App.Update puts the handler's screen on the top of st; "done" is the message
\* it was given, none for a key.
Handled(st, out, done) ==
  /\ stack' = Append(Front(st), out.screen)
  /\ cmds' = Exchanged(cmds, done, out.cmds)

----------------------------------------------------------------------------
(* Keys *)

Keys == {"enter", "esc", "q", "r", "/", "v", "s", "t", "h", "k", "y", "n", "ctrl+c",
         "word", "text"}   \* "word" edits an input until it says KILL

\* TableScreen.Update, tea.KeyMsg.  A filter that is applied shows some rows or
\* none.
TableKey(sc, key) ==
  IF sc.filtering
  THEN IF key \in {"enter", "esc"}
       THEN {Out([sc EXCEPT !.filtering = FALSE, !.rows = r], {}) : r \in BOOLEAN}
       ELSE {Ignored}
  ELSE {CASE key = "q" -> Out(sc, {quitCmd})
          [] key = "r" -> Out(sc, {scanCmd})
          [] key = "/" -> Out([sc EXCEPT !.filtering = TRUE], {})
          [] key = "v" -> Out(sc, {PushScreen(NewTreeScreen)})
          [] key = "enter" /\ sc.rows -> Out(sc, {PushScreen(NewDetailScreen)})
          [] OTHER -> Ignored}

\* TreeScreen.Update: Enter opens a file or folds a directory.
TreeKey(sc, key) ==
  CASE key \in {"esc", "q"} -> {Out(sc, {PopScreen})}
    [] key = "enter" -> {Out(sc, {PushScreen(NewDetailScreen)}), Ignored}
    [] OTHER -> {Ignored}

\* DetailScreen.Update, tea.KeyMsg: the question is pushed and what to do with
\* the answer is remembered.
DetailKey(sc, key) ==
  CASE key = "esc" -> Out(sc, {PopScreen})
    [] key = "s" -> Out(sc, {PushScreen(NewStreamScreen)})
    [] key = "t" -> Out([sc EXCEPT !.pending = "truncate"], {PushScreen(NewConfirmScreen)})
    [] key = "h" -> Out([sc EXCEPT !.pending = "hup"], {PushScreen(NewConfirmScreen)})
    [] key = "k" -> Out([sc EXCEPT !.pending = "kill"], {PushScreen(NewKillConfirmScreen)})
    [] OTHER -> Ignored

ConfirmKey(sc, key) ==
  CASE key = "y" -> Out(sc, {PopScreenWithResult("yes", "confirm")})
    [] key \in {"n", "esc"} -> Out(sc, {PopScreenWithResult("no", "confirm")})
    [] OTHER -> Ignored

\* Mutant of KillConfirmKey: Enter is enough.
KillConfirmKeyEnter(sc, key) ==
  CASE key = "esc" -> Out(sc, {PopScreenWithResult("no", "kill")})
    [] key = "enter" ->
         Out(sc, {PopScreenWithResult("yes", IF sc.word THEN "typed" ELSE "kill")})
    [] OTHER -> Out([sc EXCEPT !.word = (key = "word")], {})

\* KillConfirmScreen.Update: every other key goes to the input.
KillConfirmKey(sc, key) ==
  CASE key = "esc" -> Out(sc, {PopScreenWithResult("no", "kill")})
    [] key = "enter" ->
         Out(sc, {PopScreenWithResult(Answer(sc.word), IF sc.word THEN "typed" ELSE "kill")})
    [] OTHER -> Out([sc EXCEPT !.word = (key = "word")], {})

\* What the handlers without an effect outside the stack may return.
KeyOutcomes(sc, key) ==
  CASE sc.kind = "table"   -> TableKey(sc, key)
    [] sc.kind = "tree"    -> TreeKey(sc, key)
    [] sc.kind = "detail"  -> {DetailKey(sc, key)}
    [] sc.kind = "confirm" -> {ConfirmKey(sc, key)}
    [] sc.kind = "kill"    -> {KillConfirmKey(sc, key)}

\* A screen is about to be pushed or popped, or an action to be answered.
StackChanging == \E c \in BagToSet(cmds) : c.k \in {"push", "pop", "act"}
Pushes == BagCardinality([c \in {d \in BagToSet(cmds) : d.k = "push"} |-> cmds[c]])

\* The user does not press a key that would pass the bounds.
Bounded == BagCardinality(cmds) <= MaxCmds /\ Len(stack) + Pushes <= MaxStack

Press ==
  /\ status = "running"
  /\ hasty' = (hasty \/ StackChanging)
  /\ UNCHANGED status

\* StreamScreen.CloseSession and StreamSession.Close.
CloseSessions(closing) ==
  conn' = [x \in Streams |-> IF x \in closing /\ conn[x] = "open" THEN "closed" ELSE conn[x]]

KeyCtrlC ==
  /\ Press
  /\ Handled(stack, Out(top, {quitCmd}), {})
  /\ UNCHANGED conn /\ Bounded'

KeyStream(key) ==
  /\ Press /\ top.kind = "stream"
  /\ key = "esc"
  /\ CloseSessions({top.session})
  /\ Handled(stack, Out(top, {PopScreen}), {})
  /\ Bounded'

Key(key) ==
  /\ Press /\ top.kind # "stream"
  /\ \E out \in KeyOutcomes(top, key) : Handled(stack, out, {})
  /\ UNCHANGED conn /\ Bounded'

----------------------------------------------------------------------------
(* Messages *)

Deliver(c) == status = "running" /\ BagIn(c, cmds) /\ UNCHANGED hasty

Push(c) ==
  /\ Deliver(c) /\ c.k = "push"
  /\ Handled(Append(stack, c.screen), Out(c.screen, InitCmds(c.screen)), {c})
  /\ UNCHANGED <<conn, status>>

\* Mutant of DetailResult: nothing is pending, and something is done.
DetailResultDefault(sc, v, by) ==
  Out([sc EXCEPT !.pending = ""], IF v = "yes" THEN {actionCmd(sc.pending, by)} ELSE {})

\* Mutant of DetailResult: pending is kept.
DetailResultKept(sc, v, by) ==
  Out(sc, IF v = "yes" /\ sc.pending # "" THEN {actionCmd(sc.pending, by)} ELSE {})

\* DetailScreen.Update, resultMsg
DetailResult(sc, v, by) ==
  Out([sc EXCEPT !.pending = ""],
      IF v = "yes" /\ sc.pending # "" THEN {actionCmd(sc.pending, by)} ELSE {})

\* Mutant of TableResult: starts over, as Init does.
TableResultInit(sc) == Out(sc, {scanCmd, tickCmd})

\* TableScreen.Update, resultMsg
TableResult(sc) == Out(sc, {scanCmd})

\* The new top is given the result; the other screens do nothing with one.
GivenResult(sc, c) ==
  CASE c.result # "none" /\ sc.kind = "table"  -> TableResult(sc)
    [] c.result # "none" /\ sc.kind = "detail" -> DetailResult(sc, c.result, c.by)
    [] OTHER -> Out(sc, {})

Popped(st) == IF Len(st) > 1 THEN Front(st) ELSE st

Pop(c) ==
  /\ Deliver(c) /\ c.k = "pop"
  /\ LET st == Popped(stack) IN Handled(st, GivenResult(Last(st), c), {c})
  /\ UNCHANGED <<conn, status>>

\* TableScreen.Update, tickMsg.  A tick is not delivered while the bound on
\* commands leaves no room for the scan it starts.
Tick ==
  /\ Deliver(tickCmd) /\ BagCardinality(cmds) < MaxCmds
  /\ Handled(stack, IF top.kind = "table" THEN Out(top, {scanCmd, tickCmd}) ELSE Ignored,
             {tickCmd})
  /\ UNCHANGED <<conn, status>>

\* scanResultMsg, with rows or without, or scanErrMsg.
Scan ==
  /\ Deliver(scanCmd)
  /\ \E out \in {Ignored} \cup {Out([top EXCEPT !.rows = r], {}) :
                                  r \in IF top.kind = "table" THEN BOOLEAN ELSE {}} :
       Handled(stack, out, {scanCmd})
  /\ UNCHANGED <<conn, status>>

\* actionResultMsg: an error is shown, success closes the detail screen.
Act(c) ==
  /\ Deliver(c) /\ c.k = "act"
  /\ \E out \in {Ignored} \cup
       (IF top.kind = "detail" THEN {Out(top, {PopScreenWithResult("label", "detail")})} ELSE {}) :
       Handled(stack, out, {c})
  /\ UNCHANGED <<conn, status>>

\* streamAttachedMsg with a connection nobody else knows, or streamAttachErrMsg.
Open ==
  /\ Deliver(openCmd)
  /\ \/ Handled(stack, Ignored, {openCmd}) /\ UNCHANGED conn
     \/ \E x \in Streams :
          /\ conn[x] = "new"
          /\ conn' = [conn EXCEPT ![x] = "open"]
          /\ Handled(stack, IF top.kind = "stream"
                            THEN Out([top EXCEPT !.session = x],
                                     {[k |-> "read", of |-> x, live |-> TRUE]})
                            ELSE Ignored, {openCmd})
  /\ UNCHANGED status

\* StreamSession.Next has a write: the screen on top reads on from its own
\* session.
ReadEvent(c) ==
  /\ Deliver(c) /\ c.k = "read" /\ c.live
  /\ Handled(stack, IF top.kind = "stream" THEN Out(top, {readNextCmd(top.session)})
                    ELSE Ignored, {c})
  /\ UNCHANGED <<conn, status>>

\* The stream has ended, or an error is shown.
ReadEnd(c) ==
  /\ Deliver(c) /\ c.k = "read" /\ c.of # NoStream
  /\ Handled(stack, Ignored, {c})
  /\ UNCHANGED <<conn, status>>

\* Next is called on a nil session: Bubble Tea ends the program.
ReadNil(c) ==
  /\ Deliver(c) /\ c.k = "read" /\ c.of = NoStream
  /\ status' = "panic"
  /\ CloseSessions({stack[i].session : i \in {j \in DOMAIN stack : stack[j].kind = "stream"}})
  /\ cmds' = EmptyBag
  /\ UNCHANGED stack

\* tea.QuitMsg ends the loop and main calls App.CloseAllSessions; what is still
\* in flight ends with the process.
Quit ==
  /\ Deliver(quitCmd)
  /\ status' = "quit"
  /\ CloseSessions({stack[i].session : i \in {j \in DOMAIN stack : stack[j].kind = "stream"}})
  /\ cmds' = EmptyBag
  /\ UNCHANGED stack

----------------------------------------------------------------------------
\* NewApp with the table as root, and TableScreen.Init.
Init ==
  /\ stack = <<NewTableScreen>>
  /\ cmds = SetToBag({scanCmd, tickCmd})
  /\ conn = [x \in Streams |-> "new"]
  /\ status = "running"
  /\ hasty = FALSE

Next ==
  \/ KeyCtrlC
  \/ \E key \in Keys \ {"ctrl+c"} : KeyStream(key) \/ Key(key)
  \/ \E c \in BagToSet(cmds) :
       Push(c) \/ Pop(c) \/ Act(c) \/ ReadEvent(c) \/ ReadEnd(c) \/ ReadNil(c)
  \/ Tick \/ Scan \/ Open \/ Quit

Spec == Init /\ [][Next]_vars

----------------------------------------------------------------------------
(* Properties *)

\* There is never more than one auto-rescan tick, whichever way the table is
\* come back to: the scans do not multiply.
OneTick == Copies(tickCmd, cmds) <= 1

Question(op) == IF op = "kill" THEN "kill" ELSE "confirm"

\* As long as the user waits for screens to appear and go and for actions to be
\* answered, what DetailScreen remembers to do is what the question above it
\* asks, and it remembers nothing when there is none.
PendingMatches ==
  status = "running" /\ ~hasty /\ ~StackChanging =>
    \A i \in DOMAIN stack :
      /\ stack[i].kind = "detail" /\ stack[i].pending # "" =>
           i < Len(stack) /\ stack[i + 1].kind = Question(stack[i].pending)
      /\ stack[i].kind \in {"confirm", "kill"} =>
           /\ stack[i - 1].kind = "detail" /\ stack[i - 1].pending # ""
           /\ stack[i].kind = Question(stack[i - 1].pending)

\* No command of DetailScreen is started without a "yes" from a question that was
\* asked, however screens and answers are mixed up; and as long as the user waits,
\* SIGKILL is only sent when KILL has been typed.
ActsConfirmed ==
  \A c \in BagToSet(cmds) : c.k = "act" =>
    /\ c.by \in {"confirm", "typed"}
    /\ ~hasty /\ c.op = "kill" => c.by = "typed"

\* README: "The TUI requires typing the word `KILL` to confirm"; CHANGELOG: "not a
\* single y/n keypress".
KillTyped ==
  \A c \in BagToSet(cmds) : c.k = "act" /\ c.op = "kill" => c.by = "typed"
=============================================================================
