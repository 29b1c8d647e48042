--------------------------- MODULE StreamService ---------------------------
(***************************************************************************)
(* What a STREAM promises its connection, whoever carries it out: it is    *)
(* asked for, it is refused or begins with a set of watched threads, it    *)
(* follows writes of watched threads only, each from its start to one      *)
(* report, and when it is over nothing is left of it.                      *)
(***************************************************************************)
CONSTANTS Sessions, Tids

VARIABLES phase,     \* each session: idle, attaching, streaming or closing
          watched,   \* the threads a session follows
          writing    \* the watched threads with a write to the fd in progress

vars == <<phase, watched, writing>>

Set(s, p, w, c) ==
  /\ phase' = [phase EXCEPT ![s] = p]
  /\ watched' = [watched EXCEPT ![s] = w]
  /\ writing' = [writing EXCEPT ![s] = c]

Ask(s) == phase[s] = "idle" /\ Set(s, "attaching", {}, {})

Refuse(s) == phase[s] = "attaching" /\ Set(s, "idle", {}, {})

\* attached_cb has been called; without memory the stream closes at once.
Attach(s, W, p) ==
  /\ phase[s] = "attaching" /\ W # {} /\ p \in {"streaming", "closing"}
  /\ Set(s, p, W, {})

Watch(s, t) ==
  /\ phase[s] = "streaming" /\ t \notin watched[s]
  /\ Set(s, "streaming", watched[s] \cup {t}, writing[s])

\* The thread has ended.
Forget(s, t) ==
  /\ phase[s] = "streaming" /\ t \in watched[s] /\ watched[s] # {t}
  /\ Set(s, "streaming", watched[s] \ {t}, writing[s] \ {t})

WriteBegins(s, t) ==
  /\ phase[s] = "streaming" /\ t \in watched[s] \ writing[s]
  /\ Set(s, "streaming", watched[s], writing[s] \cup {t})

\* The write returns: write_cb is called, unless the thread has just been killed.
WriteReported(s, t) ==
  /\ phase[s] = "streaming" /\ t \in writing[s]
  /\ Set(s, "streaming", watched[s], writing[s] \ {t})

\* The client has stopped or left.
Leave(s) == phase[s] = "streaming" /\ Set(s, "closing", watched[s], writing[s])

End(s) == phase[s] \in {"streaming", "closing"} /\ Set(s, "idle", {}, {})

Init ==
  /\ phase = [s \in Sessions |-> "idle"]
  /\ watched = [s \in Sessions |-> {}]
  /\ writing = [s \in Sessions |-> {}]

Next ==
  \E s \in Sessions :
    \/ Ask(s) \/ Refuse(s) \/ Leave(s) \/ End(s)
    \/ \E W \in SUBSET Tids, p \in {"streaming", "closing"} : Attach(s, W, p)
    \/ \E t \in Tids : Watch(s, t) \/ Forget(s, t) \/ WriteBegins(s, t) \/ WriteReported(s, t)

Spec == Init /\ [][Next]_vars
=============================================================================
