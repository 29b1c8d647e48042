------------------------------ MODULE Mailbox ------------------------------
(***************************************************************************)
(* External: what is in flight in Bubble Tea, the framework of hsed.  Each *)
(* command runs in a goroutine of its own and its message is delivered     *)
(* once, in any order: a bag.                                              *)
(***************************************************************************)
EXTENDS Integers, Bags

\* How many copies of a command are in flight.
Copies(m, B) == IF BagIn(m, B) THEN B[m] ELSE 0

\* The bag when the messages "done" have been delivered and the commands "new"
\* are started.
Exchanged(B, done, new) == (B (-) SetToBag(done)) (+) SetToBag(new)
=============================================================================
