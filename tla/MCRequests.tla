----------------------------- MODULE MCRequests -----------------------------
(* Small instances of Requests. *)
EXTENDS Requests

\* Two requests that race for the same process, which goes on meanwhile; any request
\* to a daemon that may end; a daemon that takes the place of another, in any way,
\* and in the middle of a scan.
Upto(starts, fg, ends, asks, kinds, changes) ==
  [starts |-> starts, fg |-> fg, ends |-> ends, asks |-> asks, kinds |-> kinds,
   changes |-> changes]

Rivals ==
  {Upto(1, {TRUE}, 0, 2, Acts, 1),
   Upto(1, {TRUE}, 2, 1, Kinds, 1),
   Upto(2, {TRUE}, 2, 1, {"SCAN"}, 0),
   Upto(2, BOOLEAN, 4, 0, {}, 0)}
=============================================================================
