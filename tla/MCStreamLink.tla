---------------------------- MODULE MCStreamLink ----------------------------
(* Small instances of StreamLink. *)
EXTENDS StreamLink

CONSTANTS c1, c2
=============================================================================
