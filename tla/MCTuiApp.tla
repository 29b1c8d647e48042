----------------------------- MODULE MCTuiApp -----------------------------
(* Small instances of TuiApp. *)
EXTENDS TuiApp
============================================================================
