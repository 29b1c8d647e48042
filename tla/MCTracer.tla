----------------------------- MODULE MCTracer -----------------------------
(* Small instances of Tracer: one or two processes of up to three threads. *)
EXTENDS Tracer, TLC

CONSTANTS t1, t2, t3

\* One process whose leader is t1.
OneProcess == [t \in Tids |-> t1]
\* Single-threaded processes.
Singles == [t \in Tids |-> t]
============================================================================
