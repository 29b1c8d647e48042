---------------------------- MODULE MCProcScan ----------------------------
(* A host of four processes and two users. *)
EXTENDS ProcScan, TLC

CONSTANTS u1, u2

OwnerDef == [p \in Procs |-> IF p = 2 THEN u2 ELSE u1]

F(fd, size) == [fd |-> fd, size |-> size, deleted |-> TRUE, virtual |-> FALSE]

\* Every reason to leave an fd out occurs, and two processes have equal sizes.
FilesDef ==
  (1 :> {F(3, 2)}) @@ (2 :> {F(3, 1), F(4, 3)})
    @@ (3 :> {F(5, 2), [F(6, 7) EXCEPT !.virtual = TRUE]})
    @@ (4 :> {[F(3, 9) EXCEPT !.deleted = FALSE], F(7, 0)})
============================================================================
