--------------------------- MODULE MCPriorities ---------------------------
(* Priorities for TLC.  The process IDs other than the first are alike.     *)
EXTENDS Priorities, TLC

\* The first process is root's.
OwnerDef == [p \in Pids |-> IF p = InitPid THEN Root ELSE CHOOSE u \in Users : u # Root]

Symmetry == Permutations(Pids \ {InitPid})

===========================================================================
