----------------------------- MODULE MCModuleUpdate -----------------------------
\* A file of a full block and a rest, and two short ones that could be taken for each other.
EXTENDS ModuleUpdate

CONSTANTS a, b, c

ThreeFiles == {a, b, c}
Sizes == [f \in ThreeFiles |-> IF f = c THEN 3 ELSE 1]
FewAttempts == [op \in Ops |-> IF op = "chunk" THEN 2 ELSE 1]
=================================================================================
