----------------------------- MODULE MCSoulTurn -----------------------------
\* SoulTurn with values for TLC; the cfg files give the numbers.
EXTENDS SoulTurn, TLC

CONSTANTS a, b

Callers1 == {a}
Callers2 == {a, b}
NoCallers == {}
AllOps == Direct \union {"push", "clear"}
WaitOps == {"request", "sync"}
\* push_sync does to the queue what request does.
QueueOps == AllOps \ {"sync"}
OneDepth == {1}
Symmetry == Permutations(Callers2)
=============================================================================
