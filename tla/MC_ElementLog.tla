--------------------------- MODULE MC_ElementLog ---------------------------
\* Instances of ElementLog for TLC: a task of each kind.
EXTENDS ElementLog

CONSTANTS call, task, script

LateRows == {n \in DOMAIN log : log[n].late}

\* Bound: the rows of runs without a lease, those still to come included, count
\* among the events.
LateCounted == starts + lost + refused + late + Cardinality(LateRows) <= MaxEvents
=============================================================================
