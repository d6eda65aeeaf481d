--------------------------- MODULE MCEventLedger ----------------------------
\* Instances of EventLedger for TLC: processes about one event.
EXTENDS EventLedger, TLC
CONSTANTS p1, p2, p3, k, r, r2

OneKey     == [p \in Procs |-> k]
SameRank   == [p \in Procs |-> 1]
OneTheme   == [j \in Keys |-> k]
Alike      == Permutations(Senders) \cup Permutations(Recipients)
NoAliases  == [j \in Keys |-> {}]
=============================================================================
