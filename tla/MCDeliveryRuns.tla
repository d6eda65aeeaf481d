--------------------------- MODULE MCDeliveryRuns ---------------------------
\* Instances of DeliveryRuns for TLC: two monitors and a scheduled run, an
\* ordinary event e, a priority event f, an anchor a.
EXTENDS DeliveryRuns, TLC
CONSTANTS m1, m2, s1, e, f, a, r1, r2

Alike     == Permutations({m1, m2}) \cup Permutations({r1, r2})
AllTraces == Keys \cup (Runs \X Keys)
OwnTheme  == [k \in Keys |-> k]
NoAliases == [k \in Keys |-> {}]
\* The world changes twice, once when two runs may be inside: an event rises, another run publishes, time passes.
Small     == rank[e] + rank[f] + others + now <= IF slots = 1 THEN 3 ELSE 2
OneAnchor == [w \in Schedulers |-> a]
=============================================================================
