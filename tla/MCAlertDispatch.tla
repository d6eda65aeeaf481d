--------------------------- MODULE MCAlertDispatch ---------------------------
\* Instances of AlertDispatch for TLC: two events of one trace.
EXTENDS AlertDispatch, TLC
CONSTANTS e1, e2, t1

TwoOfOne == [e \in {e1, e2} |-> t1]
=============================================================================
