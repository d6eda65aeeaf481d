SPECIFICATION Spec
CONSTANTS
    e1 = e1
    e2 = e2
    t1 = t1
    Events = {e1, e2}
    Traces = {t1}
    TraceOf <- TwoOfOne
    Escalating = {e2}
    HighRisk = {}
    None = None
    MaxPosts = 2
    MaxAccidents = 1
PROPERTIES AcceptedIsNotPosted
CHECK_DEADLOCK FALSE
