---------------------------- MODULE OnceOnlyMail ----------------------------
(***************************************************************************)
(* What the incident coordinator promises about mail: a decision is taken  *)
(* once, mailed at most once and only after it was taken, and an incident  *)
(* version counts as notified only after the mail exists.                  *)
(***************************************************************************)
CONSTANT Decisions
VARIABLES taken, mailed, credited

promise == <<taken, mailed, credited>>

Start ==
    /\ taken = {} /\ credited = {}
    /\ mailed = [d \in Decisions |-> {}]

OneCopy(copies) == copies # {} /\ \A m, n \in copies : m = n

Take(d) ==
    /\ d \notin taken
    /\ taken' = taken \cup {d}
    /\ UNCHANGED <<mailed, credited>>

Mail(d) ==
    /\ d \in taken /\ mailed[d] = {}
    /\ mailed' = [mailed EXCEPT ![d] = mailed'[d]]
    /\ OneCopy(mailed'[d])
    /\ UNCHANGED <<taken, credited>>

Credit(d) ==
    /\ mailed[d] # {}
    /\ credited' = credited \cup {d}
    /\ UNCHANGED <<taken, mailed>>

Step == \E d \in Decisions : Take(d) \/ Mail(d) \/ Credit(d)

Promise == Start /\ [][Step]_promise
=============================================================================
