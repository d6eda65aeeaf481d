---------------------------- MODULE AtomicLedger ----------------------------
(***************************************************************************)
(* What the delivery ledger promises to the processes that share its file. *)
(* An operation that a process calls takes effect once, at one moment      *)
(* between its call and its return: it is applied to the ledger that the   *)
(* operations before it have left, and answers from that ledger.  Or it is *)
(* given up and leaves no trace.  Nothing is promised any more once the    *)
(* ledger is broken.                                                       *)
(***************************************************************************)
CONSTANTS Procs,
          Idle,            \* no call
          Effect(_, _),    \* what a call makes of a ledger
          Reply(_, _, _)   \* what a call answers from a ledger, after an earlier answer

VARIABLES ledger, calls, answers, broken

promise == <<ledger, calls, answers, broken>>

Start == ~broken /\ calls = [p \in Procs |-> Idle]

\* p calls an operation, whichever it is.
Call(p) ==
    /\ calls[p] = Idle /\ calls'[p] # Idle
    /\ calls' = [calls EXCEPT ![p] = calls'[p]]
    /\ UNCHANGED <<ledger, answers, broken>>

TakeEffect(p) ==
    /\ calls[p] # Idle
    /\ ledger'  = Effect(calls[p], ledger)
    /\ answers' = [answers EXCEPT ![p] = Reply(calls[p], ledger, @)]
    /\ calls'   = [calls EXCEPT ![p] = Idle]
    /\ UNCHANGED broken

Abandon(p) ==
    /\ calls[p] # Idle
    /\ calls' = [calls EXCEPT ![p] = Idle]
    /\ UNCHANGED <<ledger, answers, broken>>

Step == broken' \/ \E p \in Procs : Call(p) \/ TakeEffect(p) \/ Abandon(p)

Promise == Start /\ [][Step]_promise
=============================================================================
