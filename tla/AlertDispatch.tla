---------------------------- MODULE AlertDispatch ----------------------------
(***************************************************************************)
(* External alerts on their way from the Railway monitor to Telegram       *)
(* (railway-monitor/app.py and its stores, emergency-alert.yml,            *)
(* src/src/emergency_alert.py, src/src/delivery_callback.py).  The monitor *)
(* claims an event in its database, writes the dispatch to an outbox,      *)
(* posts it to GitHub, which starts a workflow run, and marks the outbox.  *)
(* The run sends once per event, which a cache entry remembers, and        *)
(* reports to the monitor's HTTP thread, which writes the same outbox row  *)
(* while the monitor may be anywhere in its cycle.                         *)
(*                                                                         *)
(* Events of one trace are what the canonical key takes for one event: a   *)
(* GDELT cluster gets a new event id with every article, and the same      *)
(* trace.  All events are of one category, the cooldowns of others are     *)
(* apart.  Runs follow each other, which is WriterQueue's business.        *)
(***************************************************************************)
EXTENDS Naturals, FiniteSets

CONSTANTS Events, Traces,
          TraceOf,       \* alert_trace_id
          Escalating,    \* events whose summary has an escalation term
          HighRisk,      \* events whose summary says high risk
          None,
          MaxPosts, MaxAccidents   \* bounds: accepted dispatches of a trace

ASSUME DispatchAssumption ==
    /\ TraceOf \in [Events -> Traces] /\ None \notin Events
    /\ Escalating \subseteq Events /\ HighRisk \subseteq Events
    /\ MaxPosts \in Nat \ {0} /\ MaxAccidents \in Nat

VARIABLES pc, first,     \* the monitor, and whether it has completed no poll yet
          batch,         \* the rows a retry pass has yet to post
          feed,          \* the events a poll has yet to look at
          cur, ok,       \* the event in progress, and whether GitHub said yes
          seen,          \* the classification of an event
          outbox,
          reminded,      \* the ledger's row of a trace: in its cooldown, escalated
          dispatched,    \* the category's last dispatch: by which event, in its cooldown
          queue,         \* dispatches GitHub has accepted and not yet run
          run,           \* the workflow run that has the queue
          lock,          \* events with a cache entry
          told,          \* runs that told somebody about an event
          unlocked,      \* those of them that left no cache entry
          posted,        \* dispatches of a trace GitHub accepted
          causes,        \* reasons to post a trace again
          credited,      \* traces whose acceptance the monitor has written down
          accidents

monitor == <<pc, first, batch, feed, cur, ok>>
tables  == <<seen, outbox, reminded, dispatched>>
github  == <<queue, run, lock, told, unlocked>>
counts  == <<posted, causes, credited, accidents>>
vars    == <<monitor, tables, github, counts>>

NoRow == [status |-> "none", event |-> None, wait |-> FALSE]
NoRun == [event |-> None, at |-> "none", result |-> "none", reached |-> FALSE, good |-> FALSE]

Init ==
    /\ pc = "down" /\ first = TRUE /\ batch = {} /\ feed = {} /\ cur = None /\ ok = FALSE
    /\ seen = [e \in Events |-> "none"]
    /\ outbox = [t \in Traces |-> NoRow]
    /\ reminded = [t \in Traces |-> [cooling |-> FALSE, escalated |-> FALSE]]
    /\ dispatched = [by |-> None, cooling |-> FALSE]
    /\ queue = [e \in Events |-> 0] /\ run = NoRun /\ lock = {}
    /\ told = [e \in Events |-> 0] /\ unlocked = [e \in Events |-> 0]
    /\ posted = [t \in Traces |-> 0] /\ causes = [t \in Traces |-> 0]
    /\ credited = {} /\ accidents = 0

Bump(f, x) == [f EXCEPT ![x] = @ + 1]

-----------------------------------------------------------------------------
(* The outbox. *)

DueFailed(t) == outbox[t].status = "failed" /\ ~outbox[t].wait
Due(t) == outbox[t].status \in {"pending", "failed"} /\ ~outbox[t].wait

\* A row keeps its status when its payload is written again.
RecordOutbox(e) ==
    LET row == outbox[TraceOf[e]]
    IN  outbox' = [outbox EXCEPT ![TraceOf[e]] =
                      [status |-> IF row.status = "none" THEN "pending" ELSE row.status,
                       event |-> e, wait |-> row.wait]]

MarkSent(t, yes) ==
    outbox' = [outbox EXCEPT ![t] = [@ EXCEPT !.status = "sent", !.wait = FALSE]]
\* Whatever a receipt has written in between is written over.
MarkOutbox(t, yes) ==
    outbox' = [outbox EXCEPT ![t] =
                  [@ EXCEPT !.status = IF yes THEN "sent" ELSE "failed", !.wait = ~yes]]

\* dispatch_repository tries again after an error: any attempt may be accepted and its
\* answer lost, and none comes after an answer.
Attempts == 3
Post(e) ==
    \E lost \in 0..Attempts, yes \in BOOLEAN :
        LET n == lost + (IF yes THEN 1 ELSE 0) IN
        /\ n <= Attempts
        /\ posted[TraceOf[e]] + n <= MaxPosts
        /\ ok' = yes
        /\ queue'  = [queue EXCEPT ![e] = @ + n]
        /\ posted' = [posted EXCEPT ![TraceOf[e]] = @ + n]
        /\ causes' = [causes EXCEPT ![TraceOf[e]] = @ + lost]

Mark(t) ==
    /\ MarkOutbox(t, ok)
    /\ credited' = IF ok THEN credited \cup {t} ELSE credited

-----------------------------------------------------------------------------
(* The cycle of the monitor: retry what is due, then poll. *)

Boot ==
    /\ pc = "down"
    /\ pc' = "cycle" /\ first' = TRUE
    /\ UNCHANGED <<batch, feed, cur, ok, tables, github, counts>>

DueOutbox ==
    /\ pc = "cycle"
    /\ batch' = {t \in Traces : Due(t)} /\ pc' = "retry"
    /\ UNCHANGED <<first, feed, cur, ok, tables, github, counts>>

\* The batch was read before: a receipt of the meantime is not looked at.
RetryPost(t) ==
    /\ pc = "retry" /\ t \in batch
    /\ cur' = outbox[t].event
    /\ Post(outbox[t].event)
    /\ pc' = "retried"
    /\ UNCHANGED <<first, batch, feed, tables, run, lock, told, unlocked, credited, accidents>>

RetryMark ==
    /\ pc = "retried"
    /\ Mark(TraceOf[cur])
    /\ batch' = batch \ {TraceOf[cur]} /\ cur' = None /\ pc' = "retry"
    /\ UNCHANGED <<first, feed, ok, seen, reminded, dispatched, github, posted, causes, accidents>>

\* What a source shows is up to the source; when the fetch fails the poll is not completed.
Fetch ==
    /\ pc = "retry" /\ batch = {}
    /\ \/ pc' = "poll" /\ feed' \in SUBSET Events
       \/ pc' = "cycle" /\ UNCHANGED feed
    /\ UNCHANGED <<first, batch, cur, ok, tables, github, counts>>

Classified(e) == seen[e] \notin {"none", "unclassified"}

\* claim_classification: committed before anything else is known about the event.
Claim(e) ==
    /\ pc = "poll" /\ e \in feed /\ ~Classified(e)
    /\ seen' = [seen EXCEPT ![e] = "in_scope"]
    /\ cur' = e /\ feed' = feed \ {e}
    /\ pc' = IF first /\ seen[e] = "none" THEN "new" ELSE "claimed"
    /\ UNCHANGED <<first, batch, ok, outbox, reminded, dispatched, github, counts>>

Baseline ==
    /\ pc = "new"
    /\ seen' = [seen EXCEPT ![cur] = "baseline"]
    /\ cur' = None /\ pc' = "poll"
    /\ UNCHANGED <<first, batch, feed, ok, outbox, reminded, dispatched, github, counts>>

LedgerMay(e)   == reminded[TraceOf[e]].escalated \/ ~reminded[TraceOf[e]].cooling
CategoryMay(e) == \/ ~dispatched.cooling
                  \/ e \in Escalating /\ dispatched.by \notin Escalating
Suppressed(e)  == ~LedgerMay(e) \/ ~CategoryMay(e)

AcceptedPartly(t) == outbox[t].status = "partial"
Accepted(t) == outbox[t].status \in {"sent", "partial"}
Waiting(t)  == outbox[t].status \in {"pending", "failed"}

RemindByTrace(e) ==
    /\ dispatched' = [by |-> TraceOf[e], cooling |-> TRUE]
    /\ reminded' = [reminded EXCEPT ![TraceOf[e]] =
                       [cooling |-> TRUE, escalated |-> @.escalated \/ e \in HighRisk]]

Remind(e) ==
    /\ dispatched' = [by |-> e, cooling |-> TRUE]
    /\ reminded' = [reminded EXCEPT ![TraceOf[e]] =
                       [cooling |-> TRUE, escalated |-> @.escalated \/ e \in HighRisk]]

\* Suppressed, or left to the retry pass: claimed for good.
Hold ==
    /\ pc = "claimed" /\ (Suppressed(cur) \/ Waiting(TraceOf[cur]))
    /\ cur' = None /\ pc' = "poll"
    /\ UNCHANGED <<first, batch, feed, ok, tables, github, counts>>

AlreadyDelivered ==
    /\ pc = "claimed" /\ ~Suppressed(cur) /\ Accepted(TraceOf[cur])
    /\ Remind(cur)
    /\ cur' = None /\ pc' = "poll"
    /\ UNCHANGED <<first, batch, feed, ok, seen, outbox, github, counts>>

Record ==
    /\ pc = "claimed" /\ ~Suppressed(cur)
    /\ ~Accepted(TraceOf[cur]) /\ ~Waiting(TraceOf[cur])
    /\ RecordOutbox(cur)
    /\ causes' = IF outbox[TraceOf[cur]].status = "delivered" THEN Bump(causes, TraceOf[cur]) ELSE causes
    /\ pc' = "post"
    /\ UNCHANGED <<first, batch, feed, cur, ok, seen, reminded, dispatched, github, posted, credited,
                   accidents>>

FreshPost ==
    /\ pc = "post"
    /\ Post(cur)
    /\ pc' = "posted"
    /\ UNCHANGED <<first, batch, feed, cur, tables, run, lock, told, unlocked, credited, accidents>>

FreshMark ==
    /\ pc = "posted"
    /\ Mark(TraceOf[cur])
    /\ pc' = "marked"
    /\ UNCHANGED <<first, batch, feed, cur, ok, seen, reminded, dispatched, github, posted, causes, accidents>>

\* After a failure the event may be claimed again.
Finish ==
    /\ pc = "marked"
    /\ IF ok THEN Remind(cur) /\ UNCHANGED seen
             ELSE seen' = [seen EXCEPT ![cur] = "unclassified"] /\ UNCHANGED <<reminded, dispatched>>
    /\ cur' = None /\ pc' = "poll"
    /\ UNCHANGED <<first, batch, feed, ok, outbox, github, counts>>

EndPoll ==
    /\ pc = "poll" /\ \A e \in feed : Classified(e)
    /\ first' = FALSE /\ feed' = {} /\ pc' = "cycle"
    /\ UNCHANGED <<batch, cur, ok, tables, github, counts>>

-----------------------------------------------------------------------------
\* The database is locked for too long, which ends the pass; or the process dies.
Accident ==
    /\ pc # "down" /\ accidents < MaxAccidents
    /\ accidents' = accidents + 1
    /\ \/ pc' = "down"
       \/ pc \in {"retried"} /\ pc' = "retry"
       \/ pc \in {"poll", "new", "claimed", "posted", "marked"} /\ pc' = "cycle"
    /\ causes' = IF pc \in {"retried", "posted"} THEN Bump(causes, TraceOf[cur]) ELSE causes
    /\ batch' = {} /\ feed' = {} /\ cur' = None
    /\ UNCHANGED <<first, ok, tables, github, posted, credited>>

\* Time passes: a backoff, a cooldown.
BackoffOver(t) ==
    /\ outbox[t].wait
    /\ outbox' = [outbox EXCEPT ![t].wait = FALSE]
    /\ UNCHANGED <<monitor, seen, reminded, dispatched, github, counts>>
LedgerCools(t) ==
    /\ reminded[t].cooling
    /\ reminded' = [reminded EXCEPT ![t].cooling = FALSE]
    /\ UNCHANGED <<monitor, seen, outbox, dispatched, github, counts>>
CategoryCools ==
    /\ dispatched.cooling
    /\ dispatched' = [dispatched EXCEPT !.cooling = FALSE]
    /\ UNCHANGED <<monitor, seen, outbox, reminded, github, counts>>

-----------------------------------------------------------------------------
(* The workflow run. *)

Unlocked(e) == TRUE
NotLocked(e) == e \notin lock

\* A superseded or cancelled run, and one that finds the cache entry, does nothing.
RunStarts(e) ==
    /\ run = NoRun /\ queue[e] > 0
    /\ queue' = [queue EXCEPT ![e] = @ - 1]
    /\ \/ UNCHANGED run
       \/ NotLocked(e) /\ run' = [NoRun EXCEPT !.event = e, !.at = "gate"]
    /\ UNCHANGED <<monitor, tables, lock, told, unlocked, counts>>

\* Pages is not available, or the budget of the released ledger is used up: nothing is
\* sent, and nothing has failed.  Or the release is not verified.
GateCloses ==
    /\ run.at = "gate"
    /\ \/ run' = [run EXCEPT !.at = "lock"]
       \/ run' = NoRun
    /\ UNCHANGED <<monitor, tables, queue, lock, told, unlocked, counts>>

\* The job may fail after it has sent: the ledger is saved last.  A message whose answer
\* did not come back counts as failed and may have reached somebody all the same.
Send ==
    /\ run.at = "gate"
    /\ \E result \in {"delivered", "partial", "failed"}, reached \in BOOLEAN, good \in BOOLEAN :
        /\ IF result = "failed" THEN ~good ELSE reached
        /\ run' = [run EXCEPT !.at = "receipt", !.result = result, !.reached = reached, !.good = good]
        /\ told' = IF reached THEN Bump(told, run.event) ELSE told
    /\ UNCHANGED <<monitor, tables, queue, lock, unlocked, counts>>

Leaves(r) == IF r.good THEN [r EXCEPT !.at = "lock"] ELSE NoRun
Unremembered == unlocked' = IF run.reached /\ ~run.good THEN Bump(unlocked, run.event) ELSE unlocked

\* record_delivery_status, in a thread of its own.  A backoff stays as it is.
Receipt ==
    /\ run.at = "receipt" /\ pc # "down"
    /\ outbox' = [outbox EXCEPT ![TraceOf[run.event]].status = run.result]
    /\ causes' = IF run.result = "failed" THEN Bump(causes, TraceOf[run.event]) ELSE causes
    /\ run' = Leaves(run) /\ Unremembered
    /\ UNCHANGED <<monitor, seen, reminded, dispatched, queue, lock, told, posted, credited, accidents>>

\* The receipt goes to the worker instead, or nowhere.
NoReceipt ==
    /\ run.at = "receipt"
    /\ run' = Leaves(run) /\ Unremembered
    /\ UNCHANGED <<monitor, tables, queue, lock, told, counts>>

SaveLock ==
    /\ run.at = "lock"
    /\ lock' = lock \cup {run.event} /\ run' = NoRun
    /\ UNCHANGED <<monitor, tables, queue, told, unlocked, counts>>

\* The job is cancelled, or the cache does not take the entry.
RunDies ==
    /\ run # NoRun
    /\ unlocked' = IF run.reached THEN Bump(unlocked, run.event) ELSE unlocked
    /\ run' = NoRun
    /\ UNCHANGED <<monitor, tables, queue, lock, told, counts>>

-----------------------------------------------------------------------------
Cycle ==
    \/ Boot \/ DueOutbox \/ RetryMark \/ Fetch \/ Baseline \/ Hold \/ AlreadyDelivered
    \/ Record \/ FreshPost \/ FreshMark \/ Finish \/ EndPoll
    \/ \E t \in Traces : RetryPost(t)
    \/ \E e \in Events : Claim(e)
Workflow == GateCloses \/ Send \/ Receipt \/ NoReceipt \/ SaveLock \/ RunDies
            \/ \E e \in Events : RunStarts(e)
Passing  == CategoryCools \/ \E t \in Traces : BackoffOver(t) \/ LedgerCools(t)

Next == Cycle \/ Workflow \/ Passing \/ Accident

Spec == Init /\ [][Next]_vars
\* The loop goes on, Railway restarts it, backoffs end, and GitHub does not refuse for ever.
FairSpec ==
    /\ Spec /\ WF_vars(Cycle)
    /\ \A t \in Traces : WF_vars(BackoffOver(t)) /\ SF_vars(RetryPost(t) /\ ok')

-----------------------------------------------------------------------------
(* Properties. *)

Status == {"none", "pending", "sent", "partial", "failed", "delivered"}
TypeOK ==
    /\ pc \in {"down", "cycle", "retry", "retried", "poll", "new", "claimed", "post", "posted", "marked"}
    /\ first \in BOOLEAN /\ ok \in BOOLEAN /\ batch \subseteq Traces /\ feed \subseteq Events
    /\ cur \in Events \cup {None}
    /\ seen \in [Events -> {"none", "unclassified", "in_scope", "baseline"}]
    /\ outbox \in [Traces -> [status : Status, event : Events \cup {None}, wait : BOOLEAN]]
    /\ reminded \in [Traces -> [cooling : BOOLEAN, escalated : BOOLEAN]]
    /\ dispatched \in [by : Events \cup {None}, cooling : BOOLEAN]
    /\ queue \in [Events -> Nat] /\ lock \subseteq Events
    /\ run \in [event : Events \cup {None}, at : {"none", "gate", "receipt", "lock"},
                result : Status, reached : BOOLEAN, good : BOOLEAN]
    /\ told \in [Events -> Nat] /\ unlocked \in [Events -> Nat]
    /\ posted \in [Traces -> Nat] /\ causes \in [Traces -> Nat]
    /\ credited \subseteq Traces /\ accidents \in Nat

\* What the outbox says happened: a row is sent only when GitHub took the dispatch,
\* delivered only when somebody was told, whichever thread wrote it.
StatusIsEarned ==
    \A t \in Traces :
        /\ outbox[t].status = "sent" => posted[t] > 0
        /\ outbox[t].status \in {"partial", "delivered"} => \E e \in Events : TraceOf[e] = t /\ told[e] > 0

\* Every dispatch of a trace after the first has its reason: an answer that was lost, an
\* accident between the answer and the mark, a receipt of failure, a delivered row.
PostsHaveCauses == \A t \in Traces : posted[t] <= 1 + causes[t]

\* An event is told again only after a run that told it and left no cache entry,
\* however often it was dispatched.
CopiesHaveCauses == \A e \in Events : told[e] <= 1 + unlocked[e]

\* What is in the outbox gets to GitHub, whatever dies in between.
RecordedIsDispatched ==
    \A t \in Traces : outbox[t].status \in {"pending", "failed"} ~> posted[t] > 0

\* A trace GitHub has accepted is not posted as a fresh event any more.
AcceptedIsNotPosted == [][Record => TraceOf[cur] \notin credited]_vars

\* An event with a cache entry was told to somebody.
LockMeansTold == \A e \in lock : told[e] > 0
=============================================================================
