------------------------- MODULE AlertDispatchProofs -------------------------
(***************************************************************************)
(* The alerts for any number of events and traces, any number of lost      *)
(* answers and any accidents.                                              *)
(*                                                                         *)
(* A trace may be posted when its posts are paid for: each but the last    *)
(* has its cause (Paid).  That is so for a row that is pending or failed   *)
(* while no accepted post waits for its mark, for the rows of a retry pass *)
(* whatever a receipt has made of them since, and for a recorded event.    *)
(* A run may send when every message of its event left no cache entry      *)
(* (Remembered): a run in progress holds the only exception.               *)
(***************************************************************************)
EXTENDS AlertDispatch, TLAPS

Results == {"delivered", "partial", "failed"}

\* What is in hand: an event, a batch, a run.
Shape ==
    /\ pc \in {"retried", "new", "claimed", "post", "posted", "marked"} => cur \in Events
    /\ pc \notin {"retry", "retried"} => batch = {}
    /\ run # NoRun => run.event \in Events
    /\ run.at = "gate" => run.result = "none" /\ ~run.reached
    /\ run.at = "receipt" => run.result \in Results
    /\ run.result \in {"delivered", "partial"} => run.reached

\* What is being posted, or was, has a row.
Rowed(t) == outbox[t].status # "none" /\ outbox[t].event \in Events /\ TraceOf[outbox[t].event] = t
Rows ==
    /\ \A t \in Traces : Rowed(t) \/ (outbox[t].status = "none" /\ posted[t] = 0)
    /\ pc \in {"retried", "post", "posted"} => Rowed(TraceOf[cur])
    /\ \A t \in batch : Rowed(t)
    /\ \A e \in Events : queue[e] > 0 \/ run.event = e => Rowed(TraceOf[e])

Told == run.reached
Earned ==
    /\ StatusIsEarned
    /\ pc \in {"retried", "posted"} /\ ok => posted[TraceOf[cur]] > 0
    /\ run # NoRun /\ Told => told[run.event] > 0

InFlight(t) == pc \in {"retried", "posted"} /\ TraceOf[cur] = t
Paid(t) == posted[t] <= causes[t]
Counted ==
    /\ PostsHaveCauses
    /\ \A t \in Traces : outbox[t].status \in {"pending", "failed"} /\ ~(InFlight(t) /\ ok) => Paid(t)
    /\ \A t \in batch : ~InFlight(t) => Paid(t)
    /\ pc = "post" => Paid(TraceOf[cur])
    /\ pc \in {"retried", "posted"} /\ ~ok => Paid(TraceOf[cur])

Remembered ==
    \A e \in Events :
        /\ told[e] <= 1 + unlocked[e]
        /\ e \notin lock /\ ~(run.event = e /\ Told) => told[e] <= unlocked[e]
        /\ run.event = e => e \notin lock

IInv == TypeOK /\ Shape /\ Rows /\ Earned /\ Counted /\ Remembered

-----------------------------------------------------------------------------
LEMMA TraceFacts == \A e \in Events : TraceOf[e] \in Traces /\ e # None
BY DispatchAssumption

LEMMA InitHolds == Init => IInv
<1> SUFFICES ASSUME Init PROVE IInv
  OBVIOUS
<1>1. TypeOK
  BY DEF Init, TypeOK, NoRow, NoRun, Status
<1>2. Shape /\ Rows
  BY TraceFacts DEF Init, Shape, Rows, NoRow, NoRun
<1>3. Earned /\ Counted
  BY DEF Init, Earned, Counted, StatusIsEarned, PostsHaveCauses, NoRow, NoRun, InFlight, Paid
<1>4. Remembered
  BY TraceFacts DEF Init, Remembered, NoRun, Told
<1>5. QED
  BY <1>1, <1>2, <1>3, <1>4 DEF IInv

\* A call of GitHub: every accepted attempt but the answered one is a cause.
LEMMA PostCounts ==
  ASSUME TypeOK, NEW e \in Events, Post(e)
  PROVE  /\ ok' \in BOOLEAN /\ queue' \in [Events -> Nat]
         /\ posted' \in [Traces -> Nat] /\ causes' \in [Traces -> Nat]
         /\ \A d \in Events \ {e} : queue'[d] = queue[d]
         /\ \A t \in Traces \ {TraceOf[e]} : posted'[t] = posted[t] /\ causes'[t] = causes[t]
         /\ \A t \in Traces : posted'[t] >= posted[t]
         /\ ok' => posted'[TraceOf[e]] > 0
         /\ Paid(TraceOf[e]) => posted'[TraceOf[e]] <= 1 + causes'[TraceOf[e]]
         /\ Paid(TraceOf[e]) /\ ~ok' => posted'[TraceOf[e]] <= causes'[TraceOf[e]]
<1>1. TraceOf[e] \in Traces
  BY TraceFacts
<1>2. PICK lost \in 0..Attempts, yes \in BOOLEAN :
        /\ ok' = yes
        /\ queue'  = [queue EXCEPT ![e] = @ + (lost + (IF yes THEN 1 ELSE 0))]
        /\ posted' = [posted EXCEPT ![TraceOf[e]] = @ + (lost + (IF yes THEN 1 ELSE 0))]
        /\ causes' = [causes EXCEPT ![TraceOf[e]] = @ + lost]
  BY DEF Post
<1> DEFINE n == lost + (IF yes THEN 1 ELSE 0)
<1>3. /\ lost \in Nat /\ n \in Nat
      /\ yes => n = lost + 1
      /\ ~yes => n = lost
  BY DEF Attempts
<1>4. /\ queue'  = [queue EXCEPT ![e] = @ + n]
      /\ posted' = [posted EXCEPT ![TraceOf[e]] = @ + n]
  BY <1>2
<1> HIDE DEF n
<1>5. queue[e] \in Nat /\ posted[TraceOf[e]] \in Nat /\ causes[TraceOf[e]] \in Nat
  BY <1>1 DEF TypeOK
<1>6. /\ queue' \in [Events -> Nat] /\ posted' \in [Traces -> Nat] /\ causes' \in [Traces -> Nat]
      /\ ok' \in BOOLEAN
  <2>1. queue[e] + n \in Nat /\ posted[TraceOf[e]] + n \in Nat /\ causes[TraceOf[e]] + lost \in Nat
    BY <1>3, <1>5
  <2>2. queue' \in [Events -> Nat]
    BY <1>4, <2>1 DEF TypeOK
  <2>3. posted' \in [Traces -> Nat]
    BY <1>4, <2>1 DEF TypeOK
  <2>4. causes' \in [Traces -> Nat]
    BY <1>2, <2>1 DEF TypeOK
  <2>5. QED
    BY <1>2, <2>2, <2>3, <2>4
<1>7. /\ posted'[TraceOf[e]] = posted[TraceOf[e]] + n
      /\ causes'[TraceOf[e]] = causes[TraceOf[e]] + lost
  BY <1>1, <1>2, <1>4 DEF TypeOK
<1>8. /\ \A d \in Events \ {e} : queue'[d] = queue[d]
      /\ \A t \in Traces \ {TraceOf[e]} : posted'[t] = posted[t] /\ causes'[t] = causes[t]
  BY <1>2, <1>4 DEF TypeOK
<1>9. \A t \in Traces : posted'[t] >= posted[t]
  BY <1>3, <1>5, <1>7, <1>8 DEF TypeOK
<1>10. ok' => posted'[TraceOf[e]] > 0
  BY <1>2, <1>3, <1>5, <1>7
<1>11. QED
  BY <1>2, <1>3, <1>5, <1>6, <1>7, <1>8, <1>9, <1>4, <1>10 DEF Paid

-----------------------------------------------------------------------------
(* Steps of the monitor that post nothing and mark nothing. *)

LEMMA QuietKeeps ==
  ASSUME IInv, TypeOK', Shape', UNCHANGED <<posted, causes, github>>,
         \A t \in Traces : outbox'[t].status = outbox[t].status /\ outbox'[t].event = outbox[t].event,
         pc \notin {"retried", "posted"}, pc' \notin {"retried", "post", "posted"},
         \A t \in batch' : t \in batch \/ Due(t)
  PROVE  IInv'
<1>1. \A t \in Traces : Rowed(t)' = Rowed(t) /\ Paid(t)' = Paid(t)
  BY DEF Rowed, Paid
<1>2. \A t \in batch' : Rowed(t) /\ Paid(t) /\ t \in Traces
  BY DEF IInv, TypeOK, Rows, Counted, Due, InFlight
<1>3. Rows'
  BY <1>1, <1>2, TraceFacts DEF IInv, Rows, github
<1>4. Earned'
  BY DEF IInv, Earned, StatusIsEarned, github, Told
<1>5. Counted'
  BY <1>1, <1>2 DEF IInv, Counted, PostsHaveCauses, InFlight
<1>6. Remembered'
  BY DEF IInv, Remembered, github, Told
<1>7. QED
  BY <1>3, <1>4, <1>5, <1>6 DEF IInv

LEMMA BootKeeps == ASSUME IInv, Boot PROVE IInv'
<1>1. TypeOK' /\ Shape'
  BY DEF IInv, TypeOK, Shape, Boot, tables, github, counts
<1>2. QED
  BY <1>1, QuietKeeps DEF Boot, tables, counts

LEMMA DueOutboxKeeps == ASSUME IInv, DueOutbox PROVE IInv'
<1>1. TypeOK' /\ Shape'
  BY DEF IInv, TypeOK, Shape, DueOutbox, tables, github, counts
<1>2. QED
  BY <1>1, QuietKeeps DEF DueOutbox, tables, counts

LEMMA FetchKeeps == ASSUME IInv, Fetch PROVE IInv'
<1>1. TypeOK' /\ Shape'
  BY DEF IInv, TypeOK, Shape, Fetch, tables, github, counts
<1>2. QED
  BY <1>1, QuietKeeps DEF Fetch, tables, counts

LEMMA ClaimKeeps == ASSUME IInv, NEW e \in Events, Claim(e) PROVE IInv'
<1>1. TypeOK' /\ Shape'
  <2>1. pc' \in {"new", "claimed"} /\ batch' = {} /\ cur' = e
    BY DEF Claim, IInv, Shape
  <2>2. TypeOK'
    BY <2>1 DEF IInv, TypeOK, Claim, github, counts
  <2>3. Shape'
    BY <2>1 DEF IInv, Shape, Claim, github
  <2>4. QED
    BY <2>2, <2>3
<1>2. pc = "poll" /\ pc' \in {"new", "claimed"}
  BY DEF Claim
<1>3. QED
  BY <1>1, <1>2, QuietKeeps DEF Claim, counts

LEMMA BaselineKeeps == ASSUME IInv, Baseline PROVE IInv'
<1>1. TypeOK' /\ Shape'
  BY DEF IInv, TypeOK, Shape, Baseline, github, counts
<1>2. QED
  BY <1>1, QuietKeeps DEF Baseline, counts

LEMMA HoldKeeps == ASSUME IInv, Hold PROVE IInv'
<1>1. TypeOK' /\ Shape'
  BY DEF IInv, TypeOK, Shape, Hold, tables, github, counts
<1>2. QED
  BY <1>1, QuietKeeps DEF Hold, tables, counts

LEMMA RemindTypes ==
  ASSUME TypeOK, NEW e \in Events, Remind(e)
  PROVE  /\ reminded' \in [Traces -> [cooling : BOOLEAN, escalated : BOOLEAN]]
         /\ dispatched' \in [by : Events \cup {None}, cooling : BOOLEAN]
<1>1. reminded[TraceOf[e]] \in [cooling : BOOLEAN, escalated : BOOLEAN]
  BY TraceFacts DEF TypeOK
<1>2. [cooling |-> TRUE, escalated |-> reminded[TraceOf[e]].escalated \/ e \in HighRisk]
         \in [cooling : BOOLEAN, escalated : BOOLEAN]
  BY <1>1
<1>3. QED
  BY <1>2 DEF TypeOK, Remind

LEMMA AlreadyDeliveredKeeps == ASSUME IInv, AlreadyDelivered PROVE IInv'
<1>1. TypeOK' /\ Shape'
  <2>1. cur \in Events /\ Remind(cur)
    BY DEF IInv, Shape, AlreadyDelivered
  <2>2. TypeOK'
    BY <2>1, RemindTypes DEF IInv, TypeOK, AlreadyDelivered, github, counts
  <2>3. Shape'
    BY DEF IInv, Shape, AlreadyDelivered, github
  <2>4. QED
    BY <2>2, <2>3
<1>2. QED
  BY <1>1, QuietKeeps DEF AlreadyDelivered, counts

LEMMA FinishKeeps == ASSUME IInv, Finish PROVE IInv'
<1>1. TypeOK' /\ Shape'
  <2>1. cur \in Events
    BY DEF IInv, Shape, Finish
  <2>2. /\ seen' \in [Events -> {"none", "unclassified", "in_scope", "baseline"}]
        /\ reminded' \in [Traces -> [cooling : BOOLEAN, escalated : BOOLEAN]]
        /\ dispatched' \in [by : Events \cup {None}, cooling : BOOLEAN]
    BY <2>1, RemindTypes DEF IInv, TypeOK, Finish
  <2>3. TypeOK'
    BY <2>2 DEF IInv, TypeOK, Finish, github, counts
  <2>4. Shape'
    BY DEF IInv, Shape, Finish, github
  <2>5. QED
    BY <2>3, <2>4
<1>2. QED
  BY <1>1, QuietKeeps DEF Finish, counts

LEMMA EndPollKeeps == ASSUME IInv, EndPoll PROVE IInv'
<1>1. TypeOK' /\ Shape'
  BY DEF IInv, TypeOK, Shape, EndPoll, tables, github, counts
<1>2. QED
  BY <1>1, QuietKeeps DEF EndPoll, tables, counts

-----------------------------------------------------------------------------
(* Posts and marks. *)

LEMMA RecordKeeps == ASSUME IInv, Record PROVE IInv'
<1> DEFINE t == TraceOf[cur]
<1>1. pc = "claimed" /\ cur \in Events /\ cur' = cur /\ t \in Traces /\ batch = {}
  BY TraceFacts DEF IInv, Shape, Record
<1>2. outbox[t] \in [status : Status, event : Events \cup {None}, wait : BOOLEAN]
  BY <1>1 DEF IInv, TypeOK
<1> DEFINE row == [status |-> IF outbox[t].status = "none" THEN "pending" ELSE outbox[t].status,
                   event |-> cur, wait |-> outbox[t].wait]
<1>3. outbox' = [outbox EXCEPT ![t] = row]
  BY DEF Record, RecordOutbox
<1>4. /\ row \in [status : Status, event : Events \cup {None}, wait : BOOLEAN]
      /\ row.event = cur /\ row.status # "none"
      /\ outbox[t].status # "none" => row.status = outbox[t].status
      /\ outbox[t].status = "none" => row.status = "pending"
  BY <1>1, <1>2 DEF Status
<1> HIDE DEF row
<1>5. outbox[t].status \in {"none", "delivered"}
  BY <1>2 DEF Record, Accepted, Waiting, Status
<1>6. /\ causes' \in [Traces -> Nat] /\ \A u \in Traces : causes'[u] >= causes[u]
      /\ outbox[t].status = "delivered" => causes'[t] = causes[t] + 1
  BY <1>1 DEF IInv, TypeOK, Record, Bump
<1>7. TypeOK'
  BY <1>3, <1>4, <1>6 DEF IInv, TypeOK, Record, github
<1>8. Shape'
  BY <1>1 DEF IInv, Shape, Record, github
<1>9. outbox'[t] = row /\ \A u \in Traces \ {t} : outbox'[u] = outbox[u]
  BY <1>1, <1>3 DEF IInv, TypeOK
<1>10. Rowed(t)' /\ \A u \in Traces \ {t} : Rowed(u)' = Rowed(u)
  BY <1>1, <1>4, <1>9 DEF Rowed, Record
<1>11. Rows'
  BY <1>1, <1>9, <1>10, TraceFacts DEF IInv, Rows, Record, github
<1>12. Earned'
  <2>1. outbox'[t].status \in {"pending", "delivered"}
        /\ (outbox'[t].status = "delivered" => outbox[t].status = "delivered")
    BY <1>4, <1>5, <1>9
  <2>2. QED
    BY <1>1, <1>9, <2>1 DEF IInv, Earned, StatusIsEarned, Record, github, Told
<1>13. \A u \in Traces : posted'[u] = posted[u] /\ posted[u] \in Nat /\ causes[u] \in Nat /\ causes'[u] \in Nat
  BY <1>6 DEF IInv, TypeOK, Record
<1>14. Paid(t)'
  <2>1. CASE outbox[t].status = "none"
    BY <1>1, <1>6, <1>13, <2>1 DEF IInv, Rows, Rowed, Paid
  <2>2. CASE outbox[t].status = "delivered"
    BY <1>1, <1>6, <1>13, <2>2 DEF IInv, Counted, PostsHaveCauses, Paid
  <2>3. QED
    BY <1>5, <2>1, <2>2
<1>15. Counted'
  <2>1. PostsHaveCauses'
    BY <1>6, <1>13 DEF IInv, Counted, PostsHaveCauses
  <2>2. \A u \in Traces : Paid(u) => Paid(u)'
    BY <1>6, <1>13 DEF Paid
  <2>3. pc' = "post" /\ cur' = cur /\ batch' = {}
    BY <1>1 DEF Record
  <2>4. QED
    BY <1>1, <1>9, <1>14, <2>1, <2>2, <2>3 DEF IInv, Counted, InFlight
<1>16. Remembered'
  BY DEF IInv, Remembered, Record, github, Told
<1>17. QED
  BY <1>7, <1>8, <1>11, <1>12, <1>15, <1>16 DEF IInv

\* One call for the event of a row whose posts are paid for.
LEMMA PostKeeps ==
  ASSUME IInv, NEW e \in Events, Post(e), Rowed(TraceOf[e]), Paid(TraceOf[e]),
         pc \notin {"retried", "posted"}, pc' \in {"retried", "posted"}, cur' = e,
         pc' = "posted" => batch = {},
         UNCHANGED <<first, batch, feed, tables, run, lock, told, unlocked, credited, accidents>>
  PROVE  IInv'
<1> DEFINE t == TraceOf[e]
<1>1. t \in Traces
  BY TraceFacts
<1>2. TypeOK'
  BY PostCounts DEF IInv, TypeOK, tables
<1>3. Shape'
  BY DEF IInv, Shape
<1>4. \A u \in Traces : Rowed(u)' = Rowed(u)
  BY DEF Rowed, tables
<1>5. Rows'
  <2>1. \A u \in Traces : Rowed(u)' \/ (outbox'[u].status = "none" /\ posted'[u] = 0)
    BY <1>4, PostCounts DEF IInv, Rows, tables
  <2>2. \A d \in Events : queue'[d] > 0 \/ run'.event = d => Rowed(TraceOf[d])'
    BY <1>4, TraceFacts, PostCounts DEF IInv, Rows
  <2>3. \A u \in batch' : Rowed(u)' /\ u \in Traces
    BY <1>4 DEF IInv, Rows, TypeOK
  <2>4. QED
    BY <1>1, <1>4, <2>1, <2>2, <2>3 DEF Rows
<1>6. Earned'
  <2>1. \A u \in Traces : posted[u] > 0 => posted'[u] > 0
    BY PostCounts DEF IInv, TypeOK
  <2>2. ok' => posted'[t] > 0
    BY PostCounts DEF IInv
  <2>3. QED
    BY <2>1, <2>2 DEF IInv, Earned, StatusIsEarned, tables, Told
<1>7. Counted'
  <2>1. /\ posted'[t] <= 1 + causes'[t]
        /\ ~ok' => posted'[t] <= causes'[t]
    BY PostCounts DEF IInv
  <2>2. \A u \in Traces \ {t} : posted'[u] = posted[u] /\ causes'[u] = causes[u]
    BY PostCounts DEF IInv
  <2>3. PostsHaveCauses'
    BY <2>1, <2>2 DEF IInv, Counted, PostsHaveCauses
  <2>4. \A u \in Traces \ {t} : Paid(u)' = Paid(u) /\ InFlight(u)' = FALSE /\ InFlight(u) = FALSE
    BY <2>2 DEF Paid, InFlight
  <2>5. InFlight(t)'
    BY DEF InFlight
  <2>6. ~ok' => Paid(t)'
    BY <2>1 DEF Paid
  <2>7. \A u \in Traces : outbox'[u].status \in {"pending", "failed"} /\ ~(InFlight(u) /\ ok)' => Paid(u)'
    BY <2>4, <2>5, <2>6 DEF IInv, Counted, tables
  <2>8. \A u \in batch' : ~InFlight(u)' => Paid(u)'
    BY <2>4, <2>5 DEF IInv, Counted, TypeOK
  <2>9. QED
    BY <2>3, <2>6, <2>7, <2>8 DEF Counted
<1>8. Remembered'
  BY DEF IInv, Remembered, Told
<1>9. QED
  BY <1>2, <1>3, <1>5, <1>6, <1>7, <1>8 DEF IInv

LEMMA RetryPostKeeps == ASSUME IInv, NEW t \in Traces, RetryPost(t) PROVE IInv'
<1>1. pc = "retry" /\ t \in batch /\ Rowed(t) /\ Paid(t)
  BY DEF IInv, RetryPost, Rows, Counted, InFlight
<1>2. outbox[t].event \in Events /\ TraceOf[outbox[t].event] = t
  BY <1>1 DEF Rowed
<1>3. QED
  BY <1>1, <1>2, PostKeeps DEF RetryPost

LEMMA FreshPostKeeps == ASSUME IInv, FreshPost PROVE IInv'
<1>1. pc = "post" /\ cur \in Events /\ batch = {} /\ Rowed(TraceOf[cur]) /\ Paid(TraceOf[cur])
  BY DEF IInv, FreshPost, Shape, Rows, Counted
<1>2. QED
  BY <1>1, PostKeeps DEF FreshPost

\* The mark of a call that was answered, or refused.
LEMMA MarkKeeps ==
  ASSUME IInv, pc \in {"retried", "posted"}, pc' \in {"retry", "marked"}, pc' = "marked" => cur' = cur,
         Mark(TraceOf[cur]), batch' = batch \ {TraceOf[cur]}, pc' = "marked" => batch = {},
         cur' \in Events \cup {None},
         UNCHANGED <<first, feed, ok, seen, reminded, dispatched, github, posted, causes, accidents>>
  PROVE  IInv'
<1> DEFINE yes == IF ok THEN "sent" ELSE "failed"
<1>1. PICK t \in Traces : t = TraceOf[cur] /\ cur \in Events
  BY TraceFacts DEF IInv, Shape
<1>2. outbox[t] \in [status : Status, event : Events \cup {None}, wait : BOOLEAN] /\ ok \in BOOLEAN
  BY <1>1 DEF IInv, TypeOK
<1>3. /\ outbox' = [outbox EXCEPT ![t] = [outbox[t] EXCEPT !.status = yes, !.wait = ~ok]]
      /\ credited' = IF ok THEN credited \cup {t} ELSE credited
  BY <1>1 DEF Mark, MarkOutbox
<1>4. /\ [outbox[t] EXCEPT !.status = yes, !.wait = ~ok] \in [status : Status, event : Events \cup {None}, wait : BOOLEAN]
      /\ [outbox[t] EXCEPT !.status = yes, !.wait = ~ok].status = yes
      /\ [outbox[t] EXCEPT !.status = yes, !.wait = ~ok].event = outbox[t].event
  BY <1>2 DEF Status
<1>5. /\ outbox' \in [Traces -> [status : Status, event : Events \cup {None}, wait : BOOLEAN]]
      /\ outbox'[t].status = yes /\ outbox'[t].event = outbox[t].event
      /\ \A u \in Traces \ {t} : outbox'[u] = outbox[u]
  BY <1>1, <1>3, <1>4 DEF IInv, TypeOK
<1>6. TypeOK'
  BY <1>1, <1>3, <1>5 DEF IInv, TypeOK, github
<1>7. Shape'
  BY <1>1 DEF IInv, Shape, github
<1>8. Rowed(t)
  BY <1>1 DEF IInv, Rows, Rowed
<1>9. \A u \in Traces : Rowed(u) => Rowed(u)'
  BY <1>5, <1>8 DEF Rowed
<1>10. Rows'
  <2>1. \A u \in Traces : Rowed(u)' \/ (outbox'[u].status = "none" /\ posted'[u] = 0)
    BY <1>5, <1>8, <1>9 DEF IInv, Rows
  <2>2. \A u \in batch' : Rowed(u)'
    BY <1>9 DEF IInv, Rows, TypeOK
  <2>3. \A e \in Events : queue'[e] > 0 \/ run'.event = e => Rowed(TraceOf[e])'
    BY <1>9, TraceFacts DEF IInv, Rows, github
  <2>4. QED
    BY <2>1, <2>2, <2>3 DEF Rows
<1>11. Earned'
  <2>1. ok => posted[t] > 0
    BY <1>1 DEF IInv, Earned
  <2>2. QED
    BY <1>5, <2>1 DEF IInv, Earned, StatusIsEarned, github, Told
<1>12. Counted'
  <2>1. ~ok => Paid(t)
    BY <1>1 DEF IInv, Counted
  <2>2. \A u \in Traces : Paid(u)' = Paid(u)
    BY DEF Paid
  <2>3. \A u \in Traces \ {t} : ~InFlight(u)
    BY <1>1 DEF InFlight
  <2>4. \A u \in Traces : outbox'[u].status \in {"pending", "failed"} => Paid(u)
    BY <1>5, <2>1, <2>3 DEF IInv, Counted
  <2>5. \A u \in batch' : Paid(u) /\ u \in Traces
    BY <1>1, <2>3 DEF IInv, Counted, TypeOK
  <2>6. PostsHaveCauses'
    BY DEF IInv, Counted, PostsHaveCauses
  <2>7. QED
    BY <2>2, <2>4, <2>5, <2>6 DEF Counted
<1>13. Remembered'
  BY DEF IInv, Remembered, github, Told
<1>14. QED
  BY <1>6, <1>7, <1>10, <1>11, <1>12, <1>13 DEF IInv

LEMMA RetryMarkKeeps == ASSUME IInv, RetryMark PROVE IInv'
BY MarkKeeps DEF RetryMark

LEMMA FreshMarkKeeps == ASSUME IInv, FreshMark PROVE IInv'
<1>1. batch = {} /\ cur \in Events
  BY DEF IInv, Shape, FreshMark
<1>2. QED
  BY <1>1, MarkKeeps DEF FreshMark

LEMMA AccidentKeeps == ASSUME IInv, Accident PROVE IInv'
<1>1. /\ pc' \in {"down", "retry", "cycle"} /\ batch' = {} /\ cur' = None
      /\ UNCHANGED <<first, ok, tables, github, posted, credited>>
  BY DEF Accident
<1>2. /\ causes' \in [Traces -> Nat] /\ \A t \in Traces : causes'[t] >= causes[t]
      /\ pc \in {"retried", "posted"} => causes'[TraceOf[cur]] = causes[TraceOf[cur]] + 1
  <2>1. CASE pc \in {"retried", "posted"}
    BY <2>1, TraceFacts DEF IInv, TypeOK, Shape, Accident, Bump
  <2>2. CASE pc \notin {"retried", "posted"}
    BY <2>2 DEF IInv, TypeOK, Accident
  <2>3. QED
    BY <2>1, <2>2
<1>3. TypeOK'
  BY <1>1, <1>2 DEF IInv, TypeOK, Accident, tables, github
<1>4. Shape'
  BY <1>1 DEF IInv, Shape, github
<1>5. Rows'
  BY <1>1 DEF IInv, Rows, Rowed, tables, github
<1>6. Earned'
  BY <1>1 DEF IInv, Earned, StatusIsEarned, Told, tables, github
<1>7. Counted'
  <2>1. \A t \in Traces : posted'[t] = posted[t] /\ posted[t] \in Nat /\ causes[t] \in Nat /\ causes'[t] \in Nat
    BY <1>1, <1>2 DEF IInv, TypeOK
  <2>2. PostsHaveCauses'
    BY <1>2, <2>1 DEF IInv, Counted, PostsHaveCauses
  <2>3. \A t \in Traces : Paid(t) => Paid(t)'
    BY <1>2, <2>1 DEF Paid
  <2>4. \A t \in Traces : InFlight(t) => Paid(t)'
    BY <1>2, <2>1 DEF IInv, Counted, PostsHaveCauses, InFlight, Paid
  <2>5. QED
    BY <1>1, <2>2, <2>3, <2>4 DEF IInv, Counted, tables
<1>8. Remembered'
  BY <1>1 DEF IInv, Remembered, Told, github
<1>9. QED
  BY <1>3, <1>4, <1>5, <1>6, <1>7, <1>8 DEF IInv

-----------------------------------------------------------------------------
(* Time, and the workflow run. *)

\* Steps that leave the monitor and its posts alone, and no row of another status.
LEMMA AsideKeeps ==
  ASSUME IInv, TypeOK', Shape', Remembered', UNCHANGED <<monitor, posted, causes>>,
         \A t \in Traces : outbox'[t].status = outbox[t].status /\ outbox'[t].event = outbox[t].event,
         \A e \in Events : told'[e] >= told[e],
         \A e \in Events : queue'[e] > 0 \/ run'.event = e => queue[e] > 0 \/ run.event = e,
         run' # NoRun /\ Told' => told'[run'.event] > 0
  PROVE  IInv'
<1>1. \A t \in Traces : Rowed(t)' = Rowed(t) /\ Paid(t)' = Paid(t) /\ InFlight(t)' = InFlight(t)
  BY DEF Rowed, Paid, InFlight, monitor
<1>2. Rows'
  BY <1>1, TraceFacts DEF IInv, Rows, TypeOK, Shape, monitor
<1>3. Earned'
  <2>1. \A e \in Events : told[e] > 0 => told'[e] > 0
    BY DEF IInv, TypeOK
  <2>2. QED
    BY <2>1 DEF IInv, Earned, StatusIsEarned, monitor
<1>4. Counted'
  BY <1>1, TraceFacts DEF IInv, Counted, PostsHaveCauses, TypeOK, Shape, monitor
<1>5. QED
  BY <1>2, <1>3, <1>4 DEF IInv

LEMMA BackoffOverKeeps == ASSUME IInv, NEW t \in Traces, BackoffOver(t) PROVE IInv'
<1>1. outbox[t] \in [status : Status, event : Events \cup {None}, wait : BOOLEAN]
  BY DEF IInv, TypeOK
<1>2. outbox' = [outbox EXCEPT ![t] = [outbox[t] EXCEPT !.wait = FALSE]]
  BY DEF BackoffOver
<1>3. /\ outbox' \in [Traces -> [status : Status, event : Events \cup {None}, wait : BOOLEAN]]
      /\ \A u \in Traces : outbox'[u].status = outbox[u].status /\ outbox'[u].event = outbox[u].event
  BY <1>1, <1>2 DEF IInv, TypeOK
<1>4. TypeOK'
  BY <1>3 DEF IInv, TypeOK, BackoffOver, monitor, github, counts
<1>5. Shape' /\ Remembered' /\ (run' # NoRun /\ Told' => told'[run'.event] > 0)
  BY DEF IInv, Shape, Remembered, Earned, Told, BackoffOver, monitor, github
<1>6. \A e \in Events : told[e] \in Nat
  BY DEF IInv, TypeOK
<1>7. QED
  BY <1>3, <1>4, <1>5, <1>6, AsideKeeps DEF BackoffOver, github, counts

LEMMA CoolsKeeps ==
  ASSUME IInv, (\E t \in Traces : LedgerCools(t)) \/ CategoryCools
  PROVE  IInv'
<1>1. UNCHANGED <<monitor, seen, outbox, github, counts>>
  BY DEF LedgerCools, CategoryCools
<1>2. /\ reminded' \in [Traces -> [cooling : BOOLEAN, escalated : BOOLEAN]]
      /\ dispatched' \in [by : Events \cup {None}, cooling : BOOLEAN]
  <2>1. CASE CategoryCools
    BY <2>1 DEF IInv, TypeOK, CategoryCools
  <2>2. ASSUME NEW t \in Traces, LedgerCools(t)
        PROVE  /\ reminded' \in [Traces -> [cooling : BOOLEAN, escalated : BOOLEAN]]
               /\ dispatched' = dispatched
    <3>1. reminded[t] \in [cooling : BOOLEAN, escalated : BOOLEAN]
      BY DEF IInv, TypeOK
    <3>2. reminded' = [reminded EXCEPT ![t] = [reminded[t] EXCEPT !.cooling = FALSE]]
      BY <2>2 DEF LedgerCools
    <3>3. [reminded[t] EXCEPT !.cooling = FALSE] \in [cooling : BOOLEAN, escalated : BOOLEAN]
      BY <3>1
    <3>4. QED
      BY <2>2, <3>2, <3>3 DEF IInv, TypeOK, LedgerCools
  <2>3. QED
    BY <2>1, <2>2 DEF IInv, TypeOK
<1>3. TypeOK'
  BY <1>1, <1>2 DEF IInv, TypeOK, monitor, github, counts
<1>4. Shape' /\ Remembered' /\ (run' # NoRun /\ Told' => told'[run'.event] > 0)
  BY <1>1 DEF IInv, Shape, Remembered, Earned, Told, monitor, github
<1>5. \A e \in Events : told[e] \in Nat
  BY DEF IInv, TypeOK
<1>6. QED
  BY <1>1, <1>3, <1>4, <1>5, AsideKeeps DEF github, counts

\* A run that starts, is held up, or sends.
LEMMA RunStartsKeeps == ASSUME IInv, NEW e \in Events, RunStarts(e) PROVE IInv'
<1>1. /\ queue' \in [Events -> Nat]
      /\ \A d \in Events : queue'[d] > 0 => queue[d] > 0
  BY DEF IInv, TypeOK, RunStarts
<1>2. run' = run \/ (e \notin lock /\ run' = [event |-> e, at |-> "gate", result |-> "none", reached |-> FALSE, good |-> FALSE])
  BY DEF RunStarts, NotLocked, NoRun
<1>3. /\ run = NoRun /\ NoRun.event = None /\ NoRun.result = "none" /\ ~NoRun.reached /\ queue[e] > 0
      /\ UNCHANGED <<monitor, tables, lock, told, unlocked, counts>>
  BY DEF RunStarts, NoRun
<1>4. TypeOK'
  <2>1. run' \in [event : Events \cup {None}, at : {"none", "gate", "receipt", "lock"},
                 result : Status, reached : BOOLEAN, good : BOOLEAN]
    <3>1. CASE run' = run
      BY <3>1 DEF IInv, TypeOK
    <3>2. CASE run' = [event |-> e, at |-> "gate", result |-> "none", reached |-> FALSE, good |-> FALSE]
      BY <3>2 DEF Status
    <3>3. QED
      BY <1>2, <3>1, <3>2
  <2>2. UNCHANGED <<monitor, tables, lock, told, unlocked, counts>>
    BY <1>3
  <2>3. QED
    BY <1>1, <2>1, <2>2 DEF IInv, TypeOK, monitor, tables, counts
<1>5. Shape'
  BY <1>2, <1>3 DEF IInv, Shape, monitor
<1>6. Remembered' /\ ~Told'
  BY <1>2, <1>3, TraceFacts DEF IInv, Remembered, Told
<1>7. \A d \in Events : queue'[d] > 0 \/ run'.event = d => queue[d] > 0 \/ run.event = d
  BY <1>1, <1>2, <1>3
<1>8. \A d \in Events : told[d] \in Nat
  BY DEF IInv, TypeOK
<1>9. QED
  BY <1>3, <1>4, <1>5, <1>6, <1>7, <1>8, AsideKeeps DEF tables, counts

\* A run goes its way, or ends, and its messages are as they were.
LEMMA RunGoesOnKeeps ==
  ASSUME IInv, TypeOK', Remembered', run # NoRun,
         run' = NoRun \/ (run'.event = run.event /\ run'.result = run.result /\ run'.reached = run.reached /\ run'.at = "lock"),
         UNCHANGED <<monitor, tables, queue, told, counts>>
  PROVE  IInv'
<1>1. Shape' /\ NoRun.event = None /\ NoRun.result = "none" /\ ~NoRun.reached
  BY DEF IInv, Shape, NoRun, monitor
<1>2. \A d \in Events : queue'[d] > 0 \/ run'.event = d => queue[d] > 0 \/ run.event = d
  BY <1>1, TraceFacts
<1>3. run' # NoRun /\ Told' => told'[run'.event] > 0
  BY DEF IInv, Earned, Told
<1>4. \A d \in Events : told[d] \in Nat
  BY DEF IInv, TypeOK
<1>5. QED
  BY <1>1, <1>2, <1>3, <1>4, AsideKeeps DEF tables, counts

LEMMA GateClosesKeeps == ASSUME IInv, GateCloses PROVE IInv'
<1>1. /\ run.at = "gate" /\ run.result = "none" /\ ~run.reached /\ run # NoRun
      /\ run \in [event : Events \cup {None}, at : {"none", "gate", "receipt", "lock"},
                  result : Status, reached : BOOLEAN, good : BOOLEAN]
  BY DEF IInv, TypeOK, Shape, GateCloses, NoRun
<1>2. \/ run' = NoRun
      \/ run' = [event |-> run.event, at |-> "lock", result |-> run.result, reached |-> run.reached, good |-> run.good]
  BY <1>1 DEF GateCloses
<1>3. TypeOK'
  <2>1. run' \in [event : Events \cup {None}, at : {"none", "gate", "receipt", "lock"},
                 result : Status, reached : BOOLEAN, good : BOOLEAN]
    <3>1. CASE run' = NoRun
      BY <3>1 DEF NoRun, Status
    <3>2. CASE run' = [event |-> run.event, at |-> "lock", result |-> run.result, reached |-> run.reached, good |-> run.good]
      BY <1>1, <3>2
    <3>3. QED
      BY <1>2, <3>1, <3>2
  <2>2. UNCHANGED <<monitor, tables, queue, lock, told, unlocked, counts>>
    BY DEF GateCloses
  <2>3. QED
    BY <2>1, <2>2 DEF IInv, TypeOK, monitor, tables, counts
<1>4. Remembered'
  BY <1>1, <1>2, TraceFacts DEF IInv, Remembered, Told, GateCloses, NoRun
<1>5. QED
  BY <1>1, <1>2, <1>3, <1>4, RunGoesOnKeeps DEF GateCloses

LEMMA SendKeeps == ASSUME IInv, Send PROVE IInv'
<1>1. /\ run.at = "gate" /\ run.result = "none" /\ ~run.reached /\ run.event \in Events
      /\ run \in [event : Events \cup {None}, at : {"none", "gate", "receipt", "lock"},
                  result : Status, reached : BOOLEAN, good : BOOLEAN]
  BY DEF IInv, TypeOK, Shape, Send, NoRun
<1>2. PICK result \in Results, reached \in BOOLEAN, good \in BOOLEAN :
        /\ result # "failed" => reached
        /\ run' = [run EXCEPT !.at = "receipt", !.result = result, !.reached = reached, !.good = good]
        /\ told' = IF reached THEN Bump(told, run.event) ELSE told
  BY DEF Send, Results
<1>3. /\ run' = [event |-> run.event, at |-> "receipt", result |-> result, reached |-> reached, good |-> good]
      /\ told' \in [Events -> Nat] /\ \A e \in Events : told'[e] >= told[e]
      /\ \A e \in Events \ {run.event} : told'[e] = told[e]
      /\ ~reached => told'[run.event] = told[run.event]
      /\ reached => told'[run.event] = 1 + told[run.event]
  <2>1. run' = [event |-> run.event, at |-> "receipt", result |-> result, reached |-> reached, good |-> good]
    BY <1>1, <1>2
  <2>2. \A e \in Events : told[e] \in Nat
    BY DEF IInv, TypeOK
  <2>3. CASE ~reached
    <3>1. told' = told /\ told \in [Events -> Nat]
      BY <1>2, <2>3 DEF IInv, TypeOK
    <3>2. QED
      BY <2>1, <2>2, <2>3, <3>1
  <2>4. CASE reached
    <3>1. told' = [told EXCEPT ![run.event] = told[run.event] + 1]
      BY <1>2, <2>4 DEF Bump
    <3>2. told \in [Events -> Nat] /\ told[run.event] + 1 \in Nat
      BY <1>1, <2>2 DEF IInv, TypeOK
    <3>3. QED
      BY <1>1, <2>1, <2>2, <2>4, <3>1, <3>2
  <2>5. QED
    BY <2>3, <2>4
<1>4. UNCHANGED <<monitor, tables, queue, lock, unlocked, counts>>
  BY DEF Send
<1>5. TypeOK'
  BY <1>1, <1>3, <1>4 DEF IInv, TypeOK, Results, Status, monitor, tables, counts
<1>6. Shape'
  <2>1. /\ run'.event \in Events /\ run'.at = "receipt" /\ run'.result \in Results
        /\ run'.result \in {"delivered", "partial"} => run'.reached
    BY <1>1, <1>2, <1>3 DEF Results
  <2>2. QED
    BY <1>4, <2>1 DEF IInv, Shape, monitor
<1>7. Remembered'
  <2>1. told[run.event] <= unlocked[run.event] /\ run.event \notin lock
    BY <1>1 DEF IInv, Remembered, Told
  <2>2. told[run.event] \in Nat /\ unlocked[run.event] \in Nat
    BY <1>1 DEF IInv, TypeOK
  <2>3. ~Told /\ Told' = reached /\ run'.event = run.event
    BY <1>1, <1>2, <1>3 DEF Told, Results
  <2>4. ASSUME NEW e \in Events
        PROVE  /\ told'[e] <= 1 + unlocked'[e]
               /\ e \notin lock' /\ ~(run'.event = e /\ Told') => told'[e] <= unlocked'[e]
               /\ run'.event = e => e \notin lock'
    <3>1. CASE e = run.event
      <4>1. told'[e] <= 1 + unlocked'[e] /\ (~reached => told'[e] <= unlocked'[e])
        BY <1>3, <1>4, <2>1, <2>2, <3>1
      <4>2. e \notin lock'
        BY <1>4, <2>1, <3>1
      <4>3. QED
        BY <2>3, <3>1, <4>1, <4>2
    <3>2. CASE e # run.event
      BY <1>3, <1>4, <2>3, <3>2 DEF IInv, Remembered
    <3>3. QED
      BY <3>1, <3>2
  <2>5. QED
    BY <2>4 DEF Remembered
<1>8. run' # NoRun /\ Told' => told'[run'.event] > 0
  BY <1>1, <1>3 DEF IInv, TypeOK, Told
<1>9. QED
  BY <1>3, <1>4, <1>5, <1>6, <1>7, <1>8, AsideKeeps DEF tables, counts

\* What is told and leaves no entry is counted when the run leaves.
LEMMA LeavingRemembers ==
  ASSUME IInv, run.event \in Events, UNCHANGED <<lock, told>>,
         \/ run'.event = run.event /\ run'.result = run.result /\ run'.reached = run.reached /\ unlocked' = unlocked
         \/ run' = NoRun /\ unlocked' = IF Told THEN Bump(unlocked, run.event) ELSE unlocked
  PROVE  Remembered' /\ unlocked' \in [Events -> Nat]
<1>1. CASE run'.event = run.event /\ run'.result = run.result /\ run'.reached = run.reached /\ unlocked' = unlocked
  BY <1>1 DEF IInv, TypeOK, Remembered, Told
<1>2. CASE run' = NoRun /\ unlocked' = IF Told THEN Bump(unlocked, run.event) ELSE unlocked
  <2>1. /\ unlocked' \in [Events -> Nat]
        /\ \A e \in Events \ {run.event} : unlocked'[e] = unlocked[e]
        /\ Told => unlocked'[run.event] = 1 + unlocked[run.event]
        /\ ~Told => unlocked'[run.event] = unlocked[run.event]
    BY <1>2 DEF IInv, TypeOK, Bump
  <2>2. run'.event = None /\ ~Told'
    BY <1>2 DEF NoRun, Told
  <2>3. \A e \in Events : told[e] \in Nat /\ unlocked[e] \in Nat /\ e # None
    BY TraceFacts DEF IInv, TypeOK
  <2>4. ASSUME NEW e \in Events
        PROVE  /\ told[e] <= 1 + unlocked'[e]
               /\ e \notin lock => told[e] <= unlocked'[e]
    <3>1. told[e] <= 1 + unlocked[e] /\ (e \notin lock /\ ~(run.event = e /\ Told) => told[e] <= unlocked[e])
      BY DEF IInv, Remembered
    <3>2. QED
      BY <2>1, <2>3, <3>1
  <2>5. QED
    BY <2>1, <2>2, <2>3, <2>4 DEF Remembered
<1>3. QED
  BY <1>1, <1>2

\* A run that has sent and leaves, with or without a receipt.
LEMMA LeavesFacts ==
  ASSUME IInv, run.at = "receipt", run' = Leaves(run), Unremembered, UNCHANGED <<lock, told>>
  PROVE  /\ run # NoRun /\ run.event \in Events /\ run.result \in Results
         /\ run' = NoRun \/ (run'.event = run.event /\ run'.result = run.result /\ run'.reached = run.reached /\ run'.at = "lock")
         /\ run' \in [event : Events \cup {None}, at : {"none", "gate", "receipt", "lock"},
                      result : Status, reached : BOOLEAN, good : BOOLEAN]
         /\ Remembered' /\ unlocked' \in [Events -> Nat]
<1>1. /\ run # NoRun /\ run.event \in Events /\ run.result \in Results
      /\ run \in [event : Events \cup {None}, at : {"none", "gate", "receipt", "lock"},
                  result : Status, reached : BOOLEAN, good : BOOLEAN]
  BY DEF IInv, TypeOK, Shape, NoRun
<1>2. CASE run.good
  <2>1. run' = [event |-> run.event, at |-> "lock", result |-> run.result, reached |-> run.reached, good |-> run.good]
    BY <1>1, <1>2 DEF Leaves
  <2>2. run' \in [event : Events \cup {None}, at : {"none", "gate", "receipt", "lock"},
                 result : Status, reached : BOOLEAN, good : BOOLEAN]
    BY <1>1, <2>1
  <2>3. unlocked' = unlocked
    BY <1>2 DEF Unremembered
  <2>4. Remembered' /\ unlocked' \in [Events -> Nat]
    BY <1>1, <2>1, <2>3, LeavingRemembers
  <2>5. QED
    BY <1>1, <2>1, <2>2, <2>4
<1>3. CASE ~run.good
  <2>1. run' = NoRun
    BY <1>3 DEF Leaves
  <2>2. unlocked' = IF Told THEN Bump(unlocked, run.event) ELSE unlocked
    BY <1>1, <1>3 DEF Unremembered, Told, Results
  <2>3. Remembered' /\ unlocked' \in [Events -> Nat]
    BY <1>1, <2>1, <2>2, LeavingRemembers
  <2>4. run' \in [event : Events \cup {None}, at : {"none", "gate", "receipt", "lock"},
                 result : Status, reached : BOOLEAN, good : BOOLEAN]
    BY <2>1 DEF NoRun, Status
  <2>5. QED
    BY <1>1, <2>1, <2>3, <2>4
<1>4. QED
  BY <1>1, <1>2, <1>3

LEMMA NoReceiptKeeps == ASSUME IInv, NoReceipt PROVE IInv'
<1>1. /\ run # NoRun
      /\ run' = NoRun \/ (run'.event = run.event /\ run'.result = run.result /\ run'.reached = run.reached /\ run'.at = "lock")
      /\ run' \in [event : Events \cup {None}, at : {"none", "gate", "receipt", "lock"},
                   result : Status, reached : BOOLEAN, good : BOOLEAN]
      /\ Remembered' /\ unlocked' \in [Events -> Nat]
  BY LeavesFacts DEF NoReceipt
<1>2. TypeOK'
  BY <1>1 DEF IInv, TypeOK, NoReceipt, monitor, tables, counts
<1>3. QED
  BY <1>1, <1>2, RunGoesOnKeeps DEF NoReceipt

LEMMA SaveLockKeeps == ASSUME IInv, SaveLock PROVE IInv'
<1>1. run # NoRun /\ run.event \in Events
  BY DEF IInv, Shape, SaveLock, NoRun
<1>2. TypeOK'
  BY <1>1 DEF IInv, TypeOK, SaveLock, NoRun, Status, monitor, tables, counts
<1>3. Remembered'
  BY <1>1, TraceFacts DEF IInv, Remembered, SaveLock, NoRun, Told
<1>4. QED
  BY <1>1, <1>2, <1>3, RunGoesOnKeeps DEF SaveLock

LEMMA RunDiesKeeps == ASSUME IInv, RunDies PROVE IInv'
<1>1. run # NoRun /\ run.event \in Events /\ run' = NoRun
  BY DEF IInv, Shape, RunDies
<1>2. Remembered' /\ unlocked' \in [Events -> Nat]
  BY <1>1, LeavingRemembers DEF RunDies, Told
<1>3. TypeOK'
  BY <1>1, <1>2 DEF IInv, TypeOK, RunDies, NoRun, Status, monitor, tables, counts
<1>4. QED
  BY <1>1, <1>2, <1>3, RunGoesOnKeeps DEF RunDies

\* The receipt writes the row of the monitor, wherever the monitor is in its cycle.
LEMMA ReceiptKeeps == ASSUME IInv, Receipt PROVE IInv'
<1>1. /\ run # NoRun /\ run.event \in Events /\ run.result \in Results
      /\ run' = NoRun \/ (run'.event = run.event /\ run'.result = run.result /\ run'.reached = run.reached /\ run'.at = "lock")
      /\ run' \in [event : Events \cup {None}, at : {"none", "gate", "receipt", "lock"},
                   result : Status, reached : BOOLEAN, good : BOOLEAN]
      /\ Remembered' /\ unlocked' \in [Events -> Nat]
  BY LeavesFacts DEF Receipt
<1>2. PICK t \in Traces : t = TraceOf[run.event]
  BY <1>1, TraceFacts
<1>3. UNCHANGED <<monitor, seen, reminded, dispatched, queue, lock, told, posted, credited, accidents>>
  BY DEF Receipt
<1>4. /\ outbox' \in [Traces -> [status : Status, event : Events \cup {None}, wait : BOOLEAN]]
      /\ outbox'[t].status = run.result /\ outbox'[t].event = outbox[t].event
      /\ \A u \in Traces \ {t} : outbox'[u] = outbox[u]
  <2>1. outbox[t] \in [status : Status, event : Events \cup {None}, wait : BOOLEAN]
    BY DEF IInv, TypeOK
  <2>2. outbox' = [outbox EXCEPT ![t] = [outbox[t] EXCEPT !.status = run.result]]
    BY <1>2 DEF Receipt
  <2>3. [outbox[t] EXCEPT !.status = run.result] \in [status : Status, event : Events \cup {None}, wait : BOOLEAN]
    BY <1>1, <2>1 DEF Results, Status
  <2>4. QED
    BY <2>1, <2>2, <2>3 DEF IInv, TypeOK
<1>5. /\ causes' \in [Traces -> Nat] /\ \A u \in Traces : causes'[u] >= causes[u]
      /\ run.result = "failed" => causes'[t] = 1 + causes[t]
  BY <1>2 DEF IInv, TypeOK, Receipt, Bump
<1>6. TypeOK'
  BY <1>1, <1>3, <1>4, <1>5 DEF IInv, TypeOK, monitor
<1>7. Shape'
  BY <1>1, <1>3 DEF IInv, Shape, NoRun, monitor
<1>8. \A u \in Traces : Rowed(u) => Rowed(u)'
  BY <1>1, <1>4 DEF Rowed, Results
<1>9. Rows'
  <2>1. \A u \in Traces : Rowed(u)' \/ (outbox'[u].status = "none" /\ posted'[u] = 0)
    BY <1>1, <1>2, <1>3, <1>4, <1>8 DEF IInv, Rows
  <2>2. \A e \in Events : run'.event = e => run.event = e
    BY <1>1, TraceFacts DEF NoRun
  <2>3. pc \in {"retried", "post", "posted"} => TraceOf[cur] \in Traces
    BY TraceFacts DEF IInv, Shape
  <2>4. QED
    BY <1>3, <1>8, <2>1, <2>2, <2>3, TraceFacts DEF IInv, Rows, TypeOK, monitor
<1>10. Earned'
  <2>1. /\ Told => told[run.event] > 0
        /\ run.result \in {"delivered", "partial"} => told[run.event] > 0
    BY <1>1 DEF IInv, Shape, Earned, Told
  <2>2. StatusIsEarned'
    BY <1>1, <1>2, <1>3, <1>4, <2>1 DEF IInv, Earned, StatusIsEarned, Results
  <2>3. run' # NoRun /\ Told' => told'[run'.event] > 0
    BY <1>1, <1>3, <2>1 DEF Told
  <2>4. QED
    BY <1>3, <2>2, <2>3 DEF IInv, Earned, monitor
<1>11. Counted'
  <2>1. \A u \in Traces : posted'[u] = posted[u] /\ posted[u] \in Nat /\ causes[u] \in Nat /\ causes'[u] \in Nat
    BY <1>3, <1>5 DEF IInv, TypeOK
  <2>2. PostsHaveCauses'
    BY <1>5, <2>1 DEF IInv, Counted, PostsHaveCauses
  <2>3. \A u \in Traces : (Paid(u) => Paid(u)') /\ InFlight(u)' = InFlight(u)
    BY <1>3, <1>5, <2>1 DEF Paid, InFlight, monitor
  <2>4. run.result = "failed" => Paid(t)'
    BY <1>5, <2>1 DEF IInv, Counted, PostsHaveCauses, Paid
  <2>5. \A u \in Traces : outbox'[u].status \in {"pending", "failed"} /\ ~(InFlight(u) /\ ok)' => Paid(u)'
    BY <1>1, <1>3, <1>4, <2>3, <2>4 DEF IInv, Counted, Results, monitor
  <2>6. pc \in {"retried", "post", "posted"} => TraceOf[cur] \in Traces
    BY TraceFacts DEF IInv, Shape
  <2>7. QED
    BY <1>3, <2>2, <2>3, <2>5, <2>6 DEF IInv, Counted, TypeOK, monitor
<1>12. QED
  BY <1>1, <1>6, <1>7, <1>9, <1>10, <1>11 DEF IInv

-----------------------------------------------------------------------------
LEMMA StutterKeeps == ASSUME IInv, UNCHANGED vars PROVE IInv'
BY DEF IInv, TypeOK, Shape, Rows, Rowed, Earned, StatusIsEarned, Counted, PostsHaveCauses, Paid,
       InFlight, Remembered, Told, vars, monitor, tables, github, counts

LEMMA NextKeeps == ASSUME IInv, [Next]_vars PROVE IInv'
<1>1. CASE Cycle
  BY <1>1, BootKeeps, DueOutboxKeeps, RetryMarkKeeps, FetchKeeps, BaselineKeeps, HoldKeeps,
     AlreadyDeliveredKeeps, RecordKeeps, FreshPostKeeps, FreshMarkKeeps, FinishKeeps, EndPollKeeps,
     RetryPostKeeps, ClaimKeeps DEF Cycle
<1>2. CASE Workflow
  BY <1>2, GateClosesKeeps, SendKeeps, ReceiptKeeps, NoReceiptKeeps, SaveLockKeeps, RunDiesKeeps,
     RunStartsKeeps DEF Workflow
<1>3. CASE Passing
  BY <1>3, CoolsKeeps, BackoffOverKeeps DEF Passing
<1>4. CASE Accident
  BY <1>4, AccidentKeeps
<1>5. CASE UNCHANGED vars
  BY <1>5, StutterKeeps
<1>6. QED
  BY <1>1, <1>2, <1>3, <1>4, <1>5 DEF Next

\* The inductive invariant holds of every state that can be reached.
THEOREM Invariance == Spec => []IInv
<1>1. Init => IInv
  BY InitHolds
<1>2. IInv /\ [Next]_vars => IInv'
  BY NextKeeps
<1>3. QED
  BY <1>1, <1>2, PTL DEF Spec

\* Every variable has its type; among others, a workflow run that has reported has a result.
THEOREM TypeCorrect == Spec => []TypeOK
<1>1. IInv => TypeOK
  BY DEF IInv
<1>2. QED
  BY <1>1, Invariance, PTL

\* A row is sent only when GitHub took the dispatch, and delivered only when somebody was
\* told, whichever of mark_outbox and record_delivery_status wrote it last.
THEOREM EarnedStatus == Spec => []StatusIsEarned
<1>1. IInv => StatusIsEarned
  BY DEF IInv, Earned
<1>2. QED
  BY <1>1, Invariance, PTL

\* However receipts and retries interleave, a trace is posted again only for a lost
\* answer, an accident before the mark, a receipt of failure or a delivered row.
THEOREM NoIdlePost == Spec => []PostsHaveCauses
<1>1. IInv => PostsHaveCauses
  BY DEF IInv, Counted
<1>2. QED
  BY <1>1, Invariance, PTL

\* However often an event is dispatched, it is told again only after a run that told it
\* and left no cache entry.
THEOREM NoIdleCopy == Spec => []CopiesHaveCauses
<1>1. IInv => CopiesHaveCauses
  BY DEF IInv, Remembered, CopiesHaveCauses
<1>2. QED
  BY <1>1, Invariance, PTL
=============================================================================
