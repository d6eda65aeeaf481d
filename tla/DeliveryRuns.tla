---------------------------- MODULE DeliveryRuns ----------------------------
(***************************************************************************)
(* The workflow runs that deliver notifications                            *)
(* (src/src/official_event_monitor.py, src/src/scheduled_delivery.py,      *)
(* src/src/financialjuice_notification.py and the steps of                 *)
(* official-event-monitor.yml and scheduled-brief.yml around them).  Each  *)
(* run works on its own copy of the delivery ledger, restored from the     *)
(* data-release branch, and publishes that copy by compare-and-set: with   *)
(* the release before it sends, and again after it has sent.               *)
(*                                                                         *)
(* A monitor restores before it waits for the writer queue, tells every    *)
(* event of its batch under the key of the event, and stores the ledger    *)
(* whatever came of it.  A scheduled run restores inside the queue, tells  *)
(* one event under the key of its anchor (a priority event under its own), *)
(* and stores the ledger only when it sent.                                *)
(***************************************************************************)
EXTENDS LedgerClaims

CONSTANTS Monitors, Schedulers,
          AnchorOf,       \* the anchor of a scheduled run
          Priority,       \* FinancialJuice priority events
          Observed,       \* events that carry an observation id of their own
          MaxSlots, MaxRank, MaxTime, MaxAccidents, MaxOthers   \* bounds

Runs   == Monitors \cup Schedulers
Events == Keys \ Anchors

ASSUME DeliveryAssumption ==
    /\ AnchorOf \in [Schedulers -> Anchors]
    /\ Priority \subseteq Events /\ Observed \subseteq Events
    /\ Keys \cup (Runs \X Keys) \subseteq Traces
    /\ MaxSlots \in Nat \ {0}
    /\ Monitors \cap Schedulers = {} /\ IsFiniteSet(Runs) /\ IsFiniteSet(Recipients)

VARIABLES ledger,          \* the ledger of the data-release branch
          slots, inside,   \* what the writer queue admits, and whom it has
          current,         \* the runs whose base is the head of the branch
          rank,            \* the material state of an event in the world
          now, others,
          pc, mem,
          batches,         \* batch locks
          copies,          \* messages about an event at a recipient
          heard,           \* the material states somebody was told
          retold,          \* by whom an event is told under an anchor in a state it was told in
          wasted,          \* runs that ended with a ledger the branch did not take
          reverting,       \* runs that put an older ledger than their base's on the branch
          accidents

world  == <<slots, rank, now, others>>
branch == <<ledger, current>>
told   == <<copies, heard>>
faults == <<wasted, reverting, accidents>>
vars   == <<branch, inside, world, pc, mem, batches, told, retold, faults>>

\* What a run has in hand: its copy of the ledger and whether its base holds another,
\* the material states its snapshot shows, the events it has yet to look at, the batch
\* of a monitor, the claim in progress, the recipients Telegram confirmed for it, and
\* whether no item failed.
NoClaimHeld == [key |-> None, event |-> None, pending |-> {}]
Unseen == [k \in Keys |-> 0]
Fresh == [local |-> Empty, old |-> FALSE, saw |-> Unseen, todo |-> {}, batch |-> {}, held |-> NoClaimHeld,
          confirmed |-> {}, clean |-> TRUE]

Init ==
    /\ ledger = Empty /\ slots \in 1..MaxSlots /\ inside = {} /\ current = {}
    /\ rank = [k \in Keys |-> IF k \in Anchors THEN 1 ELSE 0] /\ now = 1 /\ others = 0
    /\ pc  = [w \in Runs |-> IF w \in Monitors THEN "restore" ELSE "queue"]
    /\ mem = [w \in Runs |-> Fresh]
    /\ batches = {}
    /\ copies = [k \in Keys |-> [r \in Recipients |-> 0]]
    /\ heard  = [k \in Keys |-> {}]
    /\ retold = {} /\ wasted = {} /\ reverting = {} /\ accidents = 0

Goto(w, l, m) == pc' = [pc EXCEPT ![w] = l] /\ mem' = [mem EXCEPT ![w] = m] /\ UNCHANGED inside
Ends(w)       == pc' = [pc EXCEPT ![w] = "ended"] /\ mem' = [mem EXCEPT ![w] = Fresh]
                 /\ inside' = inside \ {w}

Accident == accidents < MaxAccidents /\ accidents' = accidents + 1

-----------------------------------------------------------------------------
(* Before the release: restore, select, queue, compare and set. *)

ActiveKeys == {k \in Keys : rank[k] > 0}
Active  == {k \in Events : rank[k] > 0}
Seen(w) == {k \in Events : mem[w].saw[k] > 0}

\* _batch_candidate_preflight.  The event is observed, and saved, before it is
\* asked whether it changed.
ClaimsOf(L, k) == {L.claims[j].status : j \in {k} \cup Aliases[k]}
Unclaimed(L, k) == ClaimsOf(L, k) \cap {"in_flight", "uncertain", "delivered"} = {}
Ready(L, k) ==
    /\ Unclaimed(L, k)
    /\ k \notin Priority =>
        LET seen == Observe(L, k, rank[k], now)
        IN  /\ ShouldRemind(seen, k, rank[k])
            /\ ThemeAllows(L, k, rank[k])
            /\ BudgetAllows(L, k, rank[k], now)

ObserveAll(L, S) ==
    [L EXCEPT !.rows = [k \in Keys |-> IF k \in S THEN Observe(L, k, rank[k], now).rows[k] ELSE @[k]]]

\* data_release.py restore.  A monitor restores before it queues, a scheduled run when
\* its turn has come.
Restore(w) ==
    /\ pc[w] = "restore"
    /\ Goto(w, "lookup", [Fresh EXCEPT !.local = ledger])
    /\ UNCHANGED <<branch, world, batches, told, retold, faults>>

\* The base is fetched after the files: a release of the meantime is the base, and not
\* in the files.  A monitor then selects its batch.
Lookup(w) ==
    /\ pc[w] = "lookup"
    /\ LET L     == mem[w].local
           ready == {k \in Active : Ready(L, k)}
           seen  == {k \in Active \ Priority : Unclaimed(L, k)}
           found == [Fresh EXCEPT !.local = L, !.old = L # ledger, !.saw = rank]
       IN  IF w \in Schedulers
           THEN Goto(w, "publish", found) /\ current' = current \cup {w}
           ELSE IF ready = {}
           THEN Ends(w) /\ UNCHANGED current
           ELSE /\ Goto(w, "queue", [found EXCEPT !.local = ObserveAll(L, seen),
                                                  !.todo = ready, !.batch = ready])
                /\ current' = current \cup {w}
    /\ UNCHANGED <<ledger, world, batches, told, retold, faults>>

Enter(w) ==
    /\ pc[w] = "queue" /\ Cardinality(inside) < slots
    /\ inside' = inside \cup {w}
    /\ pc' = [pc EXCEPT ![w] = IF w \in Monitors THEN "revalidate" ELSE "restore"]
    /\ UNCHANGED <<branch, world, mem, batches, told, retold, faults>>

\* A base that moved, or a batch another run has finished, ends the run.
Revalidate(w) ==
    /\ pc[w] = "revalidate"
    /\ IF w \in current /\ mem[w].batch \notin batches THEN Goto(w, "publish", mem[w]) ELSE Ends(w)
    /\ UNCHANGED <<branch, world, batches, told, retold, faults>>

Reverts(w) == reverting' = IF mem[w].old THEN reverting \cup {w} ELSE reverting
CommitKeepsBase(w) == ledger' = mem[w].local /\ current' = {} /\ Reverts(w)
\* publish of data_release.py, when the base is still the head.
Commit(w) == ledger' = mem[w].local /\ current' = {w} /\ Reverts(w)

PublishRelease(w) ==
    /\ pc[w] = "publish"
    /\ IF w \in current
       THEN Commit(w) /\ Goto(w, "gate", [mem[w] EXCEPT !.old = FALSE])
       ELSE /\ UNCHANGED <<branch, reverting>>
            /\ IF w \in Schedulers THEN Goto(w, "restore", Fresh) ELSE Ends(w)
    /\ UNCHANGED <<world, batches, told, retold, wasted, accidents>>

\* verify_release_for_delivery.  A scheduled run then tells the briefing of its
\* anchor, or looks at every event when the snapshot holds none.
Gate(w) ==
    /\ pc[w] = "gate"
    /\ \/ Ends(w)
       \/ w \in Monitors /\ Goto(w, "choose", mem[w])
       \/ /\ w \in Schedulers
          /\ \E todo \in {Seen(w), {AnchorOf[w]}} :
                Goto(w, "choose", [mem[w] EXCEPT !.todo = todo])
    /\ UNCHANGED <<branch, world, batches, told, retold, faults>>

-----------------------------------------------------------------------------
(* The lane: choose an event, claim, send, close. *)

\* The checks both lanes make again on the event they are about to tell.
Closed(w) == IF w \in Monitors THEN {"in_flight", "uncertain"} ELSE {"in_flight", "uncertain", "delivered"}
Tells(w, k) ==
    LET L == mem[w].local
        saw == mem[w].saw
    IN  \/ k \in Priority
        \/ k \in Anchors /\ BudgetAllows(L, k, saw[k], now)
        \/ /\ L.claims[k].status \notin Closed(w)
           /\ L.claims[k].status # "retryable" => ThemeAllows(L, k, saw[k])
           /\ BudgetAllows(L, k, saw[k], now)

\* A candidate that fails is observed and left out.
PassOver(w, k) ==
    /\ pc[w] = "choose" /\ k \in mem[w].todo /\ ~Tells(w, k)
    /\ LET L == mem[w].local
           saw == mem[w].saw
       IN  Goto(w, "choose", [mem[w] EXCEPT !.todo = @ \ {k},
               !.local = IF k \in Events /\ Unclaimed(L, k) THEN Observe(L, k, saw[k], now) ELSE L])
    /\ UNCHANGED <<branch, world, batches, told, retold, faults>>

\* What a run claims for an event: the monitor and every priority event use the
\* key of the event, a scheduled run uses its anchor.
Asks(w, k, L) ==
    IF w \in Monitors           THEN ClaimNotification(L, k, None, Recipients, now)
    ELSE IF k \in Priority      THEN ClaimNotification(L, k, AnchorOf[w], Recipients, now)
    ELSE ClaimScheduledBrief(L, AnchorOf[w], None, "scheduled_anchor", Recipients, now)
KeyFor(w, k) == IF w \in Monitors \/ k \in Priority THEN k ELSE AnchorOf[w]

Claims(w, k) ==
    /\ pc[w] = "choose" /\ k \in mem[w].todo /\ Tells(w, k)
    /\ LET L      == mem[w].local
           saw    == mem[w].saw
           seen   == IF k \in Priority \cup Anchors THEN L ELSE Observe(L, k, saw[k], now)
           answer == Asks(w, k, seen)
           after  == [mem[w] EXCEPT !.local = answer.ledger, !.todo = @ \ {k}]
       IN  IF answer.status = "claimed"
           THEN /\ Goto(w, "claimed", [after EXCEPT !.held =
                        [key |-> KeyFor(w, k), event |-> k, pending |-> answer.pending]])
                /\ retold' = IF KeyFor(w, k) # k /\ L.rows[k].told > 0 /\ ~Changed(L.rows[k], saw[k])
                             THEN retold \cup {<<w, k>>} ELSE retold
           ELSE /\ IF w \in Monitors THEN Goto(w, "choose", after) ELSE Ends(w)
                /\ UNCHANGED retold
    /\ UNCHANGED <<branch, world, batches, told, faults>>

\* send_text_briefs_audited: Telegram confirms ok; a recipient in gone got the message
\* from a call whose answer was lost, which send_brief repeats.
Telegram(w) ==
    /\ pc[w] = "claimed"
    /\ LET k == mem[w].held.event
           to == mem[w].held.pending
           Message(r, S) == IF r \in S THEN 1 ELSE 0
       IN  \E ok, gone \in SUBSET to :
            /\ accidents + Cardinality(gone) <= MaxAccidents
            /\ accidents' = accidents + Cardinality(gone)
            /\ Goto(w, "sent", [mem[w] EXCEPT !.confirmed = ok])
            /\ copies' = [copies EXCEPT ![k] =
                            [r \in Recipients |-> @[r] + Message(r, ok) + Message(r, gone)]]
            /\ heard'  = [heard EXCEPT ![k] = IF ok \cup gone = {} THEN @ ELSE @ \cup {mem[w].saw[k]}]
    /\ UNCHANGED <<branch, world, batches, retold, wasted, reverting>>

\* The claim leaves the hand of the run, L is its ledger.
Drop(m, L, ok) == [m EXCEPT !.local = L, !.held = NoClaimHeld, !.confirmed = {}, !.clean = @ /\ ok]

\* An OSError or a ValueError before anything was sent: the claim is uncertain.
\* The monitor goes on with its batch, the scheduled run ends without storing it.
SendRaises(w) ==
    /\ pc[w] = "claimed"
    /\ IF w \in Monitors
       THEN Goto(w, "choose", Drop(mem[w], CompleteClaim(mem[w].local, mem[w].held.key, {}, TRUE, now), FALSE))
       ELSE Ends(w)
    /\ UNCHANGED <<branch, world, batches, told, retold, faults>>

TraceOf(w, k) == IF k \in Observed THEN <<w, k>> ELSE k

\* Nobody reached is an error, except for an event told under its anchor.
Close(w) ==
    /\ pc[w] = "sent"
    /\ LET m    == mem[w]
           k    == m.held.event
           done == CompleteClaim(m.local, m.held.key, m.confirmed, FALSE, now)
           fj   == IF k \in Priority THEN m.confirmed ELSE {}
           said == RecordDelivery(done, k, m.saw[k], TraceOf(w, k), fj, now)
           ok   == m.confirmed = m.held.pending
       IN  IF w \in Monitors
           THEN Goto(w, "choose", Drop(m, IF m.confirmed = {} THEN done ELSE said, ok))
           ELSE IF m.confirmed # {} \/ k \notin Priority
           THEN Goto(w, "store", Drop(m, said, ok))
           ELSE Ends(w)
    /\ UNCHANGED <<branch, world, batches, told, retold, faults>>

-----------------------------------------------------------------------------
(* After the lane: store the ledger. *)

NoCandidate(w) ==
    /\ pc[w] = "choose" /\ mem[w].todo = {}
    /\ IF w \in Monitors THEN Goto(w, "store", mem[w]) ELSE Ends(w)
    /\ UNCHANGED <<branch, world, batches, told, retold, faults>>

StoreLedger(w) ==
    /\ pc[w] = "store"
    /\ IF w \in current THEN Commit(w) /\ UNCHANGED wasted
       ELSE UNCHANGED <<branch, reverting>> /\ wasted' = wasted \cup {w}
    /\ batches' = IF w \in Monitors /\ mem[w].clean THEN batches \cup {mem[w].batch} ELSE batches
    /\ Ends(w)
    /\ UNCHANGED <<world, told, retold, accidents>>

\* Fault: the runner is lost, or the job is cancelled.
Killed(w) ==
    /\ pc[w] \notin {"restore", "lookup", "queue", "ended"}
    /\ Accident /\ Ends(w)
    /\ UNCHANGED <<branch, world, batches, told, retold, wasted, reverting>>

\* Fault: an exception nobody expected between sending and closing; the batch
\* goes on, and the claim stays in flight.
ItemBreaks(w) ==
    /\ pc[w] = "sent" /\ w \in Monitors
    /\ Accident
    /\ Goto(w, "choose", Drop(mem[w], mem[w].local, FALSE))
    /\ UNCHANGED <<branch, world, batches, told, retold, wasted, reverting>>

-----------------------------------------------------------------------------
Rise(k) ==
    /\ rank[k] < MaxRank
    /\ rank' = [rank EXCEPT ![k] = @ + 1]
    /\ UNCHANGED <<branch, slots, inside, now, others, pc, mem, batches, told, retold, faults>>

Tick ==
    /\ now < MaxTime
    /\ now' = now + 1
    /\ UNCHANGED <<branch, slots, inside, rank, others, pc, mem, batches, told, retold, faults>>

\* Another workflow publishes, with the ledger it found.
OtherWriter ==
    /\ Cardinality(inside) < slots /\ others < MaxOthers
    /\ current' = {} /\ others' = others + 1
    /\ UNCHANGED <<ledger, slots, inside, rank, now, pc, mem, batches, told, retold, faults>>

Step(w) ==
    \/ Restore(w) \/ Lookup(w) \/ Enter(w) \/ Revalidate(w) \/ PublishRelease(w) \/ Gate(w)
    \/ (\E k \in Keys : PassOver(w, k) \/ Claims(w, k))
    \/ Telegram(w) \/ SendRaises(w) \/ Close(w) \/ NoCandidate(w) \/ StoreLedger(w)

Next ==
    \/ \E w \in Runs : Step(w) \/ Killed(w) \/ ItemBreaks(w)
    \/ (\E k \in Events : Rise(k)) \/ Tick \/ OtherWriter

Spec == Init /\ [][Next]_vars

-----------------------------------------------------------------------------
(* Properties. *)

TypeOK ==
    /\ ledger \in Ledger /\ current \subseteq Runs /\ slots \in 1..MaxSlots /\ inside \subseteq Runs
    /\ rank \in [Keys -> Nat] /\ now \in Nat /\ others \in Nat
    /\ pc \in [Runs -> {"restore", "lookup", "queue", "revalidate", "publish", "gate", "choose",
                        "claimed", "sent", "store", "ended"}]
    /\ mem \in [Runs -> [local : Ledger, old : BOOLEAN, saw : [Keys -> Nat], todo : SUBSET Keys, batch : SUBSET Events,
                         held : [key : Keys \cup {None}, event : Keys \cup {None},
                                 pending : SUBSET Recipients],
                         confirmed : SUBSET Recipients, clean : BOOLEAN]]
    /\ batches \in SUBSET (SUBSET Events)
    /\ copies \in [Keys -> [Recipients -> Nat]] /\ heard \in [Keys -> SUBSET Nat]
    /\ retold \subseteq Runs \X Events /\ wasted \subseteq Runs /\ reverting \subseteq Runs /\ accidents \in Nat

\* Runs that published a release which is not the newest any more.
Overtaken == {w \in Runs : pc[w] \in {"gate", "choose", "claimed", "sent", "store"} /\ w \notin current}

Retellers(k) == {w \in Runs : <<w, k>> \in retold}

\* A recipient hears of an event once for each material state it was told in, once more
\* for each run that tells it under an anchor although its ledger has it as told in that
\* state (to some recipients only, or before another event of its theme), and
\* once more for each accident, each run whose ledger the branch did not take and each
\* run that put an older ledger on it.
CopiesHaveCauses ==
    \A k \in Keys, r \in Recipients :
        copies[k][r] <= Cardinality(heard[k]) + Cardinality(Retellers(k))
                         + accidents + Cardinality(wasted \cup Overtaken) + Cardinality(reverting)

\* When the queue admits one run at a time, a run that published its release
\* stores its ledger too, and nobody sends from a copy the branch has overtaken.
ToldIsStored == slots = 1 => wasted = {} /\ Overtaken = {}

\* Only a run whose files are older than its base takes a confirmed recipient out of a
\* claim, or touches a claim whose outcome is uncertain.
BranchKeepsClaims ==
    [][\A k \in Keys :
         reverting' = reverting =>
            /\ ledger.claims[k].got \subseteq ledger'.claims[k].got
            /\ ledger.claims[k].status = "uncertain" => ledger'.claims[k].status = "uncertain"]_vars

\* An event somebody was told, and that a monitor leaves out, has been told in the
\* material state it is in now.
UnchangedWasTold ==
    [][\A w \in Monitors, k \in Active \ Priority :
         Lookup(w) /\ heard[k] # {} /\ Unclaimed(mem[w].local, k) /\ ~Ready(mem[w].local, k)
            => rank[k] \in heard[k]]_vars
=============================================================================
