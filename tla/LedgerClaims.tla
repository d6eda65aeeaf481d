---------------------------- MODULE LedgerClaims ----------------------------
(***************************************************************************)
(* What the delivery ledger holds and what one locked operation of it does *)
(* (src/src/event_ledger.py, src/src/alert_budget.py): claims that reserve *)
(* a notification for one sender, and one row per event with the material  *)
(* state last seen, the time of the last notification and the deliveries.  *)
(* Every operator maps a ledger to a ledger; who calls it, under which     *)
(* lock and on which copy of the file is the business of EventLedger and   *)
(* DeliveryRuns.                                                           *)
(*                                                                         *)
(* Time is a natural number, 0 is datetime.min.  A material state is its   *)
(* rank: material_state_changed is a rise of it.  All anchors of the model *)
(* belong to one market, the others never meet.                            *)
(***************************************************************************)
EXTENDS Naturals, FiniteSets

CONSTANTS Keys,        \* notification keys; an event has one
          Anchors,     \* the keys of scheduled briefs
          Recipients,  \* recipient hashes
          Traces,      \* trace ids of deliveries
          Prints,      \* decision fingerprints
          Aliases,     \* the older identities of a key
          Theme,       \* the investor theme of an event
          Lease,       \* DELIVERY_CLAIM_LEASE_SECONDS
          Cooldown,    \* cooldown_seconds of the alert budget
          MaxUpdates,  \* max_updates_per_event
          None         \* no slot, no fingerprint

ASSUME LedgerAssumption ==
    /\ Anchors \subseteq Keys
    /\ Aliases \in [Keys -> SUBSET Keys] /\ \A k \in Keys : k \notin Aliases[k]
    /\ Theme \in [Keys -> Keys]
    /\ Lease \in Nat \ {0} /\ Cooldown \in Nat /\ MaxUpdates \in Nat
    /\ None \notin Keys \cup Prints

Statuses == {"none", "in_flight", "delivered", "retryable", "uncertain"}
Claim  == [status : Statuses, to : SUBSET Recipients, got : SUBSET Recipients,
           lease : Nat, at : Nat, slot : Anchors \cup {None}, print : Prints \cup {None}]
Row    == [state : Nat, at : Nat, told : Nat, level : Nat, sent : SUBSET Traces,
           got : SUBSET Recipients]
Ledger == [claims : [Keys -> Claim], rows : [Keys -> Row]]

NoClaim == [status |-> "none", to |-> {}, got |-> {}, lease |-> 0, at |-> 0,
            slot |-> None, print |-> None]
NoRow   == [state |-> 0, at |-> 0, told |-> 0, level |-> 0, sent |-> {}, got |-> {}]
Empty   == [claims |-> [k \in Keys |-> NoClaim], rows |-> [k \in Keys |-> NoRow]]

-----------------------------------------------------------------------------
(* Claims. *)

LiveSwapped(c, now) == c.status = "in_flight" /\ c.lease < now
Live(c, now) == c.status = "in_flight" /\ c.lease > now

ReachedByAliases(L, k) == UNION {L.claims[j].got \cup L.rows[j].got : j \in Aliases[k]}
\* The recipients a key or one of its aliases is known to have reached.
Reached(L, k) == UNION {L.claims[j].got \cup L.rows[j].got : j \in {k} \cup Aliases[k]}

Put(L, k, c) == [L EXCEPT !.claims[k] = c]

Refused(L, why)        == [status |-> why, pending |-> {}, ledger |-> L]
Claimed(L, k, c)       == [status |-> "claimed", pending |-> c.to \ c.got, ledger |-> Put(L, k, c)]

ClaimNotification(L, k, slot, to, now) ==
    LET own     == L.claims[k]
        old     == {L.claims[a] : a \in Aliases[k]}
        got     == Reached(L, k)
        wanted  == own.to \cup to
        kept    == IF slot = None THEN own.slot ELSE slot
        uncertain(C) == \E c \in C : c.status = "uncertain"
        live(C)      == \E c \in C : Live(c, now)
    IN  IF wanted \subseteq got
        THEN Refused(Put(L, k, [own EXCEPT !.status = "delivered", !.to = wanted, !.got = got,
                                           !.at = now, !.slot = kept]), "already_delivered")
        ELSE IF uncertain(old)   THEN Refused(L, "uncertain")
        ELSE IF live(old)        THEN Refused(L, "in_flight")
        ELSE IF uncertain({own}) THEN Refused(L, "uncertain")
        ELSE IF live({own})      THEN Refused(L, "in_flight")
        ELSE Claimed(L, k, [status |-> "in_flight", to |-> wanted, got |-> got,
                            lease |-> now + Lease, at |-> now, slot |-> kept, print |-> None])

\* The briefs of the other anchors that were delivered or are being delivered.
Earlier(L, a) == {b \in Anchors \ {a} : L.claims[b].status \in {"delivered", "in_flight"}}
Latest(L, a)  == CHOOSE b \in Earlier(L, a) : \A c \in Earlier(L, a) : L.claims[b].at >= L.claims[c].at

ClaimScheduledBrief(L, a, print, policy, to, now) ==
    LET own    == L.claims[a]
        wanted == own.to \cup to
        latest == L.claims[Latest(L, a)]
        legacy == \E k \in Keys : L.claims[k].slot = a /\ L.claims[k].status = "delivered"
    IN  IF own.status = "delivered"      THEN Refused(L, "already_delivered")
        ELSE IF own.status = "uncertain" THEN Refused(L, "uncertain")
        ELSE IF Live(own, now)           THEN Refused(L, "in_flight")
        ELSE IF legacy                   THEN Refused(L, "already_delivered")
        ELSE IF Earlier(L, a) # {} /\ policy = "material_event" /\ latest.print = print
                                         THEN Refused(L, "same_decision")
        ELSE IF Earlier(L, a) # {} /\ Live(latest, now) THEN Refused(L, "in_flight")
        ELSE Claimed(L, a, [status |-> "in_flight", to |-> wanted, got |-> own.got,
                            lease |-> now + Lease, at |-> now, slot |-> a, print |-> print])

CompleteForgetting(L, k, got, uncertain, now) ==
    LET c   == L.claims[k]
        all == got
    IN  Put(L, k, [c EXCEPT !.got = all, !.at = now, !.lease = 0,
                            !.status = IF uncertain THEN "uncertain"
                                       ELSE IF c.to \subseteq all THEN "delivered" ELSE "retryable"])

CompleteBackdated(L, k, got, uncertain, now) ==
    LET c   == L.claims[k]
        all == c.got \cup got
    IN  Put(L, k, [c EXCEPT !.got = all, !.at = now, !.lease = now - Lease,
                            !.status = IF uncertain THEN "uncertain"
                                       ELSE IF c.to \subseteq all THEN "delivered" ELSE "retryable"])

\* Whoever calls it closes the claim, the holder or not.
CompleteClaim(L, k, got, uncertain, now) ==
    LET c   == L.claims[k]
        all == c.got \cup got
    IN  Put(L, k, [c EXCEPT !.got = all, !.at = now, !.lease = 0,
                            !.status = IF uncertain THEN "uncertain"
                                       ELSE IF c.to \subseteq all THEN "delivered" ELSE "retryable"])

-----------------------------------------------------------------------------
(* Rows: observations, themes, deliveries. *)

Changed(row, rank) == rank > row.state

Observe(L, k, rank, now) ==
    IF Changed(L.rows[k], rank)
    THEN [L EXCEPT !.rows[k].state = rank, !.rows[k].at = now]
    ELSE L

ShouldRemind(L, k, rank) == L.rows[k].told = 0 \/ Changed(L.rows[k], rank)

\* theme_decision: the last notified event of the theme decides.
Notified(L, k) == {j \in Keys : Theme[j] = Theme[k] /\ L.rows[j].told > 0}
ThemeAllows(L, k, rank) ==
    Notified(L, k) # {} =>
        LET last == CHOOSE j \in Notified(L, k) :
                        \A i \in Notified(L, k) : L.rows[j].told >= L.rows[i].told
        IN  Changed(L.rows[last], rank)

BudgetAllows(L, k, rank, now) ==
    LET row == L.rows[k] IN
    \/ row.sent = {}
    \/ rank > row.level
    \/ Cardinality(row.sent) < MaxUpdates /\ now >= row.told + Cooldown

\* A second delivery under a trace the row already has is only observed.
RecordDelivery(L, k, rank, trace, got, now) ==
    LET row == L.rows[k]
    IN  IF trace \in row.sent
        THEN Observe(L, k, rank, now)
        ELSE [L EXCEPT !.rows[k] =
                [state |-> rank, at |-> now, told |-> now, sent |-> row.sent \cup {trace},
                 level |-> IF rank > row.level THEN rank ELSE row.level,
                 got   |-> row.got \cup got]]

-----------------------------------------------------------------------------
(* save: the instance's memory is merged into the file. *)

MergeClaim(left, right) ==
    [(IF right.at >= left.at THEN right ELSE left) EXCEPT !.got = left.got \cup right.got]

Later(m, n) == IF m >= n THEN m ELSE n

MergeRow(left, right) ==
    [state |-> IF right.state > 0 THEN right.state ELSE left.state,
     at    |-> Later(left.at, right.at),
     told  |-> Later(left.told, right.told),
     level |-> Later(left.level, right.level),
     sent  |-> left.sent \cup right.sent,
     got   |-> left.got \cup right.got]

SaveMemory(file, mem) == mem
Save(file, mem) ==
    [claims |-> [k \in Keys |-> MergeClaim(file.claims[k], mem.claims[k])],
     rows   |-> [k \in Keys |-> MergeRow(file.rows[k], mem.rows[k])]]
=============================================================================
