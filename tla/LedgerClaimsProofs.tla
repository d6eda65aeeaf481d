-------------------------- MODULE LedgerClaimsProofs --------------------------
(***************************************************************************)
(* What the operations of the delivery ledger do to any ledger: they give  *)
(* a ledger, they never take a confirmed recipient out of a claim or a     *)
(* recorded delivery out of a row, and they leave alone what is not        *)
(* theirs.  The proofs about the processes that share a file (EventLedger) *)
(* and the runs that share a branch (DeliveryRuns) rest on these lemmas.   *)
(***************************************************************************)
EXTENDS LedgerClaims, TLAPS

\* Nothing confirmed or recorded is missing from new.
KeepsGot(old, new)  == \A k \in Keys : old.claims[k].got \subseteq new.claims[k].got
KeepsSent(old, new) == \A k \in Keys : old.rows[k].sent \subseteq new.rows[k].sent
KeepsRows(old, new) == \A k \in Keys : /\ old.rows[k].told > 0 => new.rows[k].told > 0
                                       /\ old.rows[k].state <= new.rows[k].state

\* No row is ahead of what has been seen of its event, and every delivery has its time.
Sound(L, seen) == \A k \in Keys : /\ L.rows[k].state <= seen[k]
                                  /\ L.rows[k].sent # {} => L.rows[k].told > 0

\* new differs from old in the claim of k at most.
OnlyClaim(old, new, k) ==
    new.rows = old.rows /\ \A j \in Keys \ {k} : new.claims[j] = old.claims[j]

-----------------------------------------------------------------------------
(* Ledgers and their parts. *)

LEMMA EmptyIsLedger == Empty \in Ledger
<1>1. NoClaim \in Claim /\ NoRow \in Row
  BY DEF NoClaim, NoRow, Claim, Row, Statuses
<1>2. QED
  BY <1>1 DEF Empty, Ledger

LEMMA PutIsLedger ==
  ASSUME NEW L \in Ledger, NEW k \in Keys, NEW c \in Claim
  PROVE  /\ Put(L, k, c) \in Ledger
         /\ Put(L, k, c).claims[k] = c
         /\ OnlyClaim(L, Put(L, k, c), k)
<1>1. Put(L, k, c) = [claims |-> [L.claims EXCEPT ![k] = c], rows |-> L.rows]
  BY DEF Put, Ledger
<1>2. L.claims \in [Keys -> Claim] /\ L.rows \in [Keys -> Row]
  BY DEF Ledger
<1>3. [L.claims EXCEPT ![k] = c] \in [Keys -> Claim]
  BY <1>2
<1>4. QED
  BY <1>1, <1>2, <1>3 DEF Ledger, OnlyClaim

\* A change of one claim that takes no recipient out of it keeps everything.
LEMMA OneClaimKeeps ==
  ASSUME NEW L, NEW M, NEW k \in Keys, OnlyClaim(L, M, k), L.claims[k].got \subseteq M.claims[k].got
  PROVE  KeepsGot(L, M) /\ KeepsSent(L, M)
BY DEF OnlyClaim, KeepsGot, KeepsSent

LEMMA KeepsItself ==
  ASSUME NEW L
  PROVE  KeepsGot(L, L) /\ KeepsSent(L, L) /\ \A k \in Keys : OnlyClaim(L, L, k)
BY DEF KeepsGot, KeepsSent, OnlyClaim

-----------------------------------------------------------------------------
(* Claiming and closing. *)

LEMMA ReachedTypes ==
  ASSUME NEW L \in Ledger, NEW k \in Keys
  PROVE  Reached(L, k) \subseteq Recipients /\ L.claims[k].got \subseteq Reached(L, k)
<1>1. \A j \in {k} \cup Aliases[k] : /\ j \in Keys
                                     /\ L.claims[j].got \subseteq Recipients
                                     /\ L.rows[j].got \subseteq Recipients
  BY LedgerAssumption DEF Ledger, Claim, Row
<1>2. QED
  BY <1>1 DEF Reached

\* claim_notification either refuses and changes nothing, or closes a claim whose
\* recipients have all been reached, or opens a claim that was neither open nor uncertain.
LEMMA ClaimAnswers ==
  ASSUME NEW L \in Ledger, NEW k \in Keys, NEW slot \in Anchors \cup {None}, NEW t \in Nat,
         NEW answer, answer = ClaimNotification(L, k, slot, Recipients, t)
  PROVE  /\ answer.ledger \in Ledger /\ answer.pending \subseteq Recipients
         /\ OnlyClaim(L, answer.ledger, k)
         /\ L.claims[k].got \subseteq answer.ledger.claims[k].got
         /\ \/ answer.ledger = L /\ answer.status # "claimed"
            \/ /\ Recipients \subseteq answer.ledger.claims[k].got
               /\ answer.ledger.claims[k].status = "delivered"
               /\ answer.status = "already_delivered"
            \/ /\ answer.status = "claimed"
               /\ answer.ledger.claims[k].status = "in_flight"
               /\ answer.ledger.claims[k].lease = t + Lease
               /\ L.claims[k].status # "uncertain" /\ ~Live(L.claims[k], t)
               /\ ~(Recipients \subseteq L.claims[k].got)
               /\ answer.pending = Recipients \ answer.ledger.claims[k].got /\ answer.pending # {}
<1> DEFINE own     == L.claims[k]
           reached == Reached(L, k)
           wanted  == own.to \cup Recipients
           kept    == IF slot = None THEN own.slot ELSE slot
           closed  == [own EXCEPT !.status = "delivered", !.to = wanted, !.got = reached,
                                  !.at = t, !.slot = kept]
           open    == [status |-> "in_flight", to |-> wanted, got |-> reached,
                       lease |-> t + Lease, at |-> t, slot |-> kept, print |-> None]
<1>1. own \in Claim /\ reached \subseteq Recipients /\ own.got \subseteq reached
  BY ReachedTypes DEF Ledger
<1>2. kept \in Anchors \cup {None} /\ wanted = Recipients
  BY <1>1 DEF Claim
<1>3. closed \in Claim /\ closed.got = reached /\ closed.status = "delivered"
  BY <1>1, <1>2 DEF Claim, Statuses
<1>4. /\ open \in Claim /\ open.got = reached /\ open.to = wanted /\ open.status = "in_flight"
      /\ open.lease = t + Lease
  BY <1>1, <1>2, LedgerAssumption DEF Claim, Statuses
<1> HIDE DEF closed, open, wanted, reached, kept
<1>5. CASE wanted \subseteq reached
  <2>1. answer = Refused(Put(L, k, closed), "already_delivered")
    BY <1>5 DEF ClaimNotification, closed, wanted, reached, kept
  <2>2. answer.ledger = Put(L, k, closed) /\ answer.status = "already_delivered" /\ answer.pending = {}
    BY <2>1 DEF Refused
  <2>3. answer.ledger \in Ledger /\ answer.ledger.claims[k] = closed /\ OnlyClaim(L, answer.ledger, k)
    BY <1>3, <2>2, PutIsLedger
  <2>4. QED
    BY <1>1, <1>2, <1>3, <1>5, <2>2, <2>3
<1>6. ASSUME NEW why, answer = Refused(L, why), why # "claimed"
      PROVE  /\ answer.ledger \in Ledger /\ answer.pending \subseteq Recipients
             /\ OnlyClaim(L, answer.ledger, k)
             /\ L.claims[k].got \subseteq answer.ledger.claims[k].got
             /\ answer.ledger = L /\ answer.status # "claimed"
  BY <1>6, KeepsItself DEF Refused
<1>7. CASE answer = Claimed(L, k, open) /\ own.status # "uncertain" /\ ~Live(own, t)
           /\ ~(wanted \subseteq reached)
  <2>1. answer.ledger = Put(L, k, open) /\ answer.status = "claimed" /\ answer.pending = wanted \ reached
    BY <1>4, <1>7 DEF Claimed
  <2>2. answer.ledger \in Ledger /\ answer.ledger.claims[k] = open /\ OnlyClaim(L, answer.ledger, k)
    BY <1>4, <2>1, PutIsLedger
  <2>3. ~(Recipients \subseteq own.got)
    BY <1>1, <1>2, <1>7
  <2>4. QED
    BY <1>1, <1>2, <1>4, <1>7, <2>1, <2>2, <2>3
<1>8. \/ wanted \subseteq reached
      \/ answer = Refused(L, "uncertain")
      \/ answer = Refused(L, "in_flight")
      \/ answer = Claimed(L, k, open) /\ own.status # "uncertain" /\ ~Live(own, t) /\ ~(wanted \subseteq reached)
  BY DEF ClaimNotification, open, wanted, reached, kept
<1>9. QED
  BY <1>5, <1>6, <1>7, <1>8

\* claim_scheduled_brief refuses and changes nothing, or opens a claim of the anchor that
\* was neither open nor uncertain.
LEMMA BriefAnswers ==
  ASSUME NEW L \in Ledger, NEW a \in Anchors, NEW print \in Prints \cup {None}, NEW policy, NEW t \in Nat,
         NEW answer, answer = ClaimScheduledBrief(L, a, print, policy, Recipients, t)
  PROVE  /\ answer.ledger \in Ledger /\ answer.pending \subseteq Recipients
         /\ OnlyClaim(L, answer.ledger, a)
         /\ L.claims[a].got \subseteq answer.ledger.claims[a].got
         /\ \/ answer.ledger = L /\ answer.status # "claimed"
            \/ /\ answer.status = "claimed"
               /\ answer.ledger.claims[a].status = "in_flight"
               /\ L.claims[a].status # "uncertain"
               /\ answer.pending \cap answer.ledger.claims[a].got = {}
<1> DEFINE own  == L.claims[a]
           open == [status |-> "in_flight", to |-> own.to \cup Recipients, got |-> own.got,
                    lease |-> t + Lease, at |-> t, slot |-> a, print |-> print]
<1>1. a \in Keys /\ own \in Claim
  BY LedgerAssumption DEF Ledger
<1>2. /\ open \in Claim /\ open.got = own.got /\ open.status = "in_flight"
      /\ open.to \ open.got \subseteq Recipients
  BY <1>1, LedgerAssumption DEF Claim, Statuses
<1> HIDE DEF open
<1>3. ASSUME NEW why, answer = Refused(L, why), why # "claimed"
      PROVE  /\ answer.ledger \in Ledger /\ answer.pending \subseteq Recipients
             /\ OnlyClaim(L, answer.ledger, a)
             /\ L.claims[a].got \subseteq answer.ledger.claims[a].got
             /\ answer.ledger = L /\ answer.status # "claimed"
  BY <1>1, <1>3, KeepsItself DEF Refused
<1>4. CASE answer = Claimed(L, a, open) /\ own.status # "uncertain"
  <2>1. answer.ledger = Put(L, a, open) /\ answer.status = "claimed" /\ answer.pending = open.to \ open.got
    BY <1>4 DEF Claimed
  <2>2. answer.ledger \in Ledger /\ answer.ledger.claims[a] = open /\ OnlyClaim(L, answer.ledger, a)
    BY <1>1, <1>2, <2>1, PutIsLedger
  <2>3. QED
    BY <1>2, <1>4, <2>1, <2>2
<1>5. \/ answer = Refused(L, "already_delivered")
      \/ answer = Refused(L, "uncertain")
      \/ answer = Refused(L, "in_flight")
      \/ answer = Refused(L, "same_decision")
      \/ answer = Claimed(L, a, open) /\ own.status # "uncertain"
  BY DEF ClaimScheduledBrief, open
<1>6. QED
  BY <1>3, <1>4, <1>5

\* complete_notification_claim adds the confirmed recipients to one claim and leaves it
\* neither open nor unclaimed.
LEMMA CompleteTypes ==
  ASSUME NEW L \in Ledger, NEW k \in Keys, NEW t \in Nat, NEW ok \in SUBSET Recipients,
         NEW uncertain \in BOOLEAN
  PROVE  LET M == CompleteClaim(L, k, ok, uncertain, t)
         IN  /\ M \in Ledger /\ OnlyClaim(L, M, k)
             /\ L.claims[k].got \cup ok \subseteq M.claims[k].got
             /\ uncertain => M.claims[k].status = "uncertain"
<1> DEFINE c      == L.claims[k]
           all    == c.got \cup ok
           status == IF uncertain THEN "uncertain"
                     ELSE IF c.to \subseteq all THEN "delivered" ELSE "retryable"
           closed == [c EXCEPT !.got = all, !.at = t, !.lease = 0, !.status = status]
<1>1. c \in Claim
  BY DEF Ledger
<1>2. status \in Statuses
  BY DEF Statuses
<1> HIDE DEF status
<1>3. closed \in Claim /\ closed.got = all /\ closed.status = status
  BY <1>1, <1>2 DEF Claim
<1>4. c.got \cup ok \subseteq closed.got
  BY <1>3
<1>5. CompleteClaim(L, k, ok, uncertain, t) = Put(L, k, closed)
  BY DEF CompleteClaim, status
<1> HIDE DEF closed
<1>6. QED
  BY <1>3, <1>4, <1>5, PutIsLedger DEF status

-----------------------------------------------------------------------------
(* Observing and recording. *)

LEMMA PutRowIsLedger ==
  ASSUME NEW L \in Ledger, NEW k \in Keys, NEW row \in Row
  PROVE  LET M == [L EXCEPT !.rows[k] = row] IN M \in Ledger /\ M.claims = L.claims
<1>1. [L EXCEPT !.rows[k] = row] = [claims |-> L.claims, rows |-> [L.rows EXCEPT ![k] = row]]
  BY DEF Ledger
<1>2. [L.rows EXCEPT ![k] = row] \in [Keys -> Row] /\ L.claims \in [Keys -> Claim]
  BY DEF Ledger
<1>3. QED
  BY <1>1, <1>2 DEF Ledger

LEMMA ObserveTypes ==
  ASSUME NEW L \in Ledger, NEW k \in Keys, NEW rank \in Nat, NEW t \in Nat
  PROVE  Observe(L, k, rank, t) \in Ledger /\ Observe(L, k, rank, t).claims = L.claims
<1> DEFINE row == [L.rows[k] EXCEPT !.state = rank, !.at = t]
<1>1. L.rows[k] \in Row
  BY DEF Ledger
<1>2. row \in Row
  BY <1>1 DEF Row
<1>3. [L EXCEPT !.rows[k].state = rank, !.rows[k].at = t] = [L EXCEPT !.rows[k] = row]
  BY <1>1 DEF Ledger, Row
<1>4. QED
  BY <1>2, <1>3, PutRowIsLedger DEF Observe

LEMMA RecordTypes ==
  ASSUME NEW L \in Ledger, NEW k \in Keys, NEW rank \in Nat, NEW trace \in Traces,
         NEW ok \in SUBSET Recipients, NEW t \in Nat
  PROVE  LET M == RecordDelivery(L, k, rank, trace, ok, t) IN M \in Ledger /\ M.claims = L.claims
<1> DEFINE old == L.rows[k]
           row == [state |-> rank, at |-> t, told |-> t, sent |-> old.sent \cup {trace},
                   level |-> IF rank > old.level THEN rank ELSE old.level,
                   got   |-> old.got \cup ok]
<1>1. old \in Row
  BY DEF Ledger
<1>2. row \in Row
  BY <1>1 DEF Row
<1>3. [L EXCEPT !.rows[k] = row] \in Ledger /\ [L EXCEPT !.rows[k] = row].claims = L.claims
  BY <1>2, PutRowIsLedger
<1>4. CASE trace \in old.sent
  BY <1>4, ObserveTypes DEF RecordDelivery
<1>5. CASE trace \notin old.sent
  <2>1. RecordDelivery(L, k, rank, trace, ok, t) = [L EXCEPT !.rows[k] = row]
    BY <1>5 DEF RecordDelivery
  <2>2. QED
    BY <1>3, <2>1
<1>6. QED
  BY <1>4, <1>5

\* Observing an event may raise the state of its row, and nothing else.
LEMMA ObserveRows ==
  ASSUME NEW L \in Ledger, NEW k \in Keys, NEW rank \in Nat, NEW t \in Nat,
         NEW M, M = Observe(L, k, rank, t)
  PROVE  /\ \A j \in Keys \ {k} : M.rows[j] = L.rows[j]
         /\ M.rows[k].told = L.rows[k].told /\ M.rows[k].sent = L.rows[k].sent
         /\ M.rows[k].state = IF rank > L.rows[k].state THEN rank ELSE L.rows[k].state
<1> DEFINE row == [L.rows[k] EXCEPT !.state = rank, !.at = t]
<1>1. L.rows[k] \in Row /\ L.rows \in [Keys -> Row]
  BY DEF Ledger
<1>2. row.told = L.rows[k].told /\ row.sent = L.rows[k].sent /\ row.state = rank
  BY <1>1 DEF Row
<1>3. CASE rank > L.rows[k].state
  <2>1. M = [claims |-> L.claims, rows |-> [L.rows EXCEPT ![k] = row]]
    BY <1>1, <1>3 DEF Observe, Changed, Ledger, Row
  <2> HIDE DEF row
  <2>2. M.rows = [L.rows EXCEPT ![k] = row]
    BY <2>1
  <2>3. M.rows[k] = row /\ \A j \in Keys \ {k} : M.rows[j] = L.rows[j]
    BY <1>1, <2>2
  <2>4. QED
    BY <1>2, <1>3, <2>3
<1>4. CASE ~(rank > L.rows[k].state)
  <2>1. M = L
    BY <1>4 DEF Observe, Changed
  <2>2. QED
    BY <1>4, <2>1
<1>5. QED
  BY <1>3, <1>4

\* A recorded delivery leaves its row in the state that was told, and told.
LEMMA RecordRows ==
  ASSUME NEW L \in Ledger, NEW k \in Keys, NEW rank \in Nat, NEW trace \in Traces,
         NEW ok \in SUBSET Recipients, NEW t \in Nat, t > 0,
         L.rows[k].state <= rank, L.rows[k].sent # {} => L.rows[k].told > 0,
         NEW M, M = RecordDelivery(L, k, rank, trace, ok, t)
  PROVE  /\ \A j \in Keys \ {k} : M.rows[j] = L.rows[j]
         /\ M.rows[k].told > 0 /\ M.rows[k].state = rank
<1> DEFINE old == L.rows[k]
           row == [state |-> rank, at |-> t, told |-> t, sent |-> old.sent \cup {trace},
                   level |-> IF rank > old.level THEN rank ELSE old.level,
                   got   |-> old.got \cup ok]
<1>1. old \in Row /\ L.rows \in [Keys -> Row]
  BY DEF Ledger
<1>2. old.state \in Nat
  BY <1>1 DEF Row
<1>3. CASE trace \in old.sent
  <2>1. M = Observe(L, k, rank, t)
    BY <1>3 DEF RecordDelivery
  <2>2. /\ \A j \in Keys \ {k} : M.rows[j] = L.rows[j]
        /\ M.rows[k].told = old.told
        /\ M.rows[k].state = IF rank > old.state THEN rank ELSE old.state
    BY <2>1, ObserveRows
  <2>3. old.told > 0
    BY <1>3
  <2>4. QED
    BY <1>2, <2>2, <2>3
<1>4. CASE trace \notin old.sent
  <2>1. M = [claims |-> L.claims, rows |-> [L.rows EXCEPT ![k] = row]]
    BY <1>4 DEF RecordDelivery, Ledger
  <2>2. row.told = t /\ row.state = rank
    OBVIOUS
  <2> HIDE DEF row
  <2>3. M.rows[k] = row /\ \A j \in Keys \ {k} : M.rows[j] = L.rows[j]
    BY <1>1, <2>1
  <2>4. QED
    BY <2>2, <2>3
<1>5. QED
  BY <1>3, <1>4

-----------------------------------------------------------------------------
(* Saving. *)

LEMMA SaveTypes ==
  ASSUME NEW L \in Ledger, NEW m \in Ledger
  PROVE  Save(L, m) \in Ledger /\ KeepsGot(L, Save(L, m)) /\ KeepsSent(L, Save(L, m))
<1>1. ASSUME NEW c \in Claim, NEW d \in Claim
      PROVE  MergeClaim(c, d) \in Claim /\ c.got \subseteq MergeClaim(c, d).got
  BY DEF MergeClaim, Claim
<1>2. ASSUME NEW c \in Row, NEW d \in Row
      PROVE  MergeRow(c, d) \in Row /\ c.sent \subseteq MergeRow(c, d).sent
  BY DEF MergeRow, Row, Later
<1>3. \A k \in Keys : /\ L.claims[k] \in Claim /\ m.claims[k] \in Claim
                      /\ L.rows[k] \in Row /\ m.rows[k] \in Row
  BY DEF Ledger
<1>4. [k \in Keys |-> MergeClaim(L.claims[k], m.claims[k])] \in [Keys -> Claim]
  BY <1>1, <1>3
<1>5. [k \in Keys |-> MergeRow(L.rows[k], m.rows[k])] \in [Keys -> Row]
  BY <1>2, <1>3
<1>6. Save(L, m) \in Ledger
  BY <1>4, <1>5 DEF Save, Ledger
<1>7. KeepsGot(L, Save(L, m))
  BY <1>1, <1>3 DEF Save, KeepsGot
<1>8. KeepsSent(L, Save(L, m))
  BY <1>2, <1>3 DEF Save, KeepsSent
<1>9. QED
  BY <1>6, <1>7, <1>8
=============================================================================
