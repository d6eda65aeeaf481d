--------------------------- MODULE IncidentOutbox ---------------------------
(***************************************************************************)
(* The Gmail outbox of the incident coordinator, the Durable Object of     *)
(* worker/src/incident_coordinator.ts.  A decision reserves one row, and   *)
(* the requests of the object (evidence, tick, verification) advance it    *)
(* towards one Gmail message.  The object runs one request at a time       *)
(* between two awaits, so a step below is the code from one await to the   *)
(* next, and requests interleave at every call to Gmail or Telegram.  One  *)
(* seam is finer than that: a request reads a row in one step and claims   *)
(* it in another, which is how reconcileUnknownRows meets rows it selected *)
(* before an earlier row made it wait.                                     *)
(*                                                                         *)
(* A request is a member of Handlers; an eviction of the object ends all   *)
(* of them and leaves the rows.  Gmail is external: it keeps drafts and    *)
(* sent copies per decision, and a request its client gave up on may still *)
(* be executed later.                                                      *)
(***************************************************************************)
EXTENDS Naturals, FiniteSets

CONSTANTS Deliveries,      \* decision keys, one outbox row each
          NoDelivery,      \* what an idle request works on
          Handlers,        \* concurrent requests of the Durable Object
          MaxMails,        \* MAX_MAILS_PER_24H
          WarnMails,       \* WARN_MAILS_PER_24H
          MailConfigured,  \* the Gmail secrets are present
          MaxFaults        \* bound: network faults, search misses, evictions

ASSUME OutboxAssumption ==
    /\ MaxMails \in Nat /\ WarnMails \in Nat /\ MaxFaults \in Nat
    /\ MailConfigured \in BOOLEAN
    /\ IsFiniteSet(Deliveries)
    /\ NoDelivery \notin Deliveries

VARIABLES
    state,     \* outbox.state of each row, "none" before it exists
    draftId,   \* outbox.draft_id, 0 when NULL
    lease,     \* outbox.lease_until lies in the future
    age,       \* 0: just reserved, 1: UNKNOWN_GRACE_MS passed, 2: 24 h passed
    alerts,    \* admin_fallbacks.status per key
    warned,    \* the quota warning of the day was raised
    notified,  \* last_notified_state_version was raised on behalf of the row
    pc,        \* where each request is
    work,      \* the row it works on
    seen,      \* the state it read there
    draft,     \* the draft it was told about, or sends
    created,   \* Gmail: how many drafts were ever created for the decision
    drafts,    \* Gmail: the drafts that exist now
    sent,      \* Gmail: the drafts that became a sent message
    stray,     \* calls their client gave up on that Gmail has not executed
    faults     \* faults so far

row     == <<state, draftId, lease>>
book    == <<age, alerts, warned, notified>>
mailbox == <<created, drafts, sent, stray>>
local   == <<pc, work, seen, draft>>
vars    == <<row, book, local, mailbox, faults>>

Unknowns  == {"sending", "reconciling", "draft_creating", "delivery_unknown"}
Pending   == Unknowns \cup {"reserved", "draft_ready"}
RowStates == Pending \cup {"none", "failed_not_sent", "sent_verified"}

AlertKinds    == {"failed", "unknown"}
AlertOutcomes == {"sent", "failed_not_sent", "delivery_unknown", "not_configured"}
AlertStatuses == {"none", "reserved"} \cup AlertOutcomes
AlertPc       == [failed |-> "alert_failed", unknown |-> "alert_unknown"]

CreatePcs == {"create_token", "create_wait", "create_done"}
SendPcs   == {"send_token", "send_wait", "send_done", "send_gone"}
RecPcs    == {"rec_sent", "rec_drafts"}
AlertPcs  == {"alert_failed", "alert_unknown"}
Pcs       == {"idle", "advance"} \cup CreatePcs \cup SendPcs \cup RecPcs \cup AlertPcs

\* The call to Gmail a waiting request has posted.
Posted(h) == IF pc[h] = "create_wait"
             THEN [op |-> "create", d |-> work[h], draft |-> 0]
             ELSE [op |-> "send", d |-> work[h], draft |-> draft[h]]

Init ==
    /\ state    = [d \in Deliveries |-> "none"]
    /\ draftId  = [d \in Deliveries |-> 0]
    /\ lease    = [d \in Deliveries |-> FALSE]
    /\ age      = [d \in Deliveries |-> 0]
    /\ alerts   = [k \in AlertKinds \X Deliveries |-> "none"]
    /\ warned   = FALSE
    /\ notified = [d \in Deliveries |-> FALSE]
    /\ pc       = [h \in Handlers |-> "idle"]
    /\ work     = [h \in Handlers |-> NoDelivery]
    /\ seen     = [h \in Handlers |-> "none"]
    /\ draft    = [h \in Handlers |-> 0]
    /\ created  = [d \in Deliveries |-> 0]
    /\ drafts   = [d \in Deliveries |-> {}]
    /\ sent     = [d \in Deliveries |-> {}]
    /\ stray    = {}
    /\ faults   = 0

-----------------------------------------------------------------------------
(* What the requests are built from.                                       *)

Goto(h, p) == pc' = [pc EXCEPT ![h] = p] /\ UNCHANGED <<work, seen, draft>>

\* The request runs advanceOutbox on row d, having read state s there.
Begin(h, d, s) ==
    /\ pc'    = [pc EXCEPT ![h] = "advance"]
    /\ work'  = [work EXCEPT ![h] = d]
    /\ seen'  = [seen EXCEPT ![h] = s]
    /\ draft' = [draft EXCEPT ![h] = 0]

Finish(h) ==
    /\ pc'    = [pc EXCEPT ![h] = "idle"]
    /\ work'  = [work EXCEPT ![h] = NoDelivery]
    /\ seen'  = [seen EXCEPT ![h] = "none"]
    /\ draft' = [draft EXCEPT ![h] = 0]

Fault == faults < MaxFaults /\ faults' = faults + 1

\* Fault: the compare is lost.
ClaimOutboxUnchecked(d, expected, next) ==
    /\ state' = [state EXCEPT ![d] = next]
    /\ lease' = [lease EXCEPT ![d] = TRUE]

\* claimOutbox, where the condition is the compare of its compare-and-set.
ClaimOutbox(d, expected, next) ==
    /\ state[d] = expected
    /\ state' = [state EXCEPT ![d] = next]
    /\ lease' = [lease EXCEPT ![d] = TRUE]

\* clearOutboxLease overwrites the state, whatever it is by then.
ClearOutboxLease(d, s) ==
    /\ state' = [state EXCEPT ![d] = s]
    /\ lease' = [lease EXCEPT ![d] = FALSE]
    /\ UNCHANGED draftId

\* notifyAdminFallback takes its key once, and only then calls Telegram.
NotifyAdminFallback(h, kind, d) ==
    IF alerts[<<kind, d>>] = "none"
    THEN /\ alerts' = [alerts EXCEPT ![<<kind, d>>] = "reserved"]
         /\ pc'   = [pc EXCEPT ![h] = AlertPc[kind]]
         /\ work' = [work EXCEPT ![h] = d]
         /\ UNCHANGED <<seen, draft>>
    ELSE UNCHANGED alerts /\ Finish(h)

\* Fault: the state is misspelt.
LeaveMisspelt(h) ==
    /\ ClearOutboxLease(work[h], "delivery-unknown")
    /\ Finish(h)
    /\ UNCHANGED book

\* The outcome is not known: the row is left for reconcileUnknown.
LeaveUnknown(h) ==
    /\ ClearOutboxLease(work[h], "delivery_unknown")
    /\ Finish(h)
    /\ UNCHANGED book

\* The row is declared not sent and the administrator is told.
Refuse(h) ==
    /\ ClearOutboxLease(work[h], "failed_not_sent")
    /\ NotifyAdminFallback(h, "failed", work[h])
    /\ UNCHANGED <<age, warned, notified>>

\* markSent: the state is guarded, last_notified_state_version is not.
MarkSent(h) ==
    LET d == work[h] IN
    /\ IF state[d] \in {"sending", "reconciling"}
       THEN /\ state' = [state EXCEPT ![d] = "sent_verified"]
            /\ lease' = [lease EXCEPT ![d] = FALSE]
       ELSE UNCHANGED <<state, lease>>
    /\ notified' = [notified EXCEPT ![d] = TRUE]
    /\ Finish(h)
    /\ UNCHANGED <<draftId, age, alerts, warned>>

-----------------------------------------------------------------------------
(* reserveDecision.  The quota counts every row of the last 24 hours.  The *)
(* last branch, which warns, is taken when the new row is neither pending  *)
(* nor refused.                                                            *)

\* Fault: refused rows and rows past the grace period are not counted.
InShortWindow == {d \in Deliveries : state[d] \in Pending /\ age[d] < 1}

InWindow == {d \in Deliveries : state[d] # "none" /\ age[d] < 2}

Reserve(h, d) ==
    LET refused == Cardinality(InWindow) >= MaxMails \/ ~MailConfigured
        first   == IF refused THEN "failed_not_sent" ELSE "reserved"
    IN
    /\ pc[h] = "idle" /\ state[d] = "none"
    /\ state' = [state EXCEPT ![d] = first]
    /\ IF first \in Pending
       THEN Begin(h, d, first) /\ UNCHANGED <<alerts, warned>>
       ELSE IF refused
       THEN NotifyAdminFallback(h, "failed", d) /\ UNCHANGED warned
       ELSE /\ warned' = (warned \/ Cardinality(InWindow) + 1 >= WarnMails)
            /\ UNCHANGED <<alerts, local>>
    /\ UNCHANGED <<draftId, lease, age, notified, mailbox, faults>>

\* A decision repeated, or a row selected by reconcileUnknownRows: the
\* request holds the state it read, which may be stale when it acts.
Pick(h, d) ==
    /\ pc[h] = "idle" /\ state[d] \in Pending
    /\ Begin(h, d, state[d])
    /\ UNCHANGED <<row, book, mailbox, faults>>

\* advanceOutbox dispatches on the state read, and each branch begins with a
\* transaction on the state the row has now.
AdvanceReserved(h) ==
    LET d == work[h] IN
    /\ pc[h] = "advance" /\ seen[h] = "reserved"
    /\ \/ ClaimOutbox(d, "reserved", "draft_creating") /\ Goto(h, "create_token")
       \/ state[d] # "reserved" /\ Finish(h) /\ UNCHANGED <<state, lease>>
    /\ UNCHANGED <<draftId, book, mailbox, faults>>

AdvanceReady(h) ==
    LET d == work[h] IN
    /\ pc[h] = "advance" /\ seen[h] = "draft_ready"
    /\ \/ /\ ClaimOutbox(d, "draft_ready", "sending")
          /\ pc'    = [pc EXCEPT ![h] = "send_token"]
          /\ draft' = [draft EXCEPT ![h] = draftId[d]]
          /\ UNCHANGED <<work, seen>>
       \/ state[d] # "draft_ready" /\ Finish(h) /\ UNCHANGED <<state, lease>>
    /\ UNCHANGED <<draftId, book, mailbox, faults>>

AdvanceUnknown(h) ==
    LET d == work[h] IN
    /\ pc[h] = "advance" /\ seen[h] \in Unknowns
    /\ IF state[d] \in Unknowns /\ ~lease[d]
       THEN /\ state' = [state EXCEPT ![d] = "reconciling"]
            /\ lease' = [lease EXCEPT ![d] = TRUE]
            /\ Goto(h, "rec_sent")
       ELSE Finish(h) /\ UNCHANGED <<state, lease>>
    /\ UNCHANGED <<draftId, book, mailbox, faults>>

-----------------------------------------------------------------------------
(* createDraft after its claim.                                            *)

CreatePost(h) ==
    /\ pc[h] = "create_token"
    /\ Goto(h, "create_wait")
    /\ UNCHANGED <<row, book, mailbox, faults>>

\* No token for a definite reason (definitePreSendFailure), or an answer
\* below 500 that is not 429: nothing reached Gmail.
CreateRefused(h) ==
    /\ pc[h] \in {"create_token", "create_wait"}
    /\ Refuse(h)
    /\ Fault /\ UNCHANGED mailbox

\* A transport error, 5xx, 429, an answer without an id.  A call that was
\* posted may have been executed already, or be executed later.
CreateLost(h) ==
    /\ pc[h] \in CreatePcs
    /\ LeaveUnknown(h)
    /\ \/ stray' = stray
       \/ pc[h] = "create_wait" /\ stray' = stray \cup {Posted(h)}
    /\ Fault /\ UNCHANGED <<created, drafts, sent>>

\* Fault: the draft is adopted without its identity.
AdoptNameless(d, n) ==
    /\ state' = [state EXCEPT ![d] = "draft_ready"]
    /\ lease' = [lease EXCEPT ![d] = FALSE]
    /\ UNCHANGED draftId

\* The draft exists: the row adopts it if it still waits for it, and
\* sendDraft follows if the row is ready with this very draft.
Adopt(d, n) ==
    /\ state'   = [state EXCEPT ![d] = "draft_ready"]
    /\ draftId' = [draftId EXCEPT ![d] = n]
    /\ lease'   = [lease EXCEPT ![d] = FALSE]

ThenSend(h) == Begin(h, work[h], "draft_ready")

CreateAnswered(h) ==
    LET d == work[h]  n == draft[h] IN
    /\ pc[h] = "create_done"
    /\ \/ state[d] = "draft_creating" /\ Adopt(d, n) /\ ThenSend(h)
       \/ state[d] # "draft_creating" /\ UNCHANGED row
          /\ IF state[d] = "draft_ready" /\ draftId[d] = n THEN ThenSend(h) ELSE Finish(h)
    /\ UNCHANGED <<book, mailbox, faults>>

-----------------------------------------------------------------------------
(* sendDraft after its claim.                                              *)

SendPost(h) ==
    /\ pc[h] = "send_token"
    /\ Goto(h, "send_wait")
    /\ UNCHANGED <<row, book, mailbox, faults>>

SendRefused(h) ==
    /\ pc[h] \in {"send_token", "send_wait"}
    /\ Refuse(h)
    /\ Fault /\ UNCHANGED mailbox

\* Fault: a lost answer is taken for an accepted mail.
SendAssumed(h) ==
    /\ pc[h] \in SendPcs \ {"send_gone"}
    /\ MarkSent(h)
    /\ Fault /\ UNCHANGED mailbox

SendLost(h) ==
    /\ pc[h] \in SendPcs \ {"send_gone"}
    /\ LeaveUnknown(h)
    /\ \/ stray' = stray
       \/ pc[h] = "send_wait" /\ stray' = stray \cup {Posted(h)}
    /\ Fault /\ UNCHANGED <<created, drafts, sent>>

\* Gmail has no such draft any more (404): it may have been sent.
SendGone(h) ==
    /\ pc[h] = "send_gone"
    /\ LeaveUnknown(h)
    /\ UNCHANGED <<mailbox, faults>>

\* The sent copy was read back with the Message-ID of the row.
SendAnswered(h) ==
    /\ pc[h] = "send_done"
    /\ MarkSent(h)
    /\ UNCHANGED <<mailbox, faults>>

-----------------------------------------------------------------------------
(* reconcileUnknown after its claim: search the sent mail, then the drafts,*)
(* by the Message-ID.  A search may miss what the mailbox holds, which is  *)
(* counted as a fault.                                                     *)

ReconcileError(h) ==
    /\ pc[h] \in RecPcs
    /\ LeaveUnknown(h)
    /\ Fault /\ UNCHANGED mailbox

FoundSent(h) ==
    /\ pc[h] = "rec_sent" /\ sent[work[h]] # {}
    /\ MarkSent(h)
    /\ UNCHANGED <<mailbox, faults>>

NotFoundSent(h) ==
    /\ pc[h] = "rec_sent"
    /\ IF sent[work[h]] # {} THEN Fault ELSE UNCHANGED faults
    /\ Goto(h, "rec_drafts")
    /\ UNCHANGED <<row, book, mailbox>>

\* Exactly one draft: resume it.  sendDraft follows even when the guarded
\* update found the row in another state.  Several drafts: give up.
ResumeDraft(h, n) ==
    /\ IF state[work[h]] = "reconciling" THEN Adopt(work[h], n) ELSE UNCHANGED row
    /\ ThenSend(h)
    /\ UNCHANGED book

FoundDraft(h) ==
    /\ pc[h] = "rec_drafts"
    /\ \E n \in drafts[work[h]] :
          IF drafts[work[h]] = {n} THEN ResumeDraft(h, n) ELSE LeaveUnknown(h)
    /\ UNCHANGED <<mailbox, faults>>

\* Fault: what is not found is built again.
NotFoundRebuild(h) ==
    /\ pc[h] = "rec_drafts"
    /\ IF drafts[work[h]] # {} THEN Fault ELSE UNCHANGED faults
    /\ ClearOutboxLease(work[h], "reserved")
    /\ Finish(h)
    /\ UNCHANGED <<book, mailbox>>

\* Fault: the administrator is not told.
NotFoundSilent(h) ==
    /\ pc[h] = "rec_drafts"
    /\ IF drafts[work[h]] # {} THEN Fault ELSE UNCHANGED faults
    /\ LeaveUnknown(h)
    /\ UNCHANGED mailbox

NotFoundDraft(h) ==
    LET d == work[h] IN
    /\ pc[h] = "rec_drafts"
    /\ IF drafts[d] # {} THEN Fault ELSE UNCHANGED faults
    /\ ClearOutboxLease(d, "delivery_unknown")
    /\ IF age[d] >= 1 THEN NotifyAdminFallback(h, "unknown", d)
                      ELSE UNCHANGED alerts /\ Finish(h)
    /\ UNCHANGED <<age, warned, notified, mailbox>>

\* Telegram answered notifyAdminFallback, or its secrets are missing; no status
\* is ever retried.
AlertAnswered(h) ==
    LET kind == CHOOSE k \in AlertKinds : AlertPc[k] = pc[h] IN
    /\ pc[h] \in AlertPcs
    /\ \E s \in AlertOutcomes :
          alerts' = [alerts EXCEPT ![<<kind, work[h]>>] = s]
    /\ Finish(h)
    /\ UNCHANGED <<row, age, warned, notified, mailbox, faults>>

-----------------------------------------------------------------------------
(* Gmail, time, and the platform.                                          *)

CreateEffect(d) ==
    /\ created' = [created EXCEPT ![d] = @ + 1]
    /\ drafts'  = [drafts EXCEPT ![d] = @ \cup {created[d] + 1}]
    /\ UNCHANGED sent

\* drafts.send consumes the draft.
SendEffect(d, n) ==
    /\ drafts' = [drafts EXCEPT ![d] = @ \ {n}]
    /\ sent'   = [sent EXCEPT ![d] = IF n \in drafts[d] THEN @ \cup {n} ELSE @]
    /\ UNCHANGED created

GmailCreates(h) ==
    /\ pc[h] = "create_wait"
    /\ CreateEffect(work[h])
    /\ pc'    = [pc EXCEPT ![h] = "create_done"]
    /\ draft' = [draft EXCEPT ![h] = created[work[h]] + 1]
    /\ UNCHANGED <<work, seen>>
    /\ UNCHANGED <<row, book, stray, faults>>

GmailSends(h) ==
    /\ pc[h] = "send_wait"
    /\ SendEffect(work[h], draft[h])
    /\ Goto(h, IF draft[h] \in drafts[work[h]] THEN "send_done" ELSE "send_gone")
    /\ UNCHANGED <<row, book, stray, faults>>

StrayArrives ==
    /\ \E c \in stray :
          /\ stray' = stray \ {c}
          /\ IF c.op = "create" THEN CreateEffect(c.d) ELSE SendEffect(c.d, c.draft)
    /\ UNCHANGED <<row, book, local, faults>>

\* Every call is cut after 10 s and createDraft and sendDraft make at most
\* three under one lease of 60 s, so a lease ends only when no request is in
\* one of them.  reconcileUnknown may make 22 calls and can outlive its lease.
LeaseExpires(d) ==
    /\ lease[d]
    /\ \A h \in Handlers : work[h] = d => pc[h] \notin CreatePcs \cup SendPcs
    /\ lease' = [lease EXCEPT ![d] = FALSE]
    /\ UNCHANGED <<state, draftId, book, local, mailbox, faults>>

Ages(d) ==
    /\ state[d] # "none" /\ age[d] < 2
    /\ age' = [age EXCEPT ![d] = @ + 1]
    /\ UNCHANGED <<row, alerts, warned, notified, local, mailbox, faults>>

\* The object is evicted: requests end, calls already posted may still arrive.
Evicted ==
    /\ \E h \in Handlers : pc[h] # "idle"
    /\ pc'    = [h \in Handlers |-> "idle"]
    /\ work'  = [h \in Handlers |-> NoDelivery]
    /\ seen'  = [h \in Handlers |-> "none"]
    /\ draft' = [h \in Handlers |-> 0]
    /\ \E lost \in SUBSET {h \in Handlers : pc[h] \in {"create_wait", "send_wait"}} :
          stray' = stray \cup {Posted(h) : h \in lost}
    /\ Fault /\ UNCHANGED <<row, book, created, drafts, sent>>

-----------------------------------------------------------------------------
CreateStep(h) == CreatePost(h) \/ CreateRefused(h) \/ CreateLost(h) \/ CreateAnswered(h)
SendStep(h)   == \/ SendPost(h) \/ SendRefused(h) \/ SendLost(h)
                 \/ SendGone(h) \/ SendAnswered(h)
RecStep(h)    == \/ ReconcileError(h) \/ FoundSent(h) \/ NotFoundSent(h)
                 \/ FoundDraft(h) \/ NotFoundDraft(h)
Advance(h)    == AdvanceReserved(h) \/ AdvanceReady(h) \/ AdvanceUnknown(h)
Gmail(h)      == GmailCreates(h) \/ GmailSends(h)

\* A request that has begun keeps running, with Gmail and Telegram answering.
Runs(h) == Advance(h) \/ CreateStep(h) \/ SendStep(h) \/ RecStep(h)
             \/ AlertAnswered(h) \/ Gmail(h)

Next ==
    \/ \E h \in Handlers, d \in Deliveries : Reserve(h, d) \/ Pick(h, d)
    \/ \E h \in Handlers : Runs(h)
    \/ StrayArrives \/ Evicted
    \/ \E d \in Deliveries : LeaseExpires(d) \/ Ages(d)

Spec == Init /\ [][Next]_vars

\* Requests that began make progress, time passes, and each tick visits every
\* pending row.  Nothing is assumed of calls that were given up on, and an
\* endless outage is excluded by the bound on faults.
Fairness ==
    /\ \A h \in Handlers : WF_vars(Runs(h))
    /\ \A d \in Deliveries : /\ WF_vars(LeaseExpires(d))
                             /\ WF_vars(Ages(d))
                             /\ SF_vars(\E h \in Handlers : Pick(h, d))

FairSpec == Spec /\ Fairness

-----------------------------------------------------------------------------
(* Properties.                                                             *)

\* Every variable stays in its domain.
RowType ==
    /\ state    \in [Deliveries -> RowStates]
    /\ draftId  \in [Deliveries -> Nat]
    /\ lease    \in [Deliveries -> BOOLEAN]
BookType ==
    /\ age      \in [Deliveries -> 0 .. 2]
    /\ alerts   \in [AlertKinds \X Deliveries -> AlertStatuses]
    /\ warned   \in BOOLEAN
    /\ notified \in [Deliveries -> BOOLEAN]
LocalType ==
    /\ pc    \in [Handlers -> Pcs]
    /\ work  \in [Handlers -> Deliveries \cup {NoDelivery}]
    /\ seen  \in [Handlers -> RowStates]
    /\ draft \in [Handlers -> Nat]
MailboxType ==
    /\ created \in [Deliveries -> Nat]
    /\ drafts  \in [Deliveries -> SUBSET Nat]
    /\ sent    \in [Deliveries -> SUBSET Nat]
    /\ stray   \subseteq [op : {"create", "send"}, d : Deliveries, draft : Nat]

TypeOK == RowType /\ BookType /\ LocalType /\ MailboxType /\ faults \in Nat

\* "Never build a second draft with a new identity": whatever requests race,
\* whatever is lost or late, Gmail is asked for one draft per decision at most.
OneDraft == \A d \in Deliveries : created[d] <= 1

\* A row is marked sent, and its incident versions notified, only when the
\* message is in the sent mail.
CreditedIsSent ==
    \A d \in Deliveries : notified[d] \/ state[d] = "sent_verified" => sent[d] # {}

\* A row that is ready or being sent names the draft of this decision, so the
\* branch of sendDraft for a missing draft_id is never taken.
ReadyHasDraft ==
    \A d \in Deliveries : state[d] \in {"draft_ready", "sending"} => draftId[d] \in 1 .. created[d]

\* The decisions of the last 24 hours that reached Gmail are within the quota,
\* however the refused ones and the pending ones are counted.
WithinQuota == Cardinality({d \in Deliveries : age[d] < 2 /\ created[d] > 0}) <= MaxMails

\* The outbox implements OnceOnlyMail: the recipient gets each decision at
\* most once, and no incident version is credited without its mail.
Mail == INSTANCE OnceOnlyMail WITH
            Decisions <- Deliveries,
            taken     <- {d \in Deliveries : state[d] # "none"},
            mailed    <- sent,
            credited  <- {d \in Deliveries : notified[d]}
KeepsPromise == Mail!Promise

\* Every decision ends as verified, as refused, or with an alert raised about
\* it: a row is never left pending for ever without one.  (Whether Telegram
\* took the alert is not promised: notifyAdminFallback raises it once.)
Settled(d) == state[d] \in {"sent_verified", "failed_not_sent"}
                \/ alerts[<<"unknown", d>>] # "none"
EveryDecisionSettles == \A d \in Deliveries : state[d] # "none" ~> Settled(d)
=============================================================================
