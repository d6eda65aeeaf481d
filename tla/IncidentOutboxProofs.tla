------------------------ MODULE IncidentOutboxProofs ------------------------
(***************************************************************************)
(* One draft and one mail per decision, for any set of decisions, any      *)
(* number of concurrent requests and any number of faults.                 *)
(*                                                                         *)
(* The right to create the draft exists once and is handed on: it lies in  *)
(* a row still reserved, then with the request that claimed the row, then  *)
(* perhaps with a call its client gave up on, and is spent when Gmail      *)
(* creates the draft.  CreateRight says it never exists twice.  A decision *)
(* that holds it or has spent it is admitted, and counts for the quota.    *)
(***************************************************************************)
EXTENDS IncidentOutbox, FiniteSetTheorems, TLAPS

\* A request in progress works on a row that exists.
Working == \A h \in Handlers : pc[h] # "idle" =>
              work[h] \in Deliveries /\ state[work[h]] # "none"

Creating(h, d)  == pc[h] \in {"create_token", "create_wait"} /\ work[h] = d
StrayCreate(d)  == \E c \in stray : c.op = "create" /\ c.d = d
Unclaimed(d)    == state[d] \in {"none", "reserved"}

\* A row not yet claimed has no draft and nobody to create one ...
FreshRow == \A d \in Deliveries : Unclaimed(d) =>
    /\ created[d] = 0 /\ ~StrayCreate(d)
    /\ \A h \in Handlers : ~Creating(h, d)

\* ... a request that is creating is the only one, and nothing came before it ...
SoleCreator == \A d \in Deliveries, h \in Handlers : Creating(h, d) =>
    /\ created[d] = 0 /\ ~StrayCreate(d)
    /\ \A g \in Handlers : Creating(g, d) => g = h

\* ... and so is a creating call that was given up on.
SoleStray == \A d \in Deliveries : StrayCreate(d) => created[d] = 0

CreateRight == FreshRow /\ SoleCreator /\ SoleStray

StrayShape == \A c \in stray : c.op = "create" => c.draft = 0

\* A draft is in the drafts, or was sent, or does not exist.
Boxes == \A d \in Deliveries :
    /\ drafts[d] \subseteq 1 .. created[d]
    /\ sent[d] \subseteq 1 .. created[d]
    /\ drafts[d] \cap sent[d] = {}

\* What a request was told by Gmail is true.
Answers == \A h \in Handlers :
    /\ pc[h] = "create_done" => draft[h] \in 1 .. created[work[h]]
    /\ pc[h] = "send_done" => sent[work[h]] # {}

IInv == /\ TypeOK /\ Working /\ OneDraft /\ CreateRight /\ StrayShape
        /\ Boxes /\ Answers /\ CreditedIsSent /\ ReadyHasDraft

-----------------------------------------------------------------------------
\* The places of a request, and which of them matter to the invariant.
LEMMA PcNames ==
  /\ {"idle", "advance"} \cup CreatePcs \cup SendPcs \cup RecPcs \cup AlertPcs = Pcs
  /\ CreatePcs = {"create_token", "create_wait", "create_done"}
  /\ SendPcs = {"send_token", "send_wait", "send_done", "send_gone"}
  /\ RecPcs = {"rec_sent", "rec_drafts"}
  /\ AlertPcs = {"alert_failed", "alert_unknown"}
  /\ "failed" \in AlertKinds /\ "unknown" \in AlertKinds
  /\ "reserved" \in AlertStatuses /\ AlertOutcomes \subseteq AlertStatuses
  BY DEF Pcs, CreatePcs, SendPcs, RecPcs, AlertPcs, AlertKinds, AlertStatuses

\* The states of a row, and that no pending row is unclaimed but a reserved one.
LEMMA StateNames ==
  /\ {"reserved", "draft_creating", "draft_ready", "sending", "reconciling",
      "delivery_unknown", "failed_not_sent", "sent_verified", "none"} \subseteq RowStates
  /\ {"none", "failed_not_sent", "sent_verified"} \cap Pending = {}
  /\ {"none", "reserved"} \cap Unknowns = {}
  /\ "reserved" \in Pending
  BY DEF RowStates, Pending, Unknowns

\* The rows, requests and mailbox of an object never used satisfy the invariant.
LEMMA InitIInv == Init => IInv
<1> SUFFICES ASSUME Init PROVE IInv
  OBVIOUS
<1> USE DEF Init
<1>1. TypeOK
  <2>1. RowType
    BY StateNames DEF RowType
  <2>2. BookType
    <3>1. "none" \in AlertStatuses /\ 0 \in 0 .. 2
      BY DEF AlertStatuses
    <3>2. alerts \in [AlertKinds \X Deliveries -> AlertStatuses]
      BY <3>1
    <3> QED BY <3>1, <3>2 DEF BookType
  <2>3. LocalType
    BY PcNames, StateNames DEF LocalType
  <2>4. MailboxType
    BY DEF MailboxType
  <2> QED BY <2>1, <2>2, <2>3, <2>4 DEF TypeOK
<1>2. Working /\ OneDraft /\ CreateRight /\ StrayShape
  BY DEF Working, OneDraft, CreateRight, FreshRow, SoleCreator, SoleStray, StrayShape,
         StrayCreate, Creating
<1>3. Boxes /\ Answers /\ CreditedIsSent /\ ReadyHasDraft
  BY DEF Boxes, Answers, CreditedIsSent, ReadyHasDraft
<1> QED BY <1>1, <1>2, <1>3 DEF IInv

\* A new row has no draft, and nobody creates one: FreshRow starts to hold for it.
LEMMA ReserveKeeps ==
  ASSUME IInv, NEW h \in Handlers, NEW d \in Deliveries, Reserve(h, d)
  PROVE  IInv'
<1> USE DEF IInv, TypeOK, CreateRight, Reserve, NotifyAdminFallback, Begin, Finish, mailbox, local
<1>1. RowType'
  BY PcNames, StateNames DEF RowType, AlertPc
<1>2. BookType'
  BY PcNames, StateNames DEF BookType, AlertPc
<1>3. LocalType'
  BY PcNames, StateNames DEF LocalType, Working, MailboxType, RowType, AlertPc
<1>4. MailboxType'
  BY PcNames, StateNames DEF MailboxType, LocalType, Working, AlertPc
<1>5. (faults \in Nat)'
  BY PcNames, StateNames DEF AlertPc
<1>6. Working'
  BY PcNames, StateNames DEF RowType, LocalType, MailboxType, Working, AlertPc
<1>7. (OneDraft /\ FreshRow /\ SoleCreator /\ SoleStray /\ StrayShape)'
  BY PcNames, StateNames DEF RowType, LocalType, MailboxType, Working, OneDraft, CreateRight, StrayShape, Creating, StrayCreate, FreshRow, Unclaimed, SoleCreator, SoleStray, AlertPc
<1>8. (Boxes /\ Answers /\ CreditedIsSent /\ ReadyHasDraft)'
  BY PcNames, StateNames DEF RowType, LocalType, MailboxType, Working, Boxes, Answers, CreditedIsSent, ReadyHasDraft, AlertPc
<1> QED BY <1>1, <1>2, <1>3, <1>4, <1>5, <1>6, <1>7, <1>8

\* reconcileUnknownRows and a repeated decision only read the row.
LEMMA PickKeeps ==
  ASSUME IInv, NEW h \in Handlers, NEW d \in Deliveries, Pick(h, d)
  PROVE  IInv'
<1> USE DEF IInv, TypeOK, CreateRight, Pick, Begin, row, book, mailbox
<1>1. (RowType /\ BookType /\ LocalType /\ MailboxType /\ faults \in Nat)'
  BY PcNames, StateNames DEF RowType, BookType, LocalType, Working, MailboxType
<1>2. Working'
  BY PcNames, StateNames DEF RowType, LocalType, MailboxType, Working
<1>3. (OneDraft /\ FreshRow /\ SoleCreator /\ SoleStray /\ StrayShape)'
  BY PcNames, StateNames DEF RowType, LocalType, MailboxType, Working, OneDraft, CreateRight, StrayShape, Creating, StrayCreate, FreshRow, Unclaimed, SoleCreator, SoleStray
<1>4. (Boxes /\ Answers /\ CreditedIsSent /\ ReadyHasDraft)'
  BY PcNames, StateNames DEF RowType, LocalType, MailboxType, Working, Boxes, Answers, CreditedIsSent, ReadyHasDraft
<1> QED BY <1>1, <1>2, <1>3, <1>4

\* The claim turns a row nobody is creating for into one creating request: the
\* compare of claimOutbox is what keeps SoleCreator.
LEMMA AdvanceReservedKeeps ==
  ASSUME IInv, NEW h \in Handlers, AdvanceReserved(h)
  PROVE  IInv'
<1> USE DEF IInv, TypeOK, CreateRight, AdvanceReserved, ClaimOutbox, Goto, Finish, book, mailbox
<1>1. RowType'
  BY PcNames, StateNames DEF RowType
<1>2. BookType'
  BY PcNames, StateNames DEF BookType
<1>3. LocalType'
  BY PcNames, StateNames DEF LocalType, Working, MailboxType, RowType
<1>4. MailboxType'
  BY PcNames, StateNames DEF MailboxType, LocalType, Working
<1>5. (faults \in Nat)'
  BY PcNames, StateNames
<1>6. Working'
  BY PcNames, StateNames DEF RowType, LocalType, MailboxType, Working
<1>7. (OneDraft /\ FreshRow /\ SoleCreator /\ SoleStray /\ StrayShape)'
  BY PcNames, StateNames DEF RowType, LocalType, MailboxType, Working, OneDraft, CreateRight, StrayShape, Creating, StrayCreate, FreshRow, Unclaimed, SoleCreator, SoleStray
<1>8. (Boxes /\ Answers /\ CreditedIsSent /\ ReadyHasDraft)'
  BY PcNames, StateNames DEF RowType, LocalType, MailboxType, Working, Boxes, Answers, CreditedIsSent, ReadyHasDraft
<1> QED BY <1>1, <1>2, <1>3, <1>4, <1>5, <1>6, <1>7, <1>8

\* A ready row names its draft, so the request that claims it sends that draft.
LEMMA AdvanceReadyKeeps ==
  ASSUME IInv, NEW h \in Handlers, AdvanceReady(h)
  PROVE  IInv'
<1> USE DEF IInv, TypeOK, CreateRight, AdvanceReady, ClaimOutbox, Finish, book, mailbox
<1>1. RowType'
  <2>1. CASE state[work[h]] = "draft_ready"
    <3>1. "sending" \in RowStates
      BY StateNames
    <3>2. /\ state' = [state EXCEPT ![work[h]] = "sending"]
          /\ lease' = [lease EXCEPT ![work[h]] = TRUE]
          /\ draftId' = draftId
      BY <2>1
    <3> QED BY <3>1, <3>2 DEF RowType
  <2>2. CASE state[work[h]] # "draft_ready"
    BY <2>2 DEF RowType
  <2> QED BY <2>1, <2>2
<1>2. BookType'
  BY PcNames, StateNames DEF BookType
<1>3. LocalType'
  BY PcNames, StateNames DEF LocalType, Working, MailboxType, RowType
<1>4. MailboxType'
  BY PcNames, StateNames DEF MailboxType, LocalType, Working
<1>5. (faults \in Nat)'
  BY PcNames, StateNames
<1>6. Working'
  BY PcNames, StateNames DEF RowType, LocalType, MailboxType, Working
<1>7. (OneDraft /\ FreshRow /\ SoleCreator /\ SoleStray /\ StrayShape)'
  BY PcNames, StateNames DEF RowType, LocalType, MailboxType, Working, OneDraft, CreateRight, StrayShape, Creating, StrayCreate, FreshRow, Unclaimed, SoleCreator, SoleStray
<1>8. (Boxes /\ Answers /\ CreditedIsSent /\ ReadyHasDraft)'
  BY PcNames, StateNames DEF RowType, LocalType, MailboxType, Working, Boxes, Answers, CreditedIsSent, ReadyHasDraft
<1> QED BY <1>1, <1>2, <1>3, <1>4, <1>5, <1>6, <1>7, <1>8

\* reconcileUnknown claims the row without touching drafts or requests.
LEMMA AdvanceUnknownKeeps ==
  ASSUME IInv, NEW h \in Handlers, AdvanceUnknown(h)
  PROVE  IInv'
<1> USE DEF IInv, TypeOK, CreateRight, AdvanceUnknown, Goto, Finish, book, mailbox
<1>1. RowType'
  BY PcNames, StateNames DEF RowType
<1>2. BookType'
  BY PcNames, StateNames DEF BookType
<1>3. LocalType'
  BY PcNames, StateNames DEF LocalType, Working, MailboxType, RowType
<1>4. MailboxType'
  BY PcNames, StateNames DEF MailboxType, LocalType, Working
<1>5. (faults \in Nat)'
  BY PcNames, StateNames
<1>6. Working'
  BY PcNames, StateNames DEF RowType, LocalType, MailboxType, Working
<1>7. (OneDraft /\ FreshRow /\ SoleCreator /\ SoleStray /\ StrayShape)'
  BY PcNames, StateNames DEF RowType, LocalType, MailboxType, Working, OneDraft, CreateRight, StrayShape, Creating, StrayCreate, FreshRow, Unclaimed, SoleCreator, SoleStray
<1>8. (Boxes /\ Answers /\ CreditedIsSent /\ ReadyHasDraft)'
  BY PcNames, StateNames DEF RowType, LocalType, MailboxType, Working, Boxes, Answers, CreditedIsSent, ReadyHasDraft
<1> QED BY <1>1, <1>2, <1>3, <1>4, <1>5, <1>6, <1>7, <1>8

\* Posting drafts.create hands the right to create to Gmail and to no one else.
LEMMA CreatePostKeeps ==
  ASSUME IInv, NEW h \in Handlers, CreatePost(h)
  PROVE  IInv'
<1> USE DEF IInv, TypeOK, CreateRight, CreatePost, Goto, row, book, mailbox
<1>1. (RowType /\ BookType /\ LocalType /\ MailboxType /\ faults \in Nat)'
  BY PcNames, StateNames DEF RowType, BookType, LocalType, Working, MailboxType
<1>2. Working'
  BY PcNames, StateNames DEF RowType, LocalType, MailboxType, Working
<1>3. (OneDraft /\ FreshRow /\ SoleCreator /\ SoleStray /\ StrayShape)'
  BY PcNames, StateNames DEF RowType, LocalType, MailboxType, Working, OneDraft, CreateRight, StrayShape, Creating, StrayCreate, FreshRow, Unclaimed, SoleCreator, SoleStray
<1>4. (Boxes /\ Answers /\ CreditedIsSent /\ ReadyHasDraft)'
  BY PcNames, StateNames DEF RowType, LocalType, MailboxType, Working, Boxes, Answers, CreditedIsSent, ReadyHasDraft
<1> QED BY <1>1, <1>2, <1>3, <1>4

\* A refused create gives up the right to create; the row is closed.
LEMMA CreateRefusedKeeps ==
  ASSUME IInv, NEW h \in Handlers, CreateRefused(h)
  PROVE  IInv'
<1> USE DEF IInv, TypeOK, CreateRight, CreateRefused, Refuse, ClearOutboxLease, NotifyAdminFallback, Finish, Fault, mailbox
<1>1. RowType'
  BY PcNames, StateNames DEF RowType, AlertPc
<1>2. BookType'
  BY PcNames, StateNames DEF BookType, AlertPc
<1>3. LocalType'
  BY PcNames, StateNames DEF LocalType, Working, MailboxType, RowType, AlertPc
<1>4. MailboxType'
  BY PcNames, StateNames DEF MailboxType, LocalType, Working, AlertPc
<1>5. (faults \in Nat)'
  BY PcNames, StateNames DEF AlertPc
<1>6. Working'
  BY PcNames, StateNames DEF RowType, LocalType, MailboxType, Working, AlertPc
<1>7. OneDraft'
  BY PcNames, StateNames DEF RowType, LocalType, MailboxType, Working, OneDraft, CreateRight, StrayShape, Creating, StrayCreate, AlertPc
<1>8. FreshRow'
  BY PcNames, StateNames DEF RowType, LocalType, MailboxType, Working, FreshRow, Creating, StrayCreate, Unclaimed, AlertPc
<1>9. SoleCreator'
  BY PcNames, StateNames DEF RowType, LocalType, MailboxType, Working, FreshRow, SoleCreator, Creating, StrayCreate, Unclaimed, AlertPc
<1>10. SoleStray'
  BY PcNames, StateNames DEF RowType, LocalType, MailboxType, Working, SoleCreator, SoleStray, StrayShape, Creating, StrayCreate, Unclaimed, AlertPc
<1>11. StrayShape'
  BY PcNames, StateNames DEF RowType, LocalType, MailboxType, StrayShape, AlertPc
<1>12. (Boxes /\ Answers /\ CreditedIsSent /\ ReadyHasDraft)'
  BY PcNames, StateNames DEF RowType, LocalType, MailboxType, Working, Boxes, Answers, CreditedIsSent, ReadyHasDraft, AlertPc
<1> QED BY <1>1, <1>2, <1>3, <1>4, <1>5, <1>6, <1>7, <1>8, <1>9, <1>10, <1>11, <1>12

\* A lost create may leave the right to create with a stray call, never copy it.
LEMMA CreateLostKeeps ==
  ASSUME IInv, NEW h \in Handlers, CreateLost(h)
  PROVE  IInv'
<1> USE DEF IInv, TypeOK, CreateRight, CreateLost, LeaveUnknown, ClearOutboxLease, Finish, Posted, Fault, book
<1>1. (RowType /\ BookType /\ LocalType /\ MailboxType /\ faults \in Nat)'
  BY PcNames, StateNames DEF RowType, BookType, LocalType, Working, MailboxType
<1>2. Working'
  BY PcNames, StateNames DEF RowType, LocalType, MailboxType, Working
<1>3. (OneDraft /\ FreshRow /\ SoleCreator /\ SoleStray /\ StrayShape)'
  BY PcNames, StateNames DEF RowType, LocalType, MailboxType, Working, OneDraft, CreateRight, StrayShape, Creating, StrayCreate, FreshRow, Unclaimed, SoleCreator, SoleStray
<1>4. (Boxes /\ Answers /\ CreditedIsSent /\ ReadyHasDraft)'
  BY PcNames, StateNames DEF RowType, LocalType, MailboxType, Working, Boxes, Answers, CreditedIsSent, ReadyHasDraft
<1> QED BY <1>1, <1>2, <1>3, <1>4

\* The row adopts the draft that Gmail answered with.
LEMMA CreateAnsweredKeeps ==
  ASSUME IInv, NEW h \in Handlers, CreateAnswered(h)
  PROVE  IInv'
<1> USE DEF IInv, TypeOK, CreateRight, CreateAnswered, Adopt, ThenSend, Begin, Finish, row, book, mailbox
<1>1. RowType'
  <2>1. CASE state[work[h]] = "draft_creating"
    <3>1. "draft_ready" \in RowStates /\ draft[h] \in Nat
      BY StateNames DEF LocalType
    <3>2. /\ state' = [state EXCEPT ![work[h]] = "draft_ready"]
          /\ draftId' = [draftId EXCEPT ![work[h]] = draft[h]]
          /\ lease' = [lease EXCEPT ![work[h]] = FALSE]
      BY <2>1
    <3> QED BY <3>1, <3>2 DEF RowType
  <2>2. CASE state[work[h]] # "draft_creating"
    BY <2>2 DEF RowType
  <2> QED BY <2>1, <2>2
<1>2. BookType'
  BY PcNames, StateNames DEF BookType
<1>3. LocalType'
  BY PcNames, StateNames DEF LocalType, Working, MailboxType, RowType
<1>4. MailboxType'
  BY PcNames, StateNames DEF MailboxType, LocalType, Working
<1>5. (faults \in Nat)'
  BY PcNames, StateNames
<1>6. Working'
  BY PcNames, StateNames DEF RowType, LocalType, MailboxType, Working
<1>7. (OneDraft /\ FreshRow /\ SoleCreator /\ SoleStray /\ StrayShape)'
  BY PcNames, StateNames DEF RowType, LocalType, MailboxType, Working, OneDraft, CreateRight, StrayShape, Creating, StrayCreate, FreshRow, Unclaimed, SoleCreator, SoleStray
<1>8. (Boxes /\ Answers /\ CreditedIsSent /\ ReadyHasDraft)'
  BY PcNames, StateNames DEF RowType, LocalType, MailboxType, Working, Boxes, Answers, CreditedIsSent, ReadyHasDraft
<1> QED BY <1>1, <1>2, <1>3, <1>4, <1>5, <1>6, <1>7, <1>8

\* Posting drafts.send changes no row and no mailbox.
LEMMA SendPostKeeps ==
  ASSUME IInv, NEW h \in Handlers, SendPost(h)
  PROVE  IInv'
<1> USE DEF IInv, TypeOK, CreateRight, SendPost, Goto, row, book, mailbox
<1>1. (RowType /\ BookType /\ LocalType /\ MailboxType /\ faults \in Nat)'
  BY PcNames, StateNames DEF RowType, BookType, LocalType, Working, MailboxType
<1>2. Working'
  BY PcNames, StateNames DEF RowType, LocalType, MailboxType, Working
<1>3. (OneDraft /\ FreshRow /\ SoleCreator /\ SoleStray /\ StrayShape)'
  BY PcNames, StateNames DEF RowType, LocalType, MailboxType, Working, OneDraft, CreateRight, StrayShape, Creating, StrayCreate, FreshRow, Unclaimed, SoleCreator, SoleStray
<1>4. (Boxes /\ Answers /\ CreditedIsSent /\ ReadyHasDraft)'
  BY PcNames, StateNames DEF RowType, LocalType, MailboxType, Working, Boxes, Answers, CreditedIsSent, ReadyHasDraft
<1> QED BY <1>1, <1>2, <1>3, <1>4

\* A refused send closes the row and credits nothing.
LEMMA SendRefusedKeeps ==
  ASSUME IInv, NEW h \in Handlers, SendRefused(h)
  PROVE  IInv'
<1> USE DEF IInv, TypeOK, CreateRight, SendRefused, Refuse, ClearOutboxLease, NotifyAdminFallback, Finish, Fault, mailbox
<1>1. RowType'
  BY PcNames, StateNames DEF RowType, AlertPc
<1>2. BookType'
  BY PcNames, StateNames DEF BookType, AlertPc
<1>3. LocalType'
  BY PcNames, StateNames DEF LocalType, Working, MailboxType, RowType, AlertPc
<1>4. MailboxType'
  BY PcNames, StateNames DEF MailboxType, LocalType, Working, AlertPc
<1>5. (faults \in Nat)'
  BY PcNames, StateNames DEF AlertPc
<1>6. Working'
  BY PcNames, StateNames DEF RowType, LocalType, MailboxType, Working, AlertPc
<1>7. OneDraft'
  BY PcNames, StateNames DEF RowType, LocalType, MailboxType, Working, OneDraft, CreateRight, StrayShape, Creating, StrayCreate, AlertPc
<1>8. FreshRow'
  BY PcNames, StateNames DEF RowType, LocalType, MailboxType, Working, FreshRow, Creating, StrayCreate, Unclaimed, AlertPc
<1>9. SoleCreator'
  BY PcNames, StateNames DEF RowType, LocalType, MailboxType, Working, FreshRow, SoleCreator, Creating, StrayCreate, Unclaimed, AlertPc
<1>10. SoleStray'
  BY PcNames, StateNames DEF RowType, LocalType, MailboxType, Working, SoleCreator, SoleStray, StrayShape, Creating, StrayCreate, Unclaimed, AlertPc
<1>11. StrayShape'
  BY PcNames, StateNames DEF RowType, LocalType, MailboxType, StrayShape, AlertPc
<1>12. (Boxes /\ Answers /\ CreditedIsSent /\ ReadyHasDraft)'
  BY PcNames, StateNames DEF RowType, LocalType, MailboxType, Working, Boxes, Answers, CreditedIsSent, ReadyHasDraft, AlertPc
<1> QED BY <1>1, <1>2, <1>3, <1>4, <1>5, <1>6, <1>7, <1>8, <1>9, <1>10, <1>11, <1>12

\* A lost send leaves a stray send, which creates nothing.
LEMMA SendLostKeeps ==
  ASSUME IInv, NEW h \in Handlers, SendLost(h)
  PROVE  IInv'
<1> USE DEF IInv, TypeOK, CreateRight, SendLost, LeaveUnknown, ClearOutboxLease, Finish, Posted, Fault, book
<1>1. (RowType /\ BookType /\ LocalType /\ MailboxType /\ faults \in Nat)'
  BY PcNames, StateNames DEF RowType, BookType, LocalType, Working, MailboxType
<1>2. Working'
  BY PcNames, StateNames DEF RowType, LocalType, MailboxType, Working
<1>3. (OneDraft /\ FreshRow /\ SoleCreator /\ SoleStray /\ StrayShape)'
  BY PcNames, StateNames DEF RowType, LocalType, MailboxType, Working, OneDraft, CreateRight, StrayShape, Creating, StrayCreate, FreshRow, Unclaimed, SoleCreator, SoleStray
<1>4. (Boxes /\ Answers /\ CreditedIsSent /\ ReadyHasDraft)'
  BY PcNames, StateNames DEF RowType, LocalType, MailboxType, Working, Boxes, Answers, CreditedIsSent, ReadyHasDraft
<1> QED BY <1>1, <1>2, <1>3, <1>4

\* A draft that is gone leaves the row to reconcileUnknown.
LEMMA SendGoneKeeps ==
  ASSUME IInv, NEW h \in Handlers, SendGone(h)
  PROVE  IInv'
<1> USE DEF IInv, TypeOK, CreateRight, SendGone, LeaveUnknown, ClearOutboxLease, Finish, book, mailbox
<1>1. (RowType /\ BookType /\ LocalType /\ MailboxType /\ faults \in Nat)'
  BY PcNames, StateNames DEF RowType, BookType, LocalType, Working, MailboxType
<1>2. Working'
  BY PcNames, StateNames DEF RowType, LocalType, MailboxType, Working
<1>3. (OneDraft /\ FreshRow /\ SoleCreator /\ SoleStray /\ StrayShape)'
  BY PcNames, StateNames DEF RowType, LocalType, MailboxType, Working, OneDraft, CreateRight, StrayShape, Creating, StrayCreate, FreshRow, Unclaimed, SoleCreator, SoleStray
<1>4. (Boxes /\ Answers /\ CreditedIsSent /\ ReadyHasDraft)'
  BY PcNames, StateNames DEF RowType, LocalType, MailboxType, Working, Boxes, Answers, CreditedIsSent, ReadyHasDraft
<1> QED BY <1>1, <1>2, <1>3, <1>4

\* markSent follows the answer of Gmail, so the sent copy exists.
LEMMA SendAnsweredKeeps ==
  ASSUME IInv, NEW h \in Handlers, SendAnswered(h)
  PROVE  IInv'
<1> USE DEF IInv, TypeOK, CreateRight, SendAnswered, MarkSent, Finish, mailbox
<1>1. (RowType /\ BookType /\ LocalType /\ MailboxType /\ faults \in Nat)'
  BY PcNames, StateNames DEF RowType, BookType, LocalType, Working, MailboxType
<1>2. Working'
  BY PcNames, StateNames DEF RowType, LocalType, MailboxType, Working
<1>3. (OneDraft /\ FreshRow /\ SoleCreator /\ SoleStray /\ StrayShape)'
  BY PcNames, StateNames DEF RowType, LocalType, MailboxType, Working, OneDraft, CreateRight, StrayShape, Creating, StrayCreate, FreshRow, Unclaimed, SoleCreator, SoleStray
<1>4. (Boxes /\ Answers /\ CreditedIsSent /\ ReadyHasDraft)'
  BY PcNames, StateNames DEF RowType, LocalType, MailboxType, Working, Boxes, Answers, CreditedIsSent, ReadyHasDraft
<1> QED BY <1>1, <1>2, <1>3, <1>4

\* A failed search leaves the row as it was, unknown.
LEMMA ReconcileErrorKeeps ==
  ASSUME IInv, NEW h \in Handlers, ReconcileError(h)
  PROVE  IInv'
<1> USE DEF IInv, TypeOK, CreateRight, ReconcileError, LeaveUnknown, ClearOutboxLease, Finish, Fault, book, mailbox
<1>1. (RowType /\ BookType /\ LocalType /\ MailboxType /\ faults \in Nat)'
  BY PcNames, StateNames DEF RowType, BookType, LocalType, Working, MailboxType
<1>2. Working'
  BY PcNames, StateNames DEF RowType, LocalType, MailboxType, Working
<1>3. (OneDraft /\ FreshRow /\ SoleCreator /\ SoleStray /\ StrayShape)'
  BY PcNames, StateNames DEF RowType, LocalType, MailboxType, Working, OneDraft, CreateRight, StrayShape, Creating, StrayCreate, FreshRow, Unclaimed, SoleCreator, SoleStray
<1>4. (Boxes /\ Answers /\ CreditedIsSent /\ ReadyHasDraft)'
  BY PcNames, StateNames DEF RowType, LocalType, MailboxType, Working, Boxes, Answers, CreditedIsSent, ReadyHasDraft
<1> QED BY <1>1, <1>2, <1>3, <1>4

\* markSent follows a sent copy that was found.
LEMMA FoundSentKeeps ==
  ASSUME IInv, NEW h \in Handlers, FoundSent(h)
  PROVE  IInv'
<1> USE DEF IInv, TypeOK, CreateRight, FoundSent, MarkSent, Finish, mailbox
<1>1. (RowType /\ BookType /\ LocalType /\ MailboxType /\ faults \in Nat)'
  BY PcNames, StateNames DEF RowType, BookType, LocalType, Working, MailboxType
<1>2. Working'
  BY PcNames, StateNames DEF RowType, LocalType, MailboxType, Working
<1>3. (OneDraft /\ FreshRow /\ SoleCreator /\ SoleStray /\ StrayShape)'
  BY PcNames, StateNames DEF RowType, LocalType, MailboxType, Working, OneDraft, CreateRight, StrayShape, Creating, StrayCreate, FreshRow, Unclaimed, SoleCreator, SoleStray
<1>4. (Boxes /\ Answers /\ CreditedIsSent /\ ReadyHasDraft)'
  BY PcNames, StateNames DEF RowType, LocalType, MailboxType, Working, Boxes, Answers, CreditedIsSent, ReadyHasDraft
<1> QED BY <1>1, <1>2, <1>3, <1>4

\* A search of the sent mail changes no row.
LEMMA NotFoundSentKeeps ==
  ASSUME IInv, NEW h \in Handlers, NotFoundSent(h)
  PROVE  IInv'
<1> USE DEF IInv, TypeOK, CreateRight, NotFoundSent, Goto, Fault, row, book, mailbox
<1>1. (RowType /\ BookType /\ LocalType /\ MailboxType /\ faults \in Nat)'
  BY PcNames, StateNames DEF RowType, BookType, LocalType, Working, MailboxType
<1>2. Working'
  BY PcNames, StateNames DEF RowType, LocalType, MailboxType, Working
<1>3. (OneDraft /\ FreshRow /\ SoleCreator /\ SoleStray /\ StrayShape)'
  BY PcNames, StateNames DEF RowType, LocalType, MailboxType, Working, OneDraft, CreateRight, StrayShape, Creating, StrayCreate, FreshRow, Unclaimed, SoleCreator, SoleStray
<1>4. (Boxes /\ Answers /\ CreditedIsSent /\ ReadyHasDraft)'
  BY PcNames, StateNames DEF RowType, LocalType, MailboxType, Working, Boxes, Answers, CreditedIsSent, ReadyHasDraft
<1> QED BY <1>1, <1>2, <1>3, <1>4

\* The row adopts the one draft found; a row in another state is left alone.
LEMMA FoundDraftKeeps ==
  ASSUME IInv, NEW h \in Handlers, FoundDraft(h)
  PROVE  IInv'
<1> USE DEF IInv, TypeOK, CreateRight, FoundDraft, ResumeDraft, Adopt, ThenSend, Begin, LeaveUnknown, ClearOutboxLease, Finish, row, book, mailbox
<1>1. RowType'
  <2> PICK n \in drafts[work[h]] :
         IF drafts[work[h]] = {n} THEN ResumeDraft(h, n) ELSE LeaveUnknown(h)
    OBVIOUS
  <2>1. CASE drafts[work[h]] = {n} /\ state[work[h]] = "reconciling"
    <3>1. n \in Nat
      BY PcNames DEF LocalType, MailboxType, Working
    <3> QED BY <2>1, <3>1, StateNames DEF RowType
  <2>2. CASE drafts[work[h]] = {n} /\ state[work[h]] # "reconciling"
    BY <2>2 DEF RowType
  <2>3. CASE drafts[work[h]] # {n}
    BY <2>3, StateNames DEF RowType
  <2> QED BY <2>1, <2>2, <2>3
<1>2. BookType'
  BY PcNames, StateNames DEF BookType
<1>3. LocalType'
  BY PcNames, StateNames DEF LocalType, Working, MailboxType, RowType
<1>4. MailboxType'
  BY PcNames, StateNames DEF MailboxType, LocalType, Working
<1>5. (faults \in Nat)'
  BY PcNames, StateNames
<1>6. Working'
  BY PcNames, StateNames DEF RowType, LocalType, MailboxType, Working
<1>7. (OneDraft /\ SoleStray /\ StrayShape)'
  BY DEF OneDraft, StrayShape, StrayCreate, SoleStray
<1>8. \A d \in Deliveries : Unclaimed(d)' => Unclaimed(d)
  BY StateNames DEF RowType, Unclaimed
<1>9. \A g \in Handlers, d \in Deliveries : Creating(g, d)' => Creating(g, d)
  BY DEF LocalType, Creating
<1>10. (FreshRow /\ SoleCreator)'
  BY <1>8, <1>9 DEF FreshRow, SoleCreator, StrayCreate
<1>11. (Boxes /\ Answers /\ CreditedIsSent /\ ReadyHasDraft)'
  BY PcNames, StateNames DEF RowType, LocalType, MailboxType, Working, Boxes, Answers, CreditedIsSent, ReadyHasDraft
<1> QED BY <1>1, <1>2, <1>3, <1>4, <1>5, <1>6, <1>7, <1>10, <1>11

\* Nothing found never gives back the right to create.
LEMMA NotFoundDraftKeeps ==
  ASSUME IInv, NEW h \in Handlers, NotFoundDraft(h)
  PROVE  IInv'
<1> USE DEF IInv, TypeOK, CreateRight, NotFoundDraft, ClearOutboxLease, NotifyAdminFallback, Finish, Fault, mailbox
<1>1. RowType'
  BY PcNames, StateNames DEF RowType, AlertPc
<1>2. BookType'
  BY PcNames, StateNames DEF BookType, AlertPc
<1>3. LocalType'
  BY PcNames, StateNames DEF LocalType, Working, MailboxType, RowType, AlertPc
<1>4. MailboxType'
  BY PcNames, StateNames DEF MailboxType, LocalType, Working, AlertPc
<1>5. (faults \in Nat)'
  BY PcNames, StateNames DEF AlertPc
<1>6. Working'
  BY PcNames, StateNames DEF RowType, LocalType, MailboxType, Working, AlertPc
<1>7. (OneDraft /\ FreshRow /\ SoleCreator /\ SoleStray /\ StrayShape)'
  BY PcNames, StateNames DEF RowType, LocalType, MailboxType, Working, OneDraft, CreateRight, StrayShape, Creating, StrayCreate, FreshRow, Unclaimed, SoleCreator, SoleStray, AlertPc
<1>8. (Boxes /\ Answers /\ CreditedIsSent /\ ReadyHasDraft)'
  BY PcNames, StateNames DEF RowType, LocalType, MailboxType, Working, Boxes, Answers, CreditedIsSent, ReadyHasDraft, AlertPc
<1> QED BY <1>1, <1>2, <1>3, <1>4, <1>5, <1>6, <1>7, <1>8

\* The answer of Telegram touches only the status of the alert.
LEMMA AlertAnsweredKeeps ==
  ASSUME IInv, NEW h \in Handlers, AlertAnswered(h)
  PROVE  IInv'
<1> USE DEF IInv, TypeOK, CreateRight, AlertAnswered, Finish, row, mailbox
<1>1. RowType'
  BY PcNames, StateNames DEF RowType
<1>2. BookType'
  <2> DEFINE kind == CHOOSE k \in AlertKinds : AlertPc[k] = pc[h]
  <2>1. PICK s \in AlertOutcomes :
           alerts' = [alerts EXCEPT ![<<kind, work[h]>>] = s]
    OBVIOUS
  <2>2. s \in AlertStatuses
    BY PcNames
  <2>3. alerts' \in [AlertKinds \X Deliveries -> AlertStatuses]
    <3> HIDE DEF kind
    <3> QED BY <2>1, <2>2 DEF BookType
  <2> QED BY <2>3 DEF BookType
<1>3. LocalType'
  BY PcNames, StateNames DEF LocalType, Working, MailboxType, RowType
<1>4. MailboxType'
  BY PcNames, StateNames DEF MailboxType, LocalType, Working
<1>5. (faults \in Nat)'
  BY PcNames, StateNames
<1>6. Working'
  BY PcNames, StateNames DEF RowType, LocalType, MailboxType, Working
<1>7. (OneDraft /\ FreshRow /\ SoleCreator /\ SoleStray /\ StrayShape)'
  BY PcNames, StateNames DEF RowType, LocalType, MailboxType, Working, OneDraft, CreateRight, StrayShape, Creating, StrayCreate, FreshRow, Unclaimed, SoleCreator, SoleStray
<1>8. (Boxes /\ Answers /\ CreditedIsSent /\ ReadyHasDraft)'
  BY PcNames, StateNames DEF RowType, LocalType, MailboxType, Working, Boxes, Answers, CreditedIsSent, ReadyHasDraft
<1> QED BY <1>1, <1>2, <1>3, <1>4, <1>5, <1>6, <1>7, <1>8

\* Gmail spends the right to create: there was no draft, now there is one.
LEMMA GmailCreatesKeeps ==
  ASSUME IInv, NEW h \in Handlers, GmailCreates(h)
  PROVE  IInv'
<1> USE DEF IInv, TypeOK, CreateRight, GmailCreates, CreateEffect, row, book
<1>1. (RowType /\ BookType /\ LocalType /\ MailboxType /\ faults \in Nat)'
  BY PcNames, StateNames DEF RowType, BookType, LocalType, Working, MailboxType
<1>2. Working'
  BY PcNames, StateNames DEF RowType, LocalType, MailboxType, Working
<1>3. (OneDraft /\ FreshRow /\ SoleCreator /\ SoleStray /\ StrayShape)'
  BY PcNames, StateNames DEF RowType, LocalType, MailboxType, Working, OneDraft, CreateRight, StrayShape, Creating, StrayCreate, FreshRow, Unclaimed, SoleCreator, SoleStray
<1>4. (Boxes /\ Answers /\ CreditedIsSent /\ ReadyHasDraft)'
  BY PcNames, StateNames DEF RowType, LocalType, MailboxType, Working, Boxes, Answers, CreditedIsSent, ReadyHasDraft
<1> QED BY <1>1, <1>2, <1>3, <1>4

\* Gmail moves the draft to the sent mail, and answers so.
LEMMA GmailSendsKeeps ==
  ASSUME IInv, NEW h \in Handlers, GmailSends(h)
  PROVE  IInv'
<1> USE DEF IInv, TypeOK, CreateRight, GmailSends, SendEffect, Goto, row, book
<1>1. (RowType /\ BookType /\ LocalType /\ MailboxType /\ faults \in Nat)'
  BY PcNames, StateNames DEF RowType, BookType, LocalType, Working, MailboxType
<1>2. Working'
  BY PcNames, StateNames DEF RowType, LocalType, MailboxType, Working
<1>3. (OneDraft /\ FreshRow /\ SoleCreator /\ SoleStray /\ StrayShape)'
  BY PcNames, StateNames DEF RowType, LocalType, MailboxType, Working, OneDraft, CreateRight, StrayShape, Creating, StrayCreate, FreshRow, Unclaimed, SoleCreator, SoleStray
<1>4. (Boxes /\ Answers /\ CreditedIsSent /\ ReadyHasDraft)'
  BY PcNames, StateNames DEF RowType, LocalType, MailboxType, Working, Boxes, Answers, CreditedIsSent, ReadyHasDraft
<1> QED BY <1>1, <1>2, <1>3, <1>4

\* A late call spends the right to create it carried, or sends a draft there is.
LEMMA StrayArrivesKeeps ==
  ASSUME IInv, StrayArrives
  PROVE  IInv'
<1> USE DEF IInv, TypeOK, CreateRight, StrayArrives, CreateEffect, SendEffect, row, book, local
<1>1. RowType'
  BY PcNames, StateNames DEF RowType
<1>2. BookType'
  BY PcNames, StateNames DEF BookType
<1>3. LocalType'
  BY PcNames, StateNames DEF LocalType, Working, MailboxType, RowType
<1>4. MailboxType'
  BY PcNames, StateNames DEF MailboxType, LocalType, Working
<1>5. (faults \in Nat)'
  BY PcNames, StateNames
<1>6. Working'
  BY PcNames, StateNames DEF RowType, LocalType, MailboxType, Working
<1> PICK c \in stray :
       /\ stray' = stray \ {c}
       /\ IF c.op = "create" THEN CreateEffect(c.d) ELSE SendEffect(c.d, c.draft)
  OBVIOUS
<1>0. c.d \in Deliveries
  BY DEF MailboxType
<1>7. OneDraft'
  <2>1. CASE c.op = "create"
    <3>1. created[c.d] = 0
      BY <1>0, <2>1 DEF SoleStray, StrayCreate
    <3> QED BY <2>1, <3>1 DEF OneDraft, MailboxType
  <2>2. CASE c.op # "create"
    BY <2>2 DEF OneDraft
  <2> QED BY <2>1, <2>2
<1>8. FreshRow'
  BY PcNames, StateNames DEF RowType, LocalType, MailboxType, Working, FreshRow, Creating, StrayCreate, Unclaimed
<1>9. SoleCreator'
  BY PcNames, StateNames DEF RowType, LocalType, MailboxType, Working, FreshRow, SoleCreator, Creating, StrayCreate, Unclaimed
<1>10. SoleStray'
  BY PcNames, StateNames DEF RowType, LocalType, MailboxType, Working, SoleCreator, SoleStray, StrayShape, Creating, StrayCreate, Unclaimed
<1>11. StrayShape'
  BY PcNames, StateNames DEF RowType, LocalType, MailboxType, StrayShape
<1>12. Boxes'
  BY PcNames, StateNames DEF RowType, LocalType, MailboxType, Working, Boxes
<1>13. \A d \in Deliveries : created[d] \in Nat /\ created'[d] \in Nat /\ created[d] <= created'[d]
  <2>1. CASE c.op = "create"
    BY <2>1 DEF MailboxType
  <2>2. CASE c.op # "create"
    BY <2>2 DEF MailboxType
  <2> QED BY <2>1, <2>2
<1>14. \A d \in Deliveries : sent[d] # {} => sent'[d] # {}
  <2>1. CASE c.op = "create"
    BY <2>1
  <2>2. CASE c.op # "create"
    BY <2>2 DEF MailboxType
  <2> QED BY <2>1, <2>2
<1>15. Answers'
  <2> SUFFICES ASSUME NEW h \in Handlers, pc[h] \in {"create_done", "send_done"}
               PROVE  /\ pc[h] = "create_done" => draft[h] \in 1 .. created'[work[h]]
                      /\ pc[h] = "send_done" => sent'[work[h]] # {}
    BY DEF Answers
  <2>1. work[h] \in Deliveries /\ draft[h] \in Nat
    BY DEF Working, LocalType
  <2> QED BY <1>13, <1>14, <2>1 DEF Answers
<1>16. CreditedIsSent'
  BY <1>14 DEF CreditedIsSent
<1>17. ReadyHasDraft'
  <2> SUFFICES ASSUME NEW d \in Deliveries, state[d] \in {"draft_ready", "sending"}
               PROVE  draftId[d] \in 1 .. created'[d]
    BY DEF ReadyHasDraft
  <2>1. draftId[d] \in Nat /\ draftId[d] \in 1 .. created[d]
    BY DEF RowType, ReadyHasDraft
  <2> QED BY <1>13, <2>1
<1> QED BY <1>1, <1>2, <1>3, <1>4, <1>5, <1>6, <1>7, <1>8, <1>9, <1>10, <1>11, <1>12, <1>15, <1>16, <1>17

\* The end of a lease changes no state: the invariant does not rest on leases.
LEMMA LeaseExpiresKeeps ==
  ASSUME IInv, NEW d \in Deliveries, LeaseExpires(d)
  PROVE  IInv'
<1> USE DEF IInv, TypeOK, CreateRight, LeaseExpires, book, mailbox, local
<1>1. (RowType /\ BookType /\ LocalType /\ MailboxType /\ faults \in Nat)'
  BY PcNames, StateNames DEF RowType, BookType, LocalType, Working, MailboxType
<1>2. Working'
  BY PcNames, StateNames DEF RowType, LocalType, MailboxType, Working
<1>3. (OneDraft /\ FreshRow /\ SoleCreator /\ SoleStray /\ StrayShape)'
  BY PcNames, StateNames DEF RowType, LocalType, MailboxType, Working, OneDraft, CreateRight, StrayShape, Creating, StrayCreate, FreshRow, Unclaimed, SoleCreator, SoleStray
<1>4. (Boxes /\ Answers /\ CreditedIsSent /\ ReadyHasDraft)'
  BY PcNames, StateNames DEF RowType, LocalType, MailboxType, Working, Boxes, Answers, CreditedIsSent, ReadyHasDraft
<1> QED BY <1>1, <1>2, <1>3, <1>4

\* Time touches no row state.
LEMMA AgesKeeps ==
  ASSUME IInv, NEW d \in Deliveries, Ages(d)
  PROVE  IInv'
<1> USE DEF IInv, TypeOK, CreateRight, Ages, row, mailbox, local
<1>1. (RowType /\ BookType /\ LocalType /\ MailboxType /\ faults \in Nat)'
  BY PcNames, StateNames DEF RowType, BookType, LocalType, Working, MailboxType
<1>2. Working'
  BY PcNames, StateNames DEF RowType, LocalType, MailboxType, Working
<1>3. (OneDraft /\ FreshRow /\ SoleCreator /\ SoleStray /\ StrayShape)'
  BY PcNames, StateNames DEF RowType, LocalType, MailboxType, Working, OneDraft, CreateRight, StrayShape, Creating, StrayCreate, FreshRow, Unclaimed, SoleCreator, SoleStray
<1>4. (Boxes /\ Answers /\ CreditedIsSent /\ ReadyHasDraft)'
  BY PcNames, StateNames DEF RowType, LocalType, MailboxType, Working, Boxes, Answers, CreditedIsSent, ReadyHasDraft
<1> QED BY <1>1, <1>2, <1>3, <1>4

\* An eviction turns posted calls into strays and ends the requests that posted them.
LEMMA EvictedKeeps ==
  ASSUME IInv, Evicted
  PROVE  IInv'
<1> USE DEF IInv, TypeOK, CreateRight, Evicted, Posted, Fault, row, book
<1>1. (RowType /\ BookType /\ LocalType /\ MailboxType /\ faults \in Nat)'
  BY PcNames, StateNames DEF RowType, BookType, LocalType, Working, MailboxType
<1>2. Working'
  BY PcNames, StateNames DEF RowType, LocalType, MailboxType, Working
<1>3. (OneDraft /\ FreshRow /\ SoleCreator /\ SoleStray /\ StrayShape)'
  BY PcNames, StateNames DEF RowType, LocalType, MailboxType, Working, OneDraft, CreateRight, StrayShape, Creating, StrayCreate, FreshRow, Unclaimed, SoleCreator, SoleStray
<1>4. (Boxes /\ Answers /\ CreditedIsSent /\ ReadyHasDraft)'
  BY PcNames, StateNames DEF RowType, LocalType, MailboxType, Working, Boxes, Answers, CreditedIsSent, ReadyHasDraft
<1> QED BY <1>1, <1>2, <1>3, <1>4

-----------------------------------------------------------------------------
\* Every step keeps the invariant, a stuttering one included.
LEMMA NextKeeps == IInv /\ [Next]_vars => IInv'
<1> SUFFICES ASSUME IInv, [Next]_vars PROVE IInv'
  OBVIOUS
<1>1. ASSUME NEW h \in Handlers, NEW d \in Deliveries, Reserve(h, d) \/ Pick(h, d)
      PROVE  IInv'
  BY <1>1, ReserveKeeps, PickKeeps
<1>2. ASSUME NEW h \in Handlers, Runs(h) PROVE IInv'
  <2>1. CASE Advance(h)
    BY <2>1, AdvanceReservedKeeps, AdvanceReadyKeeps, AdvanceUnknownKeeps DEF Advance
  <2>2. CASE CreateStep(h)
    BY <2>2, CreatePostKeeps, CreateRefusedKeeps, CreateLostKeeps, CreateAnsweredKeeps
       DEF CreateStep
  <2>3. CASE SendStep(h)
    BY <2>3, SendPostKeeps, SendRefusedKeeps, SendLostKeeps, SendGoneKeeps, SendAnsweredKeeps
       DEF SendStep
  <2>4. CASE RecStep(h)
    BY <2>4, ReconcileErrorKeeps, FoundSentKeeps, NotFoundSentKeeps, FoundDraftKeeps,
       NotFoundDraftKeeps DEF RecStep
  <2>5. CASE AlertAnswered(h) \/ Gmail(h)
    BY <2>5, AlertAnsweredKeeps, GmailCreatesKeeps, GmailSendsKeeps DEF Gmail
  <2> QED BY <1>2, <2>1, <2>2, <2>3, <2>4, <2>5 DEF Runs
<1>3. CASE StrayArrives \/ Evicted
  BY <1>3, StrayArrivesKeeps, EvictedKeeps
<1>4. ASSUME NEW d \in Deliveries, LeaseExpires(d) \/ Ages(d) PROVE IInv'
  BY <1>4, LeaseExpiresKeeps, AgesKeeps
<1>5. CASE UNCHANGED vars
  <2>1. TypeOK'
    BY <1>5 DEF IInv, TypeOK, RowType, BookType, LocalType, MailboxType, vars, row, book,
                local, mailbox
  <2>2. (Working /\ OneDraft /\ CreateRight /\ StrayShape)'
    BY <1>5 DEF IInv, Working, OneDraft, CreateRight, FreshRow, SoleCreator, SoleStray,
                StrayShape, StrayCreate, Creating, Unclaimed, vars, row, local, mailbox
  <2>3. (Boxes /\ Answers /\ CreditedIsSent /\ ReadyHasDraft)'
    BY <1>5 DEF IInv, Boxes, Answers, CreditedIsSent, ReadyHasDraft, vars, row, book, local,
                mailbox
  <2> QED BY <2>1, <2>2, <2>3 DEF IInv
<1> QED BY <1>1, <1>2, <1>3, <1>4, <1>5 DEF Next

\* The invariant holds in every reachable state.
THEOREM Invariance == Spec => []IInv
<1>1. QED BY InitIInv, NextKeeps, PTL DEF Spec

\* Rows, requests and the mailbox stay in their domains, for every number of
\* decisions and requests.
THEOREM TypeCorrect == Spec => []TypeOK
<1>1. IInv => TypeOK
  BY DEF IInv
<1> QED BY <1>1, Invariance, PTL

\* createDraft and reconcileUnknown never make Gmail build a second draft for a
\* decision, however many requests race and calls are lost.
THEOREM NeverASecondDraft == Spec => []OneDraft
<1>1. IInv => OneDraft
  BY DEF IInv
<1> QED BY <1>1, Invariance, PTL

\* markSent credits a decision, and its incident versions, only when the mail
\* is in the mailbox.
THEOREM NeverCreditedUnsent == Spec => []CreditedIsSent
<1>1. IInv => CreditedIsSent
  BY DEF IInv
<1> QED BY <1>1, Invariance, PTL

\* sendDraft always finds the draft_id of a draft that Gmail made for the row.
THEOREM SendsItsDraft == Spec => []ReadyHasDraft
<1>1. IInv => ReadyHasDraft
  BY DEF IInv
<1> QED BY <1>1, Invariance, PTL

-----------------------------------------------------------------------------
\* The quota.  A decision is admitted while its draft may still come about, or
\* has: a refused row never gets the right to create, so the admitted rows are
\* among those reserveDecision counted, and only it admits one.
Admitted(d) == \/ created[d] > 0 \/ state[d] = "reserved" \/ StrayCreate(d)
               \/ \E h \in Handlers : Creating(h, d)

AdmittedToday == {d \in Deliveries : Admitted(d) /\ age[d] < 2}

QuotaInv == IInv /\ Cardinality(AdmittedToday) <= MaxMails

\* The quota counts whatever is admitted.
LEMMA AdmittedIsCounted == IInv => AdmittedToday \subseteq InWindow
<1> SUFFICES ASSUME IInv, NEW d \in Deliveries, Admitted(d) PROVE state[d] # "none"
  BY DEF AdmittedToday, InWindow
<1>1. created[d] \in Nat
  BY DEF IInv, TypeOK, MailboxType
<1>2. QED
  BY <1>1 DEF IInv, CreateRight, FreshRow, Unclaimed, Admitted

\* A step that adds no right of its own: drafts come of calls that were being
\* made, calls of requests that were creating, those of rows that were reserved.
LEMMA NoneAdmitted ==
  ASSUME IInv, NEW d \in Deliveries,
         created'[d] = created[d] \/ Admitted(d),
         state'[d] = "reserved" => state[d] = "reserved",
         \A c \in stray' : c.op = "create" /\ c.d = d => Admitted(d),
         \A h \in Handlers : Creating(h, d)' => Admitted(d)
  PROVE  Admitted(d)' => Admitted(d)
BY DEF Admitted, StrayCreate

LEMMA RequestAdmitsNone ==
  ASSUME IInv, NEW h \in Handlers, Runs(h), NEW d \in Deliveries
  PROVE  (Admitted(d)' => Admitted(d)) /\ age' = age
<1> USE DEF IInv, TypeOK
<1>1. pc[h] # "idle"
  BY PcNames DEF Runs, Advance, AdvanceReserved, AdvanceReady, AdvanceUnknown, CreateStep,
     CreatePost, CreateRefused, CreateLost, CreateAnswered, SendStep, SendPost, SendRefused,
     SendLost, SendGone, SendAnswered, RecStep, ReconcileError, FoundSent, NotFoundSent,
     FoundDraft, NotFoundDraft, AlertAnswered, Gmail, GmailCreates, GmailSends
<1>2. work[h] \in Deliveries
  BY <1>1 DEF Working
<1>3. \A c \in stray : c.op = "create" /\ c.d = d => Admitted(d)
  BY DEF Admitted, StrayCreate
<1>4. \A g \in Handlers : Creating(g, d) => Admitted(d)
  BY DEF Admitted
<1>5. CASE Advance(h)
  <2>1. created' = created /\ stray' = stray /\ age' = age
    BY <1>5 DEF Advance, AdvanceReserved, AdvanceReady, AdvanceUnknown, book, mailbox
  <2>2. state'[d] = "reserved" => state[d] = "reserved"
    BY <1>2, <1>5 DEF Advance, AdvanceReserved, AdvanceReady, AdvanceUnknown, ClaimOutbox, RowType
  <2>3. ASSUME NEW g \in Handlers, Creating(g, d)' PROVE Creating(g, d) \/ state[d] = "reserved"
    BY <1>2, <1>5, <2>3 DEF Advance, AdvanceReserved, AdvanceReady, AdvanceUnknown, ClaimOutbox,
       Goto, Finish, Creating, LocalType
  <2>4. QED
    BY <1>3, <1>4, <2>1, <2>2, <2>3, NoneAdmitted DEF Admitted
<1>6. CASE CreateStep(h)
  <2>1. created' = created /\ age' = age
    BY <1>6 DEF CreateStep, CreatePost, CreateRefused, CreateLost, CreateAnswered, Refuse,
       LeaveUnknown, book, mailbox
  <2>2. state'[d] = "reserved" => state[d] = "reserved"
    BY <1>2, <1>6 DEF CreateStep, CreatePost, CreateRefused, CreateLost, CreateAnswered, Refuse,
       LeaveUnknown, ClearOutboxLease, Adopt, RowType, row
  <2>3. ASSUME NEW g \in Handlers, Creating(g, d)' PROVE Creating(g, d)
    <3>1. CASE g # h
      BY <1>2, <1>6, <2>3, <3>1 DEF CreateStep, CreatePost, CreateRefused, CreateLost, CreateAnswered,
         Refuse, NotifyAdminFallback, LeaveUnknown, ThenSend, Begin, Finish, Goto, Creating,
         LocalType
    <3>2. CASE g = h /\ CreatePost(h)
      BY <2>3, <3>2 DEF CreatePost, Goto, Creating, LocalType
    <3>3. CASE g = h /\ ~CreatePost(h)
      BY <1>6, <2>3, <3>3 DEF CreateStep, CreateRefused, CreateLost, CreateAnswered,
         Refuse, NotifyAdminFallback, LeaveUnknown, ThenSend, Begin, Finish, Creating,
         LocalType, AlertPc
    <3>4. QED
      BY <3>1, <3>2, <3>3
  <2>4. ASSUME NEW c \in stray', c.op = "create", c.d = d PROVE Admitted(d)
    <3>1. c \in stray \/ (pc[h] = "create_wait" /\ c = Posted(h))
      BY <1>6 DEF CreateStep, CreatePost, CreateRefused, CreateLost, CreateAnswered, mailbox
    <3>2. QED
      BY <1>3, <1>4, <2>4, <3>1 DEF Posted, Creating
  <2>5. QED
    BY <1>4, <2>1, <2>2, <2>3, <2>4, NoneAdmitted
<1>7. CASE SendStep(h)
  <2>1. created' = created /\ age' = age
    BY <1>7 DEF SendStep, SendPost, SendRefused, SendLost, SendGone, SendAnswered, Refuse,
       LeaveUnknown, MarkSent, book, mailbox
  <2>2. state'[d] = "reserved" => state[d] = "reserved"
    BY <1>2, <1>7 DEF SendStep, SendPost, SendRefused, SendLost, SendGone, SendAnswered, Refuse,
       LeaveUnknown, MarkSent, ClearOutboxLease, RowType, row
  <2>3. ASSUME NEW g \in Handlers, Creating(g, d)' PROVE Creating(g, d)
    <3>1. CASE g # h
      BY <1>2, <1>7, <2>3, <3>1 DEF SendStep, SendPost, SendRefused, SendLost, SendGone, SendAnswered,
         Refuse, NotifyAdminFallback, LeaveUnknown, MarkSent, Finish, Goto, Creating, LocalType
    <3>2. CASE g = h
      BY <1>7, <2>3, <3>2 DEF SendStep, SendPost, SendRefused, SendLost, SendGone, SendAnswered,
         Refuse, NotifyAdminFallback, LeaveUnknown, MarkSent, Finish, Goto, Creating, LocalType,
         AlertPc
    <3>3. QED
      BY <3>1, <3>2
  <2>4. ASSUME NEW c \in stray', c.op = "create" PROVE c \in stray
    BY <1>7, <2>4 DEF SendStep, SendPost, SendRefused, SendLost, SendGone, SendAnswered, Posted, mailbox
  <2>5. QED
    BY <1>3, <1>4, <2>1, <2>2, <2>3, <2>4, NoneAdmitted
<1>8. CASE RecStep(h) \/ AlertAnswered(h)
  <2>1. created' = created /\ stray' = stray /\ age' = age
    BY <1>8 DEF RecStep, ReconcileError, FoundSent, NotFoundSent, FoundDraft, NotFoundDraft,
       AlertAnswered, ResumeDraft, LeaveUnknown, MarkSent, book, mailbox
  <2>2. state'[d] = "reserved" => state[d] = "reserved"
    BY <1>2, <1>8 DEF RecStep, ReconcileError, FoundSent, NotFoundSent, FoundDraft, NotFoundDraft,
       AlertAnswered, ResumeDraft, LeaveUnknown, MarkSent, ClearOutboxLease, Adopt, RowType, row
  <2>3. ASSUME NEW g \in Handlers, Creating(g, d)' PROVE Creating(g, d)
    <3>1. CASE RecStep(h)
      BY <1>2, <2>3, <3>1 DEF RecStep, ReconcileError, FoundSent, NotFoundSent, FoundDraft,
         NotFoundDraft, ResumeDraft, ThenSend, Begin, LeaveUnknown, MarkSent,
         NotifyAdminFallback, Finish, Goto, Creating, LocalType, AlertPc
    <3>2. CASE AlertAnswered(h)
      BY <1>2, <2>3, <3>2 DEF AlertAnswered, Finish, Creating, LocalType
    <3>3. QED
      BY <1>8, <3>1, <3>2
  <2>4. QED
    BY <1>3, <1>4, <2>1, <2>2, <2>3, NoneAdmitted
<1>9. CASE Gmail(h)
  <2>1. state' = state /\ stray' = stray /\ age' = age
    BY <1>9 DEF Gmail, GmailCreates, GmailSends, row, book
  <2>2. created'[d] = created[d] \/ Admitted(d)
    <3>1. CASE GmailCreates(h)
      <4>1. work[h] # d => created'[d] = created[d]
        BY <1>2, <3>1 DEF GmailCreates, CreateEffect, MailboxType
      <4>2. work[h] = d => Creating(h, d)
        BY <3>1 DEF GmailCreates, Creating
      <4>3. QED
        BY <1>4, <4>1, <4>2
    <3>2. CASE GmailSends(h)
      BY <3>2 DEF GmailSends, SendEffect
    <3>3. QED
      BY <1>9, <3>1, <3>2 DEF Gmail
  <2>3. ASSUME NEW g \in Handlers, Creating(g, d)' PROVE Creating(g, d)
    BY <1>9, <2>3 DEF Gmail, GmailCreates, GmailSends, Goto, Creating, LocalType
  <2>4. QED
    BY <1>3, <1>4, <2>1, <2>2, <2>3, NoneAdmitted
<1>10. QED
  BY <1>5, <1>6, <1>7, <1>8, <1>9 DEF Runs

\* Only reserveDecision admits, and ages only grow.
LEMMA OthersAdmitNone ==
  ASSUME IInv, [Next]_vars, ~\E h \in Handlers, d \in Deliveries : Reserve(h, d)
  PROVE  AdmittedToday' \subseteq AdmittedToday
<1> SUFFICES ASSUME NEW d \in Deliveries
             PROVE  (Admitted(d)' => Admitted(d)) /\ (age'[d] < 2 => age[d] < 2)
  BY DEF AdmittedToday
<1>1. age[d] \in 0 .. 2
  BY DEF IInv, TypeOK, BookType
<1>2. ASSUME NEW h \in Handlers, NEW e \in Deliveries, Pick(h, e)
      PROVE  (Admitted(d)' => Admitted(d)) /\ age' = age
  <2>1. created' = created /\ state' = state /\ stray' = stray /\ age' = age
    BY <1>2 DEF Pick, row, book, mailbox
  <2>2. \A g \in Handlers : Creating(g, d)' => Creating(g, d)
    BY <1>2 DEF Pick, Begin, Creating, IInv, TypeOK, LocalType
  <2>3. QED
    BY <2>1, <2>2 DEF Admitted, StrayCreate
<1>3. ASSUME NEW h \in Handlers, Runs(h) PROVE (Admitted(d)' => Admitted(d)) /\ age' = age
  BY <1>3, RequestAdmitsNone
<1>4. CASE StrayArrives
  <2>1. PICK c \in stray : /\ stray' = stray \ {c}
                           /\ IF c.op = "create" THEN CreateEffect(c.d) ELSE SendEffect(c.d, c.draft)
    BY <1>4 DEF StrayArrives
  <2>2. state' = state /\ pc' = pc /\ work' = work /\ age' = age
    BY <1>4 DEF StrayArrives, row, book, local
  <2>3. created'[d] = created[d] \/ Admitted(d)
    <3>1. CASE c.op = "create" /\ c.d = d
      BY <3>1 DEF Admitted, StrayCreate
    <3>2. CASE c.op = "create" /\ c.d # d
      BY <2>1, <3>2 DEF CreateEffect, IInv, TypeOK, MailboxType
    <3>3. CASE c.op # "create"
      BY <2>1, <3>3 DEF SendEffect
    <3>4. QED
      BY <3>1, <3>2, <3>3
  <2>4. QED
    BY <2>1, <2>2, <2>3 DEF Admitted, StrayCreate, Creating
<1>5. CASE Evicted
  <2>1. created' = created /\ state' = state /\ age' = age
        /\ \A h \in Handlers : pc'[h] = "idle"
    BY <1>5 DEF Evicted, row, book
  <2>2. ASSUME NEW c \in stray', c.op = "create", c.d = d PROVE Admitted(d)
    <3>1. CASE c \in stray
      BY <2>2, <3>1 DEF Admitted, StrayCreate
    <3>2. CASE c \notin stray
      <4>1. PICK h \in Handlers : pc[h] \in {"create_wait", "send_wait"} /\ c = Posted(h)
        BY <1>5, <3>2 DEF Evicted
      <4>2. Creating(h, d)
        BY <2>2, <4>1 DEF Posted, Creating
      <4>3. QED
        BY <4>2 DEF Admitted
    <3>3. QED
      BY <3>1, <3>2
  <2>3. QED
    BY <2>1, <2>2 DEF Admitted, StrayCreate, Creating
<1>6. ASSUME NEW e \in Deliveries, LeaseExpires(e) PROVE (Admitted(d)' => Admitted(d)) /\ age' = age
  BY <1>6 DEF LeaseExpires, book, local, mailbox, Admitted, StrayCreate, Creating
<1>7. ASSUME NEW e \in Deliveries, Ages(e)
      PROVE  (Admitted(d)' => Admitted(d)) /\ (age'[d] < 2 => age[d] < 2)
  <2>1. Admitted(d)' => Admitted(d)
    BY <1>7 DEF Ages, row, local, mailbox, Admitted, StrayCreate, Creating
  <2>2. age'[d] = age[d] \/ age'[d] = age[d] + 1
    BY <1>7 DEF Ages, IInv, TypeOK, BookType
  <2>3. QED
    BY <1>1, <2>1, <2>2
<1>8. CASE UNCHANGED vars
  BY <1>8 DEF vars, row, book, local, mailbox, Admitted, StrayCreate, Creating
<1>9. QED
  BY <1>2, <1>3, <1>4, <1>5, <1>6, <1>7, <1>8 DEF Next

\* reserveDecision admits one, and only while fewer than the quota are counted.
LEMMA ReserveAdmitsOne ==
  ASSUME QuotaInv, NEW h \in Handlers, NEW d \in Deliveries, Reserve(h, d)
  PROVE  \/ AdmittedToday' \subseteq AdmittedToday
         \/ AdmittedToday' \subseteq InWindow \cup {d} /\ Cardinality(InWindow) < MaxMails
<1> USE DEF QuotaInv, IInv, TypeOK
<1>1. created' = created /\ stray' = stray /\ age' = age
  BY DEF Reserve, mailbox
<1>2. \A g \in Handlers, e \in Deliveries : Creating(g, e)' => Creating(g, e)
  BY DEF Reserve, NotifyAdminFallback, Begin, Finish, Creating, LocalType, AlertPc, Pending,
     Unknowns, local
<1>3. \A e \in Deliveries \ {d} : state'[e] = state[e]
  BY DEF Reserve, RowType
<1>4. \A e \in Deliveries \ {d} : Admitted(e)' => Admitted(e)
  BY <1>1, <1>2, <1>3 DEF Admitted, StrayCreate
<1>5. AdmittedToday' \subseteq AdmittedToday \cup {d}
  BY <1>1, <1>4 DEF AdmittedToday
<1>6. CASE Cardinality(InWindow) < MaxMails
  BY <1>5, <1>6, AdmittedIsCounted
<1>7. CASE ~(Cardinality(InWindow) < MaxMails)
  <2>1. Cardinality(InWindow) \in Nat
    <3>1. IsFiniteSet(InWindow)
      BY OutboxAssumption, FS_Subset DEF InWindow
    <3>2. QED
      BY <3>1, FS_CardinalityType
  <2>2. Cardinality(InWindow) >= MaxMails
    BY <1>7, <2>1, OutboxAssumption
  <2>3. state'[d] = "failed_not_sent"
    BY <2>2 DEF Reserve, RowType
  <2>4. Admitted(d)' => Admitted(d)
    BY <1>1, <1>2, <2>3 DEF Admitted, StrayCreate
  <2>5. QED
    BY <1>1, <1>4, <2>4 DEF AdmittedToday
<1>8. QED
  BY <1>6, <1>7

LEMMA QuotaKept == QuotaInv /\ [Next]_vars => QuotaInv'
<1> SUFFICES ASSUME QuotaInv, [Next]_vars PROVE Cardinality(AdmittedToday') <= MaxMails
  BY NextKeeps DEF QuotaInv
<1>1. /\ IsFiniteSet(AdmittedToday) /\ IsFiniteSet(InWindow)
      /\ Cardinality(AdmittedToday) \in Nat /\ Cardinality(InWindow) \in Nat /\ MaxMails \in Nat
  BY OutboxAssumption, FS_Subset, FS_CardinalityType DEF AdmittedToday, InWindow
<1>2. CASE AdmittedToday' \subseteq AdmittedToday
  <2>1. /\ Cardinality(AdmittedToday') <= Cardinality(AdmittedToday)
        /\ Cardinality(AdmittedToday') \in Nat
    BY <1>1, <1>2, FS_Subset, FS_CardinalityType
  <2>2. QED
    BY <1>1, <2>1 DEF QuotaInv
<1>3. ASSUME NEW d \in Deliveries, AdmittedToday' \subseteq InWindow \cup {d},
             Cardinality(InWindow) < MaxMails
      PROVE  Cardinality(AdmittedToday') <= MaxMails
  <2>1. /\ IsFiniteSet(InWindow \cup {d})
        /\ Cardinality(InWindow \cup {d}) <= Cardinality(InWindow) + 1
        /\ Cardinality(InWindow \cup {d}) \in Nat
    <3>1. /\ IsFiniteSet(InWindow \cup {d})
          /\ Cardinality(InWindow \cup {d}) = IF d \in InWindow THEN Cardinality(InWindow)
                                                                ELSE Cardinality(InWindow) + 1
      BY <1>1, FS_AddElement
    <3>2. QED
      BY <1>1, <3>1
  <2>2. /\ Cardinality(AdmittedToday') <= Cardinality(InWindow \cup {d})
        /\ Cardinality(AdmittedToday') \in Nat
    BY <1>3, <2>1, FS_Subset, FS_CardinalityType
  <2>3. QED
    BY <1>1, <1>3, <2>1, <2>2
<1>4. QED
  BY <1>2, <1>3, ReserveAdmitsOne, OthersAdmitNone DEF QuotaInv

LEMMA InitQuota == Init => QuotaInv
<1> SUFFICES ASSUME Init PROVE Cardinality(AdmittedToday) <= MaxMails
  BY InitIInv DEF QuotaInv
<1>1. AdmittedToday = {}
  BY DEF Init, AdmittedToday, Admitted, StrayCreate, Creating
<1>2. QED
  BY <1>1, FS_EmptySet, OutboxAssumption

LEMMA QuotaIsEnough == QuotaInv => WithinQuota
<1> SUFFICES ASSUME QuotaInv PROVE WithinQuota
  OBVIOUS
<1> DEFINE Mailed == {d \in Deliveries : age[d] < 2 /\ created[d] > 0}
<1>1. Mailed \subseteq AdmittedToday
  BY DEF AdmittedToday, Admitted
<1>2. IsFiniteSet(AdmittedToday)
  BY OutboxAssumption, FS_Subset DEF AdmittedToday
<1>3. /\ Cardinality(Mailed) <= Cardinality(AdmittedToday)
      /\ Cardinality(Mailed) \in Nat /\ Cardinality(AdmittedToday) \in Nat
  BY <1>1, <1>2, FS_Subset, FS_CardinalityType
<1>4. QED
  BY <1>3, OutboxAssumption DEF QuotaInv, WithinQuota

\* No more drafts than the quota come of the decisions of 24 hours, however late
\* the calls are and however the requests race.
THEOREM QuotaHolds == Spec => []WithinQuota
BY InitQuota, QuotaKept, QuotaIsEnough, PTL DEF Spec

-----------------------------------------------------------------------------
\* The mail promise.  Nothing it speaks of changes in a step that neither adds
\* a row, nor a sent copy, nor a credit.
LEMMA Quiet ==
  ASSUME sent' = sent, notified' = notified,
         \A d \in Deliveries : state'[d] = "none" <=> state[d] = "none"
  PROVE  UNCHANGED Mail!promise
BY DEF Mail!promise

\* A draft that is sent now belongs to a row that exists and has no sent copy.
LEMMA FirstCopy ==
  ASSUME IInv, NEW d \in Deliveries, NEW n \in Nat, SendEffect(d, n),
         notified' = notified, state' = state
  PROVE  [Mail!Step]_(Mail!promise)
<1>1. CASE n \notin drafts[d]
  BY <1>1, Quiet DEF IInv, TypeOK, MailboxType, SendEffect
<1>2. CASE n \in drafts[d]
  <2>1. created[d] = 1 /\ n = 1
    BY <1>2 DEF IInv, TypeOK, MailboxType, OneDraft, Boxes
  <2>2. state[d] # "none"
    BY <2>1 DEF IInv, CreateRight, FreshRow, Unclaimed
  <2>3. sent[d] = {}
    BY <1>2, <2>1 DEF IInv, TypeOK, MailboxType, Boxes
  <2>4. sent' = [sent EXCEPT ![d] = {n}]
    BY <1>2, <2>3 DEF SendEffect
  <2>5. sent'[d] = {n}
    BY <2>4 DEF IInv, TypeOK, MailboxType
  <2>6. Mail!Mail(d)
    BY <2>2, <2>3, <2>4, <2>5 DEF Mail!Mail, Mail!OneCopy
  <2> QED BY <2>6 DEF Mail!Step
<1> QED BY <1>1, <1>2

\* markSent credits a decision whose mail exists.
LEMMA CreditIsDue ==
  ASSUME IInv, NEW h \in Handlers, NEW d \in Deliveries, d = work[h], MarkSent(h),
         state[d] # "none", sent[d] # {}, sent' = sent
  PROVE  [Mail!Step]_(Mail!promise)
<1>1. \A e \in Deliveries : state'[e] = "none" <=> state[e] = "none"
  BY DEF MarkSent, IInv, TypeOK, RowType
<1>2. {e \in Deliveries : notified'[e]} = {e \in Deliveries : notified[e]} \cup {d}
  BY DEF MarkSent, IInv, TypeOK, BookType
<1>3. Mail!Credit(d)
  BY <1>1, <1>2 DEF Mail!Credit
<1> QED BY <1>3 DEF Mail!Step

\* Reserving is taking: no other row appears.
LEMMA ReserveTakes ==
  ASSUME IInv, NEW h \in Handlers, NEW d \in Deliveries, Reserve(h, d)
  PROVE  [Mail!Step]_(Mail!promise)
<1>1. PICK s \in {"reserved", "failed_not_sent"} : state' = [state EXCEPT ![d] = s]
  BY DEF Reserve
<1>2. {e \in Deliveries : state'[e] # "none"} = {e \in Deliveries : state[e] # "none"} \cup {d}
  BY <1>1 DEF IInv, TypeOK, RowType
<1>3. sent' = sent /\ notified' = notified /\ state[d] = "none"
  BY DEF Reserve, mailbox
<1>4. Mail!Take(d)
  BY <1>2, <1>3 DEF Mail!Take
<1> QED BY <1>4 DEF Mail!Step

\* Every other step of a request that touches no mail leaves the promise alone.
LEMMA RequestIsQuiet ==
  ASSUME IInv, NEW h \in Handlers,
         Advance(h) \/ CreateStep(h) \/ SendPost(h) \/ SendRefused(h) \/ SendLost(h)
           \/ SendGone(h) \/ ReconcileError(h) \/ NotFoundSent(h) \/ FoundDraft(h)
           \/ NotFoundDraft(h) \/ AlertAnswered(h) \/ GmailCreates(h)
  PROVE  UNCHANGED Mail!promise
<1>1. pc[h] # "idle"
  BY PcNames DEF Advance, AdvanceReserved, AdvanceReady, AdvanceUnknown, CreateStep, CreatePost,
     CreateRefused, CreateLost, CreateAnswered, SendPost, SendRefused, SendLost, SendGone,
     ReconcileError, NotFoundSent, FoundDraft, NotFoundDraft, AlertAnswered, GmailCreates
<1>2. work[h] \in Deliveries /\ state[work[h]] # "none"
  BY <1>1 DEF IInv, Working
<1>3. sent' = sent /\ notified' = notified
  <2>1. CASE Advance(h)
    BY <2>1 DEF Advance, AdvanceReserved, AdvanceReady, AdvanceUnknown, book, mailbox
  <2>2. CASE CreateStep(h)
    BY <2>2 DEF CreateStep, CreatePost, CreateRefused, CreateLost, CreateAnswered, Refuse,
       LeaveUnknown, book, mailbox
  <2>3. CASE SendPost(h) \/ SendRefused(h) \/ SendLost(h) \/ SendGone(h)
    BY <2>3 DEF SendPost, SendRefused, SendLost, SendGone, Refuse, LeaveUnknown, book, mailbox
  <2>4. CASE ReconcileError(h) \/ NotFoundSent(h) \/ FoundDraft(h) \/ NotFoundDraft(h)
    BY <2>4 DEF ReconcileError, NotFoundSent, FoundDraft, ResumeDraft, NotFoundDraft,
       LeaveUnknown, book, mailbox
  <2>5. CASE AlertAnswered(h) \/ GmailCreates(h)
    BY <2>5 DEF AlertAnswered, GmailCreates, CreateEffect, book, mailbox
  <2> QED BY <2>1, <2>2, <2>3, <2>4, <2>5
<1>4. \A d \in Deliveries : state'[d] = "none" <=> state[d] = "none"
  <2> USE <1>2 DEF IInv, TypeOK, RowType
  <2>1. CASE Advance(h)
    BY <2>1 DEF Advance, AdvanceReserved, AdvanceReady, AdvanceUnknown, ClaimOutbox
  <2>2. CASE CreateStep(h)
    BY <2>2 DEF CreateStep, CreatePost, CreateRefused, CreateLost, CreateAnswered, Refuse,
       LeaveUnknown, ClearOutboxLease, Adopt, row
  <2>3. CASE SendPost(h) \/ SendRefused(h) \/ SendLost(h) \/ SendGone(h)
    BY <2>3 DEF SendPost, SendRefused, SendLost, SendGone, Refuse, LeaveUnknown,
       ClearOutboxLease, row
  <2>4. CASE ReconcileError(h) \/ NotFoundSent(h) \/ FoundDraft(h) \/ NotFoundDraft(h)
    BY <2>4 DEF ReconcileError, NotFoundSent, FoundDraft, ResumeDraft, NotFoundDraft,
       LeaveUnknown, ClearOutboxLease, Adopt, row
  <2>5. CASE AlertAnswered(h) \/ GmailCreates(h)
    BY <2>5 DEF AlertAnswered, GmailCreates, row
  <2> QED BY <2>1, <2>2, <2>3, <2>4, <2>5
<1> QED BY <1>3, <1>4, Quiet

\* Every step of the outbox is a step of the mail promise, or leaves it alone.
LEMMA StepRefines == IInv /\ [Next]_vars => [Mail!Step]_(Mail!promise)
<1> SUFFICES ASSUME IInv, [Next]_vars PROVE [Mail!Step]_(Mail!promise)
  OBVIOUS
<1>1. ASSUME NEW h \in Handlers, NEW d \in Deliveries, Reserve(h, d) \/ Pick(h, d)
      PROVE  [Mail!Step]_(Mail!promise)
  <2>1. CASE Pick(h, d)
    BY <2>1, Quiet DEF Pick, row, book, mailbox
  <2> QED BY <1>1, <2>1, ReserveTakes
<1>2. ASSUME NEW h \in Handlers, Runs(h) PROVE [Mail!Step]_(Mail!promise)
  <2>1. CASE SendAnswered(h) \/ FoundSent(h)
    <3>1. work[h] \in Deliveries /\ state[work[h]] # "none" /\ sent[work[h]] # {}
      BY <2>1 DEF IInv, Working, Answers, SendAnswered, FoundSent
    <3>2. MarkSent(h) /\ sent' = sent
      BY <2>1 DEF SendAnswered, FoundSent, mailbox
    <3> QED BY <3>1, <3>2, CreditIsDue
  <2>2. CASE GmailSends(h)
    <3>1. work[h] \in Deliveries /\ draft[h] \in Nat
      BY <2>2 DEF IInv, TypeOK, LocalType, Working, GmailSends
    <3>2. SendEffect(work[h], draft[h]) /\ notified' = notified /\ state' = state
      BY <2>2 DEF GmailSends, row, book
    <3> QED BY <3>1, <3>2, FirstCopy
  <2>3. CASE ~(SendAnswered(h) \/ FoundSent(h) \/ GmailSends(h))
    BY <1>2, <2>3, RequestIsQuiet DEF Runs, SendStep, RecStep, Gmail
  <2> QED BY <2>1, <2>2, <2>3
<1>3. CASE StrayArrives
  <2>1. PICK c \in stray : IF c.op = "create" THEN CreateEffect(c.d) ELSE SendEffect(c.d, c.draft)
    BY <1>3 DEF StrayArrives
  <2>2. state' = state /\ notified' = notified
    BY <1>3 DEF StrayArrives, row, book
  <2>3. CASE c.op = "create"
    BY <2>1, <2>2, <2>3, Quiet DEF CreateEffect
  <2>4. CASE c.op # "create"
    <3>1. c.d \in Deliveries /\ c.draft \in Nat
      BY DEF IInv, TypeOK, MailboxType
    <3> QED BY <2>1, <2>2, <2>4, <3>1, FirstCopy
  <2> QED BY <2>3, <2>4
<1>4. CASE Evicted \/ UNCHANGED vars
  BY <1>4, Quiet DEF Evicted, vars, row, book, mailbox
<1>5. ASSUME NEW d \in Deliveries, LeaseExpires(d) \/ Ages(d)
      PROVE  [Mail!Step]_(Mail!promise)
  BY <1>5, Quiet DEF LeaseExpires, Ages, row, book, mailbox
<1> QED BY <1>1, <1>2, <1>3, <1>4, <1>5 DEF Next

\* The outbox keeps the mail promise: a decision is mailed at most once, after
\* it was taken, and credited only after its mail exists.
THEOREM KeepsItsPromise == Spec => KeepsPromise
<1>1. Init => Mail!Start
  BY DEF Init, Mail!Start
<1> QED BY <1>1, StepRefines, Invariance, PTL DEF Spec, KeepsPromise, Mail!Promise

=============================================================================
