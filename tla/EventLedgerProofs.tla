--------------------------- MODULE EventLedgerProofs ---------------------------
(***************************************************************************)
(* The ledger file and its lock for any number of processes, keys and      *)
(* recipients.                                                             *)
(*                                                                         *)
(* As long as nobody has removed a lock he had not judged, whoever is      *)
(* inside owns the lock file, and a lock that is found stale is that of a  *)
(* dead process (Guarded, Owned, Judged): so what a process has read under *)
(* the lock is what is in the file when it writes (UpToDate), and every    *)
(* operation adds to what it has read (LedgerClaimsProofs).  Then a claim  *)
(* in flight stands in the file until its lease is over or its sender      *)
(* closes it, and keeps every other sender out (ClaimsStand), unless a     *)
(* claim was closed late or a save put an older state over it.             *)
(*                                                                         *)
(* The copies are counted by senders (Counted).  Those in time together    *)
(* are paid for by claims closed late, but for one (Fits); that bounds who *)
(* tells a recipient until he is in the file, and nobody new tells him     *)
(* afterwards (Paid).                                                      *)
(***************************************************************************)
EXTENDS EventLedger, LedgerClaimsProofs, FiniteSetTheorems, TLAPS

Guarded == ~torn => \A p \in Procs : Holder(p) => lock.owner = p /\ now - lock.at <= StaleAfter

\* The lock is that of a process inside, or of one that died there.
Owned == ~torn /\ lock # NoLock =>
            lock.owner \in Procs /\ (Holder(lock.owner) \/ pc[lock.owner] = "dead")

Judged == \A p \in Procs : pc[p] = "stale" => torn \/ (seen[p].owner \in Procs /\ pc[seen[p].owner] = "dead")

\* Before a crash nobody is dead, so nobody has judged a lock.
Unharmed == crashes = 0 => ~torn /\ \A p \in Procs : pc[p] # "dead"

UpToDate == ~torn => \A p \in Procs : pc[p] = "read" => snap[p] = Readable(file)

IInv == TypeOK /\ Guarded /\ Owned /\ Judged /\ Unharmed /\ UpToDate

\* Who sends or closes has claimed, who opens has not.
Course == \A p \in Procs : /\ at[p] <= now
                           /\ pc[p] = "open" => claim[p].until = 0
                           /\ pc[p] = "send" \/ op[p] = "complete" => claim[p].until > 0
                           /\ pc[p] = "send" => op[p] = "claim"

InTime(p) == Holds(p) /\ now < claim[p].until /\ KeyOf[p] \notin undone

\* The claim of p as the file L shows it: in flight, or every recipient has been reached.
Stands(L, p) ==
    LET c == L.claims[KeyOf[p]]
    IN  (c.status = "in_flight" /\ c.lease = claim[p].until) \/ Recipients \subseteq c.got

ClaimsStand ==
    ~torn /\ late = {} =>
        /\ \A p \in Procs : InTime(p) => Stands(Readable(file), p)
        /\ \A p, q \in Procs : InTime(p) /\ InTime(q) /\ KeyOf[p] = KeyOf[q] => p = q

SenderInv == IInv /\ Course /\ ClaimsStand

-----------------------------------------------------------------------------
LEMMA KeepsBoth ==
  ASSUME NEW L, NEW M
  PROVE  Keeps(L, M) <=> KeepsGot(L, M) /\ KeepsSent(L, M)
BY DEF Keeps, KeepsGot, KeepsSent

-----------------------------------------------------------------------------
(* The steps. *)

LEMMA InitHolds == Init => IInv
<1> SUFFICES ASSUME Init PROVE IInv
  OBVIOUS
<1>1. TypeOK
  <2>1. file \in Ledger \cup {Unreadable}
    BY EmptyIsLedger DEF Init
  <2>2. NoLock \in [owner : Procs \cup {None}, at : Nat]
    BY DEF NoLock
  <2>3. NoHold \in [pending : SUBSET Recipients, until : Nat]
    BY DEF NoHold
  <2>4. QED
    BY <2>1, <2>2, <2>3, EmptyIsLedger DEF Init, TypeOK, Inside
<1>2. QED
  BY <1>1 DEF Init, IInv, Guarded, Owned, Judged, Unharmed, UpToDate, Holder, Inside

LEMMA ReadableTypes == TypeOK => Readable(file) \in Ledger
BY EmptyIsLedger DEF TypeOK, Readable

LEMMA ProcFacts ==
  ASSUME NEW p \in Procs
  PROVE  KeyOf[p] \in Keys /\ RankOf[p] \in Nat /\ p \in Traces /\ p # None
BY LockAssumption

LEMMA OpenKeeps ==
  ASSUME IInv, NEW p \in Procs, Open(p)
  PROVE  IInv'
<1>1. TypeOK'
  <2> DEFINE m == IF p \in Watchers THEN Observe(Readable(file), KeyOf[p], RankOf[p], now)
                                    ELSE Readable(file)
  <2>1. m \in Ledger
    BY ReadableTypes, ObserveTypes, ProcFacts DEF IInv, TypeOK
  <2> HIDE DEF m
  <2>2. mem' = [mem EXCEPT ![p] = m]
    BY DEF Open, m
  <2>3. QED
    BY <2>1, <2>2 DEF IInv, TypeOK, Open, Call, Goto, locks, lanes
<1>2. QED
  BY <1>1 DEF IInv, TypeOK, Open, Call, Goto, locks, lanes, Guarded, Owned, Judged, Unharmed, UpToDate,
              Holder, Inside, Readable

LEMMA SendKeeps ==
  ASSUME IInv, NEW p \in Procs, Send(p)
  PROVE  IInv'
<1>1. TypeOK'
  <2>1. Addressed(p) \subseteq Recipients
    BY DEF IInv, TypeOK, Addressed
  <2>2. PICK ok \in SUBSET Addressed(p) :
          /\ got' = [got EXCEPT ![p] = ok]
          /\ copies' = [copies EXCEPT ![KeyOf[p]] = [r \in Recipients |-> IF r \in ok THEN @[r] + 1 ELSE @[r]]]
    BY DEF Send
  <2>3. got' \in [Procs -> SUBSET Recipients]
    BY <2>1, <2>2 DEF IInv, TypeOK
  <2>4. copies' \in [Keys -> [Recipients -> Nat]]
    <3>1. copies[KeyOf[p]] \in [Recipients -> Nat]
      BY ProcFacts DEF IInv, TypeOK
    <3>2. [r \in Recipients |-> IF r \in ok THEN copies[KeyOf[p]][r] + 1 ELSE copies[KeyOf[p]][r]]
            \in [Recipients -> Nat]
      BY <3>1
    <3>3. QED
      BY <2>2, <3>2 DEF IInv, TypeOK
  <2>5. QED
    BY <2>3, <2>4 DEF IInv, TypeOK, Send, Call, Goto, locks
<1>2. QED
  BY <1>1 DEF IInv, TypeOK, Send, Call, Goto, locks, Guarded, Owned, Judged, Unharmed, UpToDate,
              Holder, Inside, Readable

LEMMA AcquireKeeps ==
  ASSUME IInv, NEW p \in Procs, Acquire(p)
  PROVE  IInv'
<1>1. TypeOK'
  BY DEF IInv, TypeOK, Acquire, Goto, lanes, Inside
<1>2. Guarded'
  <2>1. \A q \in Procs : ~torn => ~Holder(q)
    BY ProcFacts DEF IInv, Guarded, Acquire, NoLock
  <2>2. now \in Nat /\ StaleAfter \in Nat
    BY LockAssumption DEF IInv, TypeOK
  <2>3. QED
    BY <2>1, <2>2 DEF Guarded, Acquire, Goto, Holder, Inside, IInv, TypeOK
<1>3. QED
  BY <1>1, <1>2 DEF IInv, TypeOK, Acquire, Goto, lanes, Owned, Judged, Holder, Inside, Unharmed, UpToDate, Readable

LEMMA StatKeeps ==
  ASSUME IInv, NEW p \in Procs, Stat(p)
  PROVE  IInv'
<1>1. TypeOK'
  BY DEF IInv, TypeOK, Stat, Goto, lanes
<1>2. Judged'
  <2>1. seen'[p] = lock /\ pc'[p] = "stale" /\ torn' = torn
    BY DEF IInv, TypeOK, Stat, Goto
  <2>2. torn \/ (lock.owner \in Procs /\ pc[lock.owner] = "dead")
    <3>1. lock # NoLock /\ now - lock.at > StaleAfter
      BY DEF Stat
    <3>2. ~(now - lock.at <= StaleAfter)
      BY <3>1, LockAssumption DEF IInv, TypeOK
    <3>3. QED
      BY <3>1, <3>2 DEF IInv, Owned, Guarded
  <2>3. \A q \in Procs \ {p} : seen'[q] = seen[q] /\ pc'[q] = pc[q]
    BY DEF IInv, TypeOK, Stat, Goto
  <2>4. pc[p] = "want"
    BY DEF Stat
  <2>5. QED
    BY <2>1, <2>2, <2>3, <2>4 DEF IInv, Judged
<1>3. QED
  BY <1>1, <1>2 DEF IInv, TypeOK, Stat, Goto, lanes, Guarded, Owned, Unharmed, UpToDate, Holder, Inside, Readable

LEMMA UnlinkKeeps ==
  ASSUME IInv, NEW p \in Procs, Unlink(p)
  PROVE  IInv'
<1>1. TypeOK'
  BY DEF IInv, TypeOK, Unlink, Goto, lanes, NoLock
<1>2. pc[p] = "stale" /\ pc' = [pc EXCEPT ![p] = "want"] /\ torn \in BOOLEAN
  BY DEF IInv, TypeOK, Unlink, Goto
<1>3. Guarded'
  <2>1. SUFFICES ASSUME ~torn', NEW q \in Procs, Holder(q)'
                 PROVE  FALSE
    BY DEF Guarded
  <2>2. ~torn /\ Holder(q) /\ lock.owner = q
    BY <1>2, <2>1 DEF IInv, TypeOK, Unlink, Guarded, Holder, Inside
  <2>3. lock = seen[p]
    <3>1. lock # NoLock
      BY <2>2, ProcFacts DEF NoLock
    <3>2. QED
      BY <2>1, <3>1 DEF Unlink
  <2>4. QED
    BY <1>2, <2>2, <2>3 DEF IInv, Judged, Holder, Inside
<1>4. Owned' /\ UpToDate'
  BY <1>2 DEF IInv, Unlink, Owned, UpToDate, Readable, TypeOK
<1>5. Judged'
  BY <1>2 DEF IInv, Unlink, Judged, TypeOK
<1>6. Unharmed'
  <2>1. SUFFICES ASSUME crashes = 0
                 PROVE  FALSE
    BY <1>2 DEF IInv, Unharmed, Unlink, TypeOK
  <2>2. QED
    BY <1>2, <2>1 DEF IInv, Unharmed, Judged
<1>7. QED
  BY <1>1, <1>3, <1>4, <1>5, <1>6 DEF IInv

LEMMA GiveUpKeeps ==
  ASSUME IInv, NEW p \in Procs, GiveUp(p)
  PROVE  IInv'
<1>1. TypeOK'
  BY DEF IInv, TypeOK, GiveUp, Goto, locks, lanes
<1>2. QED
  BY <1>1 DEF IInv, TypeOK, GiveUp, Goto, locks, lanes, Guarded, Owned, Judged, Unharmed, UpToDate,
              Holder, Inside, Readable

LEMMA ReadKeeps ==
  ASSUME IInv, NEW p \in Procs, Read(p)
  PROVE  IInv'
<1>1. TypeOK'
  BY ReadableTypes DEF IInv, TypeOK, Read, Goto, locks, lanes, Inside
<1>2. UpToDate'
  BY DEF IInv, TypeOK, Read, Goto, locks, UpToDate, Readable
<1>3. QED
  BY <1>1, <1>2 DEF IInv, TypeOK, Read, Goto, locks, lanes, Guarded, Owned, Judged, Unharmed, Holder, Inside

\* Who writes has the lock, so nobody else has read what is written over.
LEMMA WritesAlone ==
  ASSUME IInv, NEW p \in Procs, pc[p] = "read", pc' = [pc EXCEPT ![p] = "written"],
         UNCHANGED <<locks, now, snap, crashes>>, TypeOK'
  PROVE  IInv'
<1>1. \A q \in Procs : pc[q] # "dead" /\ pc'[q] = "dead" => FALSE
  BY DEF IInv, TypeOK
<1>2. Guarded' /\ Owned' /\ Judged' /\ Unharmed'
  BY DEF IInv, TypeOK, locks, Guarded, Owned, Judged, Unharmed, Holder, Inside
<1>3. UpToDate'
  <2>1. SUFFICES ASSUME ~torn, NEW q \in Procs, pc'[q] = "read"
                 PROVE  FALSE
    BY DEF UpToDate, locks
  <2>2. q # p /\ pc[q] = "read"
    BY <2>1 DEF IInv, TypeOK
  <2>3. Holder(q) /\ Holder(p)
    BY <2>2 DEF Holder, Inside
  <2>4. QED
    BY <2>1, <2>2, <2>3 DEF IInv, Guarded
<1>4. QED
  BY <1>2, <1>3 DEF IInv

LEMMA ClaimOfAnswers ==
  ASSUME TypeOK, NEW p \in Procs
  PROVE  LET L == ClaimOf(p).ledger
             k == KeyOf[p]
         IN  /\ L \in Ledger /\ ClaimOf(p).pending \subseteq Recipients
             /\ OnlyClaim(snap[p], L, k) /\ snap[p].claims[k].got \subseteq L.claims[k].got
             /\ \/ L = snap[p] /\ ClaimOf(p).status # "claimed"
                \/ Recipients \subseteq L.claims[k].got /\ ClaimOf(p).status # "claimed"
                \/ /\ ClaimOf(p).status = "claimed" /\ L.claims[k].status = "in_flight"
                   /\ L.claims[k].lease = at[p] + Lease
                   /\ ~Live(snap[p].claims[k], at[p]) /\ ~(Recipients \subseteq snap[p].claims[k].got)
                   /\ ClaimOf(p).pending = Recipients \ L.claims[k].got /\ ClaimOf(p).pending # {}
<1>1. PICK S \in Ledger, j \in Keys, t \in Nat : S = snap[p] /\ j = KeyOf[p] /\ t = at[p]
  BY ProcFacts DEF TypeOK
<1>2. PICK answer : answer = ClaimNotification(S, j, None, Recipients, t)
  OBVIOUS
<1>3. /\ answer.ledger \in Ledger /\ answer.pending \subseteq Recipients
      /\ OnlyClaim(S, answer.ledger, j)
  BY <1>2, ClaimAnswers, SMTT(30)
<1>4. S.claims[j].got \subseteq answer.ledger.claims[j].got
  BY <1>2, ClaimAnswers, SMTT(30)
<1>5. \/ answer.ledger = S /\ answer.status # "claimed"
      \/ Recipients \subseteq answer.ledger.claims[j].got /\ answer.status = "already_delivered"
      \/ /\ answer.status = "claimed" /\ answer.ledger.claims[j].status = "in_flight"
         /\ answer.ledger.claims[j].lease = t + Lease
         /\ ~Live(S.claims[j], t) /\ ~(Recipients \subseteq S.claims[j].got)
         /\ answer.pending = Recipients \ answer.ledger.claims[j].got /\ answer.pending # {}
  BY <1>2, ClaimAnswers, SMTT(30)
<1>6. answer = ClaimOf(p)
  BY <1>1, <1>2 DEF ClaimOf
<1>7. QED
  BY <1>1, <1>3, <1>4, <1>5, <1>6

LEMMA WriteClaimKeeps ==
  ASSUME IInv, NEW p \in Procs, WriteClaim(p)
  PROVE  IInv' /\ Keeps(snap[p], ClaimOf(p).ledger)
<1>1. ClaimOf(p).ledger \in Ledger /\ ClaimOf(p).pending \subseteq Recipients /\ Keeps(snap[p], ClaimOf(p).ledger)
  BY ClaimOfAnswers, OneClaimKeeps, KeepsBoth, ProcFacts DEF IInv, TypeOK
<1>2. file' \in Ledger \cup {Unreadable} /\ mem' \in [Procs -> Ledger]
  BY <1>1 DEF IInv, TypeOK, WriteClaim, Replace
<1>3. claim' \in [Procs -> [pending : SUBSET Recipients, until : Nat]]
  <2>1. (IF ClaimOf(p).status = "claimed" THEN at[p] + Lease ELSE 0) \in Nat
    BY LedgerAssumption DEF IInv, TypeOK
  <2>2. QED
    BY <1>1, <2>1 DEF IInv, TypeOK, WriteClaim
<1>4. pc' = [pc EXCEPT ![p] = "written"] /\ pc[p] = "read"
  BY DEF WriteClaim, Goto
<1>5. TypeOK'
  BY <1>2, <1>3, <1>4 DEF IInv, TypeOK, WriteClaim, locks, Inside
<1>6. IInv'
  BY <1>4, <1>5, WritesAlone DEF WriteClaim
<1>7. QED
  BY <1>1, <1>6

LEMMA WriteCompleteKeeps ==
  ASSUME IInv, NEW p \in Procs, WriteComplete(p)
  PROVE  IInv' /\ file' \in Ledger /\ Keeps(snap[p], file')
<1>1. file' \in Ledger /\ Keeps(snap[p], file')
  <2>1. snap[p] \in Ledger /\ at[p] \in Nat /\ got[p] \in SUBSET Recipients /\ KeyOf[p] \in Keys
    BY ProcFacts DEF IInv, TypeOK
  <2>2. QED
    BY <2>1, CompleteTypes, OneClaimKeeps, KeepsBoth DEF WriteComplete, Replace
<1>2. mem' \in [Procs -> Ledger]
  BY <1>1 DEF IInv, TypeOK, WriteComplete, Replace
<1>3. pc' = [pc EXCEPT ![p] = "written"] /\ pc[p] = "read"
  BY DEF WriteComplete, Goto
<1>4. TypeOK'
  BY <1>1, <1>2, <1>3 DEF IInv, TypeOK, WriteComplete, locks, Inside
<1>5. IInv'
  BY <1>3, <1>4, WritesAlone DEF WriteComplete
<1>6. QED
  BY <1>1, <1>5

LEMMA WriteSaveKeeps ==
  ASSUME IInv, NEW p \in Procs, WriteSave(p)
  PROVE  IInv' /\ file' \in Ledger /\ Keeps(snap[p], file')
<1>1. file' \in Ledger /\ Keeps(snap[p], file')
  <2>1. snap[p] \in Ledger /\ mem[p] \in Ledger
    BY DEF IInv, TypeOK
  <2>2. QED
    BY <2>1, SaveTypes, KeepsBoth DEF WriteSave, Replace
<1>2. mem' \in [Procs -> Ledger]
  BY <1>1 DEF IInv, TypeOK, WriteSave, Replace
<1>3. pc' = [pc EXCEPT ![p] = "written"] /\ pc[p] = "read"
  BY DEF WriteSave, Goto
<1>4. TypeOK'
  BY <1>1, <1>2, <1>3 DEF IInv, TypeOK, WriteSave, locks, Inside, Undone
<1>5. IInv'
  BY <1>3, <1>4, WritesAlone DEF WriteSave
<1>6. QED
  BY <1>1, <1>5

LEMMA ReleaseKeeps ==
  ASSUME IInv, NEW p \in Procs, Release(p)
  PROVE  IInv'
<1>1. pc[p] = "written" /\ \E l \in {"send", "ended", "want"} : pc' = [pc EXCEPT ![p] = l]
  BY DEF Release, Goto, Call
<1>2. mem' \in [Procs -> Ledger]
  <2>1. RecordDelivery(mem[p], KeyOf[p], RankOf[p], p, {}, now) \in Ledger
    BY ProcFacts, RecordTypes DEF IInv, TypeOK
  <2> DEFINE m == RecordDelivery(mem[p], KeyOf[p], RankOf[p], p, {}, now)
  <2>2. mem' = mem \/ mem' = [mem EXCEPT ![p] = m]
    BY DEF Release
  <2> HIDE DEF m
  <2>3. QED
    BY <2>1, <2>2 DEF IInv, TypeOK, m
<1>3. op' \in [Procs -> {"claim", "complete", "save"}] /\ at' \in [Procs -> Nat]
  <2>1. \/ op' = op /\ at' = at
        \/ op' = [op EXCEPT ![p] = "save"] /\ at' = [at EXCEPT ![p] = now]
    BY DEF Release, Call
  <2>2. op \in [Procs -> {"claim", "complete", "save"}] /\ at \in [Procs -> Nat] /\ now \in Nat
    BY DEF IInv, TypeOK
  <2>3. op' \in [Procs -> {"claim", "complete", "save"}]
    BY <2>1, <2>2
  <2>4. at' \in [Procs -> Nat]
    BY <2>1, <2>2
  <2>5. QED
    BY <2>3, <2>4
<1>4. TypeOK'
  BY <1>1, <1>2, <1>3, EmptyIsLedger DEF IInv, TypeOK, Release, lanes, NoLock
<1>5. Guarded'
  <2>1. SUFFICES ASSUME ~torn', NEW q \in Procs, Holder(q)'
                 PROVE  FALSE
    BY DEF Guarded
  <2>2. ~torn /\ (lock # NoLock => lock.owner = p)
    BY <2>1 DEF Release
  <2>3. q # p /\ Holder(q) /\ Holder(p)
    BY <1>1, <2>1 DEF IInv, TypeOK, Holder, Inside
  <2>4. QED
    BY <2>2, <2>3 DEF IInv, Guarded
<1>6. torn' = torn \/ (torn' /\ crashes # 0)
  <2>1. SUFFICES ASSUME crashes = 0
                 PROVE  torn' = torn
    BY DEF Release, IInv, TypeOK
  <2>2. lock.owner = p
    BY <1>1, <2>1 DEF IInv, Unharmed, Guarded, Holder, Inside
  <2>3. QED
    BY <2>2 DEF Release, IInv, TypeOK
<1>7. Unharmed'
  BY <1>1, <1>6 DEF IInv, Unharmed, Release, TypeOK
<1>8. Owned' /\ Judged'
  BY <1>1 DEF IInv, TypeOK, Release, Owned, Judged
<1>9. UpToDate'
  BY <1>1 DEF IInv, TypeOK, Release, UpToDate, Readable
<1>10. QED
  BY <1>4, <1>5, <1>7, <1>8, <1>9 DEF IInv

LEMMA CrashKeeps ==
  ASSUME IInv, NEW p \in Procs, Crash(p)
  PROVE  IInv'
<1>1. TypeOK'
  BY DEF IInv, TypeOK, Crash, Goto, locks, lanes
<1>2. crashes' # 0
  BY DEF IInv, TypeOK, Crash
<1>3. QED
  BY <1>1, <1>2 DEF IInv, TypeOK, Crash, Goto, locks, lanes, Guarded, Owned, Judged, Unharmed, UpToDate,
              Holder, Inside, Readable

LEMMA TickKeeps ==
  ASSUME IInv, Tick
  PROVE  IInv'
<1>1. TypeOK'
  BY DEF IInv, TypeOK, Tick, locks, lanes
<1>2. Guarded'
  <2>1. now \in Nat /\ lock.at \in Nat /\ StaleAfter \in Nat /\ now' = now + 1
    BY LockAssumption DEF IInv, TypeOK, Tick
  <2>2. QED
    BY <2>1 DEF IInv, Guarded, Tick, locks, Holder
<1>3. QED
  BY <1>1, <1>2 DEF IInv, Tick, locks, lanes, Owned, Judged, Unharmed, UpToDate, Holder, Readable

LEMMA NextKeeps ==
  ASSUME IInv, [Next]_vars
  PROVE  IInv'
<1>1. CASE Tick
  BY <1>1, TickKeeps
<1>2. ASSUME NEW p \in Procs, Step(p) \/ Crash(p)
      PROVE  IInv'
  BY <1>2, OpenKeeps, SendKeeps, AcquireKeeps, StatKeeps, UnlinkKeeps, GiveUpKeeps, ReadKeeps,
     WriteClaimKeeps, WriteCompleteKeeps, WriteSaveKeeps, ReleaseKeeps, CrashKeeps DEF Step
<1>3. CASE UNCHANGED vars
  <2>1. TypeOK'
    BY <1>3 DEF IInv, TypeOK, vars
  <2>2. QED
    BY <1>3, <2>1 DEF IInv, vars, Guarded, Owned, Judged, Unharmed, UpToDate, Holder, Readable
<1>4. QED
  BY <1>1, <1>2, <1>3 DEF Next

-----------------------------------------------------------------------------
\* The inductive invariant holds of every state that can be reached.
THEOREM Invariance == Spec => []IInv
<1>1. Init => IInv
  BY InitHolds
<1>2. IInv /\ [Next]_vars => IInv'
  BY NextKeeps
<1>3. QED
  BY <1>1, <1>2, PTL DEF Spec

\* Every variable of the ledger keeps its type.
THEOREM TypeCorrect == Spec => []TypeOK
<1>1. IInv => TypeOK
  BY DEF IInv
<1>2. QED
  BY <1>1, Invariance, PTL

\* Unless a process has died, no two processes are inside the lock together, whatever
\* waiters do to a lock that looks stale.
THEOREM Exclusion == Spec => []OneHolder
<1>1. IInv => OneHolder
  BY DEF IInv, Unharmed, Guarded, OneHolder
<1>2. QED
  BY <1>1, Invariance, PTL

\* What is written is a ledger that adds to the one that was there.
LEMMA FileKeeps ==
  ASSUME IInv, [Next]_vars, ~torn
  PROVE  /\ file' = file \/ file' \in Ledger
         /\ Keeps(Readable(file), Readable(file)')
<1>1. CASE file' = file
  BY <1>1, KeepsItself, KeepsBoth DEF Readable
<1>2. ASSUME NEW p \in Procs, pc[p] = "read", file' \in Ledger, Keeps(snap[p], file')
      PROVE  Keeps(Readable(file), Readable(file)')
  BY <1>2, LockAssumption DEF IInv, UpToDate, Readable
<1>3. ASSUME NEW p \in Procs, WriteClaim(p), file' # file
      PROVE  pc[p] = "read" /\ file' \in Ledger /\ Keeps(snap[p], file')
  BY <1>3, WriteClaimKeeps, ClaimOfAnswers DEF WriteClaim, Replace, IInv
<1>4. ASSUME NEW p \in Procs, WriteComplete(p) \/ WriteSave(p)
      PROVE  pc[p] = "read" /\ file' \in Ledger /\ Keeps(snap[p], file')
  BY <1>4, WriteCompleteKeeps, WriteSaveKeeps DEF WriteComplete, WriteSave
<1>5. file' = file \/ \E p \in Procs : WriteClaim(p) \/ WriteComplete(p) \/ WriteSave(p)
  BY DEF Next, Step, Tick, Open, Send, Acquire, Stat, Unlink, GiveUp, Read, Release, Crash, vars
<1>6. CASE file' # file
  <2>1. PICK p \in Procs : pc[p] = "read" /\ file' \in Ledger /\ Keeps(snap[p], file')
    BY <1>3, <1>4, <1>5, <1>6
  <2>2. QED
    BY <1>2, <2>1
<1>7. QED
  BY <1>1, <1>6

\* No confirmed recipient and no delivery recorded leaves the file, unless a lock was
\* removed that its remover had not judged.
THEOREM NothingLost == Spec => NothingIsForgotten
<1>1. IInv /\ [Next]_vars => [~torn /\ file # Unreadable => Keeps(file, file')]_vars
  BY FileKeeps, LockAssumption DEF Readable
<1>2. QED
  BY <1>1, Invariance, PTL DEF Spec, NothingIsForgotten

-----------------------------------------------------------------------------
(* The claims in the file. *)

\* A step of a process is nobody else's.
LEMMA StepsApart ==
  ASSUME TypeOK, NEW p \in Procs, Step(p) \/ Crash(p)
  PROVE  /\ now' = now
         /\ \A q \in Procs \ {p} : /\ pc'[q] = pc[q] /\ op'[q] = op[q] /\ at'[q] = at[q]
                                   /\ claim'[q] = claim[q] /\ got'[q] = got[q]
                                   /\ q \in late' <=> q \in late
BY DEF Step, Open, Send, Acquire, Stat, Unlink, GiveUp, Read, WriteClaim, WriteComplete, WriteSave,
       Release, Crash, TypeOK, Call, Goto, lanes

LEMMA CourseKept ==
  ASSUME TypeOK, Course, [Next]_vars
  PROVE  Course'
<1>1. CASE Tick
  <2>1. now \in Nat /\ now' = now + 1 /\ \A p \in Procs : at[p] \in Nat
    BY <1>1 DEF Tick, TypeOK
  <2>2. UNCHANGED <<pc, op, at, claim>>
    BY <1>1 DEF Tick, lanes
  <2>3. QED
    BY <2>1, <2>2 DEF Course
<1>2. CASE UNCHANGED vars
  BY <1>2 DEF vars, Course
<1>3. ASSUME NEW p \in Procs, Step(p) \/ Crash(p)
      PROVE  Course'
  <2>1. now' = now /\ now \in Nat
    BY <1>3, StepsApart DEF TypeOK
  <2>2. \A q \in Procs \ {p} : pc'[q] = pc[q] /\ op'[q] = op[q] /\ at'[q] = at[q] /\ claim'[q] = claim[q]
    BY <1>3, StepsApart
  <2>3. /\ at'[p] <= now
        /\ pc'[p] = "open" => claim'[p].until = 0
        /\ pc'[p] = "send" \/ op'[p] = "complete" => claim'[p].until > 0
        /\ pc'[p] = "send" => op'[p] = "claim"
    <3>1. at[p] \in Nat /\ at[p] <= now
      BY DEF TypeOK, Course
    <3>2. CASE Open(p) \/ Send(p)
      BY <2>1, <3>1, <3>2 DEF Open, Send, Call, Goto, TypeOK, Course, lanes
    <3>3. CASE Acquire(p) \/ Stat(p) \/ Unlink(p) \/ GiveUp(p) \/ Read(p) \/ Crash(p)
      BY <3>1, <3>3 DEF Acquire, Stat, Unlink, GiveUp, Read, Crash, Goto, TypeOK, Course, lanes
    <3>4. CASE WriteClaim(p)
      BY <3>1, <3>4 DEF WriteClaim, Goto, TypeOK, Course
    <3>5. CASE WriteComplete(p) \/ WriteSave(p)
      BY <3>1, <3>5 DEF WriteComplete, WriteSave, Goto, TypeOK, Course
    <3>6. CASE Release(p)
      BY <2>1, <3>1, <3>6 DEF Release, Call, Goto, TypeOK, Course, lanes
    <3>7. QED
      BY <1>3, <3>2, <3>3, <3>4, <3>5, <3>6 DEF Step
  <2>4. QED
    BY <2>1, <2>2, <2>3 DEF Course
<1>4. QED
  BY <1>1, <1>2, <1>3 DEF Next

\* Steps that leave the file and the claims alone, and let nobody claim.
LEMMA StandsAside ==
  ASSUME ClaimsStand, UNCHANGED <<file, claim, undone>>,
         ~torn' => ~torn, late' = {} => late = {},
         \A p \in Procs : InTime(p)' => InTime(p)
  PROVE  ClaimsStand'
<1>1. \A p \in Procs : Stands(Readable(file), p)' <=> Stands(Readable(file), p)
  BY DEF Stands, Readable
<1>2. QED
  BY <1>1 DEF ClaimsStand

LEMMA WriteClaimStands ==
  ASSUME SenderInv, NEW p \in Procs, WriteClaim(p)
  PROVE  ClaimsStand'
<1> DEFINE L == Readable(file)
           k == KeyOf[p]
<1> SUFFICES ASSUME ~torn, late = {}
             PROVE  /\ \A q \in Procs : InTime(q)' => Stands(Readable(file), q)'
                    /\ \A q, s \in Procs : InTime(q)' /\ InTime(s)' /\ KeyOf[q] = KeyOf[s] => q = s
  BY DEF ClaimsStand, WriteClaim, locks
<1>1. TypeOK /\ snap[p] = L /\ L \in Ledger
  BY ReadableTypes DEF SenderInv, IInv, UpToDate, WriteClaim
<1> PICK M : M = ClaimOf(p).ledger
  OBVIOUS
<1> DEFINE c == L.claims[k]
           d == M.claims[k]
<1>2. /\ M \in Ledger /\ OnlyClaim(L, M, k) /\ c.got \subseteq d.got
      /\ \/ M = L /\ ClaimOf(p).status # "claimed"
         \/ Recipients \subseteq d.got /\ ClaimOf(p).status # "claimed"
         \/ /\ ClaimOf(p).status = "claimed" /\ d.status = "in_flight" /\ d.lease = at[p] + Lease
            /\ ~Live(c, at[p]) /\ ~(Recipients \subseteq c.got)
  BY <1>1, ClaimOfAnswers
<1>3. Readable(file)' = M
  <2>1. CASE M = L
    BY <1>1, <2>1 DEF WriteClaim, Replace, Readable
  <2>2. CASE M # L
    <3>1. file' = M
      BY <1>1, <2>2 DEF WriteClaim, Replace
    <3>2. QED
      BY <1>1, <1>2, <3>1, LockAssumption DEF Readable
  <2>3. QED
    BY <2>1, <2>2
<1>4. claim'[p].until > 0 => ClaimOf(p).status = "claimed" /\ claim'[p].until = at[p] + Lease
  BY <1>1 DEF WriteClaim, TypeOK
<1>5. ASSUME NEW q \in Procs, q # p
      PROVE  /\ InTime(q)' <=> InTime(q)
             /\ InTime(q) /\ KeyOf[q] = k => ClaimOf(p).status # "claimed"
             /\ InTime(q) => Stands(M, q)'
  <2>1. claim'[q] = claim[q]
    BY <1>1, <1>5 DEF WriteClaim, TypeOK
  <2>2. InTime(q)' <=> InTime(q)
    BY <1>1, <1>5, <2>1 DEF WriteClaim, Goto, InTime, Holds, TypeOK
  <2>3. ASSUME InTime(q)
        PROVE  Stands(L, q)
    BY <2>3 DEF SenderInv, ClaimsStand
  <2>4. ASSUME InTime(q), KeyOf[q] = k
        PROVE  ClaimOf(p).status # "claimed" /\ Stands(M, q)'
    <3>1. CASE Recipients \subseteq c.got
      BY <1>2, <2>1, <2>4, <3>1 DEF Stands
    <3>2. CASE c.status = "in_flight" /\ c.lease = claim[q].until
      <4>1. at[p] \in Nat /\ now \in Nat /\ claim[q].until \in Nat /\ at[p] <= now /\ now < claim[q].until
        BY <1>1, <2>4 DEF TypeOK, SenderInv, Course, InTime
      <4>2. Live(c, at[p])
        BY <3>2, <4>1 DEF Live
      <4>3. QED
        BY <1>2, <2>1, <2>4, <3>2, <4>2 DEF Stands
    <3>3. QED
      BY <2>3, <2>4, <3>1, <3>2 DEF Stands
  <2>5. ASSUME InTime(q), KeyOf[q] # k
        PROVE  Stands(M, q)'
    <3>1. M.claims[KeyOf[q]] = L.claims[KeyOf[q]]
      BY <1>2, <2>5, ProcFacts DEF OnlyClaim
    <3>2. QED
      BY <2>1, <2>3, <2>5, <3>1 DEF Stands
  <2>6. QED
    BY <2>1, <2>2, <2>4, <2>5
<1>6. ASSUME NEW q \in Procs, q = p, InTime(q)'
      PROVE  ClaimOf(p).status = "claimed" /\ Stands(M, q)'
  <2>1. claim'[p].until > 0
    BY <1>6 DEF InTime, Holds
  <2>2. QED
    BY <1>2, <1>4, <1>6, <2>1 DEF Stands
<1>7. ASSUME NEW q \in Procs, InTime(q)'
      PROVE  Stands(M, q)'
  <2>1. CASE q = p
    BY <1>6, <1>7, <2>1 DEF InTime, Holds
  <2>2. CASE q # p
    BY <1>5, <1>7, <2>2
  <2>3. QED
    BY <2>1, <2>2
<1>8. \A q \in Procs : Stands(Readable(file), q)' <=> Stands(M, q)'
  BY <1>3 DEF Stands
<1>9. ASSUME NEW q \in Procs, NEW s \in Procs, InTime(q)', InTime(s)', KeyOf[q] = KeyOf[s]
      PROVE  q = s
  <2>1. CASE q = p /\ s # p
    BY <1>5, <1>6, <1>9, <2>1 DEF InTime, Holds
  <2>2. CASE q # p /\ s = p
    BY <1>5, <1>6, <1>9, <2>2 DEF InTime, Holds
  <2>3. CASE q # p /\ s # p
    BY <1>5, <1>9, <2>3 DEF SenderInv, ClaimsStand, InTime, Holds
  <2>4. QED
    BY <2>1, <2>2, <2>3
<1>10. QED
  BY <1>7, <1>8, <1>9

\* Whoever closes a claim in time closes his own: no other sender has one.
LEMMA WriteCompleteStands ==
  ASSUME SenderInv, NEW p \in Procs, WriteComplete(p)
  PROVE  ClaimsStand'
<1> DEFINE L == Readable(file)
           k == KeyOf[p]
           M == CompleteClaim(L, k, got[p], FALSE, at[p])
<1> SUFFICES ASSUME ~torn, late' = {}
             PROVE  /\ \A q \in Procs : InTime(q)' => Stands(Readable(file), q)'
                    /\ \A q, s \in Procs : InTime(q)' /\ InTime(s)' /\ KeyOf[q] = KeyOf[s] => q = s
  BY DEF ClaimsStand, WriteComplete, locks
<1>1. TypeOK /\ snap[p] = L /\ L \in Ledger
  BY ReadableTypes DEF SenderInv, IInv, UpToDate, WriteComplete
<1>2. M \in Ledger /\ OnlyClaim(L, M, k)
  <2>1. KeyOf[p] \in Keys /\ at[p] \in Nat /\ got[p] \in SUBSET Recipients
    BY <1>1, ProcFacts DEF TypeOK
  <2>2. QED
    BY <1>1, <2>1, CompleteTypes
<1> HIDE DEF M
<1>3. file' = M /\ Readable(file)' = M
  <2>1. file' = M
    BY <1>1 DEF WriteComplete, Replace, M
  <2>2. QED
    BY <1>2, <2>1, LockAssumption DEF Readable
<1>4. late = {} /\ now < claim[p].until
  <2>1. now \in Nat /\ claim[p].until \in Nat
    BY <1>1 DEF TypeOK
  <2>2. QED
    BY <2>1 DEF WriteComplete
<1>5. Holds(p)
  BY DEF SenderInv, Course, WriteComplete, Holds
<1>6. ASSUME NEW q \in Procs, InTime(q)'
      PROVE  q # p /\ KeyOf[q] # k /\ InTime(q)
  <2>1. q # p
    BY <1>1, <1>6 DEF InTime, Holds, WriteComplete, Goto, TypeOK
  <2>2. InTime(q)
    BY <1>1, <1>6, <2>1 DEF InTime, Holds, WriteComplete, Goto, TypeOK
  <2>3. KeyOf[q] # k
    BY <1>4, <1>5, <2>1, <2>2 DEF SenderInv, ClaimsStand, InTime
  <2>4. QED
    BY <2>1, <2>2, <2>3
<1>7. ASSUME NEW q \in Procs, InTime(q)'
      PROVE  Stands(Readable(file), q)'
  <2>1. Stands(L, q) /\ M.claims[KeyOf[q]] = L.claims[KeyOf[q]] /\ claim' = claim
    BY <1>2, <1>4, <1>6, <1>7, ProcFacts DEF SenderInv, ClaimsStand, OnlyClaim, WriteComplete
  <2>2. QED
    BY <1>3, <2>1 DEF Stands
<1>8. QED
  BY <1>4, <1>6, <1>7 DEF SenderInv, ClaimsStand

LEMMA WriteSaveStands ==
  ASSUME SenderInv, NEW p \in Procs, WriteSave(p)
  PROVE  ClaimsStand'
<1> DEFINE L == Readable(file)
           M == Save(L, mem[p])
<1> SUFFICES ASSUME ~torn, late = {}
             PROVE  /\ \A q \in Procs : InTime(q)' => Stands(Readable(file), q)'
                    /\ \A q, s \in Procs : InTime(q)' /\ InTime(s)' /\ KeyOf[q] = KeyOf[s] => q = s
  BY DEF ClaimsStand, WriteSave, locks
<1>1. TypeOK /\ snap[p] = L /\ L \in Ledger /\ mem[p] \in Ledger
  BY ReadableTypes DEF SenderInv, IInv, UpToDate, WriteSave, TypeOK
<1>2. M \in Ledger /\ KeepsGot(L, M)
  BY <1>1, SaveTypes
<1>3. undone' = undone \cup Undone(p) /\ \A k \in Keys \ Undone(p) :
        L.claims[k].status = "in_flight" => M.claims[k].status = "in_flight" /\ M.claims[k].lease = L.claims[k].lease
  BY <1>1 DEF WriteSave, Undone
<1> HIDE DEF M
<1>4. Readable(file)' = M
  <2>1. file' = M
    BY <1>1 DEF WriteSave, Replace, M
  <2>2. QED
    BY <1>2, <2>1, LockAssumption DEF Readable
<1>5. ASSUME NEW q \in Procs, InTime(q)'
      PROVE  InTime(q) /\ KeyOf[q] \notin Undone(p)
  BY <1>1, <1>3, <1>5 DEF InTime, Holds, WriteSave, Goto, TypeOK
<1>6. ASSUME NEW q \in Procs, InTime(q)'
      PROVE  Stands(Readable(file), q)'
  <2>1. Stands(L, q) /\ KeyOf[q] \in Keys \ Undone(p) /\ claim' = claim
    BY <1>5, <1>6, ProcFacts DEF SenderInv, ClaimsStand, WriteSave
  <2>2. L.claims[KeyOf[q]].got \subseteq M.claims[KeyOf[q]].got
    BY <1>2, <2>1 DEF KeepsGot
  <2>3. QED
    BY <1>3, <1>4, <2>1, <2>2 DEF Stands
<1>7. QED
  BY <1>5, <1>6 DEF SenderInv, ClaimsStand

\* The other steps let nobody claim: at most a process opens, and has no claim yet.
LEMMA NobodyClaims ==
  ASSUME TypeOK, Course, NEW p \in Procs,
         Open(p) \/ Send(p) \/ Acquire(p) \/ Stat(p) \/ Unlink(p) \/ GiveUp(p) \/ Read(p) \/ Release(p) \/ Crash(p)
  PROVE  /\ UNCHANGED <<file, claim, undone, late, now>> /\ (~torn' => ~torn)
         /\ \A q \in Procs : Holds(q)' => Holds(q)
<1>1. UNCHANGED <<file, claim, undone, late, now>> /\ (~torn' => ~torn)
  BY DEF Open, Send, Acquire, Stat, Unlink, GiveUp, Read, Release, Crash, lanes, locks, TypeOK
<1>2. ASSUME NEW q \in Procs, Holds(q)'
      PROVE  Holds(q)
  <2>1. CASE q # p
    BY <1>2, <2>1, StepsApart DEF Holds, Step
  <2>2. CASE q = p
    <3>1. CASE Open(p)
      BY <1>1, <1>2, <2>2, <3>1 DEF Course, Open, Holds
    <3>2. CASE Send(p)
      BY <1>1, <1>2, <2>2, <3>2 DEF Send, Holds, Course
    <3>3. CASE Acquire(p) \/ Stat(p) \/ Unlink(p) \/ GiveUp(p) \/ Read(p) \/ Crash(p)
      BY <1>1, <1>2, <2>2, <3>3 DEF Acquire, Stat, Unlink, GiveUp, Read, Crash, Goto, Holds, TypeOK
    <3>4. CASE Release(p)
      BY <1>1, <1>2, <2>2, <3>4 DEF Release, Call, Goto, Holds, TypeOK
    <3>5. QED
      BY <3>1, <3>2, <3>3, <3>4
  <2>3. QED
    BY <2>1, <2>2
<1>3. QED
  BY <1>1, <1>2

LEMMA OthersStand ==
  ASSUME SenderInv, NEW p \in Procs,
         Open(p) \/ Send(p) \/ Acquire(p) \/ Stat(p) \/ Unlink(p) \/ GiveUp(p) \/ Read(p) \/ Release(p) \/ Crash(p)
  PROVE  ClaimsStand'
BY NobodyClaims, StandsAside DEF InTime, SenderInv, IInv

LEMMA SenderInvKept ==
  ASSUME SenderInv, [Next]_vars
  PROVE  SenderInv'
<1>1. IInv' /\ Course'
  BY NextKeeps, CourseKept DEF SenderInv, IInv
<1>2. ClaimsStand'
  <2>1. CASE Tick
    <3>1. now \in Nat /\ now' = now + 1 /\ \A q \in Procs : claim[q].until \in Nat
      BY <2>1 DEF Tick, SenderInv, IInv, TypeOK
    <3>2. UNCHANGED <<file, claim, undone, late, torn, pc, op>>
      BY <2>1 DEF Tick, lanes, locks
    <3>3. \A q \in Procs : InTime(q)' => InTime(q)
      BY <3>1, <3>2 DEF InTime, Holds
    <3>4. QED
      BY <3>2, <3>3, StandsAside DEF SenderInv
  <2>2. CASE UNCHANGED vars
    BY <2>2, StandsAside DEF vars, InTime, Holds, SenderInv
  <2>3. ASSUME NEW p \in Procs, Step(p) \/ Crash(p)
        PROVE  ClaimsStand'
    BY <2>3, WriteClaimStands, WriteCompleteStands, WriteSaveStands, OthersStand DEF Step
  <2>4. QED
    BY <2>1, <2>2, <2>3 DEF Next
<1>3. QED
  BY <1>1, <1>2 DEF SenderInv

LEMMA SenderInvInvariant == Spec => []SenderInv
<1>1. Init => SenderInv
  <2> SUFFICES ASSUME Init PROVE SenderInv
    OBVIOUS
  <2>1. Course /\ \A p \in Procs : ~Holds(p)
    BY DEF Init, Course, Holds, NoHold
  <2>2. QED
    BY <2>1, InitHolds DEF SenderInv, ClaimsStand, InTime
<1>2. SenderInv /\ [Next]_vars => SenderInv'
  BY SenderInvKept
<1>3. QED
  BY <1>1, <1>2, PTL DEF Spec

\* No two senders hold a claim on one key, unless one of them overran its lease, a save
\* put an older state over a claim in flight, or a lock was stolen.
THEOREM SendersAlternate == Spec => []OneSender
<1>1. SenderInv => OneSender
  <2> SUFFICES ASSUME SenderInv, NEW p \in Procs, NEW q \in Procs, p # q, Holds(p), Holds(q),
                      KeyOf[p] = KeyOf[q], ~torn, KeyOf[p] \notin undone, Overran = {}
               PROVE  FALSE
    BY DEF OneSender
  <2>1. late = {} /\ \A s \in {p, q} : now \in Nat /\ claim[s].until \in Nat /\ now < claim[s].until
    BY DEF Overran, SenderInv, IInv, TypeOK
  <2>2. InTime(p) /\ InTime(q)
    BY <2>1 DEF InTime
  <2>3. QED
    BY <2>1, <2>2 DEF SenderInv, ClaimsStand
<1>2. QED
  BY <1>1, SenderInvInvariant, PTL
-----------------------------------------------------------------------------
(* Who tells whom. *)

Timely(k) == {p \in Procs : InTime(p) /\ KeyOf[p] = k}
Late(k)   == {p \in late : KeyOf[p] = k}

\* As many senders are in time together as claims were closed late (n); one more only
\* while nobody else can claim, because its claim is in flight or nobody is left to tell.
Fitting(c, T, until, n) ==
    \/ Cardinality(T) <= n
    \/ Recipients \subseteq c.got /\ Cardinality(T) <= n + 1
    \/ c.status = "in_flight" /\ \E p \in T : c.lease = until[p] /\ Cardinality(T \ {p}) <= n

Until   == [p \in Procs |-> claim[p].until]
Fits(k) == Fitting(Readable(file).claims[k], Timely(k), Until, Cardinality(Late(k)))

\* Nobody has told anybody before he sends, or holds a claim before he has claimed.
Lane == \A p \in Procs :
    /\ pc[p] = "open" => op[p] = "save"
    /\ pc[p] = "open" \/ op[p] = "claim" => got[p] = {}
    /\ op[p] = "claim" /\ pc[p] \in {"want", "stale", "held", "read"} => claim[p].until = 0
    /\ claim[p].until > 0 => claim[p].pending # {}
    /\ p \in late => ~Holds(p) /\ op[p] # "claim" /\ pc[p] # "open"

\* Whom a sender told is in the file once it has closed its claim.
Closed(p) == op[p] = "save" \/ p \in late \/ (op[p] = "complete" /\ pc[p] = "written")
Told == ~torn => \A p \in Procs : Closed(p) => got[p] \subseteq Readable(file).claims[KeyOf[p]].got

\* Who told r of k, and who may still.
Heard(k, r)   == {p \in Procs : KeyOf[p] = k /\ r \in got[p]}
MayHear(k, r) == {p \in Procs : KeyOf[p] = k /\ Holds(p) /\ op[p] = "claim" /\ r \in claim[p].pending}
Reach(k, r)   == Heard(k, r) \cup MayHear(k, r)

Counted == \A k \in Keys, r \in Recipients : copies[k][r] = Cardinality(Heard(k, r))

RoundInv == /\ IInv /\ Course /\ Lane /\ Told /\ Counted
            /\ ~torn => \A k \in Keys \ undone : Fits(k)

\* Those who reach r of k without a cause are paid for by claims that were closed late.
Paid(k, r) == Cardinality(Reach(k, r) \ Causes(k)) <= Cardinality(Late(k) \ Reach(k, r)) + 1

\* Before r is in the file, Fits says as much.
FreshIsPaid == ~torn => \A k \in Keys \ undone, r \in Recipients :
                           r \notin Readable(file).claims[k].got => Paid(k, r)
AllPaid     == ~torn => \A k \in Keys \ undone, r \in Recipients : Paid(k, r)

-----------------------------------------------------------------------------
LEMMA Finite ==
  ASSUME NEW S, S \subseteq Procs
  PROVE  IsFiniteSet(S) /\ Cardinality(S) \in Nat
BY FS_Subset, FS_CardinalityType, LockAssumption

LEMMA LateFinite == TypeOK => \A k \in Keys : IsFiniteSet(Late(k)) /\ Cardinality(Late(k)) \in Nat
<1> SUFFICES ASSUME TypeOK, NEW k \in Keys PROVE IsFiniteSet(Late(k)) /\ Cardinality(Late(k)) \in Nat
  OBVIOUS
<1>1. Late(k) \subseteq Procs
  BY DEF TypeOK, Late
<1>2. QED
  BY <1>1, Finite

LEMMA FitsBound ==
  ASSUME NEW c, NEW T, T \subseteq Procs, NEW until, NEW n \in Nat, Fitting(c, T, until, n)
  PROVE  Cardinality(T) <= n + 1
<1>1. IsFiniteSet(T) /\ Cardinality(T) \in Nat
  BY Finite
<1>2. CASE \E p \in T : Cardinality(T \ {p}) <= n
  <2>1. PICK p \in T : Cardinality(T \ {p}) <= n
    BY <1>2
  <2>2. Cardinality(T \ {p}) = Cardinality(T) - 1
    BY <1>1, FS_RemoveElement
  <2>3. QED
    BY <1>1, <2>1, <2>2
<1>3. QED
  BY <1>1, <1>2 DEF Fitting

\* Fewer senders, more claims closed late, more recipients told, the claim in flight kept.
LEMMA FewerFit ==
  ASSUME NEW c, NEW d, NEW T, T \subseteq Procs, NEW S, S \subseteq T, NEW u, NEW v,
         \A p \in S : v[p] = u[p], NEW m \in Nat, NEW n \in Nat, m <= n, Fitting(c, T, u, m),
         c.got \subseteq d.got,
         c.status = "in_flight" => d.status = "in_flight" /\ d.lease = c.lease
  PROVE  Fitting(d, S, v, n)
<1>1. /\ IsFiniteSet(T) /\ Cardinality(T) \in Nat
      /\ IsFiniteSet(S) /\ Cardinality(S) \in Nat
  BY Finite
<1>2. Cardinality(S) <= Cardinality(T)
  BY <1>1, FS_Subset
<1>3. CASE Cardinality(T) <= m \/ (Recipients \subseteq c.got /\ Cardinality(T) <= m + 1)
  BY <1>1, <1>2, <1>3 DEF Fitting
<1>4. CASE c.status = "in_flight" /\ \E p \in T : c.lease = u[p] /\ Cardinality(T \ {p}) <= m
  <2>1. PICK p \in T : c.lease = u[p] /\ Cardinality(T \ {p}) <= m
    BY <1>4
  <2>2. IsFiniteSet(T \ {p}) /\ Cardinality(T \ {p}) \in Nat
    BY <1>1, Finite
  <2>3. S \ {p} \subseteq T \ {p}
    OBVIOUS
  <2>4. Cardinality(S \ {p}) <= Cardinality(T \ {p}) /\ Cardinality(S \ {p}) \in Nat
    BY <2>2, <2>3, FS_Subset, FS_CardinalityType
  <2>5. Cardinality(S \ {p}) <= n
    BY <2>1, <2>2, <2>4
  <2>6. CASE p \in S
    <3>1. v[p] = u[p] /\ d.status = "in_flight" /\ d.lease = v[p]
      BY <1>4, <2>1, <2>6
    <3>2. QED
      BY <2>5, <2>6, <3>1 DEF Fitting
  <2>7. CASE p \notin S
    <3>1. S \ {p} = S
      BY <2>7
    <3>2. QED
      BY <2>5, <3>1 DEF Fitting
  <2>8. QED
    BY <2>6, <2>7
<1>5. QED
  BY <1>3, <1>4 DEF Fitting

\* With fewer that have no cause and more that were late it stays paid.
LEMMA StaysPaid ==
  ASSUME NEW A, A \subseteq Procs, NEW B, B \subseteq A, NEW M, NEW N, N \subseteq Procs, M \subseteq N,
         Cardinality(A) <= Cardinality(M) + 1
  PROVE  Cardinality(B) <= Cardinality(N) + 1
<1>1. /\ IsFiniteSet(A) /\ Cardinality(A) \in Nat /\ IsFiniteSet(B) /\ Cardinality(B) \in Nat
      /\ IsFiniteSet(M) /\ Cardinality(M) \in Nat /\ IsFiniteSet(N) /\ Cardinality(N) \in Nat
  BY Finite
<1>2. Cardinality(B) <= Cardinality(A) /\ Cardinality(M) <= Cardinality(N)
  BY <1>1, FS_Subset
<1>3. QED
  BY <1>1, <1>2

-----------------------------------------------------------------------------
LEMMA TornStays ==
  ASSUME [Next]_vars, torn
  PROVE  torn'
<1>1. CASE UNCHANGED torn
  BY <1>1
<1>2. ASSUME NEW p \in Procs, Unlink(p) \/ Release(p)
      PROVE  torn'
  BY <1>2 DEF Unlink, Release
<1>3. QED
  BY <1>1, <1>2 DEF Next, Step, Tick, Open, Send, Acquire, Stat, GiveUp, Read, WriteClaim,
     WriteComplete, WriteSave, Crash, locks, vars

LEMMA LaneKept ==
  ASSUME IInv, Course, Lane, [Next]_vars
  PROVE  Lane'
<1>1. CASE Tick \/ UNCHANGED vars
  <2>1. UNCHANGED <<pc, op, claim, got, late>>
    BY <1>1 DEF Tick, vars, lanes
  <2>2. QED
    BY <2>1 DEF Lane, Holds
<1>2. ASSUME NEW p \in Procs, Step(p) \/ Crash(p)
      PROVE  Lane'
  <2>1. TypeOK /\ now' = now
    BY <1>2, StepsApart DEF IInv
  <2>2. ASSUME NEW q \in Procs, q # p
        PROVE  /\ pc'[q] = "open" => op'[q] = "save"
               /\ pc'[q] = "open" \/ op'[q] = "claim" => got'[q] = {}
               /\ op'[q] = "claim" /\ pc'[q] \in {"want", "stale", "held", "read"} => claim'[q].until = 0
               /\ claim'[q].until > 0 => claim'[q].pending # {}
               /\ q \in late' => ~Holds(q)' /\ op'[q] # "claim" /\ pc'[q] # "open"
    <3>1. pc'[q] = pc[q] /\ op'[q] = op[q] /\ claim'[q] = claim[q] /\ got'[q] = got[q] /\ (q \in late' <=> q \in late)
      BY <1>2, <2>1, <2>2, StepsApart
    <3>2. Holds(q)' <=> Holds(q)
      BY <3>1 DEF Holds
    <3>3. QED
      BY <3>1, <3>2 DEF Lane
  <2>3. /\ pc'[p] = "open" => op'[p] = "save"
        /\ pc'[p] = "open" \/ op'[p] = "claim" => got'[p] = {}
        /\ op'[p] = "claim" /\ pc'[p] \in {"want", "stale", "held", "read"} => claim'[p].until = 0
        /\ claim'[p].until > 0 => claim'[p].pending # {}
        /\ p \in late' => ~Holds(p)' /\ op'[p] # "claim" /\ pc'[p] # "open"
    <3>1. CASE Open(p)
      BY <2>1, <3>1 DEF Open, Call, Goto, TypeOK, Course, Lane, lanes
    <3>2. CASE Send(p)
      BY <2>1, <3>2 DEF Send, Call, Goto, TypeOK, Course, Lane
    <3>3. CASE Acquire(p) \/ Stat(p) \/ Unlink(p) \/ GiveUp(p) \/ Read(p) \/ Crash(p)
      <4>1. UNCHANGED <<op, claim, got, late>>
        BY <3>3 DEF Acquire, Stat, Unlink, GiveUp, Read, Crash, lanes
      <4>2. /\ pc'[p] # "open"
            /\ pc'[p] \in {"want", "stale", "held", "read"} => pc[p] \in {"want", "stale", "held", "read"}
        BY <2>1, <3>3 DEF Acquire, Stat, Unlink, GiveUp, Read, Crash, Goto, TypeOK
      <4>3. Holds(p)' => Holds(p)
        BY <2>1, <3>3, NobodyClaims
      <4>4. QED
        BY <4>1, <4>2, <4>3 DEF Lane
    <3>4. CASE WriteClaim(p)
      <4>1. claim'[p] = [pending |-> ClaimOf(p).pending,
                         until |-> IF ClaimOf(p).status = "claimed" THEN at[p] + Lease ELSE 0]
        BY <2>1, <3>4 DEF WriteClaim, TypeOK
      <4>2. claim'[p].until > 0 => claim'[p].pending # {}
        BY <2>1, <4>1, ClaimOfAnswers
      <4>3. /\ pc'[p] = "written" /\ op'[p] = "claim" /\ got'[p] = {} /\ late' = late /\ p \notin late
        BY <2>1, <3>4 DEF WriteClaim, Goto, TypeOK, Lane
      <4>4. QED
        BY <4>2, <4>3
    <3>5. CASE WriteComplete(p) \/ WriteSave(p)
      <4>1. /\ pc'[p] = "written" /\ op'[p] \in {"complete", "save"}
            /\ claim' = claim
        BY <2>1, <3>5 DEF WriteComplete, WriteSave, Goto, TypeOK
      <4>2. QED
        BY <4>1 DEF Lane, Holds
    <3>6. CASE Release(p)
      BY <2>1, <3>6 DEF Release, Call, Goto, TypeOK, Course, Lane, lanes, Holds
    <3>7. QED
      BY <1>2, <3>1, <3>2, <3>3, <3>4, <3>5, <3>6 DEF Step
  <2>4. QED
    BY <2>2, <2>3 DEF Lane
<1>3. QED
  BY <1>1, <1>2 DEF Next

LEMMA ToldKept ==
  ASSUME IInv, Course, Lane, Told, [Next]_vars
  PROVE  Told'
<1>1. TypeOK /\ (~torn' => ~torn)
  BY TornStays DEF IInv
<1> SUFFICES ASSUME ~torn', NEW q \in Procs, Closed(q)'
             PROVE  (got[q] \subseteq Readable(file).claims[KeyOf[q]].got)'
  BY DEF Told
<1>2. PICK M : M = Readable(file)'
  OBVIOUS
<1>3. Readable(file).claims[KeyOf[q]].got \subseteq M.claims[KeyOf[q]].got
  BY <1>1, <1>2, FileKeeps, ProcFacts DEF Keeps
<1>4. ASSUME got'[q] = got[q], Closed(q) \/ got[q] = {}
      PROVE  got'[q] \subseteq M.claims[KeyOf[q]].got
  BY <1>1, <1>3, <1>4 DEF Told
<1>5. CASE Tick \/ UNCHANGED vars
  BY <1>2, <1>4, <1>5 DEF Tick, vars, lanes, Closed
<1>6. ASSUME NEW p \in Procs, Step(p) \/ Crash(p)
      PROVE  got'[q] \subseteq M.claims[KeyOf[q]].got
  <2>1. CASE q # p
    BY <1>1, <1>4, <1>6, <2>1, StepsApart DEF Closed
  <2>2. CASE q = p /\ (Open(p) \/ WriteClaim(p))
    BY <1>4, <2>2 DEF Open, WriteClaim, lanes, Lane
  <2>3. CASE q = p /\ Send(p)
    <3>1. op'[p] = "complete" /\ pc'[p] = "want" /\ p \notin late /\ late' = late
      BY <1>1, <2>3 DEF Send, Call, Goto, TypeOK, Lane, Course
    <3>2. QED
      BY <2>3, <3>1 DEF Closed
  <2>4. CASE q = p /\ (Acquire(p) \/ Stat(p) \/ Unlink(p) \/ GiveUp(p) \/ Read(p) \/ Crash(p))
    BY <1>1, <1>4, <2>4 DEF Acquire, Stat, Unlink, GiveUp, Read, Crash, Goto, TypeOK, lanes, Closed
  <2>5. CASE q = p /\ WriteSave(p)
    BY <1>4, <2>5 DEF WriteSave, Closed
  <2>6. CASE q = p /\ Release(p)
    <3>1. got' = got /\ late' = late
      BY <2>6 DEF Release, lanes
    <3>2. Closed(p) \/ got[p] = {}
      BY <1>1, <2>6 DEF Release, Closed, Lane, TypeOK
    <3>3. QED
      BY <1>4, <2>6, <3>1, <3>2
  <2>7. CASE q = p /\ WriteComplete(p)
    <3>1. /\ snap[p] \in Ledger /\ at[p] \in Nat /\ got[p] \in SUBSET Recipients /\ KeyOf[p] \in Keys
          /\ got' = got
      BY <1>1, <2>7, ProcFacts DEF TypeOK, WriteComplete
    <3>2. file' = CompleteClaim(snap[p], KeyOf[p], got[p], FALSE, at[p])
      BY <2>7 DEF WriteComplete, Replace
    <3>3. file' \in Ledger /\ got[p] \subseteq file'.claims[KeyOf[p]].got
      BY <3>1, <3>2, CompleteTypes
    <3>4. M = file'
      BY <1>2, <3>3, LockAssumption DEF Readable
    <3>5. QED
      BY <2>7, <3>1, <3>3, <3>4
  <2>8. QED
    BY <1>6, <2>1, <2>2, <2>3, <2>4, <2>5, <2>6, <2>7 DEF Step
<1>7. QED
  BY <1>2, <1>5, <1>6 DEF Next

LEMMA CountedKept ==
  ASSUME IInv, Course, Lane, Counted, [Next]_vars
  PROVE  Counted'
<1>1. CASE UNCHANGED <<got, copies>>
  BY <1>1 DEF Counted, Heard
<1>2. ASSUME NEW p \in Procs, Send(p)
      PROVE  Counted'
  <2>1. TypeOK /\ got[p] = {} /\ KeyOf[p] \in Keys
    BY <1>2, ProcFacts DEF IInv, Send, Lane, Course
  <2>2. PICK ok \in SUBSET Addressed(p) :
          /\ got' = [got EXCEPT ![p] = ok]
          /\ copies' = [copies EXCEPT ![KeyOf[p]] = [r \in Recipients |-> IF r \in ok THEN @[r] + 1 ELSE @[r]]]
    BY <1>2 DEF Send
  <2>3. SUFFICES ASSUME NEW k \in Keys, NEW r \in Recipients
                 PROVE  copies'[k][r] = Cardinality(Heard(k, r)')
    BY DEF Counted
  <2>4. Heard(k, r) \subseteq Procs /\ copies[k][r] = Cardinality(Heard(k, r))
    BY DEF Heard, Counted
  <2>5. IsFiniteSet(Heard(k, r))
    BY <2>4, Finite
  <2>6. CASE KeyOf[p] = k /\ r \in ok
    <3>1. Heard(k, r)' = Heard(k, r) \cup {p} /\ p \notin Heard(k, r)
      BY <2>1, <2>2, <2>6 DEF Heard, TypeOK
    <3>2. copies'[k][r] = copies[k][r] + 1
      BY <2>1, <2>2, <2>6 DEF TypeOK
    <3>3. QED
      BY <2>4, <2>5, <3>1, <3>2, FS_AddElement
  <2>7. CASE ~(KeyOf[p] = k /\ r \in ok)
    <3>1. Heard(k, r)' = Heard(k, r)
      BY <2>1, <2>2, <2>7 DEF Heard, TypeOK
    <3>2. copies'[k][r] = copies[k][r]
      BY <2>1, <2>2, <2>7 DEF TypeOK
    <3>3. QED
      BY <2>4, <3>1, <3>2
  <2>8. QED
    BY <2>6, <2>7
<1>3. QED
  BY <1>1, <1>2 DEF Next, Step, Tick, Open, Acquire, Stat, Unlink, GiveUp, Read, WriteClaim, WriteComplete,
     WriteSave, Release, Crash, lanes, vars

LEMMA FitsKept ==
  ASSUME RoundInv, [Next]_vars
  PROVE  (~torn => \A k \in Keys \ undone : Fits(k))'
<1> SUFFICES ASSUME ~torn', NEW k \in Keys, k \notin undone'
             PROVE  Fits(k)'
  OBVIOUS
<1>1. TypeOK /\ TypeOK' /\ ~torn /\ Course /\ Lane /\ IInv
  BY NextKeeps, TornStays DEF RoundInv, IInv
<1>2. undone \subseteq undone' /\ k \notin undone
  BY DEF Next, Step, Tick, Open, Send, Acquire, Stat, Unlink, GiveUp, Read, WriteClaim, WriteComplete,
         WriteSave, Release, Crash, lanes, vars
<1> PICK c, T, u, m : c = Readable(file).claims[k] /\ T = Timely(k) /\ u = Until /\ m = Cardinality(Late(k))
  OBVIOUS
<1> PICK d, S, v, n : d = (Readable(file)').claims[k] /\ S = Timely(k)' /\ v = Until' /\ n = Cardinality(Late(k)')
  OBVIOUS
<1>3. Fitting(c, T, u, m)
  BY <1>1, <1>2 DEF RoundInv, Fits
<1>4. T \subseteq Procs /\ S \subseteq Procs /\ m \in Nat /\ n \in Nat /\ IsFiniteSet(T) /\ IsFiniteSet(S)
  <2>1. T \subseteq Procs /\ S \subseteq Procs /\ Late(k) \subseteq Procs /\ Late(k)' \subseteq Procs
    BY <1>1 DEF Timely, Late, TypeOK
  <2>2. QED
    BY <2>1, Finite
<1>5. c.got \subseteq d.got
  BY <1>1, FileKeeps DEF Keeps
<1>6. ASSUME S \subseteq T, \A p \in S : v[p] = u[p], m <= n,
             c.status = "in_flight" => d.status = "in_flight" /\ d.lease = c.lease
      PROVE  Fits(k)'
  <2>1. Fitting(d, S, v, n)
    BY <1>3, <1>4, <1>5, <1>6, FewerFit
  <2>2. QED
    BY <2>1 DEF Fits
<1>7. ASSUME UNCHANGED <<file, claim, undone, late>>, \A q \in Procs : InTime(q)' => InTime(q)
      PROVE  Fits(k)'
  BY <1>6, <1>4, <1>7 DEF Readable, Timely, Late, Until
<1>8. CASE Tick \/ UNCHANGED vars
  <2>1. now \in Nat /\ (now' = now + 1 \/ now' = now) /\ \A q \in Procs : claim[q].until \in Nat
    BY <1>1, <1>8 DEF Tick, vars, TypeOK
  <2>2. UNCHANGED <<file, claim, undone, late, pc, op>>
    BY <1>8 DEF Tick, vars, lanes
  <2>3. QED
    BY <1>7, <2>1, <2>2 DEF InTime, Holds
<1>9. ASSUME NEW p \in Procs,
             Open(p) \/ Send(p) \/ Acquire(p) \/ Stat(p) \/ Unlink(p) \/ GiveUp(p) \/ Read(p) \/ Release(p) \/ Crash(p)
      PROVE  Fits(k)'
  <2>1. UNCHANGED <<file, claim, undone, late, now>> /\ \A q \in Procs : Holds(q)' => Holds(q)
    BY <1>1, <1>9, NobodyClaims
  <2>2. QED
    BY <1>7, <2>1 DEF InTime
<1>10. ASSUME NEW p \in Procs, WriteSave(p)
       PROVE  Fits(k)'
  <2>1. snap[p] = Readable(file) /\ file' = Save(snap[p], mem[p]) /\ file' \in Ledger
    BY <1>1, <1>10, WriteSaveKeeps DEF IInv, UpToDate, WriteSave, Replace
  <2>2. Readable(file)' = Save(Readable(file), mem[p])
    BY <2>1, LockAssumption DEF Readable
  <2>3. c.status = "in_flight" => d.status = "in_flight" /\ d.lease = c.lease
    BY <1>10, <2>1, <2>2 DEF WriteSave, Undone
  <2>4. \A q \in Procs : InTime(q)' => InTime(q)
    BY <1>1, <1>2, <1>10 DEF WriteSave, InTime, Holds, Goto, TypeOK
  <2>5. UNCHANGED <<claim, late>>
    BY <1>10 DEF WriteSave
  <2>6. S \subseteq T /\ u = v /\ m = n
    BY <2>4, <2>5 DEF Timely, Late, Until
  <2>7. QED
    BY <1>4, <1>6, <2>3, <2>6
<1>11. ASSUME NEW p \in Procs, WriteComplete(p)
       PROVE  Fits(k)'
  <2>1. /\ snap[p] = Readable(file) /\ file' = CompleteClaim(snap[p], KeyOf[p], got[p], FALSE, at[p])
        /\ file' \in Ledger
    BY <1>1, <1>11, WriteCompleteKeeps DEF IInv, UpToDate, WriteComplete, Replace
  <2>2. \A q \in Procs : InTime(q)' => InTime(q) /\ q # p
    BY <1>1, <1>11 DEF WriteComplete, InTime, Holds, Goto, TypeOK
  <2>3. UNCHANGED <<claim, undone, now>> /\ now \in Nat /\ claim[p].until \in Nat
    BY <1>1, <1>11 DEF WriteComplete, TypeOK
  <2>4. S \subseteq T \ {p} /\ u = v
    BY <2>2, <2>3 DEF Timely, Until
  <2>5. CASE KeyOf[p] # k
    <3>1. Late(k)' = Late(k)
      BY <1>11, <2>5 DEF WriteComplete, Late
    <3>2. OnlyClaim(snap[p], file', KeyOf[p])
      <4>1. snap[p] \in Ledger /\ at[p] \in Nat /\ got[p] \in SUBSET Recipients /\ KeyOf[p] \in Keys
        BY <1>1, ProcFacts DEF TypeOK
      <4>2. QED
        BY <2>1, <4>1, CompleteTypes
    <3>3. d = c
      BY <2>1, <2>5, <3>2, LockAssumption DEF Readable, OnlyClaim
    <3>4. QED
      BY <1>4, <1>6, <2>4, <3>1, <3>3
  <2>6. CASE KeyOf[p] = k
    <3>1. Cardinality(T) <= m + 1 /\ Cardinality(T) \in Nat
      BY <1>3, <1>4, FitsBound, FS_CardinalityType
    <3>2. Cardinality(S) <= Cardinality(T \ {p}) /\ Cardinality(S) \in Nat
      BY <1>4, <2>4, FS_Subset, FS_RemoveElement, FS_CardinalityType
    <3>3. Cardinality(T \ {p}) = IF p \in T THEN Cardinality(T) - 1 ELSE Cardinality(T)
      BY <1>4, FS_RemoveElement
    <3>4. Holds(p)
      BY <1>1, <1>11 DEF Course, WriteComplete, Holds
    <3>5. CASE now >= claim[p].until
      <4>1. Late(k)' = Late(k) \cup {p} /\ p \notin Late(k)
        BY <1>1, <1>11, <2>6, <3>4, <3>5 DEF WriteComplete, Late, Lane
      <4>2. n = m + 1
        BY <1>1, <1>4, <4>1, LateFinite, FS_AddElement
      <4>3. Cardinality(S) <= n
        BY <1>4, <3>1, <3>2, <3>3, <4>2
      <4>4. QED
        BY <4>3 DEF Fits, Fitting
    <3>6. CASE now < claim[p].until
      <4>1. p \in T
        BY <1>2, <2>6, <3>4, <3>6 DEF Timely, InTime
      <4>2. n = m
        BY <1>11, <2>3, <3>6 DEF WriteComplete, Late
      <4>3. Cardinality(S) <= n
        BY <1>4, <3>1, <3>2, <3>3, <4>1, <4>2
      <4>4. QED
        BY <4>3 DEF Fits, Fitting
    <3>7. QED
      BY <2>3, <3>5, <3>6
  <2>7. QED
    BY <2>5, <2>6
<1>12. ASSUME NEW p \in Procs, WriteClaim(p)
       PROVE  Fits(k)'
  <2> DEFINE L == Readable(file)
  <2> PICK M : M = ClaimOf(p).ledger
    OBVIOUS
  <2>1. snap[p] = L /\ L \in Ledger
    BY <1>1, <1>12, ReadableTypes DEF IInv, UpToDate, WriteClaim
  <2>2. /\ M \in Ledger /\ OnlyClaim(L, M, KeyOf[p])
        /\ \/ M = L /\ ClaimOf(p).status # "claimed"
           \/ Recipients \subseteq M.claims[KeyOf[p]].got /\ ClaimOf(p).status # "claimed"
           \/ /\ ClaimOf(p).status = "claimed" /\ M.claims[KeyOf[p]].status = "in_flight"
              /\ M.claims[KeyOf[p]].lease = at[p] + Lease
              /\ ~Live(L.claims[KeyOf[p]], at[p]) /\ ~(Recipients \subseteq L.claims[KeyOf[p]].got)
    BY <1>1, <2>1, ClaimOfAnswers
  <2>3. Readable(file)' = M
    BY <1>12, <2>1, <2>2, LockAssumption DEF WriteClaim, Replace, Readable
  <2>4. d = M.claims[k] /\ n = m
    BY <1>12, <2>3 DEF WriteClaim, Late
  <2>5. claim'[p].until = IF ClaimOf(p).status = "claimed" THEN at[p] + Lease ELSE 0
    BY <1>1, <1>12 DEF WriteClaim, TypeOK
  <2>6. \A q \in Procs \ {p} : (InTime(q)' <=> InTime(q)) /\ claim'[q] = claim[q]
    BY <1>1, <1>12 DEF WriteClaim, InTime, Holds, Goto, TypeOK
  <2>7. ~InTime(p) /\ p \notin T
    BY <1>1, <1>12 DEF InTime, Holds, Lane, WriteClaim, Timely, TypeOK
  <2>8. \A q \in T : q \in S /\ v[q] = u[q]
    BY <2>6, <2>7 DEF Timely, Until
  <2>9. S \subseteq T \cup {p} /\ (ClaimOf(p).status # "claimed" \/ KeyOf[p] # k => S = T)
    BY <2>5, <2>6, <2>8 DEF Timely, InTime, Holds
  <2>10. CASE KeyOf[p] # k \/ (M = L /\ ClaimOf(p).status # "claimed")
    <3>1. d = c /\ S = T
      BY <2>2, <2>4, <2>9, <2>10 DEF OnlyClaim
    <3>2. QED
      BY <1>4, <1>6, <2>4, <2>8, <3>1
  <2>11. CASE KeyOf[p] = k /\ Recipients \subseteq d.got /\ ClaimOf(p).status # "claimed"
    <3>1. Cardinality(T) <= m + 1
      BY <1>3, <1>4, FitsBound
    <3>2. S = T
      BY <2>9, <2>11
    <3>3. QED
      BY <2>4, <2>11, <3>1, <3>2 DEF Fits, Fitting
  <2>12. CASE KeyOf[p] = k /\ ClaimOf(p).status = "claimed"
    <3>1. /\ d.status = "in_flight" /\ d.lease = at[p] + Lease
          /\ ~Live(c, at[p]) /\ ~(Recipients \subseteq c.got)
      BY <2>2, <2>4, <2>12
    <3>2. ASSUME NEW q \in T, c.status = "in_flight", c.lease = u[q]
          PROVE  FALSE
      <4>1. u[q] = claim[q].until /\ now < claim[q].until /\ claim[q].until \in Nat
        BY <1>1, <1>4, <3>2 DEF Until, Timely, InTime, TypeOK
      <4>2. at[p] \in Nat /\ now \in Nat /\ at[p] <= now
        BY <1>1 DEF TypeOK, Course
      <4>3. Live(c, at[p])
        BY <3>2, <4>1, <4>2 DEF Live
      <4>4. QED
        BY <3>1, <4>3
    <3>3. Cardinality(T) <= m
      BY <1>3, <3>1, <3>2 DEF Fitting
    <3>4. CASE p \in S
      <4>1. v[p] = d.lease
        BY <2>5, <2>12, <3>1 DEF Until
      <4>2. S \ {p} = T
        BY <2>7, <2>8, <2>9
      <4>3. QED
        BY <2>4, <3>1, <3>3, <3>4, <4>1, <4>2 DEF Fits, Fitting
    <3>5. CASE p \notin S
      <4>1. S = T
        BY <2>8, <2>9, <3>5
      <4>2. QED
        BY <2>4, <3>3, <4>1 DEF Fits, Fitting
    <3>6. QED
      BY <3>4, <3>5
  <2>13. QED
    BY <2>2, <2>4, <2>10, <2>11, <2>12
<1>13. QED
  BY <1>8, <1>9, <1>10, <1>11, <1>12 DEF Next, Step

LEMMA RoundInvInvariant == Spec => []RoundInv
<1>1. Init => RoundInv
  <2> SUFFICES ASSUME Init PROVE RoundInv
    OBVIOUS
  <2>1. Course /\ \A p \in Procs : ~Holds(p)
    BY DEF Init, Course, Holds, NoHold
  <2>2. Lane
    BY <2>1 DEF Init, Lane, NoHold
  <2>3. Told
    BY DEF Init, Told
  <2>4. Counted
    BY FS_EmptySet DEF Init, Counted, Heard
  <2>5. ASSUME NEW k \in Keys
        PROVE  Fits(k)
    <3>1. Timely(k) = {} /\ Late(k) = {}
      BY <2>1 DEF Timely, InTime, Late, Init
    <3>2. QED
      BY <3>1, FS_EmptySet DEF Fits, Fitting
  <2>6. QED
    BY <2>1, <2>2, <2>3, <2>4, <2>5, InitHolds DEF RoundInv
<1>2. RoundInv /\ [Next]_vars => RoundInv'
  BY NextKeeps, CourseKept, LaneKept, ToldKept, CountedKept, FitsKept DEF RoundInv, IInv
<1>3. QED
  BY <1>1, <1>2, PTL DEF Spec


LEMMA FreshArePaid == RoundInv => FreshIsPaid
<1> SUFFICES ASSUME RoundInv, ~torn, NEW k \in Keys \ undone, NEW r \in Recipients,
                    r \notin Readable(file).claims[k].got
             PROVE  Paid(k, r)
  BY DEF FreshIsPaid
<1>1. TypeOK /\ Course /\ Lane /\ Told
  BY DEF RoundInv, IInv
<1>2. ASSUME NEW p \in Reach(k, r)
      PROVE  /\ p \in Procs /\ KeyOf[p] = k /\ p \notin late
             /\ p \in Timely(k) \/ p \in Causes(k)
  <2>1. p \in Procs /\ KeyOf[p] = k
    BY DEF Reach, Heard, MayHear
  <2>2. p \notin late
    <3>1. CASE p \in Heard(k, r)
      BY <1>1, <2>1, <3>1 DEF Heard, Told, Closed
    <3>2. CASE p \in MayHear(k, r)
      BY <1>1, <2>1, <3>2 DEF MayHear, Lane
    <3>3. QED
      BY <3>1, <3>2 DEF Reach
  <2>3. CASE Holds(p)
    <3>1. now \in Nat /\ claim[p].until \in Nat
      BY <1>1, <2>1 DEF TypeOK
    <3>2. CASE now < claim[p].until
      BY <2>1, <2>2, <2>3, <3>2 DEF Timely, InTime
    <3>3. CASE now >= claim[p].until
      BY <2>1, <2>2, <2>3, <3>3 DEF Causes, Overran
    <3>4. QED
      BY <3>1, <3>2, <3>3
  <2>4. CASE ~Holds(p)
    <3>1. r \in got[p] /\ ~Closed(p)
      BY <1>1, <2>1, <2>4 DEF Reach, Heard, MayHear, Told
    <3>2. op[p] = "complete" /\ claim[p].until > 0
      BY <1>1, <2>1, <3>1 DEF Closed, Lane, TypeOK, Course
    <3>3. pc[p] \in {"ended", "dead"}
      BY <2>4, <3>1, <3>2 DEF Closed, Holds
    <3>4. QED
      BY <2>1, <2>2, <3>1, <3>2, <3>3 DEF Causes, Unclosed
  <2>5. QED
    BY <2>1, <2>2, <2>3, <2>4
<1>3. Reach(k, r) \ Causes(k) \subseteq Timely(k) /\ Late(k) \ Reach(k, r) = Late(k)
  BY <1>2 DEF Late
<1>4. /\ Timely(k) \subseteq Procs /\ IsFiniteSet(Timely(k)) /\ Cardinality(Timely(k)) \in Nat
      /\ Cardinality(Late(k)) \in Nat
  BY <1>1, Finite, LateFinite DEF Timely
<1>5. Cardinality(Timely(k)) <= Cardinality(Late(k)) + 1
  BY <1>4, FitsBound DEF RoundInv, Fits
<1>6. /\ Cardinality(Reach(k, r) \ Causes(k)) <= Cardinality(Timely(k))
      /\ Cardinality(Reach(k, r) \ Causes(k)) \in Nat
  BY <1>3, <1>4, FS_Subset, FS_CardinalityType
<1>7. QED
  BY <1>3, <1>4, <1>5, <1>6 DEF Paid

\* Once r is in the file nobody new may tell him, and who told him stays or has a cause.
LEMMA OneStaysPaid ==
  ASSUME RoundInv, RoundInv', NEW p \in Procs, Step(p) \/ Crash(p), ~torn', NEW k \in Keys,
         NEW r \in Recipients, KeyOf[p] = k, r \in (Readable(file)').claims[k].got
  PROVE  /\ p \in Reach(k, r)' /\ p \notin Causes(k)' => p \in Reach(k, r) /\ p \notin Causes(k)
         /\ p \in late /\ p \notin Reach(k, r) => p \in late' /\ p \notin Reach(k, r)'
<1>1. TypeOK /\ Course /\ Lane /\ IInv /\ ~torn /\ now' = now /\ now \in Nat /\ claim[p].until \in Nat
  BY TornStays, StepsApart DEF RoundInv, IInv, TypeOK, Next
<1> USE DEF Reach, Heard, MayHear, Causes, Unclosed, Overran
<1>2. CASE Open(p)
  BY <1>1, <1>2, NobodyClaims DEF Open, Call, Goto, TypeOK, Course, Lane, lanes, Holds
<1>3. CASE Send(p)
  <2>1. /\ Holds(p) /\ Holds(p)' /\ op[p] = "claim" /\ op'[p] = "complete" /\ pc'[p] = "want" /\ pc[p] = "send"
        /\ claim' = claim /\ late' = late /\ got[p] = {} /\ p \notin late
    BY <1>1, <1>3 DEF Send, Call, Goto, TypeOK, Course, Lane, Holds
  <2>2. got'[p] \subseteq claim[p].pending
    BY <1>1, <1>3 DEF Send, Addressed, TypeOK, Course, Lane
  <2>3. QED
    BY <1>1, <2>1, <2>2
<1>4. CASE Acquire(p) \/ Stat(p) \/ Unlink(p) \/ GiveUp(p) \/ Read(p) \/ Crash(p)
  <2>1. UNCHANGED <<op, claim, got, late>>
    BY <1>4 DEF Acquire, Stat, Unlink, GiveUp, Read, Crash, lanes
  <2>2. Holds(p)' => Holds(p)
    BY <1>1, <1>4, NobodyClaims
  <2>3. CASE pc'[p] \in {"ended", "dead"}
    <3>1. ~Holds(p)'
      BY <2>3 DEF Holds
    <3>2. pc[p] \notin {"ended", "dead"}
      BY <1>1, <1>4 DEF Acquire, Stat, Unlink, GiveUp, Read, Crash
    <3>3. p \in Reach(k, r)' => r \in got[p]
      BY <2>1, <3>1
    <3>4. r \in got[p] /\ p \notin Causes(k)' => op[p] = "save" /\ p \notin late
      BY <2>1, <2>3
    <3>5. op[p] = "save" => ~Holds(p)
      BY DEF Holds
    <3>6. QED
      BY <2>1, <3>1, <3>2, <3>3, <3>4, <3>5
  <2>4. CASE pc'[p] \notin {"ended", "dead"}
    <3>1. pc[p] \in {"want", "stale", "held"} /\ pc'[p] \in {"want", "stale", "held", "read"}
      BY <1>1, <1>4, <2>4 DEF Acquire, Stat, Unlink, GiveUp, Read, Crash, Goto, TypeOK
    <3>2. Holds(p)' <=> Holds(p)
      BY <2>1, <3>1 DEF Holds
    <3>3. QED
      BY <1>1, <2>1, <2>4, <3>1, <3>2
  <2>5. QED
    BY <2>3, <2>4
<1>5. CASE WriteClaim(p)
  <2>1. op[p] = "claim" /\ got'[p] = {} /\ late' = late /\ p \notin late
    BY <1>1, <1>5 DEF WriteClaim, Lane
  <2>2. p \notin MayHear(k, r)'
    <3>1. claim'[p] = [pending |-> ClaimOf(p).pending,
                       until |-> IF ClaimOf(p).status = "claimed" THEN at[p] + Lease ELSE 0]
      BY <1>1, <1>5 DEF WriteClaim, TypeOK
    <3>2. CASE ClaimOf(p).status = "claimed"
      <4>1. /\ ClaimOf(p).pending = Recipients \ ClaimOf(p).ledger.claims[k].got
            /\ ClaimOf(p).ledger \in Ledger
            /\ ~(Recipients \subseteq snap[p].claims[k].got)
            /\ ClaimOf(p).ledger.claims[k].status = "in_flight"
        BY <1>1, <3>2, ClaimOfAnswers
      <4>2. snap[p] = Readable(file)
        BY <1>1, <1>5 DEF IInv, UpToDate, WriteClaim
      <4>3. (Readable(file))' = ClaimOf(p).ledger
        BY <1>5, <4>1, <4>2, LockAssumption DEF WriteClaim, Replace, Readable
      <4>4. QED
        BY <3>1, <4>1, <4>3
    <3>3. CASE ClaimOf(p).status # "claimed"
      BY <3>1, <3>3 DEF Holds
    <3>4. QED
      BY <3>2, <3>3
  <2>3. QED
    BY <2>1, <2>2
<1>6. CASE WriteComplete(p)
  <2>1. /\ Holds(p) /\ ~Holds(p)' /\ UNCHANGED <<op, claim, got>> /\ op[p] = "complete" /\ pc[p] = "read"
        /\ pc'[p] = "written" /\ p \notin late
    BY <1>1, <1>6 DEF WriteComplete, Goto, TypeOK, Course, Lane, Holds
  <2>2. late' = IF now >= claim[p].until THEN late \cup {p} ELSE late
    BY <1>6 DEF WriteComplete
  <2>3. QED
    BY <1>1, <2>1, <2>2
<1>7. CASE WriteSave(p)
  <2>1. /\ ~Holds(p) /\ ~Holds(p)' /\ UNCHANGED <<op, claim, got, late>> /\ pc[p] = "read" /\ pc'[p] = "written"
    BY <1>1, <1>7 DEF WriteSave, Goto, TypeOK, Holds
  <2>2. QED
    BY <2>1
<1>8. CASE Release(p)
  <2>1. UNCHANGED <<claim, got, late>> /\ pc[p] = "written"
    BY <1>8 DEF Release, lanes
  <2>2. CASE op[p] = "claim"
    <3>1. got[p] = {} /\ op'[p] = "claim" /\ (Holds(p)' <=> Holds(p))
      BY <1>1, <1>8, <2>1, <2>2 DEF Release, Goto, TypeOK, Lane, Holds
    <3>2. QED
      BY <1>1, <2>1, <2>2, <3>1
  <2>3. CASE op[p] # "claim"
    <3>1. ~Holds(p) /\ ~Holds(p)' /\ (got[p] = {} \/ op'[p] = "save")
      BY <1>1, <1>8, <2>1, <2>3 DEF Release, Call, Goto, TypeOK, Holds
    <3>2. QED
      BY <1>1, <2>1, <2>3, <3>1
  <2>4. QED
    BY <2>2, <2>3
<1>9. QED
  BY <1>2, <1>3, <1>4, <1>5, <1>6, <1>7, <1>8 DEF Step

LEMMA PaidKept ==
  ASSUME RoundInv, RoundInv', FreshIsPaid', AllPaid, [Next]_vars
  PROVE  AllPaid'
<1> SUFFICES ASSUME ~torn', NEW k \in Keys, k \notin undone', NEW r \in Recipients,
                    r \in (Readable(file)').claims[k].got
             PROVE  Paid(k, r)'
  BY DEF AllPaid, FreshIsPaid
<1>1. TypeOK /\ TypeOK' /\ ~torn /\ undone \subseteq undone'
  <2>1. undone \subseteq undone'
    BY DEF Next, Step, Tick, Open, Send, Acquire, Stat, Unlink, GiveUp, Read, WriteClaim, WriteComplete,
           WriteSave, Release, Crash, lanes, vars
  <2>2. QED
    BY <2>1, TornStays DEF RoundInv, IInv
<1>2. Cardinality(Reach(k, r) \ Causes(k)) <= Cardinality(Late(k) \ Reach(k, r)) + 1
  BY <1>1 DEF AllPaid, Paid
<1>3. Reach(k, r) \ Causes(k) \subseteq Procs /\ (Late(k) \ Reach(k, r))' \subseteq Procs
  BY <1>1 DEF Reach, Heard, MayHear, Late, TypeOK
<1>4. ASSUME (Reach(k, r) \ Causes(k))' \subseteq Reach(k, r) \ Causes(k),
             Late(k) \ Reach(k, r) \subseteq (Late(k) \ Reach(k, r))'
      PROVE  Paid(k, r)'
  <2>1. PICK A, B, M, N : /\ A = Reach(k, r) \ Causes(k) /\ B = (Reach(k, r) \ Causes(k))'
                          /\ M = Late(k) \ Reach(k, r) /\ N = (Late(k) \ Reach(k, r))'
    OBVIOUS
  <2>2. Cardinality(B) <= Cardinality(N) + 1
    BY <1>2, <1>3, <1>4, <2>1, StaysPaid
  <2>3. QED
    BY <2>1, <2>2 DEF Paid
<1>5. CASE Tick \/ UNCHANGED vars
  <2>1. UNCHANGED <<pc, op, claim, got, late>>
    BY <1>5 DEF Tick, vars, lanes
  <2>2. now \in Nat /\ (now' = now + 1 \/ now' = now) /\ \A p \in Procs : claim[p].until \in Nat
    BY <1>1, <1>5 DEF Tick, vars, TypeOK
  <2>3. Reach(k, r)' = Reach(k, r) /\ Late(k)' = Late(k)
    BY <2>1 DEF Reach, Heard, MayHear, Holds, Late
  <2>4. Causes(k) \subseteq Causes(k)'
    BY <2>1, <2>2 DEF Causes, Unclosed, Overran, Holds
  <2>5. QED
    BY <1>4, <2>3, <2>4
<1>6. ASSUME NEW p \in Procs, Step(p) \/ Crash(p)
      PROVE  Paid(k, r)'
  <2>1. ASSUME NEW q \in Procs, q # p
        PROVE  /\ q \in Reach(k, r)' <=> q \in Reach(k, r)
               /\ q \in Causes(k)' <=> q \in Causes(k)
               /\ q \in late' <=> q \in late
    <3>1. /\ now' = now /\ pc'[q] = pc[q] /\ op'[q] = op[q] /\ claim'[q] = claim[q] /\ got'[q] = got[q]
          /\ q \in late' <=> q \in late
      BY <1>1, <1>6, <2>1, StepsApart
    <3>2. Holds(q)' <=> Holds(q)
      BY <3>1 DEF Holds
    <3>3. QED
      BY <3>1, <3>2 DEF Reach, Heard, MayHear, Causes, Unclosed, Overran
  <2>2. CASE KeyOf[p] = k
    <3>1. /\ p \in Reach(k, r)' /\ p \notin Causes(k)' => p \in Reach(k, r) /\ p \notin Causes(k)
          /\ p \in late /\ p \notin Reach(k, r) => p \in late' /\ p \notin Reach(k, r)'
      BY <1>6, <2>2, OneStaysPaid
    <3>2. Reach(k, r)' \subseteq Procs /\ late \subseteq Procs
      BY <1>1 DEF Reach, Heard, MayHear, TypeOK
    <3>3. QED
      BY <1>4, <2>1, <3>1, <3>2 DEF Late
  <2>3. CASE KeyOf[p] # k
    <3>1. p \notin Reach(k, r)' /\ p \notin Late(k)
      BY <2>3 DEF Reach, Heard, MayHear, Late
    <3>2. Reach(k, r)' \subseteq Procs /\ late \subseteq Procs
      BY <1>1 DEF Reach, Heard, MayHear, TypeOK
    <3>3. QED
      BY <1>4, <2>1, <3>1, <3>2 DEF Late
  <2>4. QED
    BY <2>2, <2>3
<1>7. QED
  BY <1>5, <1>6 DEF Next

LEMMA Disjoint ==
  ASSUME NEW S, NEW T, IsFiniteSet(S), IsFiniteSet(T), S \cap T = {}
  PROVE  Cardinality(S \cup T) = Cardinality(S) + Cardinality(T)
<1>1. Cardinality(S \cup T) = Cardinality(S) + Cardinality(T) - Cardinality(S \cap T)
  BY FS_Union
<1>2. Cardinality(S \cap T) = 0
  BY FS_EmptySet
<1>3. Cardinality(S) \in Nat /\ Cardinality(T) \in Nat
  BY FS_CardinalityType
<1>4. QED
  BY <1>1, <1>2, <1>3

\* No recipient gets more copies of an event than one and one for each sender of it that
\* told somebody and ended without closing its claim or that overran its lease, unless a
\* save put an older state over a claim in flight or a lock was stolen.
THEOREM CopiesArePaid == Spec => []CopiesHaveCauses
<1>1. RoundInv /\ AllPaid => CopiesHaveCauses
  <2> SUFFICES ASSUME RoundInv, AllPaid PROVE CopiesHaveCauses
    OBVIOUS
  <2>0. \A k \in Keys : Cardinality(Causes(k)) \in Nat
    <3>1. \A k \in Keys : Causes(k) \subseteq Procs
      BY DEF RoundInv, IInv, TypeOK, Causes, Unclosed, Overran
    <3>2. QED
      BY <3>1, Finite
  <2> SUFFICES ASSUME NEW k \in Keys, NEW r \in Recipients, ~torn, k \notin undone
               PROVE  copies[k][r] <= Cardinality(Causes(k)) + 1
    BY <2>0 DEF CopiesHaveCauses
  <2> PICK V, C, F : V = Reach(k, r) /\ C = Causes(k) /\ F = Late(k)
    OBVIOUS
  <2>1. V \subseteq Procs /\ C \subseteq Procs /\ F \subseteq C /\ Heard(k, r) \subseteq V
    BY DEF Reach, Heard, MayHear, Causes, Unclosed, Overran, Late, RoundInv, IInv, TypeOK
  <2>2. /\ copies[k][r] = Cardinality(Heard(k, r))
        /\ Cardinality(V \ C) <= Cardinality(F \ V) + 1
    BY DEF RoundInv, Counted, AllPaid, Paid
  <2>3. /\ IsFiniteSet(V) /\ IsFiniteSet(V \ C) /\ IsFiniteSet(V \cap C) /\ IsFiniteSet(F \ V) /\ IsFiniteSet(C)
        /\ Cardinality(V \ C) \in Nat /\ Cardinality(V \cap C) \in Nat /\ Cardinality(F \ V) \in Nat
        /\ Cardinality(V) \in Nat /\ Cardinality(C) \in Nat /\ Cardinality(Heard(k, r)) \in Nat
    <3>1. V \ C \subseteq Procs /\ V \cap C \subseteq Procs /\ F \ V \subseteq Procs /\ Heard(k, r) \subseteq Procs
      BY <2>1
    <3>2. QED
      BY <2>1, <3>1, Finite
  <2>4. Cardinality(Heard(k, r)) <= Cardinality(V)
    BY <2>1, <2>3, FS_Subset
  <2>5. Cardinality(V) = Cardinality(V \ C) + Cardinality(V \cap C)
    <3>1. (V \ C) \cup (V \cap C) = V /\ (V \ C) \cap (V \cap C) = {}
      OBVIOUS
    <3>2. QED
      BY <2>3, <3>1, Disjoint
  <2>6. Cardinality(V \cap C) + Cardinality(F \ V) <= Cardinality(C)
    <3>1. (V \cap C) \cup (F \ V) \subseteq C /\ (V \cap C) \cap (F \ V) = {}
      BY <2>1
    <3>2. Cardinality((V \cap C) \cup (F \ V)) = Cardinality(V \cap C) + Cardinality(F \ V)
      BY <2>3, <3>1, Disjoint
    <3>3. QED
      BY <2>3, <3>1, <3>2, FS_Subset
  <2>7. QED
    BY <2>2, <2>3, <2>4, <2>5, <2>6
<1>2. Init /\ FreshIsPaid => AllPaid
  BY DEF Init, FreshIsPaid, AllPaid, Readable, Empty, NoClaim
<1>3. RoundInv /\ RoundInv' /\ FreshIsPaid' /\ AllPaid /\ [Next]_vars => AllPaid'
  BY PaidKept
<1>4. QED
  BY <1>1, <1>2, <1>3, RoundInvInvariant, FreshArePaid, PTL DEF Spec
-----------------------------------------------------------------------------
(* The file as an atomic ledger. *)

Calls == [p \in Procs |-> Called(p)]

\* A step of p leaves the calls of the others alone.
LEMMA CallsApart ==
  ASSUME TypeOK, NEW p \in Procs, Step(p) \/ Crash(p)
  PROVE  Calls' = [Calls EXCEPT ![p] = Called(p)']
<1>1. ASSUME NEW q \in Procs, q # p
      PROVE  Called(q)' = Called(q)
  <2>1. pc'[q] = pc[q] /\ op'[q] = op[q] /\ at'[q] = at[q] /\ got'[q] = got[q]
    BY <1>1, StepsApart
  <2>2. mem'[q] = mem[q]
    BY <1>1 DEF Step, Open, Send, Acquire, Stat, Unlink, GiveUp, Read, WriteClaim, WriteComplete, WriteSave,
                Release, Replace, Crash, TypeOK
  <2>3. QED
    BY <2>1, <2>2 DEF Called
<1>2. QED
  BY <1>1 DEF Calls

LEMMA CalledIsACall ==
  ASSUME TypeOK, NEW p \in Procs
  PROVE  Called(p) = Idle <=> pc[p] \notin {"want", "stale", "held", "read"}
<1>1. op[p] # "none"
  BY DEF TypeOK
<1>2. [op |-> op[p], key |-> KeyOf[p], at |-> at[p], got |-> got[p], mem |-> mem[p]].op # Idle.op
  BY <1>1 DEF Idle
<1>3. QED
  BY <1>2 DEF Called

LEMMA Stutters ==
  ASSUME Calls' = Calls, UNCHANGED <<file, claim, torn>>
  PROVE  [Atomic!Step]_(Atomic!promise)
BY DEF Calls, Readable, Atomic!promise

\* The step of p is an abstract one when only the call of p changes.
LEMMA Calling ==
  ASSUME TypeOK, TypeOK', NEW p \in Procs, Step(p) \/ Crash(p), UNCHANGED <<file, claim, torn>>,
         Called(p) = Idle \/ Called(p)' = Idle
  PROVE  [Atomic!Step]_(Atomic!promise)
<1>1. Calls[p] = Called(p) /\ Calls' = [Calls EXCEPT ![p] = Called(p)'] /\ Readable(file)' = Readable(file)
  BY CallsApart DEF Calls, Readable
<1>2. CASE Called(p)' = Called(p)
  <2>1. Calls' = Calls
    BY <1>1, <1>2 DEF Calls
  <2>2. QED
    BY <2>1, Stutters
<1>3. CASE Called(p) = Idle /\ Called(p)' # Idle
  <2>1. Calls'[p] = Called(p)'
    BY DEF Calls
  <2>2. Atomic!Call(p)
    BY <1>1, <1>3, <2>1 DEF Atomic!Call, Calls
  <2>3. QED
    BY <2>2 DEF Atomic!Step
<1>4. CASE Called(p) # Idle /\ Called(p)' = Idle
  <2>1. Atomic!Abandon(p)
    BY <1>1, <1>4 DEF Atomic!Abandon, Calls
  <2>2. QED
    BY <2>1 DEF Atomic!Step
<1>5. QED
  BY <1>2, <1>3, <1>4

\* Who writes under a lock nobody stole writes over what is in the file.
LEMMA TakesEffect ==
  ASSUME IInv, TypeOK', NEW p \in Procs, WriteClaim(p) \/ WriteComplete(p) \/ WriteSave(p), ~torn,
         Readable(file)' = Effect(Called(p), snap[p]),
         claim' = [claim EXCEPT ![p] = Reply(Called(p), snap[p], @)]
  PROVE  Atomic!TakeEffect(p)
<1>1. pc[p] = "read" /\ pc'[p] = "written" /\ torn' = torn
  BY DEF IInv, TypeOK, WriteClaim, WriteComplete, WriteSave, Goto, locks
<1>2. snap[p] = Readable(file)
  BY <1>1 DEF IInv, UpToDate
<1>3. Called(p) # Idle /\ Called(p)' = Idle
  BY <1>1, CalledIsACall DEF IInv, Called
<1>4. Calls[p] = Called(p) /\ Calls' = [Calls EXCEPT ![p] = Idle]
  BY <1>3, CallsApart DEF Calls, Step, IInv
<1>5. QED
  BY <1>1, <1>2, <1>3, <1>4 DEF Atomic!TakeEffect, Calls

LEMMA StepsAreAtomic ==
  ASSUME IInv, IInv', [Next]_vars
  PROVE  [Atomic!Step]_(Atomic!promise)
<1>1. CASE torn'
  BY <1>1 DEF Atomic!Step
<1>2. CASE ~torn' /\ (Tick \/ UNCHANGED vars)
  <2>1. UNCHANGED <<pc, op, at, got, mem, file, claim, torn>>
    BY <1>2 DEF Tick, vars, locks, lanes
  <2>2. Calls' = Calls
    BY <2>1 DEF Calls, Called
  <2>3. QED
    BY <2>1, <2>2, Stutters
<1>3. ASSUME NEW p \in Procs, Step(p) \/ Crash(p), ~torn'
      PROVE  [Atomic!Step]_(Atomic!promise)
  <2>1. TypeOK /\ TypeOK' /\ ~torn /\ torn' = torn
    BY <1>3, TornStays DEF IInv, TypeOK, Next
  <2>2. CASE Open(p) \/ Send(p) \/ GiveUp(p) \/ Crash(p)
    <3>1. UNCHANGED <<file, claim>>
      BY <2>2 DEF Open, Send, GiveUp, Crash, lanes
    <3>2. Called(p) = Idle \/ Called(p)' = Idle
      BY <2>1, <2>2 DEF Open, Send, GiveUp, Crash, Goto, Called, TypeOK
    <3>3. QED
      BY <1>3, <2>1, <3>1, <3>2, Calling
  <2>3. CASE Acquire(p) \/ Stat(p) \/ Unlink(p) \/ Read(p)
    <3>1. UNCHANGED <<file, claim, op, at, got, mem>>
      BY <2>3 DEF Acquire, Stat, Unlink, Read, lanes
    <3>2. pc[p] \in {"want", "stale", "held", "read"} /\ pc'[p] \in {"want", "stale", "held", "read"}
      BY <2>1, <2>3 DEF Acquire, Stat, Unlink, Read, Goto, TypeOK
    <3>3. Called(p)' = Called(p)
      BY <3>1, <3>2 DEF Called
    <3>4. Calls' = Calls
      BY <1>3, <2>1, <3>3, CallsApart DEF Calls
    <3>5. QED
      BY <2>1, <3>1, <3>4, Stutters
  <2>4. CASE Release(p)
    <3>1. UNCHANGED <<file, claim>> /\ Called(p) = Idle
      BY <2>4 DEF Release, lanes, Called
    <3>2. QED
      BY <1>3, <2>1, <3>1, Calling
  <2>5. CASE WriteClaim(p)
    <3>1. Called(p).op = "claim" /\ Given(Called(p), snap[p]) = ClaimOf(p) /\ Called(p).at = at[p]
      BY <2>5 DEF WriteClaim, Called, Given, ClaimOf
    <3>2. Effect(Called(p), snap[p]) = ClaimOf(p).ledger
      BY <3>1 DEF Effect
    <3>3. Readable(file)' = ClaimOf(p).ledger
      <4>1. ClaimOf(p).ledger \in Ledger /\ snap[p] = Readable(file)
        BY <2>1, <2>5, ClaimOfAnswers DEF IInv, UpToDate, WriteClaim
      <4>2. QED
        BY <2>5, <4>1, LockAssumption DEF WriteClaim, Replace, Readable
    <3>4. claim' = [claim EXCEPT ![p] = Reply(Called(p), snap[p], @)]
      BY <2>5, <3>1 DEF WriteClaim, Reply
    <3>5. QED
      BY <2>1, <2>5, <3>2, <3>3, <3>4, TakesEffect DEF Atomic!Step
  <2>6. CASE WriteComplete(p)
    <3>1. /\ Called(p).op = "complete" /\ Called(p).key = KeyOf[p] /\ Called(p).got = got[p]
          /\ Called(p).at = at[p]
      BY <2>6 DEF WriteComplete, Called
    <3>2. file' \in Ledger /\ file' = Effect(Called(p), snap[p])
      BY <2>6, <3>1, WriteCompleteKeeps DEF WriteComplete, Replace, Effect
    <3>3. Readable(file)' = Effect(Called(p), snap[p])
      BY <3>2, LockAssumption DEF Readable
    <3>4. claim' = [claim EXCEPT ![p] = Reply(Called(p), snap[p], @)]
      BY <2>1, <2>6, <3>1 DEF WriteComplete, Reply, TypeOK
    <3>5. QED
      BY <2>1, <2>6, <3>3, <3>4, TakesEffect DEF Atomic!Step
  <2>7. CASE WriteSave(p)
    <3>1. Called(p).op = "save" /\ Called(p).mem = mem[p]
      BY <2>7 DEF WriteSave, Called
    <3>2. file' \in Ledger /\ file' = Effect(Called(p), snap[p])
      BY <2>7, <3>1, WriteSaveKeeps DEF WriteSave, Replace, Effect
    <3>3. Readable(file)' = Effect(Called(p), snap[p])
      BY <3>2, LockAssumption DEF Readable
    <3>4. claim' = [claim EXCEPT ![p] = Reply(Called(p), snap[p], @)]
      BY <2>1, <2>7, <3>1 DEF WriteSave, Reply, TypeOK
    <3>5. QED
      BY <2>1, <2>7, <3>3, <3>4, TakesEffect DEF Atomic!Step
  <2>8. QED
    BY <1>3, <2>2, <2>3, <2>4, <2>5, <2>6, <2>7 DEF Step
<1>4. QED
  BY <1>1, <1>2, <1>3 DEF Next

\* Unless a lock is stolen the file behaves as an atomic ledger: every operation takes
\* effect once, between its call and its return, on what the operations before it left.
THEOREM FileIsAtomic == Spec => ActsAtomically
<1>1. Init => Atomic!Start
  BY DEF Init, Called, Atomic!Start
<1>2. IInv /\ IInv' /\ [Next]_vars => [Atomic!Step]_(Atomic!promise)
  BY StepsAreAtomic
<1>3. QED
  BY <1>1, <1>2, Invariance, PTL DEF Spec, ActsAtomically, Atomic!Promise
=============================================================================
