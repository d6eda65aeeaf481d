----------------------------- MODULE EventLedger -----------------------------
(***************************************************************************)
(* The delivery ledger shared by processes on one machine                  *)
(* (src/src/event_ledger.py).  Every operation reads the file, merges and  *)
(* replaces it under a sidecar lock file; a lock older than StaleAfter is  *)
(* removed by whoever waits for it, in two steps that another waiter may   *)
(* come between.  Whoever leaves removes the lock that is there.           *)
(*                                                                         *)
(* A sender opens the ledger, claims its key, sends to the recipients the  *)
(* claim left it, closes the claim, records the delivery and saves.  A     *)
(* watcher observes an event and saves.                                    *)
(***************************************************************************)
EXTENDS LedgerClaims

CONSTANTS Senders, Watchers,
          KeyOf, RankOf,  \* the event of a process and its material state
          Unreadable,     \* a file that is no JSON object
          Timeout,        \* lock_timeout_seconds
          StaleAfter,     \* lock_stale_after_seconds
          MaxTime, MaxCrashes   \* bounds

Procs == Senders \cup Watchers

ASSUME LockAssumption ==
    /\ KeyOf \in [Procs -> Keys] /\ RankOf \in [Procs -> Nat \ {0}]
    /\ IsFiniteSet(Procs) /\ Procs \subseteq Traces /\ None \notin Procs /\ Unreadable \notin Ledger
    /\ Timeout \in Nat /\ StaleAfter \in Nat \ {0}
    /\ MaxTime \in Nat /\ MaxCrashes \in Nat

NoLock     == [owner |-> None, at |-> 0]

VARIABLES file,    \* a ledger, or Unreadable
          lock,    \* who made the lock file and when
          now,
          pc,
          op,      \* the operation in progress
          at,      \* when it was called
          seen,    \* the lock found stale
          snap,    \* the ledger as read under the lock
          mem,     \* the instance's records and claims
          claim,   \* what the claim left to send to and until when it is leased
          got,     \* the recipients Telegram confirmed
          copies,  \* messages each recipient received under each key
          crashes,
          torn,    \* a lock was removed that its remover had not judged
          late,    \* processes that held a claim beyond its lease
          undone   \* keys whose claim in flight a save put an older state over

locks  == <<lock, seen, torn>>
lanes  == <<claim, got, copies, late, undone>>
vars   == <<file, lock, now, pc, op, at, seen, snap, mem, claim, got, copies, crashes,
            torn, late, undone>>

Inside    == {"held", "read", "written"}
Holder(p) == pc[p] \in Inside
Readable(f) == IF f = Unreadable THEN Empty ELSE f
NoHold    == [pending |-> {}, until |-> 0]

Init ==
    /\ file \in {Empty, Unreadable}
    /\ lock = NoLock /\ now = 1
    /\ pc      = [p \in Procs |-> "open"]
    /\ op      = [p \in Procs |-> "save"]
    /\ at      = [p \in Procs |-> 0]
    /\ seen    = [p \in Procs |-> NoLock]
    /\ snap    = [p \in Procs |-> Empty]
    /\ mem     = [p \in Procs |-> Empty]
    /\ claim   = [p \in Procs |-> NoHold]
    /\ got     = [p \in Procs |-> {}]
    /\ copies  = [k \in Keys |-> [r \in Recipients |-> 0]]
    /\ crashes = 0 /\ torn = FALSE /\ late = {} /\ undone = {}

Goto(p, l) == pc' = [pc EXCEPT ![p] = l]
Call(p, o) == Goto(p, "want") /\ op' = [op EXCEPT ![p] = o] /\ at' = [at EXCEPT ![p] = now]

-----------------------------------------------------------------------------
(* The lane of a process. *)

Open(p) ==
    /\ pc[p] = "open"
    /\ mem' = [mem EXCEPT ![p] = IF p \in Watchers THEN Observe(Readable(file), KeyOf[p], RankOf[p], now)
                                                   ELSE Readable(file)]
    /\ Call(p, IF p \in Watchers THEN "save" ELSE "claim")
    /\ UNCHANGED <<file, now, locks, snap, lanes, crashes>>

\* An empty list of pending recipients means everybody.
Addressed(p) == IF claim[p].pending = {} THEN Recipients ELSE claim[p].pending

Send(p) ==
    /\ pc[p] = "send"
    /\ \E ok \in SUBSET Addressed(p) :
        /\ got'    = [got EXCEPT ![p] = ok]
        /\ copies' = [copies EXCEPT ![KeyOf[p]] =
                        [r \in Recipients |-> IF r \in ok THEN @[r] + 1 ELSE @[r]]]
    /\ Call(p, "complete")
    /\ UNCHANGED <<file, now, locks, snap, mem, claim, crashes, late, undone>>

-----------------------------------------------------------------------------
(* _write_lock. *)

Acquire(p) ==
    /\ pc[p] = "want" /\ lock = NoLock
    /\ lock' = [owner |-> p, at |-> now]
    /\ Goto(p, "held")
    /\ UNCHANGED <<file, now, op, at, seen, torn, snap, mem, lanes, crashes>>

StatEarly(p) ==
    /\ pc[p] = "want" /\ lock # NoLock /\ now - lock.at >= StaleAfter
    /\ seen' = [seen EXCEPT ![p] = lock]
    /\ Goto(p, "stale")
    /\ UNCHANGED <<file, lock, torn, now, op, at, snap, mem, lanes, crashes>>

Stat(p) ==
    /\ pc[p] = "want" /\ lock # NoLock /\ now - lock.at > StaleAfter
    /\ seen' = [seen EXCEPT ![p] = lock]
    /\ Goto(p, "stale")
    /\ UNCHANGED <<file, lock, torn, now, op, at, snap, mem, lanes, crashes>>

\* Removes whatever lock is there; a lock that is gone is an OSError, and passed over.
Unlink(p) ==
    /\ pc[p] = "stale"
    /\ lock' = NoLock
    /\ torn' = (torn \/ (lock # NoLock /\ lock # seen[p]))
    /\ seen' = [seen EXCEPT ![p] = NoLock]
    /\ Goto(p, "want")
    /\ UNCHANGED <<file, now, op, at, snap, mem, lanes, crashes>>

GiveUp(p) ==
    /\ pc[p] = "want" /\ lock # NoLock /\ now - lock.at <= StaleAfter /\ now >= at[p] + Timeout
    /\ Goto(p, "ended")
    /\ UNCHANGED <<file, locks, now, op, at, snap, mem, lanes, crashes>>

\* Fault: the file is not read again under the lock.
ReadCached(p) ==
    /\ pc[p] = "held"
    /\ snap' = [snap EXCEPT ![p] = mem[p]]
    /\ Goto(p, "read")
    /\ UNCHANGED <<file, locks, now, op, at, mem, lanes, crashes>>

Read(p) ==
    /\ pc[p] = "held"
    /\ snap' = [snap EXCEPT ![p] = Readable(file)]
    /\ Goto(p, "read")
    /\ UNCHANGED <<file, locks, now, op, at, mem, lanes, crashes>>

\* Releasing does not look whose lock it is.
Release(p) ==
    /\ pc[p] = "written"
    /\ lock' = NoLock
    /\ torn' = (torn \/ (lock # NoLock /\ lock.owner # p))
    /\ snap' = [snap EXCEPT ![p] = Empty]
    /\ \/ op[p] = "claim" /\ claim[p].until > 0 /\ Goto(p, "send") /\ UNCHANGED <<op, at, mem>>
       \/ op[p] = "claim" /\ claim[p].until = 0 /\ Goto(p, "ended") /\ UNCHANGED <<op, at, mem>>
       \/ /\ op[p] = "complete" /\ got[p] # {}
          /\ mem' = [mem EXCEPT ![p] = RecordDelivery(@, KeyOf[p], RankOf[p], p, {}, now)]
          /\ Call(p, "save")
       \/ op[p] = "complete" /\ got[p] = {} /\ Goto(p, "ended") /\ UNCHANGED <<op, at, mem>>
       \/ op[p] = "save" /\ Goto(p, "ended") /\ UNCHANGED <<op, at, mem>>
    /\ UNCHANGED <<file, now, seen, lanes, crashes>>

-----------------------------------------------------------------------------
(* What each operation writes under the lock. *)

Replace(p, L) == file' = L /\ mem' = [mem EXCEPT ![p] = L]

ClaimOf(p) == ClaimNotification(snap[p], KeyOf[p], None, Recipients, at[p])

WriteClaim(p) ==
    /\ pc[p] = "read" /\ op[p] = "claim"
    /\ IF ClaimOf(p).ledger = snap[p] THEN UNCHANGED <<file, mem>> ELSE Replace(p, ClaimOf(p).ledger)
    /\ claim' = [claim EXCEPT ![p] = [pending |-> ClaimOf(p).pending,
                     until |-> IF ClaimOf(p).status = "claimed" THEN at[p] + Lease ELSE 0]]
    /\ Goto(p, "written")
    /\ UNCHANGED <<locks, now, op, at, snap, got, copies, late, undone, crashes>>

WriteComplete(p) ==
    /\ pc[p] = "read" /\ op[p] = "complete"
    /\ Replace(p, CompleteClaim(snap[p], KeyOf[p], got[p], FALSE, at[p]))
    /\ late' = IF now >= claim[p].until THEN late \cup {p} ELSE late
    /\ Goto(p, "written")
    /\ UNCHANGED <<locks, now, op, at, snap, claim, got, copies, undone, crashes>>

\* The claims in flight in the file that the memory of p is merged over: a claim is
\* dated when it was asked for, so the memory may be the newer one.
Undone(p) == {k \in Keys : LET old == snap[p].claims[k]
                               new == Save(snap[p], mem[p]).claims[k]
                           IN  old.status = "in_flight" /\ (new.status # "in_flight" \/ new.lease # old.lease)}

WriteSave(p) ==
    /\ pc[p] = "read" /\ op[p] = "save"
    /\ Replace(p, Save(snap[p], mem[p]))
    /\ undone' = undone \cup Undone(p)
    /\ Goto(p, "written")
    /\ UNCHANGED <<locks, now, op, at, snap, claim, got, copies, late, crashes>>

-----------------------------------------------------------------------------
\* A process dies anywhere; its lock stays.
Crash(p) ==
    /\ pc[p] \notin {"open", "ended", "dead"} /\ crashes < MaxCrashes
    /\ crashes' = crashes + 1
    /\ Goto(p, "dead")
    /\ UNCHANGED <<file, locks, now, op, at, snap, mem, lanes>>

\* A process that lives is through with the lock before the lock goes stale.
Tick ==
    /\ now < MaxTime
    /\ \A p \in Procs : Holder(p) /\ lock.owner = p => now - lock.at < StaleAfter
    /\ now' = now + 1
    /\ UNCHANGED <<file, locks, pc, op, at, snap, mem, lanes, crashes>>

Step(p) == \/ Open(p) \/ Send(p) \/ Acquire(p) \/ Stat(p) \/ Unlink(p) \/ GiveUp(p)
           \/ Read(p) \/ WriteClaim(p) \/ WriteComplete(p) \/ WriteSave(p) \/ Release(p)

Next == Tick \/ \E p \in Procs : Step(p) \/ Crash(p)

-----------------------------------------------------------------------------
(* Properties. *)

TypeOK ==
    /\ file \in Ledger \cup {Unreadable}
    /\ lock \in [owner : Procs \cup {None}, at : Nat] /\ now \in Nat
    /\ pc \in [Procs -> Inside \cup {"open", "want", "stale", "send", "ended", "dead"}]
    /\ op \in [Procs -> {"claim", "complete", "save"}] /\ at \in [Procs -> Nat]
    /\ seen \in [Procs -> [owner : Procs \cup {None}, at : Nat]]
    /\ snap \in [Procs -> Ledger] /\ mem \in [Procs -> Ledger]
    /\ claim \in [Procs -> [pending : SUBSET Recipients, until : Nat]]
    /\ got \in [Procs -> SUBSET Recipients]
    /\ copies \in [Keys -> [Recipients -> Nat]]
    /\ crashes \in Nat /\ torn \in BOOLEAN /\ late \in SUBSET Procs /\ undone \in SUBSET Keys

\* Without a crash no two processes are ever inside the lock, whatever the
\* waiters do to locks they think are stale.
OneHolder == crashes = 0 => \A p, q \in Procs : Holder(p) /\ Holder(q) => p = q

\* No recipient confirmed and no delivery recorded is ever lost from the file,
\* unless somebody removed a lock that was not the one he judged: every writer
\* merges into what the others wrote.
Keeps(old, new) ==
    \A k \in Keys : /\ old.claims[k].got \subseteq new.claims[k].got
                    /\ old.rows[k].sent \subseteq new.rows[k].sent
NothingIsForgotten == [][~torn /\ file # Unreadable => Keeps(file, file')]_vars

\* Two senders hold a claim on the same key only when the first one overran its
\* lease, a lock was stolen, or a save put an older state over the first one's claim.
Holds(p)  == claim[p].until > 0 /\ pc[p] \notin {"ended", "dead"} /\ op[p] # "save"
             /\ ~(op[p] = "complete" /\ pc[p] = "written")
Overran   == late \cup {p \in Procs : Holds(p) /\ now >= claim[p].until}
OneSender ==
    \A p, q \in Procs :
        p # q /\ Holds(p) /\ Holds(q) /\ KeyOf[p] = KeyOf[q] =>
            torn \/ KeyOf[p] \in undone \/ Overran # {}

\* A recipient gets a second copy only for a reason: a sender of the same event that
\* told somebody and ended without closing its claim, or that overran its lease, a lock
\* stolen, or a claim overwritten by a save.
Unclosed  == {p \in Procs : pc[p] \in {"ended", "dead"} /\ got[p] # {} /\ op[p] # "save"}
Causes(k) == {p \in Unclosed \cup Overran : KeyOf[p] = k}
CopiesHaveCauses ==
    \A k \in Keys, r \in Recipients :
        torn \/ k \in undone \/ copies[k][r] <= 1 + Cardinality(Causes(k))

-----------------------------------------------------------------------------
(* What the file and its lock amount to. *)

\* What a called operation makes of a ledger, and what it answers.
Given(c, L)  == ClaimNotification(L, c.key, None, Recipients, c.at)
Effect(c, L) == CASE c.op = "claim"    -> Given(c, L).ledger
                  [] c.op = "complete" -> CompleteClaim(L, c.key, c.got, FALSE, c.at)
                  [] c.op = "save"     -> Save(L, c.mem)
Reply(c, L, before) ==
    IF c.op = "claim"
    THEN [pending |-> Given(c, L).pending,
          until   |-> IF Given(c, L).status = "claimed" THEN c.at + Lease ELSE 0]
    ELSE before

\* The operation p has called and not yet performed.
Idle == [op |-> "none"]
Called(p) == IF pc[p] \in {"want", "stale", "held", "read"}
            THEN [op |-> op[p], key |-> KeyOf[p], at |-> at[p], got |-> got[p], mem |-> mem[p]]
            ELSE Idle

\* As long as no lock was stolen, every operation takes effect at one moment between its
\* call and its return, on the ledger as all the operations before have left it; one that
\* is given up, or whose process dies before it writes, leaves no trace.
Atomic == INSTANCE AtomicLedger WITH
              ledger <- Readable(file), calls <- [p \in Procs |-> Called(p)], answers <- claim, broken <- torn
ActsAtomically == Atomic!Promise

Spec == Init /\ [][Next]_vars
=============================================================================
