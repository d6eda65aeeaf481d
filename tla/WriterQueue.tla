----------------------------- MODULE WriterQueue -----------------------------
(***************************************************************************)
(* The queue of the workflow runs that write the data-release branch       *)
(* (src/src/writer_queue.py, src/src/scheduled_handoff.py).  There is no   *)
(* queue anywhere: a run makes an admission artifact, then reads GitHub's  *)
(* list of runs again and again until two readings in a row show nobody    *)
(* who was admitted before it.  A reading may be incomplete, because an    *)
(* artifact or a step is not visible yet or because a page was cut while   *)
(* runs changed their status; the queue counts on the next one.            *)
(*                                                                         *)
(* A run whose code is no longer main stops.  A scheduled run of the US    *)
(* premarket slot then dispatches a run of the new code for the same slot  *)
(* and waits for it, still admitted, while its child ignores it.           *)
(***************************************************************************)
EXTENDS Naturals, FiniteSets

CONSTANTS Writers,
          Parents,    \* runs that may hand their slot over
          ChildOf,    \* the run a parent dispatches
          MaxMain     \* bound: revisions of main

Children == {ChildOf[p] : p \in Parents}

ASSUME QueueAssumption ==
    /\ Parents \subseteq Writers /\ ChildOf \in [Parents -> Writers \ Parents]
    /\ \A p, q \in Parents : ChildOf[p] = ChildOf[q] => p = q
    /\ MaxMain \in Nat \ {0}

\* The times by which the code orders runs are told by the runs that came before.
VARIABLES main,       \* the revision of the production branch
          pc,
          sha,        \* the revision a run was started with
          before,     \* the runs admitted before its job started
          ahead,      \* the runs admitted before its admission artifact was made
          empties,    \* empty readings in a row
          partial,    \* its last reading was incomplete
          known,      \* blockers it has seen
          target,     \* the revision a child was dispatched for
          published   \* the revision that wrote the branch last

marks == <<sha, before, ahead, target>>
view  == <<empties, partial, known>>
vars  == <<main, pc, marks, view, published>>

Active(v)  == pc[v] \in {"waiting", "acquired", "inside", "handoff"}
Ignored(w) == {p \in Parents : ChildOf[p] = w}

Init ==
    /\ main = 1 /\ published = 0
    /\ pc       = [w \in Writers |-> IF w \in Children THEN "absent" ELSE "queued"]
    /\ sha      = [w \in Writers |-> 0]
    /\ before   = [w \in Writers |-> {}]
    /\ ahead    = [w \in Writers |-> {}]
    /\ empties  = [w \in Writers |-> 0]
    /\ partial  = [w \in Writers |-> FALSE]
    /\ known    = [w \in Writers |-> {}]
    /\ target   = [w \in Writers |-> 0]

Goto(w, l) == pc' = [pc EXCEPT ![w] = l]
\* A run that ends is forgotten by everybody.
Without(f, w) == [u \in Writers |-> IF u = w THEN {} ELSE f[u] \ {w}]
Ends(w) ==
    /\ Goto(w, "ended")
    /\ before' = Without(before, w) /\ ahead' = Without(ahead, w) /\ known' = Without(known, w)
    /\ sha' = [sha EXCEPT ![w] = 0] /\ target' = [target EXCEPT ![w] = 0]
    /\ empties' = [empties EXCEPT ![w] = 0] /\ partial' = [partial EXCEPT ![w] = FALSE]

-----------------------------------------------------------------------------
(* Before the queue. *)

\* A child is refused when main is not what it was dispatched for, or when its
\* parent does not wait for it any more.
Accepted(w) == w \in Children => target[w] = main /\ \A p \in Ignored(w) : pc[p] = "handoff"

StartAhead(w) ==
    /\ pc[w] = "queued"
    /\ IF Accepted(w)
       THEN /\ Goto(w, "started")
            /\ sha' = [sha EXCEPT ![w] = main + 1]
            /\ before' = [before EXCEPT ![w] = {v \in Writers : Active(v)}]
            /\ UNCHANGED <<ahead, target, view>>
       ELSE Ends(w)
    /\ UNCHANGED <<main, published>>

Start(w) ==
    /\ pc[w] = "queued"
    /\ IF Accepted(w)
       THEN /\ Goto(w, "started")
            /\ sha' = [sha EXCEPT ![w] = main]
            /\ before' = [before EXCEPT ![w] = {v \in Writers : Active(v)}]
            /\ UNCHANGED <<ahead, target, view>>
       ELSE Ends(w)
    /\ UNCHANGED <<main, published>>

Admit(w) ==
    /\ pc[w] = "started"
    /\ ahead' = [ahead EXCEPT ![w] = {v \in Writers : Active(v)}]
    /\ Goto(w, "waiting")
    /\ UNCHANGED <<main, sha, before, target, view, published>>

-----------------------------------------------------------------------------
(* Waiting. *)

AlwaysCurrent(w) == TRUE
Current(w)       == sha[w] = main

\* The order of the queue.  A run that does not find its own artifact takes its
\* place by the start of its job; a run that has ended its job blocks nobody.
AheadByJob(w, complete) == before[w]
Ahead(w, complete)      == IF complete THEN ahead[w] ELSE before[w]
Blockers(w, rows, complete) ==
    ((rows \cap Ahead(w, complete)) \ Ignored(w)) \cup {v \in known[w] : Active(v)}

\* One reading that misses the runs in unseen, and the own artifact too.  Two incomplete readings do not
\* follow each other: by the second, what was not visible is.
Rows(w, unseen) == {v \in Writers \ {w} : Active(v)} \ unseen

OneEmpty == 1
Enough   == 2
Poll(w, complete, unseen) ==
    /\ pc[w] = "waiting" /\ Current(w)
    /\ ~complete => ~partial[w]
    /\ complete => unseen = {}
    /\ LET blockers == Blockers(w, Rows(w, unseen), complete)
           count    == IF blockers = {} THEN empties[w] + 1 ELSE 0
       IN  /\ known'   = [known EXCEPT ![w] = blockers]
           /\ empties' = [empties EXCEPT ![w] = count]
           /\ Goto(w, IF count >= Enough THEN "acquired" ELSE "waiting")
    /\ partial' = [partial EXCEPT ![w] = ~complete]
    /\ UNCHANGED <<main, marks, published>>

\* main moved: before the first reading, after any reading, or at the last check.
\* A parent posts one dispatch, which GitHub may refuse, and waits.
Supersede(w) ==
    /\ pc[w] \in {"waiting", "acquired"} /\ ~Current(w)
    /\ \/ Ends(w)
       \/ /\ w \in Parents
          /\ pc' = [pc EXCEPT ![w] = "handoff", ![ChildOf[w]] = "queued"]
          /\ target' = [target EXCEPT ![ChildOf[w]] = main]
          /\ UNCHANGED <<sha, before, ahead, view>>
    /\ UNCHANGED <<main, published>>

\* The revision is compared once more before the run goes on.
Fence(w) ==
    /\ pc[w] = "acquired" /\ Current(w)
    /\ Goto(w, "inside")
    /\ UNCHANGED <<main, marks, view, published>>

Publish(w) ==
    /\ pc[w] = "inside"
    /\ published' = sha[w]
    /\ Ends(w)
    /\ UNCHANGED main

\* dispatch_and_wait: until the child has ended, or the slot is over.
ChildEnds(w) == pc[w] = "handoff" /\ pc[ChildOf[w]] = "ended" /\ Ends(w) /\ UNCHANGED <<main, published>>
NoDeadline(w) == pc[w] = "handoff" /\ pc[ChildOf[w]] = "absent" /\ Ends(w) /\ UNCHANGED <<main, published>>
Deadline(w) == pc[w] = "handoff" /\ Ends(w) /\ UNCHANGED <<main, published>>

\* A waiter runs out of its budget or cannot read the queue; a run is cancelled.
GiveUp(w) ==
    /\ pc[w] \in {"waiting", "acquired", "inside"}
    /\ Ends(w)
    /\ UNCHANGED <<main, published>>

-----------------------------------------------------------------------------
MainMoves ==
    /\ main < MaxMain
    /\ main' = main + 1
    /\ UNCHANGED <<pc, marks, view, published>>

Advance(w) ==
    \/ Start(w) \/ Admit(w) \/ Poll(w, TRUE, {}) \/ Supersede(w) \/ Fence(w) \/ Publish(w)
    \/ (w \in Parents /\ (ChildEnds(w) \/ Deadline(w)))

Next ==
    \/ MainMoves
    \/ \E w \in Writers :
        \/ Advance(w) \/ GiveUp(w)
        \/ \E unseen \in SUBSET (Writers \ {w}) : Poll(w, FALSE, unseen)

Spec     == Init /\ [][Next]_vars
\* Runs go on, readings get complete, and a parent's slot comes to its end.  That
\* a waiter ever runs out of its budget is not assumed.
FairSpec == Spec /\ \A w \in Writers : WF_vars(Advance(w))

-----------------------------------------------------------------------------
(* Properties. *)

TypeOK ==
    /\ main \in 1..MaxMain /\ published \in Nat
    /\ pc \in [Writers -> {"absent", "queued", "started", "waiting", "acquired", "inside",
                           "handoff", "ended"}]
    /\ sha \in [Writers -> 0..main] /\ target \in [Writers -> 0..main]
    /\ before \in [Writers -> SUBSET Writers] /\ ahead \in [Writers -> SUBSET Writers]
    /\ empties \in [Writers -> 0..Enough] /\ partial \in [Writers -> BOOLEAN]
    /\ known \in [Writers -> SUBSET Writers]

Has(w) == pc[w] \in {"acquired", "inside"}

\* At most one run is past the queue, though nobody hands the turn over and readings
\* may miss anybody.
OneWriter == \A v, w \in Writers : Has(v) /\ Has(w) => v = w

\* A run that is past the queue has overtaken nobody who was admitted before it,
\* except the parent that waits for it.
NoOvertaking ==
    \A v, w \in Writers : Has(w) /\ Active(v) /\ v \in ahead[w] => v \in Ignored(w)

\* The branch is never written by an older revision than the one that wrote it last.
NeverGoesBack == [][published' >= published]_vars

\* A run that waits gets out, and no budget is needed for it: a parent and its child
\* wait for each other through any third run admitted between them, until the slot
\* of the parent is over.
EveryRunEnds == \A w \in Writers : pc[w] # "absent" ~> pc[w] = "ended"
=============================================================================
