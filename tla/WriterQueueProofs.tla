-------------------------- MODULE WriterQueueProofs --------------------------
(***************************************************************************)
(* The queue for any number of writers, parents and children, any          *)
(* incomplete readings and any moves of main.                              *)
(*                                                                         *)
(* Of two admitted runs one is ahead of the other (Ranked).  A run that    *)
(* has read a complete and empty list has nobody ahead but its parent, and *)
(* since whoever is admitted later is behind it, that stays so (Settled):  *)
(* one complete reading among two is enough.  The parent is not past the   *)
(* queue, because its child exists only once it hands over (HandedOver).   *)
(***************************************************************************)
EXTENDS WriterQueue, TLAPS

Settled(w) == \A v \in Writers : Active(v) /\ v \in ahead[w] => v \in Ignored(w)

\* Who is ahead of a run is still there.
Listed == \A u, v \in Writers : v \in ahead[u] => Active(v) /\ v # u

\* Of two admitted runs one is ahead of the other.
Ranked == \A v, w \in Writers : Active(v) /\ Active(w) /\ v # w => v \in ahead[w] \/ w \in ahead[v]

\* A run that was not admitted has read nothing; a waiter has read one empty list at
\* most, and if that one was complete nobody is ahead.
Reading(w) ==
    /\ pc[w] \in {"absent", "queued", "started"} => empties[w] = 0
    /\ pc[w] = "waiting" => empties[w] \in {0, 1}
    /\ pc[w] = "waiting" /\ empties[w] = 1 /\ ~partial[w] => Settled(w)

\* A child exists only when its parent has handed over.
HandedOver == \A p \in Parents : pc[ChildOf[p]] # "absent" => pc[p] \in {"handoff", "ended"}

\* Who is past the last check publishes nothing older than what is there.
Fresh == published <= main /\ \A w \in Writers : pc[w] = "inside" => published <= sha[w]

IInv == /\ TypeOK /\ Listed /\ Ranked /\ HandedOver /\ NoOvertaking /\ Fresh
        /\ \A w \in Writers : Reading(w)

-----------------------------------------------------------------------------
LEMMA ActiveStates ==
  ASSUME NEW v
  PROVE  Active(v) <=> pc[v] \in {"waiting", "acquired", "inside", "handoff"}
BY DEF Active

\* Two runs are never past the queue together.
LEMMA Exclusive ==
  ASSUME TypeOK, Ranked, HandedOver, NoOvertaking
  PROVE  OneWriter
<1> SUFFICES ASSUME NEW v \in Writers, NEW w \in Writers, Has(v), Has(w), v # w
             PROVE  FALSE
  BY DEF OneWriter
<1>1. Active(v) /\ Active(w)
  BY DEF Has, Active
<1>2. \A x, y \in Writers : Has(x) /\ Has(y) => ~(x \in ahead[y] /\ Active(x))
  <2> SUFFICES ASSUME NEW x \in Writers, NEW y \in Writers, Has(x), Has(y), x \in ahead[y], Active(x)
               PROVE  FALSE
    OBVIOUS
  <2>1. x \in Parents /\ ChildOf[x] = y
    BY DEF NoOvertaking, Ignored
  <2>2. pc[x] \in {"handoff", "ended"}
    BY <2>1 DEF HandedOver, Has
  <2>3. QED
    BY <2>2 DEF Has
<1>3. QED
  BY <1>1, <1>2 DEF Ranked

LEMMA InitHolds == Init => IInv
<1> SUFFICES ASSUME Init PROVE IInv
  OBVIOUS
<1>1. TypeOK
  BY QueueAssumption DEF Init, TypeOK, Enough
<1>2. \A w \in Writers : pc[w] \in {"absent", "queued"} /\ empties[w] = 0
  BY DEF Init
<1>3. \A p \in Parents : pc[ChildOf[p]] = "absent"
  BY QueueAssumption DEF Init, Children
<1>4. published <= main
  BY DEF Init
<1>5. QED
  BY <1>1, <1>2, <1>3, <1>4 DEF Init, IInv, Listed, Ranked, HandedOver, NoOvertaking, Fresh, Reading, Active, Has

\* A run that ends leaves the others as they were, without itself.
LEMMA EndsShape ==
  ASSUME TypeOK, NEW w \in Writers, Ends(w)
  PROVE  /\ pc'[w] = "ended" /\ pc' = [pc EXCEPT ![w] = "ended"]
         /\ \A u \in Writers \ {w} : /\ pc'[u] = pc[u] /\ sha'[u] = sha[u] /\ target'[u] = target[u]
                                     /\ empties'[u] = empties[u] /\ partial'[u] = partial[u]
                                     /\ ahead'[u] = ahead[u] \ {w} /\ before'[u] = before[u] \ {w}
                                     /\ known'[u] = known[u] \ {w}
         /\ before' \in [Writers -> SUBSET Writers] /\ ahead' \in [Writers -> SUBSET Writers]
         /\ known' \in [Writers -> SUBSET Writers]
         /\ sha' = [sha EXCEPT ![w] = 0] /\ target' = [target EXCEPT ![w] = 0]
         /\ empties' = [empties EXCEPT ![w] = 0] /\ partial' = [partial EXCEPT ![w] = FALSE]
BY DEF Ends, Goto, Without, TypeOK

LEMMA EndsKeeps ==
  ASSUME IInv, NEW w \in Writers, Ends(w), UNCHANGED main, published' \in Nat, published' <= main,
         pc[w] # "absent",
         \A u \in Writers \ {w} : pc[u] = "inside" => published' <= sha[u]
  PROVE  IInv'
<1>0. TypeOK
  BY DEF IInv
<1>1. TypeOK'
  <2>1. main' \in 1..MaxMain /\ main' = main /\ main \in Nat /\ published' \in Nat
    BY <1>0 DEF TypeOK
  <2>2. /\ sha' = [sha EXCEPT ![w] = 0] /\ target' = [target EXCEPT ![w] = 0]
        /\ pc' = [pc EXCEPT ![w] = "ended"]
        /\ empties' = [empties EXCEPT ![w] = 0] /\ partial' = [partial EXCEPT ![w] = FALSE]
    BY <1>0, EndsShape
  <2>3. sha' \in [Writers -> 0..main'] /\ target' \in [Writers -> 0..main']
    BY <1>0, <2>1, <2>2 DEF TypeOK
  <2>4. empties' \in [Writers -> 0..Enough] /\ partial' \in [Writers -> BOOLEAN]
    BY <1>0, <2>2 DEF TypeOK, Enough
  <2>5. pc' \in [Writers -> {"absent", "queued", "started", "waiting", "acquired", "inside",
                             "handoff", "ended"}]
    BY <1>0, <2>2 DEF TypeOK
  <2>6. /\ before' \in [Writers -> SUBSET Writers] /\ ahead' \in [Writers -> SUBSET Writers]
        /\ known' \in [Writers -> SUBSET Writers]
    BY <1>0, EndsShape
  <2>7. QED
    BY <2>1, <2>3, <2>4, <2>5, <2>6 DEF TypeOK
<1>2. \A v \in Writers : Active(v)' => v # w /\ Active(v)
  BY <1>0, EndsShape, ActiveStates DEF Active
<1>3. Ranked'
  <2> SUFFICES ASSUME NEW u \in Writers, NEW v \in Writers, Active(u)', Active(v)', u # v
               PROVE  u \in ahead'[v] \/ v \in ahead'[u]
    BY DEF Ranked
  <2>1. u # w /\ v # w /\ Active(u) /\ Active(v)
    BY <1>2
  <2>2. u \in ahead[v] \/ v \in ahead[u]
    BY <2>1 DEF IInv, Ranked
  <2>3. QED
    BY <1>0, <2>1, <2>2, EndsShape
<1>4. HandedOver'
  <2> SUFFICES ASSUME NEW p \in Parents, pc'[ChildOf[p]] # "absent"
               PROVE  pc'[p] \in {"handoff", "ended"}
    BY DEF HandedOver
  <2>1. p \in Writers /\ ChildOf[p] \in Writers
    BY QueueAssumption
  <2>2. pc[ChildOf[p]] # "absent"
    BY <1>0, <2>1, EndsShape
  <2>3. pc[p] \in {"handoff", "ended"}
    BY <2>2 DEF IInv, HandedOver
  <2>4. QED
    BY <1>0, <2>1, <2>3, EndsShape
<1>5. \A u \in Writers : u # w /\ Settled(u) => Settled(u)'
  BY <1>0, <1>2, EndsShape DEF Settled, Ignored
<1>6. NoOvertaking'
  <2> SUFFICES ASSUME NEW v \in Writers, NEW u \in Writers, Has(u)', Active(v)', v \in ahead'[u]
               PROVE  v \in Ignored(u)
    BY DEF NoOvertaking, Ignored
  <2>1. u # w /\ v # w /\ Active(v)
    BY <1>0, <1>2, EndsShape DEF Has
  <2>2. Has(u) /\ v \in ahead[u]
    BY <1>0, <2>1, EndsShape DEF Has
  <2>3. QED
    BY <2>1, <2>2 DEF IInv, NoOvertaking
<1>7. Fresh'
  <2>1. \A u \in Writers : pc'[u] = "inside" => u # w /\ pc[u] = "inside" /\ sha'[u] = sha[u]
    BY <1>0, EndsShape
  <2>2. QED
    BY <2>1 DEF Fresh
<1>8. ASSUME NEW u \in Writers PROVE Reading(u)'
  <2>1. CASE u = w
    BY <1>0, <2>1, EndsShape DEF Reading
  <2>2. CASE u # w
    <3>1. pc'[u] = pc[u] /\ empties'[u] = empties[u] /\ partial'[u] = partial[u]
      BY <1>0, <2>2, EndsShape
    <3>2. Reading(u)
      BY DEF IInv
    <3>3. QED
      BY <1>5, <2>2, <3>1, <3>2 DEF Reading
  <2>3. QED
    BY <2>1, <2>2
<1>9. Listed'
  <2> SUFFICES ASSUME NEW u \in Writers, NEW v \in Writers, v \in ahead'[u]
               PROVE  Active(v)' /\ v # u
    BY DEF Listed
  <2>1. ahead' = Without(ahead, w)
    BY DEF Ends
  <2>2. u # w /\ v # w /\ v \in ahead[u]
    BY <2>1 DEF Without
  <2>3. Active(v) /\ v # u /\ pc'[v] = pc[v]
    BY <1>0, <2>2, EndsShape DEF IInv, Listed
  <2>4. QED
    BY <2>3 DEF Active
<1>10. QED
  BY <1>1, <1>3, <1>4, <1>6, <1>7, <1>8, <1>9 DEF IInv

\* A step that changes nobody's place, and lets nobody in or back.
LEMMA StaysKeeps ==
  ASSUME IInv, TypeOK', NEW w \in Writers, pc[w] \in {"queued", "waiting", "acquired"},
         \A u \in Writers \ {w} : pc'[u] = pc[u] /\ empties'[u] = empties[u] /\ partial'[u] = partial[u],
         UNCHANGED <<ahead, published, main>>,
         pc'[w] \in {"started", "waiting", "acquired", "inside"},
         pc[w] = "queued" <=> pc'[w] = "started",
         \A u \in Writers \ {w} : sha'[u] = sha[u],
         pc'[w] = "inside" => sha'[w] = main,
         Has(w)' => Settled(w),
         pc'[w] = "started" => empties'[w] = 0,
         pc'[w] = "waiting" => empties'[w] \in {0, 1} /\ (empties'[w] = 1 /\ ~partial'[w] => Settled(w))
  PROVE  IInv'
<1>1. \A v \in Writers : Active(v)' <=> Active(v)
  BY DEF Active
<1>2. Ranked'
  BY <1>1 DEF Ranked, IInv
<1>3. HandedOver'
  <2> SUFFICES ASSUME NEW p \in Parents, pc'[ChildOf[p]] # "absent"
               PROVE  pc'[p] \in {"handoff", "ended"}
    BY DEF HandedOver
  <2>1. p \in Writers /\ ChildOf[p] \in Writers
    BY QueueAssumption
  <2>2. pc[ChildOf[p]] # "absent"
    BY <2>1
  <2>3. pc[p] \in {"handoff", "ended"}
    BY <2>2 DEF IInv, HandedOver
  <2>4. QED
    BY <2>1, <2>3
<1>4. \A u \in Writers : Settled(u) => Settled(u)'
  BY <1>1 DEF Settled, Ignored
<1>5. NoOvertaking'
  <2> SUFFICES ASSUME NEW v \in Writers, NEW u \in Writers, Has(u)', Active(v)', v \in ahead'[u]
               PROVE  v \in Ignored(u)
    BY DEF NoOvertaking, Ignored
  <2>1. Active(v) /\ v \in ahead[u]
    BY <1>1
  <2>2. CASE u = w
    BY <2>1, <2>2 DEF Settled
  <2>3. CASE u # w
    <3>1. Has(u)
      BY <2>3 DEF Has
    <3>2. QED
      BY <2>1, <3>1 DEF IInv, NoOvertaking
  <2>4. QED
    BY <2>2, <2>3
<1>6. Fresh'
  BY DEF IInv, Fresh, TypeOK
<1>7. ASSUME NEW u \in Writers PROVE Reading(u)'
  <2>1. CASE u = w
    BY <1>4, <2>1 DEF Reading
  <2>2. CASE u # w
    <3>1. Reading(u) /\ pc'[u] = pc[u] /\ empties'[u] = empties[u] /\ partial'[u] = partial[u]
      BY <2>2 DEF IInv
    <3>2. QED
      BY <1>4, <3>1 DEF Reading
  <2>3. QED
    BY <2>1, <2>2
<1>8. Listed'
  BY <1>1 DEF IInv, Listed
<1>9. QED
  BY <1>2, <1>3, <1>5, <1>6, <1>7, <1>8 DEF IInv

LEMMA StartKeeps ==
  ASSUME IInv, NEW w \in Writers, Start(w)
  PROVE  IInv'
<1>1. TypeOK /\ pc[w] = "queued" /\ empties[w] = 0
  BY DEF IInv, Start, Reading
<1>2. CASE Accepted(w)
  <2>1. /\ pc' = [pc EXCEPT ![w] = "started"] /\ sha' = [sha EXCEPT ![w] = main]
        /\ before' = [before EXCEPT ![w] = {v \in Writers : Active(v)}]
        /\ UNCHANGED <<ahead, target, view, main, published>>
    BY <1>2 DEF Start, Goto
  <2>2. TypeOK'
    BY <1>1, <2>1 DEF TypeOK, view
  <2>3. pc'[w] = "started"
    BY <1>1, <2>1 DEF TypeOK
  <2>4. ~Has(w)'
    BY <2>3 DEF Has
  <2>5. \A u \in Writers \ {w} : pc'[u] = pc[u] /\ sha'[u] = sha[u]
    BY <1>1, <2>1 DEF TypeOK
  <2>6. QED
    BY <1>1, <2>1, <2>2, <2>3, <2>4, <2>5, StaysKeeps DEF view
<1>3. CASE ~Accepted(w)
  <2>1. Ends(w) /\ UNCHANGED <<main, published>>
    BY <1>3 DEF Start
  <2>2. QED
    BY <1>1, <2>1, EndsKeeps DEF IInv, Fresh, TypeOK
<1>4. QED
  BY <1>2, <1>3

\* Whoever is admitted is behind everybody who was, and has read nothing.
LEMMA AdmitKeeps ==
  ASSUME IInv, NEW w \in Writers, Admit(w)
  PROVE  IInv'
<1>1. TypeOK /\ pc[w] = "started" /\ empties[w] = 0
  BY DEF IInv, Admit, Reading
<1>2. /\ pc' = [pc EXCEPT ![w] = "waiting"]
      /\ ahead' = [ahead EXCEPT ![w] = {v \in Writers : Active(v)}]
      /\ UNCHANGED <<main, sha, before, target, empties, partial, known, published>>
  BY DEF Admit, Goto, view
<1>3. /\ TypeOK' /\ pc'[w] = "waiting" /\ ahead'[w] = {v \in Writers : Active(v)}
      /\ \A u \in Writers \ {w} : pc'[u] = pc[u] /\ ahead'[u] = ahead[u]
  BY <1>1, <1>2 DEF TypeOK
<1>4. \A v \in Writers : Active(v)' <=> Active(v) \/ v = w
  BY <1>1, <1>3 DEF Active
<1>5. ~Active(w)
  BY <1>1 DEF Active
<1>6. Ranked'
  <2> SUFFICES ASSUME NEW u \in Writers, NEW v \in Writers, Active(u)', Active(v)', u # v
               PROVE  u \in ahead'[v] \/ v \in ahead'[u]
    BY DEF Ranked
  <2>1. CASE u # w /\ v # w
    BY <1>3, <1>4, <2>1 DEF IInv, Ranked
  <2>2. CASE u = w \/ v = w
    BY <1>3, <1>4, <2>2
  <2>3. QED
    BY <2>1, <2>2
<1>7. HandedOver'
  <2> SUFFICES ASSUME NEW p \in Parents, pc'[ChildOf[p]] # "absent"
               PROVE  pc'[p] \in {"handoff", "ended"}
    BY DEF HandedOver
  <2>1. p \in Writers /\ ChildOf[p] \in Writers
    BY QueueAssumption
  <2>2. pc[ChildOf[p]] # "absent"
    BY <1>1, <1>3, <2>1
  <2>3. pc[p] \in {"handoff", "ended"}
    BY <2>2 DEF IInv, HandedOver
  <2>4. QED
    BY <1>1, <1>3, <2>1, <2>3
<1>8. \A u \in Writers : u # w /\ Settled(u) => Settled(u)'
  <2> SUFFICES ASSUME NEW u \in Writers, u # w, Settled(u), NEW v \in Writers, v \in ahead'[u]
               PROVE  v \in Ignored(u)
    BY DEF Settled, Ignored
  <2>1. v \in ahead[u]
    BY <1>3
  <2>2. QED
    BY <2>1 DEF IInv, Listed, Settled
<1>9. NoOvertaking'
  <2> SUFFICES ASSUME NEW v \in Writers, NEW u \in Writers, Has(u)', v \in ahead'[u]
               PROVE  v \in Ignored(u)
    BY DEF NoOvertaking, Ignored
  <2>1. u # w /\ Has(u) /\ v \in ahead[u]
    BY <1>3 DEF Has
  <2>2. QED
    BY <2>1 DEF IInv, NoOvertaking, Listed
<1>10. Listed'
  BY <1>3, <1>4, <1>5 DEF IInv, Listed
<1>11. Fresh'
  BY <1>2, <1>3 DEF IInv, Fresh
<1>12. ASSUME NEW u \in Writers PROVE Reading(u)'
  <2>1. CASE u = w
    BY <1>1, <1>2, <1>3, <2>1 DEF Reading
  <2>2. CASE u # w
    BY <1>2, <1>3, <1>8, <2>2 DEF IInv, Reading
  <2>3. QED
    BY <2>1, <2>2
<1>13. QED
  BY <1>3, <1>6, <1>7, <1>9, <1>10, <1>11, <1>12 DEF IInv

\* One complete reading among the last two shows that nobody is ahead.
LEMMA PollSettles ==
  ASSUME IInv, NEW w \in Writers, NEW complete \in BOOLEAN, NEW unseen \in SUBSET Writers,
         Poll(w, complete, unseen),
         Blockers(w, Rows(w, unseen), complete) = {}
  PROVE  complete \/ empties[w] = 1 => Settled(w)
<1>1. CASE complete
  <2>1. unseen = {}
    BY <1>1 DEF Poll
  <2>2. \A v \in Writers : Active(v) /\ v # w /\ v \in ahead[w] => v \in Ignored(w)
    BY <1>1, <2>1 DEF Blockers, Rows, Ahead
  <2>3. w \notin ahead[w]
    BY DEF IInv, Listed
  <2>4. QED
    BY <2>2, <2>3 DEF Settled
<1>2. CASE ~complete /\ empties[w] = 1
  BY <1>2 DEF Poll, IInv, Reading
<1>3. QED
  BY <1>1, <1>2

LEMMA PollKeeps ==
  ASSUME IInv, NEW w \in Writers, NEW complete \in BOOLEAN, NEW unseen \in SUBSET Writers,
         Poll(w, complete, unseen)
  PROVE  IInv'
<1> DEFINE none  == Blockers(w, Rows(w, unseen), complete) = {}
           count == IF none THEN empties[w] + 1 ELSE 0
<1>1. /\ TypeOK /\ pc[w] = "waiting" /\ empties[w] \in {0, 1}
      /\ empties[w] = 1 /\ ~partial[w] => Settled(w)
  BY DEF IInv, Poll, Reading
<1>2. /\ known' = [known EXCEPT ![w] = Blockers(w, Rows(w, unseen), complete)]
      /\ empties' = [empties EXCEPT ![w] = count]
      /\ pc' = [pc EXCEPT ![w] = IF count >= Enough THEN "acquired" ELSE "waiting"]
      /\ partial' = [partial EXCEPT ![w] = ~complete]
      /\ UNCHANGED <<main, sha, before, ahead, target, published>>
  BY DEF Poll, Goto, marks
<1>3. count \in 0..2 /\ (count = 2 => none /\ empties[w] = 1) /\ (count = 1 => none)
  BY <1>1
<1>4. Blockers(w, Rows(w, unseen), complete) \in SUBSET Writers
  BY <1>1 DEF Blockers, Rows, TypeOK
<1> HIDE DEF count
<1>5. TypeOK'
  <2>1. empties' \in [Writers -> 0..Enough] /\ partial' \in [Writers -> BOOLEAN]
    BY <1>1, <1>2, <1>3 DEF TypeOK, Enough
  <2>2. known' \in [Writers -> SUBSET Writers]
    BY <1>1, <1>2, <1>4 DEF TypeOK
  <2>3. pc' \in [Writers -> {"absent", "queued", "started", "waiting", "acquired", "inside",
                             "handoff", "ended"}]
    BY <1>1, <1>2 DEF TypeOK
  <2>4. QED
    BY <1>1, <1>2, <2>1, <2>2, <2>3 DEF TypeOK
<1>6. /\ pc'[w] = IF count >= Enough THEN "acquired" ELSE "waiting"
      /\ empties'[w] = count /\ partial'[w] = ~complete
      /\ \A u \in Writers \ {w} : pc'[u] = pc[u] /\ empties'[u] = empties[u] /\ partial'[u] = partial[u]
  BY <1>1, <1>2 DEF TypeOK
<1>7. none => (complete \/ empties[w] = 1 => Settled(w))
  BY PollSettles
<1>8. Has(w)' => Settled(w)
  BY <1>3, <1>6, <1>7 DEF Has, Enough
<1>9. pc'[w] = "waiting" => empties'[w] \in {0, 1} /\ (empties'[w] = 1 /\ ~partial'[w] => Settled(w))
  <2>1. pc'[w] = "waiting" => count \in {0, 1}
    BY <1>3, <1>6 DEF Enough
  <2>2. ~partial'[w] => complete
    BY <1>6, Zenon
  <2>3. count = 1 /\ complete => Settled(w)
    <3> HIDE DEF none
    <3>1. QED
      BY <1>3, <1>7
  <2>4. QED
    BY <1>6, <2>1, <2>2, <2>3
<1>10. /\ pc'[w] \in {"started", "waiting", "acquired", "inside"}
       /\ pc'[w] # "started" /\ pc'[w] # "inside" /\ pc[w] # "queued"
  BY <1>1, <1>6
<1>11. QED
  BY <1>1, <1>2, <1>5, <1>6, <1>8, <1>9, <1>10, StaysKeeps

LEMMA SupersedeKeeps ==
  ASSUME IInv, NEW w \in Writers, Supersede(w)
  PROVE  IInv'
<1>1. TypeOK /\ pc[w] \in {"waiting", "acquired"} /\ UNCHANGED <<main, published>>
  BY DEF IInv, Supersede
<1>2. CASE Ends(w)
  BY <1>1, <1>2, EndsKeeps DEF IInv, Fresh, TypeOK
<1>3. CASE /\ w \in Parents
           /\ pc' = [pc EXCEPT ![w] = "handoff", ![ChildOf[w]] = "queued"]
           /\ target' = [target EXCEPT ![ChildOf[w]] = main]
           /\ UNCHANGED <<sha, before, ahead, view>>
  <2> DEFINE c == ChildOf[w]
  <2>1. c \in Writers /\ c # w /\ c \notin Parents
    BY <1>3, QueueAssumption
  <2>2. pc[c] = "absent"
    BY <1>1, <1>3 DEF IInv, HandedOver
  <2> HIDE DEF c
  <2>3. /\ pc'[w] = "handoff" /\ pc'[c] = "queued"
        /\ \A u \in Writers : u # w /\ u # c => pc'[u] = pc[u]
    BY <1>1, <1>3, <2>1 DEF TypeOK, c
  <2>4. TypeOK'
    <3>1. main \in Nat /\ main \in 0..main
      BY <1>1 DEF TypeOK
    <3>2. target' \in [Writers -> 0..main]
      BY <1>1, <1>3, <2>1, <3>1 DEF TypeOK, c
    <3>3. pc' \in [Writers -> {"absent", "queued", "started", "waiting", "acquired", "inside",
                               "handoff", "ended"}]
      BY <1>1, <1>3 DEF TypeOK
    <3>4. QED
      BY <1>1, <1>3, <3>2, <3>3 DEF TypeOK, view
  <2>5. \A v \in Writers : Active(v)' <=> Active(v)
    BY <1>1, <2>2, <2>3 DEF Active
  <2>6. Ranked' /\ Listed'
    BY <1>3, <2>5 DEF IInv, Ranked, Listed
  <2>7. HandedOver'
    <3> SUFFICES ASSUME NEW p \in Parents, pc'[ChildOf[p]] # "absent"
                 PROVE  pc'[p] \in {"handoff", "ended"}
      BY DEF HandedOver
    <3>1. p \in Writers /\ ChildOf[p] \in Writers /\ p # c /\ ChildOf[p] # w
      BY <1>3, <2>1, QueueAssumption
    <3>2. CASE p = w
      BY <2>3, <3>2
    <3>3. CASE p # w
      <4>1. ChildOf[p] # c
        BY <1>3, <3>3, QueueAssumption DEF c
      <4>2. QED
        BY <2>3, <3>1, <3>3, <4>1 DEF IInv, HandedOver
    <3>4. QED
      BY <3>2, <3>3
  <2>8. \A u \in Writers : Settled(u) => Settled(u)'
    BY <1>3, <2>5 DEF Settled, Ignored
  <2>9. NoOvertaking'
    BY <1>3, <2>1, <2>3, <2>5 DEF IInv, NoOvertaking, Has, Ignored
  <2>10. Fresh'
    BY <1>1, <1>3, <2>1, <2>3 DEF IInv, Fresh
  <2>11. ASSUME NEW u \in Writers PROVE Reading(u)'
    <3>1. Reading(u) /\ UNCHANGED <<empties, partial>> /\ (u = c => empties[u] = 0)
      BY <1>3, <2>2 DEF IInv, Reading, view
    <3>2. CASE u = w \/ u = c
      BY <2>3, <3>1, <3>2 DEF Reading
    <3>3. CASE u # w /\ u # c
      BY <2>3, <2>8, <3>1, <3>3 DEF Reading
    <3>4. QED
      BY <3>2, <3>3
  <2>12. QED
    BY <2>4, <2>6, <2>7, <2>9, <2>10, <2>11 DEF IInv
<1>4. QED
  BY <1>2, <1>3 DEF Supersede

LEMMA FenceKeeps ==
  ASSUME IInv, NEW w \in Writers, Fence(w)
  PROVE  IInv'
<1>1. TypeOK /\ pc[w] = "acquired" /\ sha[w] = main
  BY DEF IInv, Fence, Current
<1>2. /\ pc' = [pc EXCEPT ![w] = "inside"]
      /\ UNCHANGED <<main, sha, before, ahead, target, empties, partial, known, published>>
  BY DEF Fence, Goto, marks, view
<1>3. TypeOK'
  BY <1>1, <1>2 DEF TypeOK
<1>4. pc'[w] = "inside" /\ \A u \in Writers \ {w} : pc'[u] = pc[u]
  BY <1>1, <1>2 DEF TypeOK
<1>5. Settled(w)
  BY <1>1 DEF IInv, NoOvertaking, Settled, Has
<1>6. QED
  BY <1>1, <1>2, <1>3, <1>4, <1>5, StaysKeeps

\* Whoever publishes is alone past the queue, so nobody else is past the last check.
LEMMA PublishKeeps ==
  ASSUME IInv, NEW w \in Writers, Publish(w)
  PROVE  IInv' /\ published' >= published
<1>1. /\ TypeOK /\ pc[w] = "inside" /\ Ends(w) /\ UNCHANGED main /\ published' = sha[w]
  BY DEF IInv, Publish
<1>2. published' \in Nat /\ published' <= main /\ published' >= published
  BY <1>1 DEF IInv, Fresh, TypeOK
<1>3. \A u \in Writers \ {w} : pc[u] # "inside"
  BY <1>1, Exclusive DEF IInv, OneWriter, Has
<1>4. QED
  BY <1>1, <1>2, <1>3, EndsKeeps

LEMMA LeaveKeeps ==
  ASSUME IInv, NEW w \in Writers, Ends(w), UNCHANGED <<main, published>>, pc[w] # "absent"
  PROVE  IInv'
BY EndsKeeps DEF IInv, Fresh, TypeOK

LEMMA MainMovesKeeps ==
  ASSUME IInv, MainMoves
  PROVE  IInv'
<1>1. /\ TypeOK /\ main' = main + 1 /\ main < MaxMain
      /\ UNCHANGED <<pc, sha, before, ahead, target, empties, partial, known, published>>
  BY DEF IInv, MainMoves, marks, view
<1>2. TypeOK'
  <2>1. main \in Nat /\ main' \in 1..MaxMain
    BY <1>1, QueueAssumption DEF TypeOK
  <2>2. 0..main \subseteq 0..main'
    BY <1>1, <2>1
  <2>3. sha' \in [Writers -> 0..main'] /\ target' \in [Writers -> 0..main']
    BY <1>1, <2>2 DEF TypeOK
  <2>4. QED
    BY <1>1, <2>1, <2>3 DEF TypeOK
<1>3. \A v : Active(v)' <=> Active(v)
  BY <1>1 DEF Active
<1>4. Fresh'
  BY <1>1 DEF IInv, Fresh, TypeOK
<1>5. QED
  BY <1>1, <1>2, <1>3, <1>4
     DEF IInv, Listed, Ranked, HandedOver, NoOvertaking, Has, Reading, Settled, Ignored

-----------------------------------------------------------------------------
LEMMA NextKeeps ==
  ASSUME IInv, [Next]_vars
  PROVE  IInv'
<1>1. CASE MainMoves
  BY <1>1, MainMovesKeeps
<1>2. ASSUME NEW w \in Writers, Advance(w)
      PROVE  IInv'
  <2>1. CASE Start(w)
    BY <2>1, StartKeeps
  <2>2. CASE Admit(w)
    BY <2>2, AdmitKeeps
  <2>3. CASE Poll(w, TRUE, {})
    BY <2>3, PollKeeps
  <2>4. CASE Supersede(w)
    BY <2>4, SupersedeKeeps
  <2>5. CASE Fence(w)
    BY <2>5, FenceKeeps
  <2>6. CASE Publish(w)
    BY <2>6, PublishKeeps
  <2>7. CASE ChildEnds(w) \/ Deadline(w)
    BY <2>7, LeaveKeeps DEF ChildEnds, Deadline
  <2>8. QED
    BY <1>2, <2>1, <2>2, <2>3, <2>4, <2>5, <2>6, <2>7 DEF Advance
<1>3. ASSUME NEW w \in Writers, GiveUp(w)
      PROVE  IInv'
  BY <1>3, LeaveKeeps DEF GiveUp
<1>4. ASSUME NEW w \in Writers, NEW unseen \in SUBSET (Writers \ {w}), Poll(w, FALSE, unseen)
      PROVE  IInv'
  BY <1>4, PollKeeps
<1>5. CASE UNCHANGED vars
  BY <1>5 DEF vars, marks, view, IInv, TypeOK, Listed, Ranked, HandedOver, NoOvertaking, Fresh,
              Reading, Settled, Ignored, Active, Has
<1>6. QED
  BY <1>1, <1>2, <1>3, <1>4, <1>5 DEF Next

THEOREM Invariant == Spec => []IInv
<1>1. Init => IInv
  BY InitHolds
<1>2. IInv /\ [Next]_vars => IInv'
  BY NextKeeps
<1>3. QED
  BY <1>1, <1>2, PTL DEF Spec

\* Every variable of the queue keeps its type.
THEOREM TypeCorrect == Spec => []TypeOK
<1>1. IInv => TypeOK
  BY DEF IInv
<1>2. QED
  BY <1>1, Invariant, PTL

\* However the readings of any number of runs are mixed and whatever each of them
\* misses, at most one run is past the queue.
THEOREM Exclusion == Spec => []OneWriter
<1>1. IInv => OneWriter
  BY Exclusive DEF IInv
<1>2. QED
  BY <1>1, Invariant, PTL

\* Nobody is past the queue while a run admitted before it waits, but its parent.
THEOREM InOrder == Spec => []NoOvertaking
<1>1. IInv => NoOvertaking
  BY DEF IInv
<1>2. QED
  BY <1>1, Invariant, PTL

\* The revision that writes the branch never goes back.
THEOREM Forward == Spec => NeverGoesBack
<1>1. IInv /\ [Next]_vars => [published' >= published]_vars
  <2> SUFFICES ASSUME IInv, Next PROVE published' >= published
    OBVIOUS
  <2>1. published \in Nat
    BY DEF IInv, TypeOK
  <2>2. ASSUME NEW w \in Writers, Publish(w) PROVE published' >= published
    BY <2>2, PublishKeeps
  <2>3. CASE UNCHANGED published
    BY <2>1, <2>3
  <2>4. QED
    BY <2>2, <2>3 DEF Next, MainMoves, Advance, Start, Admit, Poll, Supersede, Fence, ChildEnds,
                      Deadline, GiveUp
<1>2. QED
  BY <1>1, Invariant, PTL DEF Spec, NeverGoesBack
=============================================================================
