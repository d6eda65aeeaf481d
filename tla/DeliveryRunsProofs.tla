-------------------------- MODULE DeliveryRunsProofs --------------------------
(***************************************************************************)
(* The delivery runs for any number of runs, events, anchors and           *)
(* recipients.                                                             *)
(*                                                                         *)
(* A run whose base is the head of the branch, and whose files were those  *)
(* of its base, holds a copy that adds to the ledger of the branch (Based):*)
(* publishing it takes no confirmed recipient and no uncertain claim away. *)
(* Only the first release of a run can revert the ledger (Turned).  When   *)
(* one run is admitted at a time, nobody publishes between the two         *)
(* releases of a run (Placed).  The copies are counted in the last part:   *)
(* each is paid for by a state that was told or by a cause (Paid).         *)
(***************************************************************************)
EXTENDS DeliveryRuns, LedgerClaimsProofs, FiniteSetTheorems, TLAPS

Working == {"gate", "choose", "claimed", "sent", "store"}
Served  == Working \cup {"revalidate", "publish"}
Places  == Served \cup {"restore", "lookup", "queue", "ended"}

Hands == [local : Ledger, old : BOOLEAN, saw : [Keys -> Nat], todo : SUBSET Keys, batch : SUBSET Events,
          held : [key : Keys \cup {None}, event : Keys \cup {None}, pending : SUBSET Recipients],
          confirmed : SUBSET Recipients, clean : BOOLEAN]

\* What the run w has in hand at the place l: the claim in progress is in flight in its
\* copy; the events a monitor has yet to look at are not uncertain there.
Shaped(w, l, m) ==
    /\ l \in {"claimed", "sent"} =>
          /\ m.held.key \in Keys /\ m.held.event \in Keys
          /\ m.local.claims[m.held.key].status = "in_flight"
          /\ w \in Monitors => m.held.key \notin m.todo
    /\ w \in Monitors   => m.todo \subseteq Events
                           /\ \A k \in m.todo : m.local.claims[k].status # "uncertain"
    /\ w \in Schedulers => m.todo \subseteq Events \cup {AnchorOf[w]}
    /\ l \in Working    => ~m.old
Shape == \A w \in Runs : Shaped(w, pc[w], mem[w])

\* Whom the writer queue has.
Placed ==
    /\ IsFiniteSet(inside)
    /\ \A w \in Runs : pc[w] \in Served => w \in inside
    /\ \A w \in Schedulers : pc[w] \in {"restore", "lookup"} => w \in inside
    /\ slots = 1 => /\ \A v, w \in inside : v = w
                    /\ \A w \in Runs : pc[w] \in Working => w \in current
                    /\ wasted = {}

Preserves(L, M) ==
    KeepsGot(L, M) /\ \A k \in Keys : L.claims[k].status = "uncertain" => M.claims[k].status = "uncertain"

Based ==
    \A w \in current :
        /\ pc[w] \notin {"restore", "lookup"} /\ (pc[w] = "queue" => w \in Monitors)
        /\ pc[w] # "ended" /\ ~mem[w].old => Preserves(ledger, mem[w].local)

Turned == \A w \in reverting : pc[w] \in Working \cup {"ended"}

IInv == TypeOK /\ Shape /\ Placed /\ Based /\ Turned

\* What a step of one run has to show, the types of the other variables apart.
RunsInv == /\ pc \in [Runs -> Places] /\ mem \in [Runs -> Hands] /\ inside \subseteq Runs
           /\ Shape /\ Placed /\ Based /\ Turned

-----------------------------------------------------------------------------
(* Copies of the ledger. *)

LEMMA PreservesItself == ASSUME NEW L PROVE Preserves(L, L)
BY DEF Preserves, KeepsGot

LEMMA PreservesOn ==
  ASSUME NEW L, NEW M, NEW N, Preserves(L, M), Preserves(M, N)
  PROVE  Preserves(L, N)
BY DEF Preserves, KeepsGot

LEMMA SameClaims ==
  ASSUME NEW L, NEW M, NEW N, N.claims = M.claims
  PROVE  Preserves(L, N) <=> Preserves(L, M)
BY DEF Preserves, KeepsGot

\* A change of one claim that was not uncertain, or stays so.
LEMMA OneClaimPreserves ==
  ASSUME NEW L, NEW M, NEW k \in Keys, OnlyClaim(L, M, k), L.claims[k].got \subseteq M.claims[k].got,
         L.claims[k].status = "uncertain" => M.claims[k].status = "uncertain"
  PROVE  Preserves(L, M)
BY DEF OnlyClaim, Preserves, KeepsGot

LEMMA ConstantFacts ==
  /\ None \notin Keys /\ Events \subseteq Keys /\ Anchors \subseteq Keys
  /\ \A w \in Runs : (w \in Monitors <=> w \notin Schedulers)
  /\ \A w \in Schedulers : AnchorOf[w] \in Anchors /\ AnchorOf[w] \in Keys /\ AnchorOf[w] \notin Events
  /\ Monitors \subseteq Runs /\ Schedulers \subseteq Runs
BY LedgerAssumption, DeliveryAssumption DEF Events, Runs

LEMMA FreshTypes ==
  /\ Fresh \in Hands /\ Fresh.todo = {} /\ ~Fresh.old
  /\ \A w \in Runs : Shaped(w, "ended", Fresh) /\ Shaped(w, "restore", Fresh) /\ Shaped(w, "queue", Fresh)
<1>1. NoClaimHeld \in [key : Keys \cup {None}, event : Keys \cup {None}, pending : SUBSET Recipients]
  BY DEF NoClaimHeld
<1>2. Unseen \in [Keys -> Nat]
  BY DEF Unseen
<1>3. Fresh \in Hands
  BY <1>1, <1>2, EmptyIsLedger DEF Fresh, Hands
<1>4. Fresh.todo = {} /\ ~Fresh.old
  BY DEF Fresh
<1>5. QED
  BY <1>3, <1>4 DEF Shaped, Working

LEMMA TypesOfRuns ==
  TypeOK => pc \in [Runs -> Places] /\ mem \in [Runs -> Hands] /\ inside \subseteq Runs
BY DEF TypeOK, Places, Served, Working, Hands

LEMMA RunsOfTypes ==
  IInv => RunsInv
BY TypesOfRuns DEF IInv, RunsInv

-----------------------------------------------------------------------------
(* What the steps of a run have in common. *)

\* A run goes on in its lane.
LEMMA LaneKeeps ==
  ASSUME IInv, NEW w \in Runs, NEW l \in Working, NEW m \in Hands, pc[w] \in Working,
         Goto(w, l, m), Shaped(w, l, m), Preserves(mem[w].local, m.local),
         UNCHANGED <<branch, slots, wasted, reverting>>
  PROVE  RunsInv'
<1>1. RunsInv
  BY RunsOfTypes
<1>2. pc' \in [Runs -> Places] /\ mem' \in [Runs -> Hands] /\ inside' \subseteq Runs
  BY <1>1 DEF Goto, RunsInv, Places, Served
<1>3. pc'[w] = l /\ mem'[w] = m /\ \A v \in Runs \ {w} : pc'[v] = pc[v] /\ mem'[v] = mem[v]
  BY <1>1 DEF Goto, RunsInv
<1>4. Shape'
  BY <1>1, <1>3 DEF RunsInv, Shape
<1>5. Placed'
  BY <1>1, <1>3, ConstantFacts DEF RunsInv, Placed, Goto, branch, Served, Working
<1>6. Based'
  <2>1. SUFFICES ASSUME NEW v \in current
                 PROVE  /\ pc'[v] \notin {"restore", "lookup"} /\ (pc'[v] = "queue" => v \in Monitors)
                        /\ pc'[v] # "ended" /\ ~mem'[v].old => Preserves(ledger, mem'[v].local)
    BY DEF Based, branch
  <2>2. v \in Runs
    BY DEF IInv, TypeOK
  <2>3. CASE v # w
    BY <1>1, <1>3, <2>2, <2>3 DEF RunsInv, Based
  <2>4. CASE v = w
    <3>1. ~mem[w].old
      BY <1>1 DEF RunsInv, Shape, Shaped
    <3>2. Preserves(ledger, mem[w].local)
      BY <1>1, <2>4, <3>1 DEF RunsInv, Based, Working
    <3>3. Preserves(ledger, m.local)
      BY <3>2, PreservesOn
    <3>4. QED
      BY <1>3, <2>4, <3>3 DEF Working
  <2>5. QED
    BY <2>3, <2>4
<1>7. Turned'
  BY <1>1, <1>3, ConstantFacts DEF RunsInv, Turned, IInv, TypeOK
<1>8. QED
  BY <1>2, <1>4, <1>5, <1>6, <1>7 DEF RunsInv

\* A run ends and leaves the branch as it is.
LEMMA EndsKeeps ==
  ASSUME IInv, NEW w \in Runs, Ends(w), UNCHANGED <<branch, slots, wasted, reverting>>
  PROVE  RunsInv'
<1>1. RunsInv
  BY RunsOfTypes
<1>2. pc' \in [Runs -> Places] /\ mem' \in [Runs -> Hands] /\ inside' \subseteq Runs
  BY <1>1, FreshTypes DEF Ends, RunsInv, Places
<1>3. pc'[w] = "ended" /\ mem'[w] = Fresh /\ \A v \in Runs \ {w} : pc'[v] = pc[v] /\ mem'[v] = mem[v]
  BY <1>1 DEF Ends, RunsInv
<1>4. Shape'
  BY <1>1, <1>3, FreshTypes DEF RunsInv, Shape
<1>5. Placed'
  <2>1. IsFiniteSet(inside')
    BY <1>1, FS_RemoveElement DEF RunsInv, Placed, Ends
  <2>2. QED
    BY <1>1, <1>3, <2>1, ConstantFacts DEF RunsInv, Placed, Ends, branch, Served, Working
<1>6. Based'
  BY <1>1, <1>3 DEF RunsInv, Based, branch, IInv, TypeOK
<1>7. Turned'
  BY <1>1, <1>3 DEF RunsInv, Turned, IInv, TypeOK
<1>8. QED
  BY <1>2, <1>4, <1>5, <1>6, <1>7 DEF RunsInv

LEMMA TypesBack ==
  ASSUME RunsInv', UNCHANGED <<branch, world, batches, retold, wasted, reverting>>, TypeOK,
         copies' \in [Keys -> [Recipients -> Nat]], heard' \in [Keys -> SUBSET Nat], accidents' \in Nat
  PROVE  IInv'
<1>1. TypeOK'
  BY DEF RunsInv, TypeOK, branch, world, Places, Served, Working, Hands
<1>2. QED
  BY <1>1 DEF IInv, RunsInv

-----------------------------------------------------------------------------
(* The steps before the lane. *)

LEMMA InitHolds == Init => IInv
<1> SUFFICES ASSUME Init PROVE IInv
  OBVIOUS
<1>1. TypeOK
  <2>1. mem \in [Runs -> Hands]
    BY FreshTypes DEF Init
  <2>2. slots \in 1..MaxSlots /\ ledger \in Ledger
    BY EmptyIsLedger DEF Init
  <2>3. rank \in [Keys -> Nat]
    BY DEF Init
  <2>4. QED
    BY <2>1, <2>2, <2>3 DEF Init, TypeOK, Hands
<1>2. Shape
  BY FreshTypes DEF Init, Shape
<1>3. IsFiniteSet(inside)
  BY FS_EmptySet DEF Init
<1>4. Placed
  BY <1>3, ConstantFacts DEF Init, Placed, Served, Working
<1>5. QED
  BY <1>1, <1>2, <1>4 DEF Init, IInv, Based, Turned

\* Steps that leave the runs and the branch alone.
LEMMA AsideKeeps ==
  ASSUME IInv, UNCHANGED <<branch, slots, inside, pc, mem, batches, told, retold, faults>>,
         rank' \in [Keys -> Nat], now' \in Nat, others' \in Nat
  PROVE  IInv'
<1>1. TypeOK'
  BY DEF IInv, TypeOK, branch, told, faults
<1>2. Shape' /\ Placed' /\ Based' /\ Turned'
  BY DEF IInv, Shape, Placed, Based, Turned, branch, faults
<1>3. QED
  BY <1>1, <1>2 DEF IInv

LEMMA RestoreKeeps ==
  ASSUME IInv, NEW w \in Runs, Restore(w)
  PROVE  IInv'
<1> DEFINE m == [Fresh EXCEPT !.local = ledger]
<1>1. m \in Hands /\ m.todo = {}
  BY FreshTypes DEF Hands, IInv, TypeOK
<1>2. pc[w] = "restore" /\ Goto(w, "lookup", m)
  BY DEF Restore
<1> HIDE DEF m
<1>3. RunsInv
  BY RunsOfTypes
<1>4. pc'[w] = "lookup" /\ mem'[w] = m /\ \A v \in Runs \ {w} : pc'[v] = pc[v] /\ mem'[v] = mem[v]
  BY <1>2, <1>3 DEF Goto, RunsInv
<1>5. pc' \in [Runs -> Places] /\ mem' \in [Runs -> Hands] /\ inside' \subseteq Runs
  BY <1>1, <1>2, <1>3 DEF Goto, RunsInv, Places
<1>6. Shape'
  BY <1>1, <1>3, <1>4 DEF RunsInv, Shape, Shaped, Working
<1>7. Placed'
  BY <1>2, <1>3, <1>4, ConstantFacts DEF RunsInv, Placed, Goto, Restore, branch, world, faults, Served, Working
<1>8. Based'
  <2>1. w \notin current /\ current \subseteq Runs
    BY <1>2 DEF IInv, TypeOK, Based
  <2>2. QED
    BY <1>3, <1>4, <2>1 DEF RunsInv, Based, Restore, branch
<1>9. Turned'
  BY <1>2, <1>3, <1>4 DEF RunsInv, Turned, Restore, faults, IInv, TypeOK, Working
<1>10. RunsInv'
  BY <1>5, <1>6, <1>7, <1>8, <1>9 DEF RunsInv
<1>11. QED
  BY <1>10, TypesBack DEF Restore, told, faults, world, branch, IInv, TypeOK

\* The selection observes events and leaves every claim alone.
LEMMA ObserveAllTypes ==
  ASSUME IInv, NEW L \in Ledger, NEW S
  PROVE  ObserveAll(L, S) \in Ledger /\ ObserveAll(L, S).claims = L.claims
<1> DEFINE seen == [k \in Keys |-> IF k \in S THEN Observe(L, k, rank[k], now).rows[k] ELSE L.rows[k]]
<1>1. ASSUME NEW k \in Keys
      PROVE  Observe(L, k, rank[k], now) \in Ledger
  BY ObserveTypes DEF IInv, TypeOK
<1>2. \A k \in Keys : Observe(L, k, rank[k], now).rows[k] \in Row /\ L.rows[k] \in Row
  BY <1>1 DEF Ledger
<1>3. seen \in [Keys -> Row]
  BY <1>2
<1>4. ObserveAll(L, S) = [claims |-> L.claims, rows |-> seen]
  BY DEF ObserveAll, Ledger
<1>5. QED
  BY <1>3, <1>4 DEF Ledger

LEMMA LookupKeeps ==
  ASSUME IInv, NEW w \in Runs, Lookup(w)
  PROVE  IInv'
<1> DEFINE L     == mem[w].local
           ready == {k \in Active : Ready(L, k)}
           seen  == {k \in Active \ Priority : Unclaimed(L, k)}
           found == [Fresh EXCEPT !.local = L, !.old = L # ledger, !.saw = rank]
           batch == [found EXCEPT !.local = ObserveAll(L, seen), !.todo = ready, !.batch = ready]
<1>1. RunsInv /\ pc[w] = "lookup" /\ L \in Ledger
  BY RunsOfTypes DEF Lookup, RunsInv, Hands
<1>2. found \in Hands /\ found.todo = {} /\ found.local = L /\ found.old = (L # ledger)
  BY <1>1, FreshTypes DEF Hands, IInv, TypeOK
<1>3. ready \subseteq Events /\ \A k \in ready : k \in Keys /\ L.claims[k].status # "uncertain"
  BY ConstantFacts DEF Active, Ready, Unclaimed, ClaimsOf
<1> HIDE DEF ready
<1>4. /\ batch \in Hands /\ batch.todo = ready /\ batch.old = (L # ledger)
      /\ batch.local.claims = L.claims
  <2>1. ObserveAll(L, seen) \in Ledger /\ ObserveAll(L, seen).claims = L.claims
    BY <1>1, ObserveAllTypes
  <2> HIDE DEF found, seen
  <2>2. ready \in SUBSET Keys /\ ready \in SUBSET Events
    BY <1>3, ConstantFacts
  <2>3. QED
    BY <1>2, <2>1, <2>2 DEF Hands
<1> HIDE DEF found, batch
<1>5. CASE w \in Schedulers \/ ready # {}
  <2> DEFINE m == IF w \in Schedulers THEN found ELSE batch
             l == IF w \in Schedulers THEN "publish" ELSE "queue"
  <2>1. Goto(w, l, m) /\ current' = current \cup {w} /\ UNCHANGED <<ledger, world, batches, told, retold, faults>>
    BY <1>5 DEF Lookup, found, batch, ready
  <2>2. /\ m \in Hands /\ m.local.claims = L.claims /\ m.old = (L # ledger)
        /\ m.todo = {} \/ (w \in Monitors /\ m.todo = ready)
    BY <1>2, <1>4, ConstantFacts
  <2>3. l \in {"publish", "queue"} /\ (l = "queue" <=> w \in Monitors)
    BY ConstantFacts
  <2> HIDE DEF m, l
  <2>4. pc'[w] = l /\ mem'[w] = m /\ \A v \in Runs \ {w} : pc'[v] = pc[v] /\ mem'[v] = mem[v]
    BY <1>1, <2>1 DEF Goto, RunsInv
  <2>5. pc' \in [Runs -> Places] /\ mem' \in [Runs -> Hands] /\ inside' \subseteq Runs
    BY <1>1, <2>1, <2>2, <2>3 DEF Goto, RunsInv, Places, Served
  <2>6. Shaped(w, l, m)
    BY <1>3, <2>2, <2>3, ConstantFacts DEF Shaped, Working
  <2>7. Shape'
    BY <1>1, <2>4, <2>6 DEF RunsInv, Shape
  <2>8. Placed'
    BY <1>1, <2>1, <2>3, <2>4, ConstantFacts DEF RunsInv, Placed, Goto, world, faults, Served, Working
  <2>9. Based'
    <3>1. SUFFICES ASSUME NEW v \in current \cup {w}
                   PROVE  /\ pc'[v] \notin {"restore", "lookup"} /\ (pc'[v] = "queue" => v \in Monitors)
                          /\ pc'[v] # "ended" /\ ~mem'[v].old => Preserves(ledger, mem'[v].local)
      BY <2>1 DEF Based
    <3>2. CASE v = w
      <4>1. ~m.old => Preserves(ledger, m.local)
        <5>1. L = ledger => Preserves(ledger, L)
          BY PreservesItself
        <5>2. QED
          BY <2>2, <5>1, SameClaims
      <4>2. QED
        BY <2>3, <2>4, <3>2, <4>1
    <3>3. CASE v # w
      BY <1>1, <2>4, <3>1, <3>3 DEF RunsInv, Based, IInv, TypeOK
    <3>4. QED
      BY <3>2, <3>3
  <2>10. Turned'
    BY <1>1, <2>1, <2>4 DEF RunsInv, Turned, faults, IInv, TypeOK, Working
  <2>11. TypeOK'
    BY <2>1, <2>5 DEF IInv, TypeOK, world, told, faults, Places, Served, Working, Hands
  <2>12. QED
    BY <2>7, <2>8, <2>9, <2>10, <2>11 DEF IInv
<1>6. CASE ~(w \in Schedulers \/ ready # {})
  <2>1. Ends(w) /\ UNCHANGED <<branch, world, batches, told, retold, faults>>
    BY <1>6 DEF Lookup, ready, branch
  <2>2. RunsInv'
    BY <2>1, EndsKeeps DEF world, faults
  <2>3. QED
    BY <2>1, <2>2, TypesBack DEF told, faults, IInv, TypeOK
<1>7. QED
  BY <1>5, <1>6

LEMMA EnterKeeps ==
  ASSUME IInv, NEW w \in Runs, Enter(w)
  PROVE  IInv'
<1> DEFINE l == IF w \in Monitors THEN "revalidate" ELSE "restore"
<1>1. RunsInv /\ pc[w] = "queue" /\ pc' = [pc EXCEPT ![w] = l] /\ inside' = inside \cup {w}
  BY RunsOfTypes DEF Enter
<1>2. l \in {"revalidate", "restore"} /\ (l = "revalidate" <=> w \in Monitors)
  OBVIOUS
<1> HIDE DEF l
<1>3. pc'[w] = l /\ \A v \in Runs \ {w} : pc'[v] = pc[v]
  BY <1>1 DEF RunsInv
<1>4. Shape'
  BY <1>1, <1>2, <1>3 DEF RunsInv, Shape, Shaped, Enter, Working
<1>5. Placed'
  <2>1. IsFiniteSet(inside')
    BY <1>1, FS_AddElement DEF RunsInv, Placed
  <2>2. slots = 1 => inside = {}
    <3>1. IsFiniteSet(inside) /\ Cardinality(inside) \in Nat /\ Cardinality(inside) < slots
      BY <1>1, FS_CardinalityType DEF RunsInv, Placed, Enter
    <3>2. slots = 1 => Cardinality(inside) = 0
      BY <3>1
    <3>3. QED
      BY <3>1, <3>2, FS_EmptySet
  <2>3. QED
    BY <1>1, <1>2, <1>3, <2>1, <2>2, ConstantFacts DEF RunsInv, Placed, Enter, branch, world, faults, Served, Working
<1>6. Based'
  BY <1>1, <1>2, <1>3, ConstantFacts DEF RunsInv, Based, Enter, branch, IInv, TypeOK
<1>7. Turned'
  BY <1>1, <1>3 DEF RunsInv, Turned, Enter, faults, IInv, TypeOK, Working
<1>8. TypeOK'
  <2>1. pc' \in [Runs -> Places]
    BY <1>1, <1>2 DEF RunsInv, Places, Served
  <2>2. QED
    BY <1>1, <2>1 DEF IInv, TypeOK, Enter, branch, world, told, faults, Places, Served, Working
<1>9. QED
  BY <1>4, <1>5, <1>6, <1>7, <1>8 DEF IInv

LEMMA RevalidateKeeps ==
  ASSUME IInv, NEW w \in Runs, Revalidate(w)
  PROVE  IInv'
<1>1. RunsInv /\ pc[w] = "revalidate" /\ UNCHANGED <<branch, world, batches, told, retold, faults>>
  BY RunsOfTypes DEF Revalidate
<1>2. CASE Ends(w)
  BY <1>1, <1>2, EndsKeeps, TypesBack DEF world, told, faults, IInv, TypeOK
<1>3. CASE Goto(w, "publish", mem[w])
  <2>1. /\ pc'[w] = "publish" /\ mem' = mem /\ inside' = inside
        /\ \A v \in Runs \ {w} : pc'[v] = pc[v]
    BY <1>1, <1>3 DEF Goto, RunsInv
  <2>2. pc' \in [Runs -> Places]
    BY <1>1, <1>3 DEF Goto, RunsInv, Places, Served
  <2>3. Shape'
    BY <1>1, <2>1 DEF RunsInv, Shape, Shaped, Working
  <2>4. Placed'
    BY <1>1, <2>1, ConstantFacts DEF RunsInv, Placed, branch, world, faults, Served, Working
  <2>5. Based' /\ Turned'
    BY <1>1, <2>1 DEF RunsInv, Based, Turned, branch, faults, IInv, TypeOK, Working
  <2>6. RunsInv'
    BY <1>1, <2>1, <2>2, <2>3, <2>4, <2>5 DEF RunsInv
  <2>7. QED
    BY <1>1, <2>6, TypesBack DEF told, faults, IInv, TypeOK
<1>4. QED
  BY <1>2, <1>3 DEF Revalidate

\* Publishing makes the copy of w the ledger of the branch, and w its only follower.
LEMMA CommitBases ==
  ASSUME IInv, NEW w \in Runs, Commit(w), mem'[w].local = mem[w].local,
         pc'[w] \in Working \cup {"ended"}
  PROVE  Based'
BY PreservesItself DEF Commit, Based, Working

LEMMA PublishKeeps ==
  ASSUME IInv, NEW w \in Runs, PublishRelease(w)
  PROVE  IInv'
<1>1. /\ RunsInv /\ pc[w] = "publish" /\ w \in inside /\ mem[w] \in Hands
      /\ UNCHANGED <<world, batches, told, retold, wasted, accidents>>
  BY RunsOfTypes DEF PublishRelease, RunsInv, Placed, Served
<1>2. CASE w \in current
  <2> DEFINE m == [mem[w] EXCEPT !.old = FALSE]
  <2>1. Commit(w) /\ Goto(w, "gate", m)
    BY <1>2 DEF PublishRelease
  <2>2. m \in Hands /\ m.local = mem[w].local /\ m.todo = mem[w].todo /\ ~m.old
    BY <1>1 DEF Hands
  <2> HIDE DEF m
  <2>3. pc'[w] = "gate" /\ mem'[w] = m /\ \A v \in Runs \ {w} : pc'[v] = pc[v] /\ mem'[v] = mem[v]
    BY <1>1, <2>1 DEF Goto, RunsInv
  <2>4. pc' \in [Runs -> Places] /\ mem' \in [Runs -> Hands] /\ inside' = inside
    BY <1>1, <2>1, <2>2 DEF Goto, RunsInv, Places, Served, Working
  <2>5. Shape'
    BY <1>1, <2>2, <2>3 DEF RunsInv, Shape, Shaped, Working
  <2>6. Placed'
    <3>1. slots = 1 => \A v \in Runs : pc'[v] \in Working => v = w
      BY <1>1, <2>3 DEF RunsInv, Placed, Served
    <3>2. QED
      BY <1>1, <2>1, <2>3, <2>4, <3>1, ConstantFacts DEF RunsInv, Placed, Commit, world, Served, Working
  <2>7. Based'
    BY <2>1, <2>2, <2>3, CommitBases DEF Working
  <2>8. Turned'
    BY <1>1, <2>1, <2>3 DEF RunsInv, Turned, Commit, Reverts, IInv, TypeOK, Working
  <2>9. TypeOK'
    <3>1. ledger' \in Ledger /\ current' \subseteq Runs /\ reverting' \subseteq Runs
      BY <1>1, <2>1 DEF Commit, Reverts, Hands, IInv, TypeOK
    <3>2. QED
      BY <1>1, <2>4, <3>1 DEF IInv, TypeOK, world, told, Places, Served, Working, Hands
  <2>10. QED
    BY <2>5, <2>6, <2>7, <2>8, <2>9 DEF IInv
<1>3. CASE w \notin current /\ w \in Schedulers
  <2>1. Goto(w, "restore", Fresh) /\ UNCHANGED <<branch, reverting>>
    BY <1>3 DEF PublishRelease
  <2>2. pc'[w] = "restore" /\ mem'[w] = Fresh /\ \A v \in Runs \ {w} : pc'[v] = pc[v] /\ mem'[v] = mem[v]
    BY <1>1, <2>1 DEF Goto, RunsInv
  <2>3. pc' \in [Runs -> Places] /\ mem' \in [Runs -> Hands] /\ inside' = inside
    BY <1>1, <2>1, FreshTypes DEF Goto, RunsInv, Places
  <2>4. Shape'
    BY <1>1, <2>2, FreshTypes DEF RunsInv, Shape
  <2>5. Placed'
    BY <1>1, <2>1, <2>2, <2>3, ConstantFacts DEF RunsInv, Placed, branch, world, Served, Working
  <2>6. Based'
    BY <1>1, <1>3, <2>1, <2>2 DEF RunsInv, Based, branch, IInv, TypeOK
  <2>7. Turned'
    BY <1>1, <2>1, <2>2 DEF RunsInv, Turned, IInv, TypeOK, Working
  <2>8. RunsInv'
    BY <1>1, <2>3, <2>4, <2>5, <2>6, <2>7 DEF RunsInv
  <2>9. QED
    BY <1>1, <2>1, <2>8, TypesBack DEF told, IInv, TypeOK
<1>4. CASE w \notin current /\ w \notin Schedulers
  <2>1. Ends(w) /\ UNCHANGED <<branch, reverting>>
    BY <1>4 DEF PublishRelease
  <2>2. RunsInv'
    BY <1>1, <2>1, EndsKeeps DEF world
  <2>3. QED
    BY <1>1, <2>1, <2>2, TypesBack DEF told, IInv, TypeOK
<1>5. QED
  BY <1>2, <1>3, <1>4

LEMMA GateKeeps ==
  ASSUME IInv, NEW w \in Runs, Gate(w)
  PROVE  IInv'
<1>1. /\ RunsInv /\ pc[w] = "gate" /\ mem[w] \in Hands /\ Shaped(w, "gate", mem[w])
      /\ UNCHANGED <<branch, world, batches, told, retold, faults>>
  BY RunsOfTypes DEF Gate, RunsInv, Shape
<1>2. RunsInv'
  <2>1. CASE Ends(w)
    BY <1>1, <2>1, EndsKeeps DEF world, faults
  <2>2. CASE w \in Monitors /\ Goto(w, "choose", mem[w])
    <3>1. Shaped(w, "choose", mem[w])
      BY <1>1 DEF Shaped, Working
    <3>2. QED
      BY <1>1, <2>2, <3>1, LaneKeeps, PreservesItself DEF world, faults, Working
  <2>3. ASSUME w \in Schedulers, NEW todo \in {Seen(w), {AnchorOf[w]}},
               Goto(w, "choose", [mem[w] EXCEPT !.todo = todo])
        PROVE  RunsInv'
    <3>1. todo \subseteq Events \cup {AnchorOf[w]} /\ todo \in SUBSET Keys
      BY <2>3, ConstantFacts DEF Seen
    <3> DEFINE m == [mem[w] EXCEPT !.todo = todo]
    <3>2. m \in Hands /\ m.local = mem[w].local /\ m.todo = todo /\ m.old = mem[w].old
      BY <1>1, <3>1 DEF Hands
    <3>3. Goto(w, "choose", m)
      BY <2>3
    <3> HIDE DEF m
    <3>4. Shaped(w, "choose", m)
      BY <1>1, <2>3, <3>1, <3>2, ConstantFacts DEF Shaped, Working
    <3>5. QED
      BY <1>1, <3>2, <3>3, <3>4, LaneKeeps, PreservesItself DEF world, faults, Working
  <2>4. QED
    BY <2>1, <2>2, <2>3 DEF Gate
<1>3. QED
  BY <1>1, <1>2, TypesBack DEF told, faults, IInv, TypeOK

-----------------------------------------------------------------------------
(* The lane. *)

LEMMA PassOverKeeps ==
  ASSUME IInv, NEW w \in Runs, NEW k \in Keys, PassOver(w, k)
  PROVE  IInv'
<1> DEFINE L    == mem[w].local
           next == IF k \in Events /\ Unclaimed(L, k) THEN Observe(L, k, mem[w].saw[k], now) ELSE L
           m    == [mem[w] EXCEPT !.todo = @ \ {k}, !.local = next]
<1>1. /\ RunsInv /\ pc[w] = "choose" /\ mem[w] \in Hands /\ Shaped(w, "choose", mem[w])
      /\ UNCHANGED <<branch, world, batches, told, retold, faults>>
  BY RunsOfTypes DEF PassOver, RunsInv, Shape
<1>2. next \in Ledger /\ next.claims = L.claims
  <2>1. L \in Ledger /\ mem[w].saw[k] \in Nat /\ now \in Nat
    BY <1>1 DEF Hands, IInv, TypeOK
  <2>2. QED
    BY <2>1, ObserveTypes
<1>3. Goto(w, "choose", m)
  BY DEF PassOver
<1> HIDE DEF next
<1>4. m \in Hands /\ m.local = next /\ m.todo = mem[w].todo \ {k} /\ m.old = mem[w].old
  BY <1>1, <1>2 DEF Hands
<1> HIDE DEF m
<1>5. Shaped(w, "choose", m)
  BY <1>1, <1>2, <1>4 DEF Shaped, Working
<1>6. Preserves(mem[w].local, m.local)
  BY <1>2, <1>4, PreservesItself, SameClaims
<1>7. RunsInv'
  BY <1>1, <1>3, <1>4, <1>5, <1>6, LaneKeeps DEF world, faults, Working
<1>8. QED
  BY <1>1, <1>7, TypesBack DEF told, faults, IInv, TypeOK

\* What comes of a claim: whoever is refused changes at most the claim he asked for, and
\* whoever may send has a claim in flight that was not uncertain.
LEMMA AsksAnswers ==
  ASSUME IInv, NEW w \in Runs, NEW k \in Keys, NEW L \in Ledger,
         NEW answer, answer = Asks(w, k, L)
  PROVE  /\ KeyFor(w, k) \in Keys
         /\ answer.ledger \in Ledger /\ answer.pending \subseteq Recipients
         /\ OnlyClaim(L, answer.ledger, KeyFor(w, k))
         /\ L.claims[KeyFor(w, k)].got \subseteq answer.ledger.claims[KeyFor(w, k)].got
         /\ answer.status = "claimed" => /\ answer.ledger.claims[KeyFor(w, k)].status = "in_flight"
                                         /\ L.claims[KeyFor(w, k)].status # "uncertain"
                                         /\ answer.pending \cap answer.ledger.claims[KeyFor(w, k)].got = {}
<1>1. now \in Nat /\ None \in Anchors \cup {None} /\ None \in Prints \cup {None}
  BY DEF IInv, TypeOK
<1>2. PICK t \in Nat : t = now
  BY <1>1
<1>3. CASE w \in Monitors
  <2>1. PICK slot \in Anchors \cup {None} : slot = None
    BY <1>1
  <2>2. answer = ClaimNotification(L, k, slot, Recipients, t) /\ KeyFor(w, k) = k
    BY <1>2, <1>3, <2>1 DEF Asks, KeyFor
  <2>3. answer.ledger \in Ledger /\ answer.pending \subseteq Recipients /\ OnlyClaim(L, answer.ledger, k)
    BY <2>2, ClaimAnswers, SMTT(30)
  <2>4. L.claims[k].got \subseteq answer.ledger.claims[k].got
    BY <2>2, ClaimAnswers, SMTT(30)
  <2>5. answer.status = "claimed" => /\ answer.ledger.claims[k].status = "in_flight"
                                     /\ L.claims[k].status # "uncertain"
                                     /\ answer.pending \cap answer.ledger.claims[k].got = {}
    BY <2>2, ClaimAnswers, SMTT(30)
  <2>6. QED
    BY <2>2, <2>3, <2>4, <2>5
<1>4. CASE w \notin Monitors /\ k \in Priority
  <2>1. PICK slot \in Anchors \cup {None} : slot = AnchorOf[w]
    BY <1>4, ConstantFacts
  <2>2. answer = ClaimNotification(L, k, slot, Recipients, t) /\ KeyFor(w, k) = k
    BY <1>2, <1>4, <2>1 DEF Asks, KeyFor
  <2>3. answer.ledger \in Ledger /\ answer.pending \subseteq Recipients /\ OnlyClaim(L, answer.ledger, k)
    BY <2>2, ClaimAnswers, SMTT(30)
  <2>4. L.claims[k].got \subseteq answer.ledger.claims[k].got
    BY <2>2, ClaimAnswers, SMTT(30)
  <2>5. answer.status = "claimed" => /\ answer.ledger.claims[k].status = "in_flight"
                                     /\ L.claims[k].status # "uncertain"
                                     /\ answer.pending \cap answer.ledger.claims[k].got = {}
    BY <2>2, ClaimAnswers, SMTT(30)
  <2>6. QED
    BY <2>2, <2>3, <2>4, <2>5
<1>5. CASE w \notin Monitors /\ k \notin Priority
  <2>1. PICK a \in Anchors : a = AnchorOf[w]
    BY <1>5, ConstantFacts
  <2>2. answer = ClaimScheduledBrief(L, a, None, "scheduled_anchor", Recipients, t) /\ KeyFor(w, k) = a
    BY <1>2, <1>5, <2>1 DEF Asks, KeyFor
  <2>3. a \in Keys
    BY ConstantFacts
  <2>4. answer.ledger \in Ledger /\ answer.pending \subseteq Recipients /\ OnlyClaim(L, answer.ledger, a)
    BY <1>1, <2>2, BriefAnswers, SMTT(30)
  <2>5. L.claims[a].got \subseteq answer.ledger.claims[a].got
    BY <1>1, <2>2, BriefAnswers, SMTT(30)
  <2>6. answer.status = "claimed" => /\ answer.ledger.claims[a].status = "in_flight"
                                     /\ L.claims[a].status # "uncertain"
                                     /\ answer.pending \cap answer.ledger.claims[a].got = {}
    BY <1>1, <2>2, BriefAnswers, SMTT(30)
  <2>7. QED
    BY <2>2, <2>3, <2>4, <2>5, <2>6
<1>6. QED
  BY <1>3, <1>4, <1>5

LEMMA ClaimsKeeps ==
  ASSUME IInv, NEW w \in Runs, NEW k \in Keys, Claims(w, k)
  PROVE  IInv'
<1> DEFINE L    == mem[w].local
           seen == IF k \in Priority \cup Anchors THEN L ELSE Observe(L, k, mem[w].saw[k], now)
           j    == KeyFor(w, k)
<1>1. /\ RunsInv /\ pc[w] = "choose" /\ mem[w] \in Hands /\ Shaped(w, "choose", mem[w])
      /\ k \in mem[w].todo /\ UNCHANGED <<branch, world, batches, told, faults>>
  BY RunsOfTypes DEF Claims, RunsInv, Shape
<1>2. seen \in Ledger /\ seen.claims = L.claims
  <2>1. L \in Ledger /\ mem[w].saw[k] \in Nat /\ now \in Nat
    BY <1>1 DEF Hands, IInv, TypeOK
  <2>2. QED
    BY <2>1, ObserveTypes
<1>3. PICK answer : answer = Asks(w, k, seen)
  OBVIOUS
<1> DEFINE after == [mem[w] EXCEPT !.local = answer.ledger, !.todo = @ \ {k}]
           held  == [key |-> j, event |-> k, pending |-> answer.pending]
           m     == [after EXCEPT !.held = held]
<1>4. \/ /\ answer.status = "claimed" /\ Goto(w, "claimed", m)
         /\ retold' = IF j # k /\ L.rows[k].told > 0 /\ ~Changed(L.rows[k], mem[w].saw[k])
                     THEN retold \cup {<<w, k>>} ELSE retold
      \/ /\ answer.status # "claimed" /\ retold' = retold
         /\ IF w \in Monitors THEN Goto(w, "choose", after) ELSE Ends(w)
  BY <1>3 DEF Claims
<1> HIDE DEF seen
<1>5. /\ j \in Keys /\ answer.ledger \in Ledger /\ answer.pending \subseteq Recipients
      /\ OnlyClaim(seen, answer.ledger, j)
      /\ seen.claims[j].got \subseteq answer.ledger.claims[j].got
      /\ answer.status = "claimed" => /\ answer.ledger.claims[j].status = "in_flight"
                                      /\ seen.claims[j].status # "uncertain"
  BY <1>2, <1>3, AsksAnswers
<1>6. /\ after \in Hands /\ after.local = answer.ledger /\ after.todo = mem[w].todo \ {k}
      /\ after.old = mem[w].old
  BY <1>1, <1>5 DEF Hands
<1>7. /\ m \in Hands /\ m.local = answer.ledger /\ m.todo = mem[w].todo \ {k} /\ m.old = mem[w].old
      /\ m.held.key = j /\ m.held.event = k
  BY <1>1, <1>5 DEF Hands
<1>8. w \in Monitors => j = k /\ seen.claims[k].status # "uncertain"
  BY <1>1, <1>2 DEF KeyFor, Shaped
<1> HIDE DEF after, m, j
<1>9. w \in Monitors \/ answer.status = "claimed" => Preserves(L, answer.ledger)
  <2>1. ASSUME w \in Monitors \/ answer.status = "claimed"
        PROVE  Preserves(seen, answer.ledger)
    <3>1. seen.claims[j].status # "uncertain"
      BY <1>5, <1>8, <2>1
    <3>2. QED
      BY <1>5, <3>1, OneClaimPreserves
  <2>2. QED
    BY <1>2, <2>1 DEF Preserves, KeepsGot
<1>10. w \in Monitors => \A i \in mem[w].todo \ {k} : answer.ledger.claims[i].status # "uncertain"
  BY <1>1, <1>2, <1>5, <1>8 DEF Shaped, OnlyClaim, Hands
<1>11. RunsInv'
  <2>1. CASE answer.status = "claimed"
    <3>1. Goto(w, "claimed", m)
      BY <1>4, <2>1
    <3>2. Shaped(w, "claimed", m)
      BY <1>1, <1>5, <1>7, <1>8, <1>10, <2>1, ConstantFacts DEF Shaped, Working
    <3>3. Preserves(mem[w].local, m.local)
      BY <1>7, <1>9, <2>1
    <3>4. QED
      BY <1>1, <1>7, <3>1, <3>2, <3>3, LaneKeeps DEF world, faults, Working
  <2>2. CASE answer.status # "claimed" /\ w \in Monitors
    <3>1. Goto(w, "choose", after)
      BY <1>4, <2>2
    <3>2. Shaped(w, "choose", after)
      BY <1>1, <1>6, <1>10, <2>2, ConstantFacts DEF Shaped, Working
    <3>3. Preserves(mem[w].local, after.local)
      BY <1>6, <1>9, <2>2
    <3>4. QED
      BY <1>1, <1>6, <3>1, <3>2, <3>3, LaneKeeps DEF world, faults, Working
  <2>3. CASE answer.status # "claimed" /\ w \notin Monitors
    BY <1>1, <1>4, <2>3, EndsKeeps DEF world, faults
  <2>4. QED
    BY <2>1, <2>2, <2>3
<1>12. retold' \subseteq Runs \X Events
  <2>1. j # k => k \in Events
    BY <1>1, ConstantFacts DEF Shaped, KeyFor, j
  <2>2. QED
    BY <1>4, <2>1 DEF IInv, TypeOK
<1>13. TypeOK'
  BY <1>1, <1>11, <1>12 DEF RunsInv, IInv, TypeOK, branch, world, told, faults, Places, Served, Working, Hands
<1>14. QED
  BY <1>11, <1>13 DEF RunsInv, IInv

LEMMA TelegramKeeps ==
  ASSUME IInv, NEW w \in Runs, Telegram(w)
  PROVE  IInv'
<1> DEFINE k  == mem[w].held.event
           to == mem[w].held.pending
           Message(r, S) == IF r \in S THEN 1 ELSE 0
<1>1. /\ RunsInv /\ pc[w] = "claimed" /\ mem[w] \in Hands /\ Shaped(w, "claimed", mem[w])
      /\ UNCHANGED <<branch, world, batches, retold, wasted, reverting>>
  BY RunsOfTypes DEF Telegram, RunsInv, Shape
<1>2. k \in Keys /\ to \subseteq Recipients
  BY <1>1 DEF Shaped, Hands
<1>3. PICK ok \in SUBSET to, gone \in SUBSET to :
        /\ accidents' = accidents + Cardinality(gone)
        /\ Goto(w, "sent", [mem[w] EXCEPT !.confirmed = ok])
        /\ copies' = [copies EXCEPT ![k] = [r \in Recipients |-> @[r] + Message(r, ok) + Message(r, gone)]]
        /\ heard'  = [heard EXCEPT ![k] = IF ok \cup gone = {} THEN @ ELSE @ \cup {mem[w].saw[k]}]
  BY DEF Telegram
<1> DEFINE m == [mem[w] EXCEPT !.confirmed = ok]
<1>4. /\ m \in Hands /\ m.local = mem[w].local /\ m.held = mem[w].held /\ m.todo = mem[w].todo
      /\ m.old = mem[w].old
  BY <1>1, <1>2 DEF Hands
<1>5. Goto(w, "sent", m)
  BY <1>3
<1> HIDE DEF m
<1>6. Shaped(w, "sent", m)
  BY <1>1, <1>4 DEF Shaped, Working
<1>7. RunsInv'
  BY <1>1, <1>4, <1>5, <1>6, LaneKeeps, PreservesItself DEF world, Working
<1>8. accidents' \in Nat
  <2>1. IsFiniteSet(gone)
    BY <1>2, DeliveryAssumption, FS_Subset
  <2>2. Cardinality(gone) \in Nat
    BY <2>1, FS_CardinalityType
  <2>3. QED
    BY <1>3, <2>2 DEF IInv, TypeOK
<1>9. copies' \in [Keys -> [Recipients -> Nat]]
  <2> DEFINE row == [r \in Recipients |-> copies[k][r] + Message(r, ok) + Message(r, gone)]
  <2>1. \A r \in Recipients : copies[k][r] \in Nat /\ Message(r, ok) \in Nat /\ Message(r, gone) \in Nat
    BY <1>2 DEF IInv, TypeOK
  <2>2. row \in [Recipients -> Nat]
    BY <2>1
  <2>3. copies' = [copies EXCEPT ![k] = row]
    BY <1>3
  <2> HIDE DEF row
  <2>4. QED
    BY <2>2, <2>3 DEF IInv, TypeOK
<1>10. heard' \in [Keys -> SUBSET Nat]
  <2>1. mem[w].saw[k] \in Nat /\ heard \in [Keys -> SUBSET Nat]
    BY <1>1, <1>2 DEF Hands, IInv, TypeOK
  <2>2. QED
    BY <1>2, <1>3, <2>1
<1>11. QED
  BY <1>1, <1>7, <1>8, <1>9, <1>10, TypesBack DEF IInv, TypeOK

\* The claim leaves the hand of the run.
LEMMA DropTypes ==
  ASSUME NEW w \in Runs, NEW m \in Hands, NEW L \in Ledger, NEW ok \in BOOLEAN, NEW l \in {"choose", "store"},
         NEW from \in {"claimed", "sent"}, Shaped(w, from, m),
         \A k \in Keys \ {m.held.key} : L.claims[k] = m.local.claims[k]
  PROVE  /\ Drop(m, L, ok) \in Hands /\ Drop(m, L, ok).local = L
         /\ Shaped(w, l, Drop(m, L, ok))
<1> DEFINE n == Drop(m, L, ok)
<1>1. NoClaimHeld \in [key : Keys \cup {None}, event : Keys \cup {None}, pending : SUBSET Recipients]
  BY DEF NoClaimHeld
<1>2. (m.clean /\ ok) \in BOOLEAN
  BY DEF Hands
<1>3. n \in Hands /\ n.local = L /\ n.todo = m.todo /\ n.old = m.old
  BY <1>1, <1>2 DEF Drop, Hands
<1> HIDE DEF n
<1>4. m.todo \subseteq Keys
  BY DEF Hands
<1>5. Shaped(w, l, n)
  BY <1>3, <1>4, ConstantFacts DEF Shaped, Working
<1>6. QED
  BY <1>3, <1>5 DEF n

LEMMA SendRaisesKeeps ==
  ASSUME IInv, NEW w \in Runs, SendRaises(w)
  PROVE  IInv'
<1> DEFINE m == mem[w]
<1>1. /\ RunsInv /\ pc[w] = "claimed" /\ m \in Hands /\ Shaped(w, "claimed", m)
      /\ UNCHANGED <<branch, world, batches, told, retold, faults>>
  BY RunsOfTypes DEF SendRaises, RunsInv, Shape
<1>2. PICK M : M = CompleteClaim(m.local, m.held.key, {}, TRUE, now)
  OBVIOUS
<1>3. /\ M \in Ledger /\ m.held.key \in Keys /\ OnlyClaim(m.local, M, m.held.key)
      /\ m.local.claims[m.held.key].got \subseteq M.claims[m.held.key].got
      /\ M.claims[m.held.key].status = "uncertain"
  <2>1. m.local \in Ledger /\ m.held.key \in Keys /\ now \in Nat /\ {} \in SUBSET Recipients /\ TRUE \in BOOLEAN
    BY <1>1 DEF Hands, Shaped, IInv, TypeOK
  <2>2. QED
    BY <1>2, <2>1, CompleteTypes
<1>4. RunsInv'
  <2>1. CASE w \in Monitors
    <3>1. Goto(w, "choose", Drop(m, M, FALSE))
      BY <1>2, <2>1 DEF SendRaises
    <3>2. Drop(m, M, FALSE) \in Hands /\ Drop(m, M, FALSE).local = M /\ Shaped(w, "choose", Drop(m, M, FALSE))
      BY <1>1, <1>3, DropTypes DEF OnlyClaim
    <3>3. Preserves(m.local, M)
      BY <1>3, OneClaimPreserves
    <3>4. QED
      BY <1>1, <3>1, <3>2, <3>3, LaneKeeps DEF world, faults, Working
  <2>2. CASE w \notin Monitors
    BY <1>1, <2>2, EndsKeeps DEF SendRaises, world, faults
  <2>3. QED
    BY <2>1, <2>2
<1>5. QED
  BY <1>1, <1>4, TypesBack DEF told, faults, IInv, TypeOK

LEMMA TraceTypes ==
  ASSUME NEW w \in Runs, NEW k \in Keys
  PROVE  TraceOf(w, k) \in Traces
BY DeliveryAssumption DEF TraceOf

LEMMA CloseKeeps ==
  ASSUME IInv, NEW w \in Runs, Close(w)
  PROVE  IInv'
<1> DEFINE m  == mem[w]
           k  == m.held.event
           fj == IF k \in Priority THEN m.confirmed ELSE {}
           ok == m.confirmed = m.held.pending
<1>1. /\ RunsInv /\ pc[w] = "sent" /\ m \in Hands /\ Shaped(w, "sent", m)
      /\ UNCHANGED <<branch, world, batches, told, retold, faults>>
  BY RunsOfTypes DEF Close, RunsInv, Shape
<1>2. PICK done : done = CompleteClaim(m.local, m.held.key, m.confirmed, FALSE, now)
  OBVIOUS
<1>3. PICK said : said = RecordDelivery(done, k, m.saw[k], TraceOf(w, k), fj, now)
  OBVIOUS
<1>4. /\ done \in Ledger /\ m.held.key \in Keys /\ OnlyClaim(m.local, done, m.held.key)
      /\ m.local.claims[m.held.key].got \subseteq done.claims[m.held.key].got
  <2>1. /\ m.local \in Ledger /\ m.held.key \in Keys /\ now \in Nat /\ m.confirmed \in SUBSET Recipients
        /\ FALSE \in BOOLEAN
    BY <1>1 DEF Hands, Shaped, IInv, TypeOK
  <2>2. QED
    BY <1>2, <2>1, CompleteTypes
<1>5. said \in Ledger /\ said.claims = done.claims
  <2>1. k \in Keys /\ m.saw[k] \in Nat /\ fj \in SUBSET Recipients /\ now \in Nat
    BY <1>1 DEF Hands, Shaped, IInv, TypeOK
  <2>2. QED
    BY <1>3, <1>4, <2>1, TraceTypes, RecordTypes
<1>6. m.local.claims[m.held.key].status # "uncertain"
  BY <1>1 DEF Shaped
<1>7. Preserves(m.local, done) /\ Preserves(m.local, said)
  BY <1>4, <1>5, <1>6, OneClaimPreserves, SameClaims
<1>8. ASSUME NEW L \in {done, said}, NEW l \in {"choose", "store"}, Goto(w, l, Drop(m, L, ok))
      PROVE  RunsInv'
  <2>1. L \in Ledger /\ Preserves(m.local, L) /\ \A i \in Keys \ {m.held.key} : L.claims[i] = m.local.claims[i]
    BY <1>4, <1>5, <1>7 DEF OnlyClaim
  <2>2. ok \in BOOLEAN
    OBVIOUS
  <2> HIDE DEF ok
  <2>3. Drop(m, L, ok) \in Hands /\ Drop(m, L, ok).local = L /\ Shaped(w, l, Drop(m, L, ok))
    BY <1>1, <2>1, <2>2, DropTypes
  <2>4. l \in Working /\ pc[w] \in Working
    BY <1>1 DEF Working
  <2>5. QED
    BY <1>1, <1>8, <2>1, <2>3, <2>4, LaneKeeps DEF world, faults
<1>9. RunsInv'
  <2>1. \/ Goto(w, "choose", Drop(m, IF m.confirmed = {} THEN done ELSE said, ok))
        \/ Goto(w, "store", Drop(m, said, ok))
        \/ Ends(w)
    BY <1>2, <1>3 DEF Close
  <2>2. CASE Goto(w, "choose", Drop(m, IF m.confirmed = {} THEN done ELSE said, ok))
    BY <1>8, <2>2
  <2>3. CASE Goto(w, "store", Drop(m, said, ok))
    BY <1>8, <2>3
  <2>4. CASE Ends(w)
    BY <1>1, <2>4, EndsKeeps DEF world, faults
  <2>5. QED
    BY <2>1, <2>2, <2>3, <2>4
<1>10. QED
  BY <1>1, <1>9, TypesBack DEF told, faults, IInv, TypeOK

LEMMA NoCandidateKeeps ==
  ASSUME IInv, NEW w \in Runs, NoCandidate(w)
  PROVE  IInv'
<1>1. /\ RunsInv /\ pc[w] = "choose" /\ mem[w] \in Hands /\ Shaped(w, "choose", mem[w])
      /\ UNCHANGED <<branch, world, batches, told, retold, faults>>
  BY RunsOfTypes DEF NoCandidate, RunsInv, Shape
<1>2. Shaped(w, "store", mem[w])
  BY <1>1 DEF Shaped, Working
<1>3. RunsInv'
  BY <1>1, <1>2, LaneKeeps, EndsKeeps, PreservesItself DEF NoCandidate, world, faults, Working
<1>4. QED
  BY <1>1, <1>3, TypesBack DEF told, faults, IInv, TypeOK

LEMMA StoreKeeps ==
  ASSUME IInv, NEW w \in Runs, StoreLedger(w)
  PROVE  IInv'
<1>1. /\ RunsInv /\ pc[w] = "store" /\ w \in inside /\ mem[w] \in Hands /\ ~mem[w].old
      /\ UNCHANGED <<world, told, retold, accidents>> /\ Ends(w)
  BY RunsOfTypes DEF StoreLedger, RunsInv, Placed, Shape, Shaped, Served, Working
<1>2. batches' \in SUBSET (SUBSET Events)
  BY <1>1 DEF StoreLedger, IInv, TypeOK, Hands
<1>3. pc'[w] = "ended" /\ mem'[w] = Fresh /\ \A v \in Runs \ {w} : pc'[v] = pc[v] /\ mem'[v] = mem[v]
  BY <1>1 DEF Ends, RunsInv
<1>4. pc' \in [Runs -> Places] /\ mem' \in [Runs -> Hands] /\ inside' \subseteq Runs
  BY <1>1, FreshTypes DEF Ends, RunsInv, Places
<1>5. reverting' = reverting /\ wasted' \subseteq Runs /\ ledger' \in Ledger /\ current' \subseteq Runs
  BY <1>1 DEF StoreLedger, Commit, Reverts, branch, Hands, IInv, TypeOK
<1>6. Shape'
  BY <1>1, <1>3, FreshTypes DEF RunsInv, Shape
<1>7. Placed'
  <2>1. IsFiniteSet(inside')
    BY <1>1, FS_RemoveElement DEF RunsInv, Placed, Ends
  <2>2. slots = 1 => w \in current /\ wasted' = {} /\ \A v \in Runs : pc'[v] \notin Working
    BY <1>1, <1>3 DEF RunsInv, Placed, StoreLedger, Served, Working
  <2>3. QED
    BY <1>1, <1>3, <2>1, <2>2, ConstantFacts DEF RunsInv, Placed, Ends, world, Served, Working
<1>8. Based'
  <2>1. CASE w \in current
    BY <1>3, <2>1 DEF StoreLedger, Commit, Based
  <2>2. CASE w \notin current
    BY <1>1, <1>3, <2>2 DEF RunsInv, StoreLedger, Based, branch, IInv, TypeOK
  <2>3. QED
    BY <2>1, <2>2
<1>9. Turned'
  BY <1>1, <1>3, <1>5 DEF RunsInv, Turned, IInv, TypeOK
<1>10. TypeOK'
  BY <1>1, <1>2, <1>4, <1>5 DEF IInv, TypeOK, world, told, Places, Served, Working, Hands
<1>11. QED
  BY <1>6, <1>7, <1>8, <1>9, <1>10 DEF IInv

LEMMA FaultsKeep ==
  ASSUME IInv, NEW w \in Runs, Killed(w) \/ ItemBreaks(w)
  PROVE  IInv'
<1>1. /\ RunsInv /\ mem[w] \in Hands /\ accidents' \in Nat
      /\ UNCHANGED <<branch, world, batches, told, retold, wasted, reverting>>
  <2>1. Accident /\ UNCHANGED <<branch, world, batches, told, retold, wasted, reverting>>
    BY DEF Killed, ItemBreaks
  <2>2. accidents' \in Nat
    BY <2>1 DEF Accident, IInv, TypeOK
  <2>3. QED
    BY <2>1, <2>2, RunsOfTypes DEF RunsInv
<1>2. RunsInv'
  <2>1. CASE Killed(w)
    BY <1>1, <2>1, EndsKeeps DEF Killed, world
  <2>2. CASE ItemBreaks(w)
    <3>1. pc[w] = "sent" /\ Shaped(w, "sent", mem[w]) /\ mem[w].local \in Ledger
      BY <1>1, <2>2 DEF ItemBreaks, RunsInv, Shape, Hands
    <3>2. PICK m : m = Drop(mem[w], mem[w].local, FALSE)
      OBVIOUS
    <3>3. m \in Hands /\ m.local = mem[w].local /\ Shaped(w, "choose", m)
      BY <1>1, <3>1, <3>2, DropTypes
    <3>4. Goto(w, "choose", m)
      BY <2>2, <3>2 DEF ItemBreaks
    <3>5. QED
      BY <1>1, <3>1, <3>3, <3>4, LaneKeeps, PreservesItself DEF world, Working
  <2>3. QED
    BY <2>1, <2>2
<1>3. QED
  BY <1>1, <1>2, TypesBack DEF told, IInv, TypeOK

LEMMA OtherWriterKeeps ==
  ASSUME IInv, OtherWriter
  PROVE  IInv'
<1>1. RunsInv
  BY RunsOfTypes
<1>2. slots = 1 => \A v \in Runs : pc[v] \notin Working
  <2>1. IsFiniteSet(inside) /\ Cardinality(inside) \in Nat /\ Cardinality(inside) < slots
    BY <1>1, FS_CardinalityType DEF RunsInv, Placed, OtherWriter
  <2>2. slots = 1 => Cardinality(inside) = 0
    BY <2>1
  <2>3. slots = 1 => inside = {}
    BY <2>1, <2>2, FS_EmptySet
  <2>4. QED
    BY <1>1, <2>3 DEF RunsInv, Placed, Served
<1>3. TypeOK'
  BY DEF IInv, TypeOK, OtherWriter, told, faults
<1>4. Shape' /\ Based' /\ Turned'
  BY <1>1 DEF RunsInv, Shape, Based, Turned, OtherWriter, faults
<1>5. Placed'
  BY <1>1, <1>2 DEF RunsInv, Placed, OtherWriter, faults
<1>6. QED
  BY <1>3, <1>4, <1>5 DEF IInv

LEMMA NextKeeps ==
  ASSUME IInv, [Next]_vars
  PROVE  IInv'
<1>1. ASSUME NEW w \in Runs, Step(w) \/ Killed(w) \/ ItemBreaks(w)
      PROVE  IInv'
  BY <1>1, RestoreKeeps, LookupKeeps, EnterKeeps, RevalidateKeeps, PublishKeeps, GateKeeps, PassOverKeeps,
     ClaimsKeeps, TelegramKeeps, SendRaisesKeeps, CloseKeeps, NoCandidateKeeps, StoreKeeps, FaultsKeep DEF Step
<1>2. ASSUME NEW k \in Events, Rise(k)
      PROVE  IInv'
  <2>1. rank' \in [Keys -> Nat]
    BY <1>2, ConstantFacts DEF Rise, IInv, TypeOK
  <2>2. UNCHANGED <<branch, slots, inside, pc, mem, batches, told, retold, faults>>
    BY <1>2 DEF Rise
  <2>3. now' \in Nat /\ others' \in Nat
    BY <1>2 DEF Rise, IInv, TypeOK
  <2>4. QED
    BY <2>1, <2>2, <2>3, AsideKeeps
<1>3. CASE Tick
  <2>1. UNCHANGED <<branch, slots, inside, pc, mem, batches, told, retold, faults>>
    BY <1>3 DEF Tick
  <2>2. rank' \in [Keys -> Nat] /\ now' \in Nat /\ others' \in Nat
    BY <1>3 DEF Tick, IInv, TypeOK
  <2>3. QED
    BY <2>1, <2>2, AsideKeeps
<1>4. CASE UNCHANGED vars
  <2>1. UNCHANGED <<branch, slots, inside, pc, mem, batches, told, retold, faults>>
    BY <1>4 DEF vars, world
  <2>2. rank' \in [Keys -> Nat] /\ now' \in Nat /\ others' \in Nat
    BY <1>4 DEF vars, world, IInv, TypeOK
  <2>3. QED
    BY <2>1, <2>2, AsideKeeps
<1>5. QED
  BY <1>1, <1>2, <1>3, <1>4, OtherWriterKeeps DEF Next

-----------------------------------------------------------------------------
\* The inductive invariant holds of every state that can be reached.
THEOREM Invariance == Spec => []IInv
<1>1. Init => IInv
  BY InitHolds
<1>2. IInv /\ [Next]_vars => IInv'
  BY NextKeeps
<1>3. QED
  BY <1>1, <1>2, PTL DEF Spec

\* Every variable of the delivery runs keeps its type.
THEOREM TypeCorrect == Spec => []TypeOK
<1>1. IInv => TypeOK
  BY DEF IInv
<1>2. QED
  BY <1>1, Invariance, PTL

\* When the writer queue admits one run at a time, every run that published its release
\* can store its ledger too: nobody sends from a copy the branch has overtaken.
THEOREM ToldIsAlwaysStored == Spec => []ToldIsStored
<1>1. IInv => ToldIsStored
  BY DEF IInv, Placed, ToldIsStored, Overtaken, Working
<1>2. QED
  BY <1>1, Invariance, PTL

\* A release takes no confirmed recipient out of a claim of the branch and leaves every
\* uncertain claim uncertain, unless its files were older than its base.
THEOREM ReleasesPreserve == Spec => BranchKeepsClaims
<1>1. IInv /\ [Next]_vars =>
        [\A k \in Keys :
           reverting' = reverting =>
              /\ ledger.claims[k].got \subseteq ledger'.claims[k].got
              /\ ledger.claims[k].status = "uncertain" => ledger'.claims[k].status = "uncertain"]_vars
  <2> SUFFICES ASSUME IInv, Next, reverting' = reverting
               PROVE  Preserves(ledger, ledger')
    BY DEF Preserves, KeepsGot
  <2>1. CASE ledger' = ledger
    BY <2>1, PreservesItself
  <2>2. ASSUME NEW w \in Runs, Commit(w), w \in current, pc[w] \in {"publish", "store"}
        PROVE  Preserves(ledger, ledger')
    <3>1. ~mem[w].old
      <4>1. CASE pc[w] = "store"
        BY <4>1 DEF IInv, Shape, Shaped, Working
      <4>2. CASE pc[w] = "publish"
        BY <2>2, <4>2 DEF IInv, Turned, Commit, Reverts, Working
      <4>3. QED
        BY <2>2, <4>1, <4>2
    <3>2. QED
      BY <2>2, <3>1 DEF IInv, Based, Commit
  <2>3. ASSUME NEW w \in Runs, PublishRelease(w)
        PROVE  Preserves(ledger, ledger')
    BY <2>1, <2>2, <2>3 DEF PublishRelease, branch
  <2>4. ASSUME NEW w \in Runs, StoreLedger(w)
        PROVE  Preserves(ledger, ledger')
    BY <2>1, <2>2, <2>4 DEF StoreLedger, branch
  <2>5. ASSUME NEW w \in Runs, Restore(w) \/ Lookup(w) \/ Enter(w) \/ Revalidate(w) \/ Gate(w) \/ Telegram(w)
        PROVE  ledger' = ledger
    BY <2>5 DEF Restore, Lookup, Enter, Revalidate, Gate, Telegram, branch
  <2>6. ASSUME NEW w \in Runs, NEW k \in Keys, PassOver(w, k) \/ Claims(w, k)
        PROVE  ledger' = ledger
    BY <2>6 DEF PassOver, Claims, branch
  <2>7. ASSUME NEW w \in Runs, SendRaises(w) \/ Close(w) \/ NoCandidate(w) \/ Killed(w) \/ ItemBreaks(w)
        PROVE  ledger' = ledger
    BY <2>7 DEF SendRaises, Close, NoCandidate, Killed, ItemBreaks, branch
  <2>8. ASSUME (\E k \in Events : Rise(k)) \/ Tick \/ OtherWriter
        PROVE  ledger' = ledger
    BY <2>8 DEF Rise, Tick, OtherWriter, branch
  <2>9. QED
    BY <2>1, <2>3, <2>4, <2>5, <2>6, <2>7, <2>8 DEF Next, Step
<1>2. QED
  BY <1>1, Invariance, PTL DEF Spec, BranchKeepsClaims
-----------------------------------------------------------------------------
(***************************************************************************)
(* Who pays for a copy.  A recipient who may still be told of an event in  *)
(* a state somebody was told is owed a copy (Owes): the ledgers that will  *)
(* be asked do not know that he was told, or a monitor is about to tell    *)
(* him again.  The invariant counts that copy as made already (Paid), and  *)
(* counts against it only the runs that have told what they will tell      *)
(* (Spent) and the tellings under an anchor that are over (Retold).        *)
(***************************************************************************)
Covers(L, M) == KeepsGot(L, M) /\ KeepsRows(L, M)

Keyed(k)    == k \in Priority \cup Anchors
Holds(w, k) == pc[w] = "claimed" /\ mem[w].held.event = k
\* The monitor w may still tell k.
Pends(w, k) == w \in Monitors /\ (k \in mem[w].todo \/ Holds(w, k))
\* w has told what it will tell of k.
Done(w, k)  == IF w \in Monitors THEN pc[w] \in {"choose", "claimed", "sent", "store"} /\ ~Pends(w, k)
               ELSE pc[w] = "store" \/ (pc[w] = "sent" /\ mem[w].confirmed # {})

\* A run with the ledger L does not tell r of k in a material state of H.
Knows(L, H, k, r) == IF Keyed(k) THEN r \in L.claims[k].got
                     ELSE L.rows[k].told > 0 /\ \A s \in H : s <= L.rows[k].state
Aware(w, k, r) == \/ pc[w] = "sent" /\ mem[w].held.event = k /\ r \in mem[w].confirmed
                  \/ Knows(mem[w].local, heard[k], k, r)
Known(k, r) == IF \E w \in current : Done(w, k) THEN \A w \in current : Done(w, k) => Aware(w, k, r)
               ELSE Knows(ledger, heard[k], k, r)
Again(k)    == /\ ~Keyed(k)
               /\ \E w \in current : pc[w] \in Working /\ Pends(w, k) /\ mem[w].saw[k] \in heard[k]
Owes(k, r)  == heard[k] # {} /\ (~Known(k, r) \/ Again(k))

Spent(k)  == wasted \cup {w \in Runs \ current : Done(w, k)}
Retold(k) == {w \in Retellers(k) : ~Holds(w, k)}
Bit(b)    == IF b THEN 1 ELSE 0
Paid(k, r) ==
    copies[k][r] + Bit(Owes(k, r))
        <= Cardinality(heard[k]) + Cardinality(Retold(k)) + accidents
           + Cardinality(Spent(k)) + Cardinality(reverting)

\* The ledgers: no row is ahead of the world, or of the snapshot of a run.
Rows == /\ now > 0 /\ Sound(ledger, rank)
        /\ \A w \in Runs : /\ Sound(mem[w].local, IF pc[w] = "lookup" THEN rank ELSE mem[w].saw)
                           /\ \A k \in Keys : mem[w].saw[k] <= rank[k]

\* What a run that has the head of the branch has seen: all the branch holds and all that
\* was told; a monitor before its lane has only events to tell that are news.
Headed(w) ==
    pc[w] # "ended" =>
       /\ ~mem[w].old => KeepsRows(ledger, mem[w].local)
       /\ \A k \in Keys : /\ \A s \in heard[k] : s <= mem[w].saw[k]
                          /\ \A v \in Runs : pc[v] \in Working => mem[v].saw[k] <= mem[w].saw[k]
       /\ w \in Monitors /\ pc[w] \notin Working /\ ~mem[w].old =>
            \A k \in mem[w].todo \ Priority :
                ledger.rows[k].told = 0 \/ ledger.rows[k].state < mem[w].saw[k]
Heads == /\ \A k \in Keys : IsFiniteSet(heard[k]) /\ \A s \in heard[k] : s <= rank[k]
         /\ \A v, w \in current : pc[v] \in Working /\ pc[w] \in Working => v = w
         /\ \A w \in current : Headed(w)

\* What a run has in hand.
Hold(w) ==
    LET m == mem[w]
        k == m.held.event
    IN  /\ pc[w] \in {"claimed", "sent"} => m.held.key = KeyFor(w, k) /\ (k \in Anchors => m.held.key = k)
        /\ pc[w] = "claimed" /\ Keyed(k) => m.held.pending \cap m.local.claims[k].got = {}
        /\ pc[w] = "claimed" /\ ~Keyed(k) /\ w \in current \ Monitors /\ w \notin Retellers(k) =>
              ledger.rows[k].told = 0 \/ ledger.rows[k].state < m.saw[k]
        /\ pc[w] = "store" /\ w \in Monitors => m.todo = {}
After == {"claimed", "sent", "store", "ended"}
Trail == /\ \A w \in Runs : Hold(w)
         /\ \A w \in wasted : pc[w] = "ended"
         /\ \A k \in Keys : \A w \in Retellers(k) : w \in Schedulers /\ pc[w] \in After

AllPaid == \A k \in Keys, r \in Recipients : Paid(k, r)
CopyInv == Rows /\ Heads /\ Trail /\ AllPaid

-----------------------------------------------------------------------------
(* Ledgers and numbers. *)

LEMMA CoversOn ==
  ASSUME NEW L \in Ledger, NEW M \in Ledger, NEW N \in Ledger, Covers(L, M), Covers(M, N)
  PROVE  Covers(L, N)
<1>1. KeepsGot(L, N)
  BY DEF Covers, KeepsGot
<1>2. \A k \in Keys : L.rows[k].state \in Nat /\ M.rows[k].state \in Nat /\ N.rows[k].state \in Nat
  BY DEF Ledger, Row
<1>3. KeepsRows(L, N)
  BY <1>2 DEF Covers, KeepsRows
<1>4. QED
  BY <1>1, <1>3 DEF Covers

LEMMA CoversItself ==
  ASSUME NEW L \in Ledger
  PROVE  Covers(L, L) /\ KeepsRows(L, L)
<1>1. \A k \in Keys : L.rows[k].state \in Nat
  BY DEF Ledger, Row
<1>2. QED
  BY <1>1 DEF Covers, KeepsGot, KeepsRows

\* What a ledger knows, a later copy knows.
LEMMA KnowsMore ==
  ASSUME NEW L \in Ledger, NEW M \in Ledger, Covers(L, M), NEW k \in Keys, NEW r, NEW H \in SUBSET Nat,
         Knows(L, H, k, r)
  PROVE  Knows(M, H, k, r)
<1>1. L.rows[k].state \in Nat /\ M.rows[k].state \in Nat /\ L.rows[k].state <= M.rows[k].state
  BY DEF Ledger, Row, Covers, KeepsRows
<1>2. CASE Keyed(k)
  BY <1>2 DEF Knows, Covers, KeepsGot
<1>3. CASE ~Keyed(k)
  <2>1. \A s \in H : s <= L.rows[k].state
    BY <1>3 DEF Knows
  <2>2. ASSUME NEW s \in H
        PROVE  s <= M.rows[k].state
    <3>1. PICK a \in Nat, b \in Nat : a = L.rows[k].state /\ b = M.rows[k].state
      BY <1>1
    <3>2. s \in Nat /\ s <= a /\ a <= b
      BY <1>1, <2>1, <3>1
    <3>3. QED
      BY <3>1, <3>2
  <2>3. QED
    BY <1>3, <2>2 DEF Knows, Covers, KeepsRows
<1>4. QED
  BY <1>2, <1>3

LEMMA CardGrows ==
  ASSUME NEW S, NEW T, S \subseteq T, IsFiniteSet(T)
  PROVE  /\ Cardinality(S) \in Nat /\ Cardinality(T) \in Nat /\ Cardinality(S) <= Cardinality(T)
         /\ S # T => Cardinality(S) + 1 <= Cardinality(T)
<1>1. IsFiniteSet(S) /\ Cardinality(S) <= Cardinality(T)
  BY FS_Subset
<1>2. Cardinality(S) \in Nat /\ Cardinality(T) \in Nat
  BY <1>1, FS_CardinalityType
<1>3. ASSUME S # T
      PROVE  Cardinality(S) + 1 <= Cardinality(T)
  <2>1. PICK x : x \in T /\ x \notin S
    BY <1>3
  <2>2. IsFiniteSet(S \cup {x}) /\ Cardinality(S \cup {x}) = Cardinality(S) + 1
    BY <1>1, <2>1, FS_AddElement
  <2>3. S \cup {x} \subseteq T
    BY <2>1
  <2>4. QED
    BY <2>2, <2>3, FS_Subset
<1>4. QED
  BY <1>1, <1>2, <1>3

LEMMA RunSets ==
  ASSUME IInv, NEW k
  PROVE  /\ Spent(k) \subseteq Runs /\ Retold(k) \subseteq Runs /\ reverting \subseteq Runs
         /\ IsFiniteSet(Spent(k)) /\ IsFiniteSet(Retold(k)) /\ IsFiniteSet(reverting)
<1>1. Spent(k) \subseteq Runs /\ Retold(k) \subseteq Runs /\ reverting \subseteq Runs
  BY DEF Spent, Retold, Retellers, IInv, TypeOK
<1>2. QED
  BY <1>1, DeliveryAssumption, FS_Subset

\* A copy more, or a copy owed more, is paid by an element more in one of the counts.
LEMMA Balance ==
  ASSUME IInv, IInv', Heads, Heads', NEW k \in Keys, NEW r \in Recipients, Paid(k, r),
         heard[k] \subseteq heard'[k], Retold(k) \subseteq Retold(k)', reverting \subseteq reverting',
         copies'[k][r] + Bit(Owes(k, r)') + accidents + Cardinality(Spent(k))
            <= copies[k][r] + Bit(Owes(k, r)) + accidents' + Cardinality(Spent(k)')
               + Bit(heard'[k] # heard[k]) + Bit(Retold(k)' # Retold(k)) + Bit(reverting' # reverting)
  PROVE  Paid(k, r)'
<1>1. /\ IsFiniteSet(Spent(k)) /\ IsFiniteSet(Retold(k)) /\ IsFiniteSet(reverting)
      /\ IsFiniteSet(Spent(k)') /\ IsFiniteSet(Retold(k)') /\ IsFiniteSet(reverting')
  <2>1. IsFiniteSet(Spent(k)) /\ IsFiniteSet(Retold(k)) /\ IsFiniteSet(reverting)
    BY RunSets
  <2>2. Spent(k)' \subseteq Runs /\ Retold(k)' \subseteq Runs /\ reverting' \subseteq Runs
    BY DEF Spent, Retold, Retellers, IInv, TypeOK
  <2>3. QED
    BY <2>1, <2>2, DeliveryAssumption, FS_Subset
<1>2. IsFiniteSet(heard'[k])
  BY DEF Heads
<1>3. PICK h0 \in Nat, h1 \in Nat :
        h0 = Cardinality(heard[k]) /\ h1 = Cardinality(heard'[k]) /\ h0 + Bit(heard'[k] # heard[k]) <= h1
  BY <1>2, CardGrows DEF Bit
<1>4. PICK t0 \in Nat, t1 \in Nat :
        t0 = Cardinality(Retold(k)) /\ t1 = Cardinality(Retold(k)') /\ t0 + Bit(Retold(k)' # Retold(k)) <= t1
  BY <1>1, CardGrows DEF Bit
<1>5. PICK v0 \in Nat, v1 \in Nat :
        v0 = Cardinality(reverting) /\ v1 = Cardinality(reverting') /\ v0 + Bit(reverting' # reverting) <= v1
  BY <1>1, CardGrows DEF Bit
<1>6. PICK s0 \in Nat, s1 \in Nat : s0 = Cardinality(Spent(k)) /\ s1 = Cardinality(Spent(k)')
  BY <1>1, FS_CardinalityType
<1>7. PICK c0 \in Nat, c1 \in Nat, a0 \in Nat, a1 \in Nat :
        c0 = copies[k][r] /\ c1 = copies'[k][r] /\ a0 = accidents /\ a1 = accidents'
  BY DEF IInv, TypeOK
<1>8. PICK o0 \in Nat, o1 \in Nat, bh \in Nat, bt \in Nat, bv \in Nat :
        /\ o0 = Bit(Owes(k, r)) /\ o1 = Bit(Owes(k, r)') /\ bh = Bit(heard'[k] # heard[k])
        /\ bt = Bit(Retold(k)' # Retold(k)) /\ bv = Bit(reverting' # reverting)
  BY DEF Bit
<1>9. c0 + o0 <= h0 + t0 + a0 + s0 + v0
  BY <1>3, <1>4, <1>5, <1>6, <1>7, <1>8 DEF Paid
<1>10. c1 + o1 + a0 + s0 <= c0 + o0 + a1 + s1 + bh + bt + bv
  BY <1>6, <1>7, <1>8
<1>11. h0 + bh <= h1 /\ t0 + bt <= t1 /\ v0 + bv <= v1
  BY <1>3, <1>4, <1>5, <1>8
<1>12. c1 + o1 <= h1 + t1 + a1 + s1 + v1
  BY <1>9, <1>10, <1>11
<1>13. Paid(k, r)' <=> copies'[k][r] + Bit(Owes(k, r)')
                          <= Cardinality(heard'[k]) + Cardinality(Retold(k)') + accidents'
                             + Cardinality(Spent(k)') + Cardinality(reverting')
  BY DEF Paid, Bit
<1>14. QED
  BY <1>3, <1>4, <1>5, <1>6, <1>7, <1>8, <1>12, <1>13

\* When nobody is sent anything and no count shrinks, only a new debt has to be paid.
LEMMA NoCopyBalance ==
  ASSUME IInv, IInv', Heads, Heads', NEW k \in Keys, NEW r \in Recipients, Paid(k, r),
         heard'[k] = heard[k], copies'[k][r] = copies[k][r],
         Retold(k) \subseteq Retold(k)', reverting \subseteq reverting',
         Spent(k) \subseteq Spent(k)', accidents <= accidents',
         \/ Owes(k, r)' => Owes(k, r)
         \/ accidents < accidents' \/ Spent(k)' # Spent(k) \/ reverting' # reverting
  PROVE  Paid(k, r)'
<1>1. heard'[k] = heard[k] /\ copies'[k][r] = copies[k][r]
  OBVIOUS
<1>2. IsFiniteSet(Spent(k)')
  BY DeliveryAssumption, FS_Subset DEF Spent, IInv, TypeOK
<1>3. PICK s0 \in Nat, s1 \in Nat : /\ s0 = Cardinality(Spent(k)) /\ s1 = Cardinality(Spent(k)')
                                    /\ s0 <= s1 /\ (Spent(k)' # Spent(k) => s0 + 1 <= s1)
  BY <1>2, CardGrows
<1>4. PICK c0 \in Nat, a0 \in Nat, a1 \in Nat : c0 = copies[k][r] /\ a0 = accidents /\ a1 = accidents'
  BY DEF IInv, TypeOK
<1>5. PICK o0 \in Nat, o1 \in Nat, bh \in Nat, bt \in Nat, bv \in Nat :
        /\ o0 = Bit(Owes(k, r)) /\ o1 = Bit(Owes(k, r)') /\ bh = Bit(heard'[k] # heard[k])
        /\ bt = Bit(Retold(k)' # Retold(k)) /\ bv = Bit(reverting' # reverting)
        /\ o0 <= 1 /\ o1 <= 1
  BY DEF Bit
<1>6. o1 <= o0 \/ a0 + 1 <= a1 \/ s0 + 1 <= s1 \/ bv = 1
  <2>1. CASE Owes(k, r)' => Owes(k, r)
    BY <1>5, <2>1 DEF Bit
  <2>2. CASE accidents < accidents'
    BY <1>4, <2>2
  <2>3. CASE Spent(k)' # Spent(k)
    BY <1>3, <2>3
  <2>4. CASE reverting' # reverting
    BY <1>5, <2>4 DEF Bit
  <2>5. QED
    BY <2>1, <2>2, <2>3, <2>4
<1>7. a0 <= a1 /\ s0 <= s1
  BY <1>3, <1>4
<1>8. c0 + o1 + a0 + s0 <= c0 + o0 + a1 + s1 + bh + bt + bv
  BY <1>5, <1>6, <1>7
<1>9. copies'[k][r] + Bit(Owes(k, r)') + accidents + Cardinality(Spent(k))
         <= copies[k][r] + Bit(Owes(k, r)) + accidents' + Cardinality(Spent(k)')
            + Bit(heard'[k] # heard[k]) + Bit(Retold(k)' # Retold(k)) + Bit(reverting' # reverting)
  BY <1>1, <1>3, <1>4, <1>5, <1>8
<1>10. QED
  BY <1>1, <1>9, Balance

-----------------------------------------------------------------------------
(* What one run's step leaves as it was. *)

\* w goes to the place l with m in hand.
Moves(w, l, m) == /\ pc'[w] = l /\ mem'[w] = m
                  /\ \A v \in Runs \ {w} : pc'[v] = pc[v] /\ mem'[v] = mem[v]

LEMMA RunsMove ==
  ASSUME IInv, NEW w \in Runs
  PROVE  /\ \A l, m : Goto(w, l, m) => Moves(w, l, m)
         /\ Ends(w) => Moves(w, "ended", Fresh)
BY RunsOfTypes DEF RunsInv, Goto, Ends, Moves

LEMMA RowsMove ==
  ASSUME Rows, NEW w \in Runs, NEW l, NEW m, Moves(w, l, m), UNCHANGED <<rank, now>>, Sound(ledger', rank),
         Sound(m.local, IF l = "lookup" THEN rank ELSE m.saw), \A k \in Keys : m.saw[k] <= rank[k]
  PROVE  Rows'
<1>1. now' > 0 /\ Sound(ledger', rank')
  BY DEF Rows
<1>2. ASSUME NEW v \in Runs
      PROVE  /\ Sound(mem'[v].local, IF pc'[v] = "lookup" THEN rank' ELSE mem'[v].saw)
             /\ \A k \in Keys : mem'[v].saw[k] <= rank'[k]
  <2>1. CASE v = w
    BY <2>1 DEF Moves
  <2>2. CASE v # w
    BY <2>2 DEF Moves, Rows
  <2>3. QED
    BY <2>1, <2>2
<1>3. QED
  BY <1>1, <1>2 DEF Rows

LEMMA TrailMove ==
  ASSUME IInv, Trail, NEW w \in Runs, NEW l, NEW m, Moves(w, l, m), Hold(w)',
         wasted' \subseteq wasted \cup {w}, w \in wasted' => l = "ended",
         retold \subseteq retold', retold' \subseteq retold \cup ({w} \X Keys),
         \A k \in Keys : <<w, k>> \in retold' => w \in Schedulers /\ l \in After,
         (ledger' = ledger /\ current' \subseteq current \cup {w}) \/ current' \subseteq {w}
  PROVE  Trail'
<1>1. ASSUME NEW v \in Runs
      PROVE  Hold(v)'
  <2>1. CASE v # w
    <3>1. pc'[v] = pc[v] /\ mem'[v] = mem[v] /\ Hold(v)
      BY <2>1 DEF Moves, Trail
    <3>2. v \in current' => v \in current /\ ledger' = ledger
      BY <2>1
    <3>3. \A k : KeyFor(v, k)' = KeyFor(v, k)
      BY DEF KeyFor
    <3>4. \A k : v \in Retellers(k) => v \in Retellers(k)'
      BY DEF Retellers
    <3>5. QED
      BY <3>1, <3>2, <3>3, <3>4 DEF Hold, Keyed
  <2>2. QED
    BY <2>1
<1>2. ASSUME NEW v \in wasted'
      PROVE  pc'[v] = "ended"
  <2>1. CASE v = w
    BY <1>2, <2>1 DEF Moves
  <2>2. CASE v # w
    BY <1>2, <2>2 DEF Moves, Trail, IInv, TypeOK
  <2>3. QED
    BY <2>1, <2>2
<1>3. ASSUME NEW k \in Keys, NEW v \in Runs, <<v, k>> \in retold'
      PROVE  v \in Schedulers /\ pc'[v] \in After
  <2>1. CASE v = w
    BY <1>3, <2>1 DEF Moves
  <2>2. CASE v # w
    <3>1. v \in Retellers(k)
      BY <1>3, <2>2 DEF Retellers
    <3>2. QED
      BY <2>2, <3>1 DEF Moves, Trail
  <2>3. QED
    BY <2>1, <2>2
<1>4. \A k \in Keys : \A v \in Retellers(k)' : v \in Schedulers /\ pc'[v] \in After
  BY <1>3 DEF Retellers
<1>5. QED
  BY <1>1, <1>2, <1>4 DEF Trail

\* Nobody publishes: the runs that have the head keep it, and w may come to have it.
LEMMA HeadsMove ==
  ASSUME IInv, IInv', Rows, Heads, NEW w \in Runs, NEW l, NEW m, Moves(w, l, m), UNCHANGED <<ledger, rank>>,
         l \in Working => pc[w] \in Working /\ m.saw = mem[w].saw,
         current' = current \/ (current' = current \cup {w} /\ l \notin Working),
         \A k \in Keys : \/ heard'[k] = heard[k]
                         \/ pc[w] \in Working /\ heard'[k] = heard[k] \cup {mem[w].saw[k]},
         w \in current' => Headed(w)'
  PROVE  Heads'
<1>1. ASSUME NEW k \in Keys
      PROVE  IsFiniteSet(heard'[k]) /\ \A s \in heard'[k] : s <= rank'[k]
  <2>1. IsFiniteSet(heard[k] \cup {mem[w].saw[k]})
    BY FS_AddElement DEF Heads
  <2>2. \A s \in heard[k] \cup {mem[w].saw[k]} : s <= rank[k]
    BY DEF Heads, Rows
  <2>3. QED
    BY <2>1, <2>2 DEF Heads
<1>2. ASSUME NEW u \in current', NEW v \in current', pc'[u] \in Working, pc'[v] \in Working
      PROVE  u = v
  <2>1. ASSUME NEW x \in current', pc'[x] \in Working
        PROVE  x \in current /\ pc[x] \in Working
    <3>1. x \in Runs
      BY DEF IInv, TypeOK
    <3>2. CASE x = w
      BY <2>1, <3>2 DEF Moves
    <3>3. CASE x # w
      BY <2>1, <3>1, <3>3 DEF Moves
    <3>4. QED
      BY <3>2, <3>3
  <2>2. QED
    BY <1>2, <2>1 DEF Heads
<1>3. ASSUME NEW v \in current', v # w
      PROVE  Headed(v)'
  <2>1. v \in current /\ v \in Runs
    BY <1>3 DEF IInv, TypeOK
  <2>2. pc'[v] = pc[v] /\ mem'[v] = mem[v] /\ Headed(v)
    BY <1>3, <2>1 DEF Moves, Heads
  <2>3. ASSUME pc[v] # "ended", NEW k \in Keys
        PROVE  /\ \A s \in heard'[k] : s <= mem[v].saw[k]
               /\ \A x \in Runs : pc'[x] \in Working => mem'[x].saw[k] <= mem[v].saw[k]
    <3>1. \A s \in heard'[k] : s <= mem[v].saw[k]
      BY <2>2, <2>3 DEF Headed
    <3>2. ASSUME NEW x \in Runs, pc'[x] \in Working
          PROVE  pc[x] \in Working /\ mem'[x].saw = mem[x].saw
      BY <3>2 DEF Moves
    <3>3. QED
      BY <2>2, <2>3, <3>1, <3>2 DEF Headed
  <2>4. QED
    BY <2>2, <2>3 DEF Headed
<1>4. QED
  BY <1>1, <1>2, <1>3 DEF Heads

\* What a run that is not done with k, before and after, does to the debts of k.
LEMMA OthersOwe ==
  ASSUME IInv, IInv', NEW w \in Runs, NEW l, NEW m, Moves(w, l, m), NEW k \in Keys, NEW r,
         ledger' = ledger, heard'[k] = heard[k], current' = current \/ current' = current \cup {w},
         w \in current => ~Done(w, k),
         w \in current' => ~Done(w, k)' /\ ~(l \in Working /\ Pends(w, k)')
  PROVE  Owes(k, r)' => Owes(k, r)
<1>1. ASSUME NEW v \in Runs \ {w}
      PROVE  Done(v, k)' = Done(v, k) /\ Aware(v, k, r)' = Aware(v, k, r) /\ Pends(v, k)' = Pends(v, k)
  <2>1. pc'[v] = pc[v] /\ mem'[v] = mem[v]
    BY DEF Moves
  <2>2. Pends(v, k)' = Pends(v, k)
    BY <2>1 DEF Pends, Holds
  <2>3. Done(v, k)' = Done(v, k)
    BY <2>1, <2>2 DEF Done
  <2>4. Aware(v, k, r)' = Aware(v, k, r)
    BY <2>1 DEF Aware, Knows, Keyed
  <2>5. QED
    BY <2>2, <2>3, <2>4
<1>2. current \subseteq Runs
  BY DEF IInv, TypeOK
<1>3. Knows(ledger, heard[k], k, r)' = Knows(ledger, heard[k], k, r)
  BY DEF Knows, Keyed
<1>4. Known(k, r) => Known(k, r)'
  BY <1>1, <1>2, <1>3 DEF Known
<1>5. Again(k)' => Again(k)
  BY <1>1, <1>2 DEF Again, Keyed, Moves
<1>6. QED
  BY <1>4, <1>5 DEF Owes

-----------------------------------------------------------------------------
(* What the steps of a run do to the debts. *)

\* The only run that has the head of the branch and sends.
LEMMA SoleWorker ==
  ASSUME Heads, NEW w \in current, pc[w] \in Working, NEW v \in current, v # w, NEW k
  PROVE  ~Done(v, k) /\ pc[v] \notin Working
BY DEF Heads, Done, Working

\* The head of the branch is in what a run that has it and sends holds.
LEMMA HeadCovered ==
  ASSUME IInv, Heads, NEW w \in current, pc[w] # "ended", ~mem[w].old
  PROVE  Covers(ledger, mem[w].local) /\ ledger \in Ledger /\ mem[w].local \in Ledger
<1>1. w \in Runs /\ ledger \in Ledger
  BY DEF IInv, TypeOK
<1>2. mem[w].local \in Ledger
  BY <1>1, RunsOfTypes DEF RunsInv, Hands
<1>3. KeepsGot(ledger, mem[w].local)
  BY DEF IInv, Based, Preserves
<1>4. KeepsRows(ledger, mem[w].local)
  BY DEF Heads, Headed
<1>5. QED
  BY <1>1, <1>2, <1>3, <1>4 DEF Covers

LEMMA WorkerIsNew ==
  ASSUME IInv, NEW w \in Runs, pc[w] \in Working
  PROVE  ~mem[w].old /\ pc[w] # "ended" /\ mem[w] \in Hands
BY RunsOfTypes DEF IInv, Shape, Shaped, RunsInv, Working

\* A step of the lane of the run that has the head makes no debt.
LEMMA LaneOwes ==
  ASSUME IInv, IInv', Heads, Heads', NEW w \in current, NEW l \in Working, NEW m, pc[w] \in Working,
         Moves(w, l, m), m.saw = mem[w].saw, UNCHANGED branch, NEW k \in Keys, NEW r, heard'[k] = heard[k],
         Pends(w, k)' => Pends(w, k), Done(w, k) => Done(w, k)',
         Done(w, k) /\ Aware(w, k, r) => Aware(w, k, r)'
  PROVE  Owes(k, r)' => Owes(k, r)
<1>1. /\ w \in Runs /\ pc'[w] = l /\ mem'[w] = m /\ ledger' = ledger /\ current' = current
      /\ heard'[k] = heard[k]
  BY DEF IInv, TypeOK, Moves, branch
<1>2. \A v \in current : v # w => ~Done(v, k) /\ ~Done(v, k)' /\ pc[v] \notin Working /\ pc'[v] \notin Working
  <2>1. SUFFICES ASSUME NEW v \in current, v # w
                 PROVE  ~Done(v, k) /\ ~Done(v, k)' /\ pc[v] \notin Working /\ pc'[v] \notin Working
    OBVIOUS
  <2>2. ~Done(v, k) /\ pc[v] \notin Working
    BY <2>1, SoleWorker
  <2>3. pc'[v] = pc[v]
    BY <2>1 DEF Moves, IInv, TypeOK
  <2>4. ~Done(v, k)'
    BY <2>2, <2>3 DEF Done, Working
  <2>5. QED
    BY <2>2, <2>3, <2>4
<1>3. Known(k, r) => Known(k, r)'
  <2>1. CASE Done(w, k)
    BY <1>1, <1>2, <2>1 DEF Known
  <2>2. CASE ~Done(w, k) /\ ~Done(w, k)'
    <3>1. Known(k, r) => Knows(ledger, heard[k], k, r)
      BY <1>2, <2>2 DEF Known
    <3>2. Knows(ledger, heard[k], k, r) => Knows(ledger, heard[k], k, r)'
      BY <1>1 DEF Knows, Keyed
    <3>3. Knows(ledger, heard[k], k, r)' => Known(k, r)'
      BY <1>1, <1>2, <2>2 DEF Known
    <3>4. QED
      BY <3>1, <3>2, <3>3
  <2>3. CASE ~Done(w, k) /\ Done(w, k)'
    <3>1. Known(k, r) => Knows(ledger, heard[k], k, r)
      BY <1>2, <2>3 DEF Known
    <3>2. w \in current' /\ pc'[w] # "ended" /\ ~mem'[w].old
      BY <1>1 DEF IInv, Shape, Shaped, Working
    <3>3. Covers(ledger', m.local) /\ ledger' \in Ledger /\ m.local \in Ledger
      <4>1. KeepsGot(ledger', mem'[w].local)
        BY <3>2 DEF IInv, Based, Preserves
      <4>2. KeepsRows(ledger', mem'[w].local)
        BY <3>2 DEF Heads, Headed
      <4>3. mem'[w].local \in Ledger
        BY <1>1 DEF IInv, TypeOK
      <4>4. QED
        BY <1>1, <4>1, <4>2, <4>3 DEF Covers, IInv, TypeOK
    <3>4. heard[k] \in SUBSET Nat
      BY DEF IInv, TypeOK
    <3>5. Knows(ledger, heard[k], k, r) => Knows(m.local, heard[k], k, r)
      BY <1>1, <3>3, <3>4, KnowsMore
    <3>6. Knows(m.local, heard[k], k, r) => Aware(w, k, r)'
      BY <1>1 DEF Aware, Knows, Keyed
    <3>7. Aware(w, k, r)' => Known(k, r)'
      BY <1>1, <1>2, <2>3 DEF Known
    <3>8. QED
      BY <3>1, <3>5, <3>6, <3>7
  <2>4. QED
    BY <2>1, <2>2, <2>3
<1>4. Again(k)' => Again(k)
  BY <1>1, <1>2 DEF Again, Keyed
<1>5. QED
  BY <1>1, <1>3, <1>4 DEF Owes

\* What the lane hands on: a copy that adds to the one before, not ahead of the snapshot.
LEMMA LaneRows ==
  ASSUME IInv, IInv', Rows, Heads, NEW w \in Runs, NEW l \in Working, NEW m, pc[w] \in Working, Moves(w, l, m),
         m.saw = mem[w].saw, Covers(mem[w].local, m.local), Sound(m.local, m.saw),
         UNCHANGED <<branch, rank, now>>,
         \A k \in Keys : heard'[k] = heard[k] \/ heard'[k] = heard[k] \cup {mem[w].saw[k]}
  PROVE  Rows' /\ Heads'
<1>1. Rows'
  <2>1. Sound(ledger', rank) /\ l # "lookup" /\ \A k \in Keys : m.saw[k] <= rank[k]
    BY DEF Rows, branch, Working
  <2>2. Sound(m.local, IF l = "lookup" THEN rank ELSE m.saw)
    BY <2>1
  <2>3. UNCHANGED <<rank, now>>
    OBVIOUS
  <2>4. QED
    BY <2>1, <2>2, <2>3, RowsMove
<1>2. ASSUME w \in current
      PROVE  Headed(w)'
  <2>1. pc'[w] = l /\ mem'[w] = m /\ ledger' = ledger /\ m.local \in Ledger
    BY DEF Moves, branch, IInv, TypeOK
  <2>2. Covers(ledger, mem[w].local) /\ ledger \in Ledger /\ mem[w].local \in Ledger
    BY <1>2, WorkerIsNew, HeadCovered
  <2>3. KeepsRows(ledger', m.local)
    BY <2>1, <2>2, CoversOn DEF Covers
  <2>4. ASSUME NEW k \in Keys
        PROVE  /\ \A s \in heard'[k] : s <= m.saw[k]
               /\ \A v \in Runs : pc'[v] \in Working => mem'[v].saw[k] <= m.saw[k]
    <3>1. /\ \A s \in heard[k] : s <= mem[w].saw[k]
          /\ \A v \in Runs : pc[v] \in Working => mem[v].saw[k] <= mem[w].saw[k]
      BY <1>2, WorkerIsNew DEF Heads, Headed
    <3>2. \A v \in Runs : pc'[v] \in Working => pc[v] \in Working /\ mem'[v].saw = mem[v].saw
      BY DEF Moves
    <3>3. QED
      BY <3>1, <3>2
  <2>5. QED
    BY <2>1, <2>3, <2>4 DEF Headed
<1>3. Heads'
  <2>1. UNCHANGED <<ledger, rank>> /\ current' = current
    BY DEF branch
  <2>2. w \in current' => Headed(w)'
    BY <1>2, <2>1
  <2>3. QED
    BY <2>1, <2>2, HeadsMove
<1>4. QED
  BY <1>1, <1>3

\* Without a call of Telegram the lane pays for what it owes.
LEMMA LanePays ==
  ASSUME IInv, IInv', CopyInv, NEW w \in Runs, NEW l \in Working, NEW m, pc[w] \in Working, Moves(w, l, m),
         m.saw = mem[w].saw, Covers(mem[w].local, m.local), Sound(m.local, m.saw),
         UNCHANGED <<branch, rank, now, told, wasted, reverting>>,
         Hold(w)', retold \subseteq retold', retold' \subseteq retold \cup ({w} \X Keys),
         \A k \in Keys : <<w, k>> \in retold' => w \in Schedulers /\ l \in After,
         l = "claimed" => pc[w] = "choose",
         \A k \in Keys : (Pends(w, k)' => Pends(w, k)) /\ (Done(w, k) => Done(w, k)'),
         \/ accidents < accidents'
         \/ /\ accidents' = accidents
            /\ \A k \in Keys, r \in Recipients :
                  w \in current /\ Done(w, k) /\ Aware(w, k, r) => Aware(w, k, r)'
  PROVE  CopyInv'
<1>1. Rows' /\ Heads'
  <2>1. UNCHANGED <<branch, rank, now>> /\ \A k \in Keys : heard'[k] = heard[k]
    BY DEF told
  <2>2. QED
    BY <2>1, LaneRows DEF CopyInv
<1>2. Trail'
  <2>1. ledger' = ledger /\ current' \subseteq current \cup {w} /\ wasted' \subseteq wasted \cup {w}
    BY DEF branch
  <2>2. w \notin wasted'
    BY DEF CopyInv, Trail, Working
  <2>3. QED
    BY <2>1, <2>2, TrailMove DEF CopyInv
<1>3. ASSUME NEW k \in Keys, NEW r \in Recipients
      PROVE  Paid(k, r)'
  <2>1. \A v \in Runs \ {w} : /\ Done(v, k)' = Done(v, k)
                              /\ Holds(v, k)' = Holds(v, k)
    BY DEF Moves, Done, Pends, Holds
  <2>2. Retold(k) \subseteq Retold(k)'
    <3>1. SUFFICES ASSUME NEW v \in Retold(k)
                   PROVE  v \in Retellers(k)' /\ ~Holds(v, k)'
      BY DEF Retold
    <3>2. v \in Retellers(k)' /\ v \in Runs /\ ~Holds(v, k) /\ pc[v] # "choose"
      BY DEF Retold, Retellers, CopyInv, Trail, After
    <3>3. v = w => ~Holds(v, k)'
      BY <3>2 DEF Holds, Moves
    <3>4. QED
      BY <2>1, <3>2, <3>3
  <2>3. Spent(k) \subseteq Spent(k)'
    BY <2>1 DEF Spent, branch
  <2>4. /\ accidents <= accidents' /\ reverting \subseteq reverting' /\ Paid(k, r)
        /\ heard'[k] = heard[k] /\ copies'[k][r] = copies[k][r]
    BY DEF CopyInv, AllPaid, IInv, TypeOK, told
  <2>5. (Owes(k, r)' => Owes(k, r)) \/ accidents < accidents'
    <3>1. CASE w \in current /\ accidents' = accidents
      <4>1. Done(w, k) /\ Aware(w, k, r) => Aware(w, k, r)'
        BY <3>1, <2>4 DEF IInv, TypeOK
      <4>2. UNCHANGED branch /\ heard'[k] = heard[k] /\ Heads
        BY DEF CopyInv, told
      <4>3. QED
        BY <1>1, <3>1, <4>1, <4>2, LaneOwes
    <3>2. CASE w \notin current
      BY <3>2, OthersOwe DEF branch, told
    <3>3. QED
      BY <3>1, <3>2
  <2>6. QED
    BY <1>1, <2>2, <2>3, <2>4, <2>5, NoCopyBalance DEF CopyInv
<1>4. QED
  BY <1>1, <1>2, <1>3 DEF CopyInv, AllPaid

\* A run that ends has told nothing it has not stored, or an accident ended it.
LEMMA EndsPays ==
  ASSUME IInv, IInv', CopyInv, NEW w \in Runs, Ends(w), pc[w] # "ended",
         UNCHANGED <<branch, rank, now, told, retold, wasted, reverting>>,
         \/ accidents < accidents'
         \/ accidents' = accidents /\ \A k \in Keys : ~Done(w, k)
  PROVE  CopyInv'
<1>1. /\ Moves(w, "ended", Fresh) /\ pc'[w] = "ended" /\ mem'[w] = Fresh
      /\ ledger' = ledger /\ current' = current /\ heard' = heard /\ copies' = copies
  BY RunsMove DEF Moves, branch, told
<1>2. Rows'
  <2>1. \A k \in Keys : Empty.rows[k].state = 0 /\ Empty.rows[k].sent = {} /\ Unseen[k] = 0
    BY DEF Empty, NoRow, Unseen
  <2>2. Sound(Empty, Unseen) /\ \A k \in Keys : Unseen[k] <= rank[k]
    BY <2>1 DEF Sound, IInv, TypeOK
  <2>3. Fresh.local = Empty /\ Fresh.saw = Unseen
    BY DEF Fresh
  <2>4. Sound(ledger', rank) /\ Rows /\ UNCHANGED <<rank, now>>
    BY <1>1 DEF CopyInv, Rows
  <2>5. QED
    BY <1>1, <2>2, <2>3, <2>4, RowsMove
<1>3. Heads'
  <2>1. w \in current' => Headed(w)'
    BY <1>1 DEF Headed
  <2>2. UNCHANGED <<ledger, rank>> /\ "ended" \notin Working
    BY <1>1 DEF Working
  <2>3. QED
    BY <1>1, <2>1, <2>2, HeadsMove DEF CopyInv
<1>4. Trail'
  <2>1. Hold(w)'
    BY <1>1 DEF Hold
  <2>2. \A k \in Keys : <<w, k>> \in retold' => w \in Schedulers /\ "ended" \in After
    BY DEF CopyInv, Trail, Retellers, After
  <2>3. QED
    BY <1>1, <2>1, <2>2, TrailMove DEF CopyInv
<1>5. ASSUME NEW k \in Keys, NEW r \in Recipients
      PROVE  Paid(k, r)'
  <2>1. ~Done(w, k)' /\ ~Pends(w, k)' /\ ~Holds(w, k)'
    BY <1>1 DEF Done, Pends, Holds, Fresh
  <2>2. \A v \in Runs \ {w} : /\ Done(v, k)' = Done(v, k)
                              /\ Holds(v, k)' = Holds(v, k)
    BY <1>1 DEF Moves, Done, Pends, Holds
  <2>3. Retold(k) \subseteq Retold(k)' /\ reverting \subseteq reverting' /\ heard[k] \subseteq heard'[k]
    BY <1>1, <2>1, <2>2 DEF Retold, Retellers
  <2>4. Spent(k) \ {w} \subseteq Spent(k)'
    BY <1>1, <2>2 DEF Spent, IInv, TypeOK
  <2>5. Paid(k, r) /\ Heads /\ heard'[k] = heard[k] /\ copies'[k][r] = copies[k][r]
    BY DEF CopyInv, AllPaid, told
  <2>6. CASE accidents' = accidents /\ ~Done(w, k)
    <3>1. w \notin Spent(k)
      BY <2>6 DEF Spent, CopyInv, Trail
    <3>2. Owes(k, r)' => Owes(k, r)
      BY <1>1, <2>1, <2>6, OthersOwe
    <3>3. accidents <= accidents' /\ Spent(k) \subseteq Spent(k)'
      BY <2>4, <2>6, <3>1 DEF IInv, TypeOK
    <3>4. QED
      BY <1>3, <2>3, <2>5, <3>2, <3>3, NoCopyBalance
  <2>7. CASE accidents < accidents'
    <3>1. IsFiniteSet(Spent(k)) /\ IsFiniteSet(Spent(k)')
      BY RunSets, DeliveryAssumption, FS_Subset DEF Spent, IInv, TypeOK
    <3>2. PICK s0 \in Nat, s1 \in Nat : s0 = Cardinality(Spent(k)) /\ s1 = Cardinality(Spent(k)')
      BY <3>1, FS_CardinalityType
    <3>3. PICK c0 \in Nat, a0 \in Nat, a1 \in Nat : c0 = copies[k][r] /\ a0 = accidents /\ a1 = accidents'
      BY DEF IInv, TypeOK
    <3>4. PICK o0 \in Nat, o1 \in Nat, bh \in Nat, bt \in Nat, bv \in Nat :
            /\ o0 = Bit(Owes(k, r)) /\ o1 = Bit(Owes(k, r)') /\ bh = Bit(heard'[k] # heard[k])
            /\ bt = Bit(Retold(k)' # Retold(k)) /\ bv = Bit(reverting' # reverting)
            /\ o1 <= 1
      BY DEF Bit
    <3>5. a0 + 1 <= a1
      BY <2>7, <3>3
    <3>6. IF w \in Spent(k) THEN o1 <= o0 /\ s0 <= s1 + 1 ELSE s0 <= s1
      <4>1. CASE w \notin Spent(k)
        <5>1. Spent(k) \subseteq Spent(k)'
          BY <2>4, <4>1
        <5>2. QED
          BY <3>1, <3>2, <4>1, <5>1, CardGrows
      <4>2. CASE w \in Spent(k)
        <5>1. Cardinality(Spent(k) \ {w}) = s0 - 1 /\ IsFiniteSet(Spent(k) \ {w})
          BY <3>1, <3>2, <4>2, FS_RemoveElement
        <5>2. Cardinality(Spent(k) \ {w}) <= s1
          BY <2>4, <3>1, <3>2, CardGrows
        <5>3. s0 <= s1 + 1
          BY <5>1, <5>2
        <5>4. w \notin current
          BY <4>2 DEF Spent, CopyInv, Trail
        <5>5. Owes(k, r)' => Owes(k, r)
          BY <1>1, <5>4, OthersOwe
        <5>6. o1 <= o0
          BY <3>4, <5>5 DEF Bit
        <5>7. QED
          BY <4>2, <5>3, <5>6
      <4>3. QED
        BY <4>1, <4>2
    <3>7. c0 + o1 + a0 + s0 <= c0 + o0 + a1 + s1 + bh + bt + bv
      BY <3>4, <3>5, <3>6
    <3>8. copies'[k][r] + Bit(Owes(k, r)') + accidents + Cardinality(Spent(k))
            <= copies[k][r] + Bit(Owes(k, r)) + accidents' + Cardinality(Spent(k)')
               + Bit(heard'[k] # heard[k]) + Bit(Retold(k)' # Retold(k)) + Bit(reverting' # reverting)
      BY <1>1, <3>2, <3>3, <3>4, <3>7
    <3>9. QED
      BY <1>3, <2>3, <2>5, <3>8, Balance
  <2>8. QED
    BY <2>6, <2>7
<1>6. QED
  BY <1>2, <1>3, <1>4, <1>5 DEF CopyInv, AllPaid

-----------------------------------------------------------------------------
(* The steps before the lane, and those that publish. *)

LEMMA InitPays == ASSUME Init PROVE CopyInv
<1>1. Rows
  <2>1. \A k \in Keys : /\ Empty.rows[k].state = 0 /\ Empty.rows[k].sent = {} /\ Unseen[k] = 0
                        /\ rank[k] \in Nat
    BY DEF Init, Empty, NoRow, Unseen
  <2>2. Sound(Empty, Unseen) /\ Sound(Empty, rank) /\ \A k \in Keys : Unseen[k] <= rank[k]
    BY <2>1 DEF Sound
  <2>3. Fresh.local = Empty /\ Fresh.saw = Unseen /\ \A w \in Runs : mem[w] = Fresh /\ pc[w] # "lookup"
    BY DEF Init, Fresh
  <2>4. QED
    BY <2>2, <2>3 DEF Init, Rows
<1>2. Heads
  BY FS_EmptySet DEF Init, Heads
<1>3. Trail
  BY DEF Init, Trail, Hold, Retellers
<1>4. ASSUME NEW k \in Keys, NEW r \in Recipients
      PROVE  Paid(k, r)
  <2>1. copies[k][r] = 0 /\ heard[k] = {} /\ accidents = 0 /\ reverting = {} /\ wasted = {}
    BY DEF Init
  <2>2. Bit(Owes(k, r)) = 0
    BY <2>1 DEF Bit, Owes
  <2>3. Retold(k) = {} /\ Spent(k) = {}
    BY DEF Retold, Retellers, Init, Spent, Done
  <2>4. QED
    BY <2>1, <2>2, <2>3, FS_EmptySet DEF Paid
<1>5. QED
  BY <1>1, <1>2, <1>3, <1>4 DEF CopyInv, AllPaid

LEMMA EarlyPays ==
  ASSUME IInv, IInv', CopyInv, NEW w \in Runs, NEW l, NEW m, Moves(w, l, m),
         pc[w] \notin Working \cup {"ended"}, l \notin Working \cup {"ended"},
         UNCHANGED <<ledger, rank, now, told, retold, faults>>,
         current' = current \/ current' = current \cup {w},
         Sound(m.local, IF l = "lookup" THEN rank ELSE m.saw), \A k \in Keys : m.saw[k] <= rank[k],
         w \in current' => Headed(w)'
  PROVE  CopyInv'
<1>1. pc'[w] = l /\ mem'[w] = m /\ heard' = heard /\ accidents' = accidents /\ wasted' = wasted
  BY DEF Moves, told, faults
<1>2. Rows'
  <2>1. Sound(ledger', rank) /\ UNCHANGED <<rank, now>> /\ Rows
    BY DEF CopyInv, Rows
  <2>2. QED
    BY <2>1, RowsMove
<1>3. Heads'
  BY <1>1, HeadsMove DEF CopyInv
<1>4. Trail'
  <2>1. Hold(w)'
    BY <1>1 DEF Hold, Working
  <2>2. \A k \in Keys : <<w, k>> \notin retold'
    BY DEF CopyInv, Trail, Retellers, After, Working
  <2>3. w \notin wasted'
    BY <1>1 DEF CopyInv, Trail
  <2>4. QED
    BY <1>1, <2>1, <2>2, <2>3, TrailMove DEF CopyInv
<1>5. ASSUME NEW k \in Keys, NEW r \in Recipients
      PROVE  Paid(k, r)'
  <2>1. ~Done(w, k) /\ ~Done(w, k)' /\ ~Holds(w, k) /\ ~Holds(w, k)'
    <3>1. pc[w] \notin Working /\ pc'[w] \notin Working
      BY <1>1
    <3>2. QED
      BY <3>1 DEF Done, Holds, Working
  <2>2. \A v \in Runs \ {w} : Done(v, k)' = Done(v, k) /\ Holds(v, k)' = Holds(v, k)
    BY DEF Moves, Done, Pends, Holds
  <2>3. Retold(k) \subseteq Retold(k)'
    BY <2>1, <2>2 DEF Retold, Retellers
  <2>4. Spent(k) \subseteq Spent(k)'
    BY <1>1, <2>1, <2>2 DEF Spent
  <2>5. Owes(k, r)' => Owes(k, r)
    BY <1>1, <2>1, OthersOwe
  <2>6. /\ accidents <= accidents' /\ reverting \subseteq reverting' /\ Paid(k, r)
        /\ heard'[k] = heard[k] /\ copies'[k][r] = copies[k][r] /\ Heads
    BY DEF CopyInv, AllPaid, IInv, TypeOK, faults, told
  <2>7. QED
    BY <1>3, <2>3, <2>4, <2>5, <2>6, NoCopyBalance
<1>6. QED
  BY <1>2, <1>3, <1>4, <1>5 DEF CopyInv, AllPaid

LEMMA RestorePays ==
  ASSUME IInv, IInv', CopyInv, NEW w \in Runs, Restore(w)
  PROVE  CopyInv'
<1> DEFINE m == [Fresh EXCEPT !.local = ledger]
<1>1. /\ Goto(w, "lookup", m) /\ pc[w] = "restore"
      /\ UNCHANGED <<ledger, rank, now, told, retold, faults>> /\ current' = current
  BY DEF Restore, branch, world
<1>2. m.local = ledger /\ m.saw = Unseen
  BY DEF Fresh
<1> HIDE DEF m
<1>3. Moves(w, "lookup", m)
  BY <1>1, RunsMove
<1>4. w \notin current
  BY <1>1 DEF IInv, Based
<1>5. Sound(m.local, rank) /\ \A k \in Keys : m.saw[k] <= rank[k]
  BY <1>2 DEF CopyInv, Rows, Unseen, IInv, TypeOK
<1>6. "restore" \notin Working \cup {"ended"} /\ "lookup" \notin Working \cup {"ended"}
  BY DEF Working
<1>7. QED
  BY <1>1, <1>3, <1>4, <1>5, <1>6, EarlyPays

\* The selection observes, and whatever it leaves in the batch is news to the ledger.
LEMMA ObserveAllRows ==
  ASSUME IInv, NEW L \in Ledger, NEW S, Sound(L, rank)
  PROVE  Sound(ObserveAll(L, S), rank) /\ KeepsRows(L, ObserveAll(L, S))
<1> DEFINE N == ObserveAll(L, S)
<1>1. ASSUME NEW k \in Keys
      PROVE  /\ N.rows[k].told = L.rows[k].told /\ N.rows[k].sent = L.rows[k].sent
             /\ N.rows[k].state = L.rows[k].state
                \/ (rank[k] > L.rows[k].state /\ N.rows[k].state = rank[k])
  <2>1. rank[k] \in Nat /\ now \in Nat
    BY DEF IInv, TypeOK
  <2>2. PICK M : M = Observe(L, k, rank[k], now)
    OBVIOUS
  <2>3. /\ M.rows[k].told = L.rows[k].told /\ M.rows[k].sent = L.rows[k].sent
        /\ M.rows[k].state = IF rank[k] > L.rows[k].state THEN rank[k] ELSE L.rows[k].state
    BY <2>1, <2>2, ObserveRows
  <2>4. N.rows[k] = M.rows[k] \/ N.rows[k] = L.rows[k]
    BY <2>2 DEF ObserveAll, Ledger
  <2>5. QED
    BY <2>3, <2>4
<1> HIDE DEF N
<1>2. \A k \in Keys : L.rows[k].state \in Nat /\ rank[k] \in Nat
  BY DEF Ledger, Row, IInv, TypeOK
<1>3. Sound(N, rank)
  BY <1>1, <1>2 DEF Sound
<1>4. KeepsRows(L, N)
  BY <1>1, <1>2 DEF KeepsRows
<1>5. QED
  BY <1>3, <1>4 DEF N

LEMMA ReadyIsNews ==
  ASSUME IInv, NEW L \in Ledger, NEW k \in Keys \ Priority, Ready(L, k)
  PROVE  L.rows[k].told = 0
<1>1. PICK seen : seen = Observe(L, k, rank[k], now)
  OBVIOUS
<1>2. ShouldRemind(seen, k, rank[k])
  BY <1>1 DEF Ready
<1>3. rank[k] \in Nat /\ now \in Nat /\ L.rows[k].state \in Nat
  BY DEF IInv, TypeOK, Ledger, Row
<1>4. /\ seen.rows[k].told = L.rows[k].told
      /\ seen.rows[k].state = IF rank[k] > L.rows[k].state THEN rank[k] ELSE L.rows[k].state
  BY <1>1, <1>3, ObserveRows
<1>5. ~(rank[k] > seen.rows[k].state)
  BY <1>3, <1>4
<1>6. QED
  BY <1>2, <1>4, <1>5 DEF ShouldRemind, Changed

LEMMA LookupPays ==
  ASSUME IInv, IInv', CopyInv, NEW w \in Runs, Lookup(w)
  PROVE  CopyInv'
<1> DEFINE L     == mem[w].local
           ready == {k \in Active : Ready(L, k)}
           seen  == {k \in Active \ Priority : Unclaimed(L, k)}
           found == [Fresh EXCEPT !.local = L, !.old = L # ledger, !.saw = rank]
           batch == [found EXCEPT !.local = ObserveAll(L, seen), !.todo = ready, !.batch = ready]
<1>1. /\ pc[w] = "lookup" /\ L \in Ledger /\ Sound(L, rank)
      /\ UNCHANGED <<ledger, rank, now, told, retold, faults>>
  <2>1. pc[w] = "lookup" /\ Sound(L, rank) /\ UNCHANGED <<ledger, rank, now, told, retold, faults>>
    BY DEF Lookup, CopyInv, Rows, world
  <2>2. QED
    BY <2>1, RunsOfTypes DEF RunsInv, Hands
<1>2. PICK N : N = ObserveAll(L, seen)
  OBVIOUS
<1>3. Sound(N, rank) /\ KeepsRows(L, N) /\ KeepsRows(L, L)
  BY <1>1, <1>2, ObserveAllRows, CoversItself
<1>4. /\ found.local = L /\ found.saw = rank /\ found.todo = {} /\ found.old = (L # ledger)
      /\ batch.local = N /\ batch.saw = rank /\ batch.todo = ready /\ batch.old = (L # ledger)
  BY <1>2 DEF Fresh
<1> HIDE DEF found, batch
<1>5. CASE w \in Schedulers \/ ready # {}
  <2> DEFINE m == IF w \in Schedulers THEN found ELSE batch
             l == IF w \in Schedulers THEN "publish" ELSE "queue"
  <2>1. Goto(w, l, m) /\ current' = current \cup {w}
    BY <1>5 DEF Lookup, found, batch
  <2>2. l \in {"publish", "queue"}
    OBVIOUS
  <2>3. /\ m.saw = rank /\ m.old = (L # ledger) /\ KeepsRows(L, m.local) /\ Sound(m.local, rank)
        /\ w \in Monitors => m.todo = ready
    BY <1>1, <1>3, <1>4, ConstantFacts
  <2> HIDE DEF m, l
  <2>4. Moves(w, l, m)
    BY <2>1, RunsMove
  <2>5. Headed(w)'
    <3>1. pc'[w] = l /\ mem'[w] = m /\ ledger' = ledger
      BY <1>1, <2>4 DEF Moves
    <3>2. \A k \in Keys : \A s \in heard'[k] : s <= rank[k]
      BY <1>1 DEF CopyInv, Heads, told
    <3>3. ASSUME NEW v \in Runs, pc'[v] \in Working, NEW k \in Keys
          PROVE  mem'[v].saw[k] <= rank[k]
      <4>1. v # w
        BY <2>2, <3>1, <3>3 DEF Working
      <4>2. QED
        BY <2>4, <4>1 DEF Moves, CopyInv, Rows
    <3>4. ASSUME w \in Monitors, ~m.old, NEW k \in m.todo \ Priority
          PROVE  ledger.rows[k].told = 0
      <4>1. k \in Keys \ Priority /\ Ready(L, k)
        BY <2>3, <3>4, ConstantFacts DEF Active
      <4>2. L = ledger
        BY <2>3, <3>4
      <4>3. QED
        BY <1>1, <4>1, <4>2, ReadyIsNews
    <3>5. ~m.old => KeepsRows(ledger, m.local)
      BY <2>3
    <3>6. QED
      BY <2>3, <3>1, <3>2, <3>3, <3>4, <3>5 DEF Headed
  <2>6. "lookup" \notin Working \cup {"ended"} /\ l \notin Working \cup {"ended", "lookup"}
    BY <2>2 DEF Working
  <2>7. \A k \in Keys : m.saw[k] <= rank[k]
    BY <2>3 DEF IInv, TypeOK
  <2>8. QED
    BY <1>1, <2>1, <2>3, <2>4, <2>5, <2>6, <2>7, EarlyPays
<1>6. CASE ~(w \in Schedulers \/ ready # {})
  <2>1. Ends(w) /\ UNCHANGED <<branch, rank, now, told, retold, wasted, reverting>> /\ accidents' = accidents
    BY <1>1, <1>6 DEF Lookup, branch, faults
  <2>2. \A k \in Keys : ~Done(w, k)
    BY <1>1 DEF Done
  <2>3. QED
    BY <1>1, <2>1, <2>2, EndsPays
<1>7. QED
  BY <1>5, <1>6

LEMMA EnterPays ==
  ASSUME IInv, IInv', CopyInv, NEW w \in Runs, Enter(w)
  PROVE  CopyInv'
<1> DEFINE l == IF w \in Monitors THEN "revalidate" ELSE "restore"
<1>1. /\ pc[w] = "queue" /\ pc' = [pc EXCEPT ![w] = l] /\ mem' = mem
      /\ UNCHANGED <<ledger, rank, now, told, retold, faults>> /\ current' = current
  BY DEF Enter, branch, world
<1>2. l \in {"revalidate", "restore"}
  OBVIOUS
<1> HIDE DEF l
<1>3. Moves(w, l, mem[w])
  BY <1>1, RunsOfTypes DEF RunsInv, Moves
<1>4. "queue" \notin Working \cup {"ended"} /\ l \notin Working \cup {"ended", "lookup"}
  BY <1>2 DEF Working
<1>5. Sound(mem[w].local, mem[w].saw) /\ \A k \in Keys : mem[w].saw[k] <= rank[k]
  BY <1>1 DEF CopyInv, Rows
<1>6. ASSUME w \in current
      PROVE  Headed(w)'
  <2>1. Headed(w) /\ pc[w] \notin Working \cup {"ended"} /\ mem'[w] = mem[w] /\ heard' = heard
    BY <1>1, <1>4, <1>6 DEF CopyInv, Heads, told
  <2>2. \A v \in Runs : pc'[v] \in Working => pc[v] \in Working /\ mem'[v] = mem[v]
    BY <1>1, <1>3, <1>4 DEF Moves
  <2>3. QED
    BY <1>1, <2>1, <2>2 DEF Headed
<1>7. QED
  BY <1>1, <1>3, <1>4, <1>5, <1>6, EarlyPays

LEMMA RevalidatePays ==
  ASSUME IInv, IInv', CopyInv, NEW w \in Runs, Revalidate(w)
  PROVE  CopyInv'
<1>1. /\ pc[w] = "revalidate" /\ UNCHANGED <<branch, rank, now, told, retold, wasted, reverting>>
      /\ accidents' = accidents /\ UNCHANGED <<ledger, rank, now, told, retold, faults>> /\ current' = current
  BY DEF Revalidate, branch, world, faults
<1>2. CASE Ends(w)
  <2>1. \A k \in Keys : ~Done(w, k)
    BY <1>1 DEF Done
  <2>2. QED
    BY <1>1, <1>2, <2>1, EndsPays
<1>3. CASE Goto(w, "publish", mem[w])
  <2>1. Moves(w, "publish", mem[w])
    BY <1>3, RunsMove
  <2>2. pc[w] \notin Working \cup {"ended"} /\ "publish" \notin Working \cup {"ended"}
    BY <1>1 DEF Working
  <2>3. Sound(mem[w].local, mem[w].saw) /\ \A k \in Keys : mem[w].saw[k] <= rank[k]
    BY <1>1 DEF CopyInv, Rows
  <2>4. ASSUME w \in current
        PROVE  Headed(w)'
    <3>1. Headed(w) /\ mem'[w] = mem[w] /\ heard' = heard
      BY <1>1, <2>1, <2>4 DEF CopyInv, Heads, told, Moves
    <3>2. \A v \in Runs : pc'[v] \in Working => pc[v] \in Working /\ mem'[v] = mem[v]
      BY <2>1, <2>2 DEF Moves
    <3>3. QED
      BY <1>1, <2>2, <3>1, <3>2 DEF Headed
  <2>5. QED
    BY <1>1, <2>1, <2>2, <2>3, <2>4, EarlyPays
<1>4. QED
  BY <1>2, <1>3 DEF Revalidate

\* w publishes: from here on its copy is what the others will be asked about.
LEMMA CommitPays ==
  ASSUME IInv, IInv', CopyInv, NEW w \in current, NEW l \in {"gate", "ended"}, NEW m, Commit(w), Moves(w, l, m),
         pc[w] \in {"publish", "store"}, UNCHANGED <<rank, now, told, retold, wasted, accidents>>,
         Sound(m.local, m.saw), \A k \in Keys : m.saw[k] <= rank[k], Headed(w)',
         \A k \in Keys : <<w, k>> \in retold => l \in After,
         \A k \in Keys, r \in Recipients :
            (Owes(k, r)' => Owes(k, r)) \/ Spent(k)' # Spent(k) \/ reverting' # reverting
  PROVE  CopyInv'
<1>1. /\ w \in Runs /\ pc'[w] = l /\ mem'[w] = m /\ ledger' = mem[w].local /\ current' = {w}
      /\ heard' = heard /\ accidents' = accidents /\ reverting \subseteq reverting'
  BY DEF Moves, Commit, Reverts, told, IInv, TypeOK
<1>2. Rows'
  <2>1. Sound(mem[w].local, mem[w].saw) /\ \A k \in Keys : mem[w].saw[k] <= rank[k]
    BY <1>1 DEF CopyInv, Rows
  <2>2. \A k \in Keys : rank[k] \in Nat /\ mem[w].saw[k] \in Nat /\ mem[w].local.rows[k].state \in Nat
    BY <1>1 DEF IInv, TypeOK, Ledger, Row
  <2>3. Sound(ledger', rank)
    BY <1>1, <2>1, <2>2 DEF Sound
  <2>4. Rows /\ UNCHANGED <<rank, now>> /\ Sound(m.local, IF l = "lookup" THEN rank ELSE m.saw)
    BY DEF CopyInv
  <2>5. QED
    BY <1>1, <2>3, <2>4, RowsMove
<1>3. Heads'
  BY <1>1 DEF Heads, CopyInv
<1>4. Trail'
  <2>1. Hold(w)'
    BY <1>1 DEF Hold
  <2>2. \A k \in Keys : <<w, k>> \in retold' => w \in Schedulers /\ l \in After
    BY <1>1 DEF CopyInv, Trail, Retellers
  <2>3. w \notin wasted'
    BY <1>1 DEF CopyInv, Trail
  <2>4. QED
    BY <1>1, <2>1, <2>2, <2>3, TrailMove DEF CopyInv
<1>5. ASSUME NEW k \in Keys, NEW r \in Recipients
      PROVE  Paid(k, r)'
  <2>1. ~Holds(w, k)'
    BY <1>1 DEF Holds
  <2>2. \A v \in Runs \ {w} : Done(v, k)' = Done(v, k) /\ Holds(v, k)' = Holds(v, k)
    BY DEF Moves, Done, Pends, Holds
  <2>3. Retold(k) \subseteq Retold(k)'
    BY <2>1, <2>2 DEF Retold, Retellers
  <2>4. Spent(k) \subseteq Spent(k)'
    BY <1>1, <2>2 DEF Spent
  <2>5. accidents <= accidents' /\ Paid(k, r) /\ heard'[k] = heard[k] /\ copies'[k][r] = copies[k][r] /\ Heads
    BY <1>1 DEF CopyInv, AllPaid, IInv, TypeOK, told
  <2>6. QED
    BY <1>1, <1>3, <2>3, <2>4, <2>5, NoCopyBalance
<1>6. QED
  BY <1>2, <1>3, <1>4, <1>5 DEF CopyInv, AllPaid

\* The branch takes over the copy of w, which covers it; what another run of the head has
\* told is not in that copy, and that run is one of the overtaken.
LEMMA CommitOwes ==
  ASSUME IInv, Heads, Trail, NEW w \in current, NEW m, pc[w] = "publish", ~mem[w].old,
         Commit(w), Moves(w, "gate", m),
         m.saw = mem[w].saw, m.todo = mem[w].todo, UNCHANGED <<told, wasted>>,
         NEW k \in Keys, NEW r, Spent(k)' = Spent(k)
  PROVE  Owes(k, r)' => Owes(k, r)
<1>1. /\ w \in Runs /\ pc'[w] = "gate" /\ mem'[w] = m /\ ledger' = mem[w].local /\ current' = {w}
      /\ heard' = heard /\ wasted' = wasted
  BY DEF Moves, Commit, told, IInv, TypeOK
<1>2. \A v \in current : ~Done(v, k)
  <2>1. ~Done(w, k)
    BY DEF Done
  <2>2. ASSUME NEW v \in current, v # w, Done(v, k)
        PROVE  FALSE
    <3>1. v \in Runs /\ pc'[v] = pc[v] /\ mem'[v] = mem[v]
      BY <2>2 DEF Moves, IInv, TypeOK
    <3>2. Done(v, k)'
      BY <2>2, <3>1 DEF Done, Pends, Holds
    <3>3. v \in Spent(k)'
      BY <1>1, <2>2, <3>1, <3>2 DEF Spent
    <3>4. pc[v] # "ended"
      BY <2>2 DEF Done
    <3>5. v \notin Spent(k)
      BY <2>2, <3>4 DEF Spent, Trail
    <3>6. QED
      BY <3>3, <3>5
  <2>3. QED
    BY <2>1, <2>2
<1>3. Known(k, r) <=> Knows(ledger, heard[k], k, r)
  BY <1>2 DEF Known
<1>4. Covers(ledger, mem[w].local) /\ ledger \in Ledger /\ mem[w].local \in Ledger
  BY HeadCovered
<1>5. Known(k, r) => Known(k, r)'
  <2>1. heard[k] \in SUBSET Nat
    BY DEF IInv, TypeOK
  <2>2. Knows(ledger, heard[k], k, r) => Knows(mem[w].local, heard[k], k, r)
    BY <1>4, <2>1, KnowsMore
  <2>3. Knows(mem[w].local, heard[k], k, r) => Knows(ledger, heard[k], k, r)'
    BY <1>1 DEF Knows, Keyed
  <2>4. ~Done(w, k)'
    BY <1>1 DEF Done
  <2>5. Knows(ledger, heard[k], k, r)' => Known(k, r)'
    BY <1>1, <2>4 DEF Known
  <2>6. QED
    BY <1>3, <2>2, <2>3, <2>5
<1>6. Again(k)' => ~Known(k, r)
  <2>1. SUFFICES ASSUME Again(k)'
                 PROVE  ~Knows(ledger, heard[k], k, r)
    BY <1>3
  <2>2. ~Keyed(k) /\ w \in Monitors /\ k \in mem[w].todo \ Priority /\ mem[w].saw[k] \in heard[k]
    BY <1>1, <2>1 DEF Again, Pends, Holds, Keyed
  <2>3. ledger.rows[k].told = 0 \/ ledger.rows[k].state < mem[w].saw[k]
    BY <1>1, <2>2 DEF Heads, Headed, Working
  <2>4. ledger.rows[k].state \in Nat /\ mem[w].saw[k] \in Nat
    BY <1>1 DEF IInv, TypeOK, Ledger, Row
  <2>5. ledger.rows[k].state < mem[w].saw[k] => ~(mem[w].saw[k] <= ledger.rows[k].state)
    BY <2>4
  <2>6. QED
    BY <2>2, <2>3, <2>5 DEF Knows
<1>7. QED
  BY <1>1, <1>5, <1>6 DEF Owes

LEMMA PublishPays ==
  ASSUME IInv, IInv', CopyInv, NEW w \in Runs, PublishRelease(w)
  PROVE  CopyInv'
<1>1. /\ pc[w] = "publish" /\ UNCHANGED <<rank, now, told, retold, wasted, accidents>>
      /\ mem[w] \in Hands
  BY RunsOfTypes DEF PublishRelease, world, RunsInv
<1>2. CASE w \in current
  <2> DEFINE m == [mem[w] EXCEPT !.old = FALSE]
  <2>1. Commit(w) /\ Goto(w, "gate", m)
    BY <1>2 DEF PublishRelease
  <2>2. m.local = mem[w].local /\ m.todo = mem[w].todo /\ m.saw = mem[w].saw /\ ~m.old
    BY <1>1 DEF Hands
  <2> HIDE DEF m
  <2>3. Moves(w, "gate", m)
    BY <2>1, RunsMove
  <2>4. Sound(m.local, m.saw) /\ \A k \in Keys : m.saw[k] <= rank[k]
    BY <1>1, <2>2 DEF CopyInv, Rows
  <2>5. Headed(w)'
    <3>1. pc'[w] = "gate" /\ mem'[w] = m /\ ledger' = m.local /\ heard' = heard /\ m.local \in Ledger
      BY <1>1, <2>1, <2>2, <2>3 DEF Moves, Commit, told, Hands
    <3>2. Headed(w)
      BY <1>2 DEF CopyInv, Heads
    <3>3. ASSUME NEW k \in Keys, NEW v \in Runs, pc'[v] \in Working
          PROVE  mem'[v].saw[k] <= m.saw[k]
      <4>1. CASE v = w
        BY <3>1, <4>1 DEF IInv, TypeOK
      <4>2. CASE v # w
        BY <1>1, <2>2, <2>3, <3>2, <3>3, <4>2 DEF Moves, Headed
      <4>3. QED
        BY <4>1, <4>2
    <3>4. QED
      BY <1>1, <2>2, <3>1, <3>2, <3>3, CoversItself DEF Headed, Working
  <2>6. \A k \in Keys : <<w, k>> \notin retold
    BY <1>1 DEF CopyInv, Trail, Retellers, After
  <2>7. ASSUME NEW k \in Keys, NEW r \in Recipients
        PROVE  (Owes(k, r)' => Owes(k, r)) \/ Spent(k)' # Spent(k) \/ reverting' # reverting
    <3>1. CASE mem[w].old
      <4>1. w \notin reverting
        BY <1>1 DEF IInv, Turned, Working
      <4>2. w \in reverting'
        BY <2>1, <3>1 DEF Commit, Reverts
      <4>3. QED
        BY <4>1, <4>2
    <3>2. CASE ~mem[w].old /\ Spent(k)' = Spent(k)
      <4>1. UNCHANGED <<told, wasted>> /\ Heads /\ Trail
        BY <1>1 DEF CopyInv
      <4>2. QED
        BY <1>1, <1>2, <2>1, <2>2, <2>3, <3>2, <4>1, CommitOwes
    <3>3. QED
      BY <3>1, <3>2
  <2>8. QED
    BY <1>1, <1>2, <2>1, <2>3, <2>4, <2>5, <2>6, <2>7, CommitPays
<1>3. CASE w \notin current /\ w \in Schedulers
  <2>1. Goto(w, "restore", Fresh) /\ UNCHANGED <<branch, reverting>>
    BY <1>3 DEF PublishRelease
  <2>2. Moves(w, "restore", Fresh)
    BY <2>1, RunsMove
  <2>3. UNCHANGED <<ledger, rank, now, told, retold, faults>> /\ current' = current
    BY <1>1, <2>1 DEF branch, faults
  <2>4. pc[w] \notin Working \cup {"ended"} /\ "restore" \notin Working \cup {"ended", "lookup"}
    BY <1>1 DEF Working
  <2>5. \A k \in Keys : /\ Empty.rows[k].state = 0 /\ Empty.rows[k].sent = {} /\ Unseen[k] = 0
                        /\ rank[k] \in Nat
    BY DEF Empty, NoRow, Unseen, IInv, TypeOK
  <2>6. Fresh.local = Empty /\ Fresh.saw = Unseen
    BY DEF Fresh
  <2>7. Sound(Fresh.local, Fresh.saw) /\ \A k \in Keys : Fresh.saw[k] <= rank[k]
    BY <2>5, <2>6 DEF Sound
  <2>8. QED
    BY <1>3, <2>2, <2>3, <2>4, <2>7, EarlyPays
<1>4. CASE w \notin current /\ w \notin Schedulers
  <2>1. Ends(w) /\ UNCHANGED <<branch, rank, now, told, retold, wasted, reverting>> /\ accidents' = accidents
    BY <1>1, <1>4 DEF PublishRelease
  <2>2. \A k \in Keys : ~Done(w, k)
    BY <1>1 DEF Done
  <2>3. QED
    BY <1>1, <2>1, <2>2, EndsPays
<1>5. QED
  BY <1>2, <1>3, <1>4

LEMMA StorePays ==
  ASSUME IInv, IInv', CopyInv, NEW w \in Runs, StoreLedger(w)
  PROVE  CopyInv'
<1>1. /\ pc[w] = "store" /\ Ends(w) /\ UNCHANGED <<rank, now, told, retold, accidents>> /\ heard' = heard
      /\ pc[w] \in Working /\ ~mem[w].old
  BY WorkerIsNew DEF StoreLedger, world, told, Working
<1>2. Moves(w, "ended", Fresh) /\ pc'[w] = "ended" /\ mem'[w] = Fresh
  BY <1>1, RunsMove DEF Moves
<1>3. \A k \in Keys : <<w, k>> \in retold => w \in Schedulers /\ "ended" \in After
  BY DEF CopyInv, Trail, Retellers, After
<1>4. \A k \in Keys : Done(w, k) /\ ~Done(w, k)'
  BY <1>1, <1>2 DEF Done, Pends, Holds, CopyInv, Trail, Hold
<1>5. CASE w \in current
  <2>1. Commit(w) /\ wasted' = wasted /\ reverting' = reverting
    BY <1>1, <1>5 DEF StoreLedger, Commit, Reverts
  <2>2. \A k \in Keys : /\ Empty.rows[k].state = 0 /\ Empty.rows[k].sent = {} /\ Unseen[k] = 0
                        /\ rank[k] \in Nat
    BY DEF Empty, NoRow, Unseen, IInv, TypeOK
  <2>3. Fresh.local = Empty /\ Fresh.saw = Unseen
    BY DEF Fresh
  <2>4. Sound(Fresh.local, Fresh.saw) /\ \A k \in Keys : Fresh.saw[k] <= rank[k]
    BY <2>2, <2>3 DEF Sound
  <2>5. Headed(w)'
    BY <1>2 DEF Headed
  <2>6. ASSUME NEW k \in Keys, NEW r \in Recipients
        PROVE  Owes(k, r)' => Owes(k, r)
    <3>1. ledger' = mem[w].local /\ current' = {w}
      BY <2>1 DEF Commit
    <3>2. \A v \in current : v # w => ~Done(v, k)
      BY <1>1, <1>5, SoleWorker DEF CopyInv
    <3>3. Known(k, r) => Aware(w, k, r)
      BY <1>4, <1>5 DEF Known
    <3>4. Aware(w, k, r) => Knows(mem[w].local, heard[k], k, r)
      BY <1>1 DEF Aware
    <3>5. Knows(mem[w].local, heard[k], k, r) => Knows(ledger, heard[k], k, r)'
      BY <1>1, <3>1 DEF Knows, Keyed
    <3>6. Knows(ledger, heard[k], k, r)' => Known(k, r)'
      BY <1>4, <3>1 DEF Known
    <3>7. ~Again(k)'
      BY <1>2, <3>1 DEF Again, Working
    <3>8. QED
      BY <1>1, <3>3, <3>4, <3>5, <3>6, <3>7 DEF Owes
  <2>7. QED
    BY <1>1, <1>2, <1>3, <1>5, <2>1, <2>4, <2>5, <2>6, CommitPays
<1>6. CASE w \notin current
  <2>1. ledger' = ledger /\ current' = current /\ reverting' = reverting /\ wasted' = wasted \cup {w}
    BY <1>6 DEF StoreLedger, branch
  <2>2. Rows'
    <3>1. \A k \in Keys : /\ Empty.rows[k].state = 0 /\ Empty.rows[k].sent = {} /\ Unseen[k] = 0
                          /\ rank[k] \in Nat
      BY DEF Empty, NoRow, Unseen, IInv, TypeOK
    <3>2. Fresh.local = Empty /\ Fresh.saw = Unseen
      BY DEF Fresh
    <3>3. Sound(Fresh.local, Fresh.saw) /\ \A k \in Keys : Fresh.saw[k] <= rank[k]
      BY <3>1, <3>2 DEF Sound
    <3>4. Sound(ledger', rank) /\ Rows /\ UNCHANGED <<rank, now>>
      BY <1>1, <2>1 DEF CopyInv, Rows
    <3>5. QED
      BY <1>2, <3>3, <3>4, RowsMove
  <2>3. Heads'
    <3>1. w \notin current' /\ "ended" \notin Working /\ UNCHANGED <<ledger, rank>>
      BY <1>1, <1>6, <2>1 DEF Working
    <3>2. QED
      BY <1>1, <1>2, <2>1, <3>1, HeadsMove DEF CopyInv
  <2>4. Trail'
    <3>1. Hold(w)'
      BY <1>2 DEF Hold
    <3>2. QED
      BY <1>1, <1>2, <1>3, <2>1, <3>1, TrailMove DEF CopyInv
  <2>5. ASSUME NEW k \in Keys, NEW r \in Recipients
        PROVE  Paid(k, r)'
    <3>1. \A v \in Runs \ {w} : Done(v, k)' = Done(v, k) /\ Holds(v, k)' = Holds(v, k)
      BY <1>2 DEF Moves, Done, Pends, Holds
    <3>2. Retold(k) \subseteq Retold(k)'
      BY <1>1, <1>2, <3>1 DEF Retold, Retellers, Holds
    <3>3. Spent(k) \subseteq Spent(k)'
      BY <2>1, <3>1 DEF Spent
    <3>4. Owes(k, r)' => Owes(k, r)
      BY <1>1, <1>2, <1>6, <2>1, OthersOwe
    <3>5. /\ accidents <= accidents' /\ reverting \subseteq reverting' /\ Paid(k, r)
          /\ heard'[k] = heard[k] /\ copies'[k][r] = copies[k][r] /\ Heads
      BY <1>1, <2>1 DEF CopyInv, AllPaid, IInv, TypeOK, told
    <3>6. QED
      BY <2>3, <3>2, <3>3, <3>4, <3>5, NoCopyBalance
  <2>6. QED
    BY <2>2, <2>3, <2>4, <2>5 DEF CopyInv, AllPaid
<1>7. QED
  BY <1>5, <1>6

\* Nobody has the head any more: a run that has told what it will tell is overtaken.
LEMMA OtherWriterPays ==
  ASSUME IInv, IInv', CopyInv, OtherWriter
  PROVE  CopyInv'
<1>1. /\ current' = {} /\ UNCHANGED <<ledger, rank, now, pc, mem, told, retold, faults>>
      /\ heard' = heard /\ wasted' = wasted /\ reverting' = reverting /\ accidents' = accidents
  BY DEF OtherWriter, told, faults
<1>2. Rows'
  BY <1>1 DEF CopyInv, Rows
<1>3. Heads'
  BY <1>1 DEF CopyInv, Heads
<1>4. Trail'
  BY <1>1 DEF CopyInv, Trail, Hold, Retellers, KeyFor, Keyed
<1>5. ASSUME NEW k \in Keys, NEW r \in Recipients
      PROVE  Paid(k, r)'
  <2>1. \A v \in Runs : Done(v, k)' = Done(v, k) /\ Holds(v, k)' = Holds(v, k)
    BY <1>1 DEF Done, Pends, Holds
  <2>2. Retold(k) \subseteq Retold(k)'
    BY <1>1, <2>1 DEF Retold, Retellers
  <2>3. Spent(k) \subseteq Spent(k)'
    BY <1>1, <2>1 DEF Spent
  <2>4. (Owes(k, r)' => Owes(k, r)) \/ Spent(k)' # Spent(k)
    <3>1. CASE \E v \in current : Done(v, k)
      <4>1. PICK v \in current : Done(v, k)
        BY <3>1
      <4>2. v \in Runs /\ pc[v] # "ended"
        BY <4>1 DEF Done, IInv, TypeOK
      <4>3. v \in Spent(k)' /\ v \notin Spent(k)
        BY <1>1, <2>1, <4>1, <4>2 DEF Spent, CopyInv, Trail
      <4>4. QED
        BY <4>3
    <3>2. CASE ~\E v \in current : Done(v, k)
      <4>1. Known(k, r) => Knows(ledger, heard[k], k, r)
        BY <3>2 DEF Known
      <4>2. Knows(ledger, heard[k], k, r) => Knows(ledger, heard[k], k, r)'
        BY <1>1 DEF Knows, Keyed
      <4>3. Knows(ledger, heard[k], k, r)' => Known(k, r)'
        BY <1>1 DEF Known
      <4>4. ~Again(k)'
        BY <1>1 DEF Again
      <4>5. QED
        BY <1>1, <4>1, <4>2, <4>3, <4>4 DEF Owes
    <3>3. QED
      BY <3>1, <3>2
  <2>5. /\ accidents <= accidents' /\ reverting \subseteq reverting' /\ Paid(k, r)
        /\ heard'[k] = heard[k] /\ copies'[k][r] = copies[k][r] /\ Heads
    BY <1>1 DEF CopyInv, AllPaid, IInv, TypeOK, told
  <2>6. QED
    BY <1>3, <2>2, <2>3, <2>4, <2>5, NoCopyBalance
<1>6. QED
  BY <1>2, <1>3, <1>4, <1>5 DEF CopyInv, AllPaid

\* The world may rise and time may pass.
LEMMA AsidePays ==
  ASSUME IInv, IInv', CopyInv, UNCHANGED <<branch, pc, mem, told, retold, faults>>,
         now <= now', \A k \in Keys : rank[k] <= rank'[k]
  PROVE  CopyInv'
<1>1. /\ ledger' = ledger /\ current' = current /\ heard' = heard /\ copies' = copies
      /\ wasted' = wasted /\ reverting' = reverting /\ accidents' = accidents
  BY DEF branch, told, faults
<1>2. Rows'
  <2>1. \A k \in Keys : /\ rank[k] \in Nat /\ rank'[k] \in Nat /\ ledger.rows[k].state \in Nat
                        /\ \A w \in Runs : mem[w].saw[k] \in Nat /\ mem[w].local.rows[k].state \in Nat
    BY DEF IInv, TypeOK, Ledger, Row
  <2>2. now' > 0
    BY DEF CopyInv, Rows, IInv, TypeOK
  <2>3. \A k \in Keys : /\ ledger.rows[k].state <= rank[k] => ledger.rows[k].state <= rank'[k]
                        /\ \A w \in Runs :
                              /\ mem[w].saw[k] <= rank[k] => mem[w].saw[k] <= rank'[k]
                              /\ mem[w].local.rows[k].state <= rank[k] => mem[w].local.rows[k].state <= rank'[k]
    BY <2>1
  <2>4. Sound(ledger, rank')
    BY <2>3 DEF CopyInv, Rows, Sound
  <2>5. ASSUME NEW w \in Runs
        PROVE  /\ Sound(mem[w].local, IF pc[w] = "lookup" THEN rank' ELSE mem[w].saw)
               /\ \A k \in Keys : mem[w].saw[k] <= rank'[k]
    BY <2>3 DEF CopyInv, Rows, Sound
  <2>6. QED
    BY <1>1, <2>2, <2>4, <2>5 DEF Rows
<1>3. Heads'
  <2>1. ASSUME NEW k \in Keys
        PROVE  IsFiniteSet(heard[k]) /\ \A s \in heard[k] : s <= rank'[k]
    <3>1. PICK a \in Nat, b \in Nat : a = rank[k] /\ b = rank'[k] /\ a <= b
      BY DEF IInv, TypeOK
    <3>2. ASSUME NEW s \in heard[k]
          PROVE  s <= b
      <4>1. s \in Nat /\ s <= a
        BY <3>1 DEF CopyInv, Heads, IInv, TypeOK
      <4>2. QED
        BY <3>1, <4>1
    <3>3. QED
      BY <3>1, <3>2 DEF CopyInv, Heads
  <2>2. \A w \in current : Headed(w) => Headed(w)'
    BY <1>1 DEF Headed
  <2>3. QED
    BY <1>1, <2>1, <2>2 DEF CopyInv, Heads
<1>4. Trail'
  BY <1>1 DEF CopyInv, Trail, Hold, Retellers, KeyFor, Keyed
<1>5. AllPaid'
  BY <1>1 DEF CopyInv, AllPaid, Paid, Bit, Owes, Known, Again, Aware, Knows, Keyed, Done, Pends, Holds,
              Spent, Retold, Retellers
<1>6. QED
  BY <1>2, <1>3, <1>4, <1>5 DEF CopyInv

-----------------------------------------------------------------------------
(* The lane. *)

LEMMA ObserveCovers ==
  ASSUME NEW L \in Ledger, NEW k \in Keys, NEW saw \in [Keys -> Nat], NEW t \in Nat, Sound(L, saw),
         NEW M, M = Observe(L, k, saw[k], t)
  PROVE  M \in Ledger /\ M.claims = L.claims /\ Covers(L, M) /\ Sound(M, saw)
<1>1. M \in Ledger /\ M.claims = L.claims
  BY ObserveTypes
<1>2. /\ \A j \in Keys \ {k} : M.rows[j] = L.rows[j]
      /\ M.rows[k].told = L.rows[k].told /\ M.rows[k].sent = L.rows[k].sent
      /\ M.rows[k].state = IF saw[k] > L.rows[k].state THEN saw[k] ELSE L.rows[k].state
  BY ObserveRows
<1>3. \A j \in Keys : L.rows[j].state \in Nat /\ saw[j] \in Nat
  BY DEF Ledger, Row
<1>4. KeepsRows(L, M)
  BY <1>2, <1>3 DEF KeepsRows
<1>5. Sound(M, saw)
  BY <1>2, <1>3 DEF Sound
<1>6. QED
  BY <1>1, <1>4, <1>5 DEF Covers, KeepsGot

LEMMA ClaimCovers ==
  ASSUME NEW L \in Ledger, NEW M, NEW k \in Keys, OnlyClaim(L, M, k), L.claims[k].got \subseteq M.claims[k].got
  PROVE  Covers(L, M) /\ \A saw : Sound(L, saw) => Sound(M, saw)
<1>1. KeepsGot(L, M)
  BY OneClaimKeeps
<1>2. KeepsRows(L, L) /\ M.rows = L.rows
  BY CoversItself DEF OnlyClaim
<1>3. QED
  BY <1>1, <1>2 DEF Covers, KeepsRows, Sound

\* Awareness that does not rest on a call of Telegram goes with the copy.
LEMMA AwareOn ==
  ASSUME IInv, NEW w \in Runs, NEW l, NEW m, Moves(w, l, m), mem[w].local \in Ledger, m.local \in Ledger,
         Covers(mem[w].local, m.local), NEW k \in Keys, NEW r, heard'[k] = heard[k],
         Knows(mem[w].local, heard[k], k, r)
  PROVE  Aware(w, k, r)'
<1>1. heard[k] \in SUBSET Nat
  BY DEF IInv, TypeOK
<1>2. Knows(m.local, heard[k], k, r)
  BY <1>1, KnowsMore
<1>3. QED
  BY <1>2 DEF Aware, Moves, Knows, Keyed

LEMMA SoundHand ==
  ASSUME IInv, CopyInv, NEW w \in Runs, pc[w] \in Working
  PROVE  /\ mem[w] \in Hands /\ mem[w].local \in Ledger /\ mem[w].saw \in [Keys -> Nat] /\ mem[w].todo \subseteq Keys
         /\ now \in Nat /\ now > 0 /\ Sound(mem[w].local, mem[w].saw) /\ Covers(mem[w].local, mem[w].local)
         /\ Shaped(w, pc[w], mem[w])
<1>1. mem[w] \in Hands /\ mem[w].local \in Ledger /\ mem[w].saw \in [Keys -> Nat] /\ mem[w].todo \subseteq Keys
      /\ Shaped(w, pc[w], mem[w])
  BY RunsOfTypes DEF RunsInv, Shape, Hands
<1>2. now \in Nat /\ now > 0 /\ Sound(mem[w].local, mem[w].saw)
  BY DEF IInv, TypeOK, CopyInv, Rows, Working
<1>3. QED
  BY <1>1, <1>2, CoversItself

LEMMA GatePays ==
  ASSUME IInv, IInv', CopyInv, NEW w \in Runs, Gate(w)
  PROVE  CopyInv'
<1>1. /\ pc[w] = "gate" /\ UNCHANGED <<branch, rank, now, told, wasted, reverting>>
      /\ retold' = retold /\ accidents' = accidents /\ pc[w] \in Working
  BY DEF Gate, world, faults, Working
<1>2. /\ mem[w] \in Hands /\ Sound(mem[w].local, mem[w].saw) /\ Covers(mem[w].local, mem[w].local)
  BY <1>1, SoundHand
<1>3. \A k \in Keys : ~Done(w, k) /\ <<w, k>> \notin retold
  BY <1>1 DEF Done, CopyInv, Trail, Retellers, After
<1>4. CASE Ends(w)
  BY <1>1, <1>3, <1>4, EndsPays
<1>5. ASSUME NEW todo, Goto(w, "choose", [mem[w] EXCEPT !.todo = todo]), w \in Monitors => todo = mem[w].todo
      PROVE  CopyInv'
  <2> DEFINE m == [mem[w] EXCEPT !.todo = todo]
  <2>1. m.local = mem[w].local /\ m.saw = mem[w].saw /\ m.todo = todo
    BY <1>2 DEF Hands
  <2>2. Moves(w, "choose", m)
    BY <1>5, RunsMove
  <2> HIDE DEF m
  <2>3. pc'[w] = "choose" /\ mem'[w] = m
    BY <2>2 DEF Moves
  <2>4. Hold(w)'
    BY <2>3 DEF Hold
  <2>5. \A k \in Keys : (Pends(w, k)' => Pends(w, k)) /\ (Done(w, k) => Done(w, k)')
    BY <1>1, <1>3, <1>5, <2>1, <2>3 DEF Pends, Holds
  <2>6. /\ Sound(m.local, m.saw) /\ Covers(mem[w].local, m.local) /\ "choose" \in Working /\ "choose" # "claimed"
        /\ retold \subseteq retold' /\ retold' \subseteq retold \cup ({w} \X Keys)
        /\ \A k \in Keys : <<w, k>> \notin retold'
    BY <1>1, <1>2, <1>3, <2>1 DEF Working
  <2>7. \A k \in Keys, r \in Recipients : ~(Done(w, k) /\ Aware(w, k, r))
    BY <1>3
  <2>8. QED
    BY <1>1, <2>1, <2>2, <2>4, <2>5, <2>6, <2>7, LanePays
<1>6. CASE w \in Monitors /\ Goto(w, "choose", mem[w])
  <2>1. mem[w] = [mem[w] EXCEPT !.todo = mem[w].todo]
    BY <1>2 DEF Hands
  <2>2. QED
    BY <1>5, <1>6, <2>1
<1>7. CASE w \in Schedulers /\ \E todo \in {Seen(w), {AnchorOf[w]}} : Goto(w, "choose", [mem[w] EXCEPT !.todo = todo])
  BY <1>5, <1>7, ConstantFacts
<1>8. QED
  BY <1>4, <1>6, <1>7 DEF Gate

LEMMA PassOverPays ==
  ASSUME IInv, IInv', CopyInv, NEW w \in Runs, NEW k \in Keys, PassOver(w, k)
  PROVE  CopyInv'
<1> DEFINE L    == mem[w].local
           next == IF k \in Events /\ Unclaimed(L, k) THEN Observe(L, k, mem[w].saw[k], now) ELSE L
           m    == [mem[w] EXCEPT !.todo = @ \ {k}, !.local = next]
<1>1. /\ pc[w] = "choose" /\ UNCHANGED <<branch, rank, now, told, wasted, reverting>>
      /\ retold' = retold /\ accidents' = accidents /\ pc[w] \in Working /\ heard' = heard
  BY DEF PassOver, world, faults, told, Working
<1>2. /\ mem[w] \in Hands /\ L \in Ledger /\ mem[w].saw \in [Keys -> Nat] /\ now \in Nat
      /\ Sound(L, mem[w].saw) /\ Covers(L, L)
  BY <1>1, SoundHand
<1>3. next \in Ledger /\ Covers(L, next) /\ Sound(next, mem[w].saw)
  BY <1>2, ObserveCovers
<1>4. Goto(w, "choose", m)
  BY DEF PassOver
<1> HIDE DEF next
<1>5. m.local = next /\ m.todo = mem[w].todo \ {k} /\ m.saw = mem[w].saw
  BY <1>2 DEF Hands
<1>6. Moves(w, "choose", m)
  BY <1>4, RunsMove
<1> HIDE DEF m
<1>7. pc'[w] = "choose" /\ mem'[w] = m
  BY <1>6 DEF Moves
<1>8. Hold(w)' /\ \A j \in Keys : <<w, j>> \notin retold
  BY <1>1, <1>7 DEF Hold, CopyInv, Trail, Retellers, After
<1>9. \A j \in Keys : (Pends(w, j)' => Pends(w, j)) /\ (Done(w, j) => Done(w, j)')
  BY <1>1, <1>5, <1>7 DEF Pends, Holds, Done
<1>10. ASSUME NEW j \in Keys, NEW r \in Recipients, Aware(w, j, r)
       PROVE  Aware(w, j, r)'
  <2>1. Knows(L, heard[j], j, r)
    BY <1>1, <1>10 DEF Aware
  <2>2. QED
    BY <1>1, <1>2, <1>3, <1>5, <1>6, <2>1, AwareOn
<1>11. QED
  BY <1>1, <1>3, <1>5, <1>6, <1>8, <1>9, <1>10, LanePays DEF Working

LEMMA ClaimsPays ==
  ASSUME IInv, IInv', CopyInv, NEW w \in Runs, NEW k \in Keys, Claims(w, k)
  PROVE  CopyInv'
<1> DEFINE L    == mem[w].local
           saw  == mem[w].saw
           seen == IF k \in Priority \cup Anchors THEN L ELSE Observe(L, k, saw[k], now)
           j    == KeyFor(w, k)
<1>1. /\ pc[w] = "choose" /\ UNCHANGED <<branch, rank, now, told, wasted, reverting>> /\ k \in mem[w].todo
      /\ accidents' = accidents /\ pc[w] \in Working /\ heard' = heard /\ ledger' = ledger /\ current' = current
  BY DEF Claims, world, faults, told, Working, branch
<1>2. /\ mem[w] \in Hands /\ L \in Ledger /\ saw \in [Keys -> Nat] /\ now \in Nat
      /\ Sound(L, saw) /\ Covers(L, L) /\ Shaped(w, "choose", mem[w])
  BY <1>1, SoundHand
<1>3. seen \in Ledger /\ seen.claims = L.claims /\ Covers(L, seen) /\ Sound(seen, saw)
  <2>1. PICK O : O = Observe(L, k, saw[k], now)
    OBVIOUS
  <2>2. O \in Ledger /\ O.claims = L.claims /\ Covers(L, O) /\ Sound(O, saw)
    BY <1>2, <2>1, ObserveCovers
  <2>3. seen = O \/ seen = L
    BY <2>1
  <2> HIDE DEF seen
  <2>4. QED
    BY <1>2, <2>2, <2>3
<1>4. PICK answer : answer = Asks(w, k, seen)
  OBVIOUS
<1> DEFINE after == [mem[w] EXCEPT !.local = answer.ledger, !.todo = @ \ {k}]
           held  == [key |-> j, event |-> k, pending |-> answer.pending]
           m     == [after EXCEPT !.held = held]
<1>5. \/ /\ answer.status = "claimed" /\ Goto(w, "claimed", m)
         /\ retold' = IF j # k /\ L.rows[k].told > 0 /\ ~Changed(L.rows[k], saw[k])
                      THEN retold \cup {<<w, k>>} ELSE retold
      \/ /\ answer.status # "claimed" /\ retold' = retold
         /\ IF w \in Monitors THEN Goto(w, "choose", after) ELSE Ends(w)
  BY <1>4 DEF Claims
<1> HIDE DEF seen
<1>6. /\ j \in Keys /\ answer.ledger \in Ledger /\ OnlyClaim(seen, answer.ledger, j)
      /\ seen.claims[j].got \subseteq answer.ledger.claims[j].got
      /\ answer.status = "claimed" => answer.pending \cap answer.ledger.claims[j].got = {}
  BY <1>3, <1>4, AsksAnswers
<1>7. Covers(L, answer.ledger) /\ Sound(answer.ledger, saw)
  <2>1. Covers(seen, answer.ledger) /\ Sound(answer.ledger, saw)
    BY <1>3, <1>6, ClaimCovers
  <2>2. QED
    BY <1>2, <1>3, <1>6, <2>1, CoversOn
<1>8. /\ after.local = answer.ledger /\ after.todo = mem[w].todo \ {k} /\ after.saw = saw
      /\ m.local = answer.ledger /\ m.todo = mem[w].todo \ {k} /\ m.saw = saw
      /\ m.held.key = j /\ m.held.event = k /\ m.held.pending = answer.pending
  BY <1>2 DEF Hands
<1>9. \A i \in Keys : <<w, i>> \notin retold
  BY <1>1 DEF CopyInv, Trail, Retellers, After
<1>10. /\ w \in Monitors => j = k /\ k \notin Anchors
       /\ k \in Anchors => j = k
       /\ w \notin Monitors => \A i \in Keys : ~Done(w, i)
  BY <1>1, <1>2, ConstantFacts, DeliveryAssumption DEF KeyFor, Shaped, Events, Done
<1>11. ASSUME NEW n \in {after, m}, NEW l, Moves(w, l, n), NEW i \in Keys, NEW r \in Recipients, Aware(w, i, r)
       PROVE  Aware(w, i, r)'
  <2>1. Knows(L, heard[i], i, r)
    BY <1>1, <1>11 DEF Aware
  <2>2. n.local = answer.ledger
    BY <1>8
  <2>3. QED
    BY <1>1, <1>2, <1>6, <1>7, <1>11, <2>1, <2>2, AwareOn
<1> HIDE DEF after, m, held
<1>12. CASE answer.status = "claimed"
  <2>1. Moves(w, "claimed", m) /\ pc'[w] = "claimed" /\ mem'[w] = m
    BY <1>5, <1>12, RunsMove DEF Moves
  <2>2. /\ retold \subseteq retold' /\ retold' \subseteq retold \cup ({w} \X Keys)
        /\ \A i \in Keys : <<w, i>> \in retold' => w \in Schedulers /\ "claimed" \in After
    BY <1>5, <1>9, <1>10, <1>12, ConstantFacts DEF After
  <2>3. Hold(w)'
    <3>1. ASSUME Keyed(k)
          PROVE  answer.pending \cap answer.ledger.claims[k].got = {}
      <4>1. j = k
        BY <1>10, <3>1 DEF Keyed, KeyFor
      <4>2. QED
        BY <1>6, <1>12, <4>1
    <3>2. ASSUME ~Keyed(k), w \in current \ Monitors, <<w, k>> \notin retold'
          PROVE  ledger.rows[k].told = 0 \/ ledger.rows[k].state < saw[k]
      <4>1. j # k
        BY <3>2, ConstantFacts DEF Keyed, KeyFor
      <4>2. ~(L.rows[k].told > 0) \/ saw[k] > L.rows[k].state
        BY <1>5, <1>12, <3>2, <4>1 DEF Changed
      <4>3. Covers(ledger, L) /\ ledger \in Ledger
        BY <1>1, <3>2, WorkerIsNew, HeadCovered DEF CopyInv
      <4>4. PICK a \in Nat, b \in Nat, s \in Nat, t \in Nat :
              a = ledger.rows[k].state /\ b = L.rows[k].state /\ s = saw[k] /\ t = ledger.rows[k].told
        BY <1>2, <4>3 DEF Ledger, Row
      <4>5. a <= b /\ (t > 0 => L.rows[k].told > 0)
        BY <4>3, <4>4 DEF Covers, KeepsRows
      <4>6. t = 0 \/ a < s
        BY <4>2, <4>4, <4>5
      <4>7. QED
        BY <4>4, <4>6
    <3>3. KeyFor(w, k)' = j /\ Keyed(k)' = Keyed(k) /\ (w \in Retellers(k)' <=> <<w, k>> \in retold')
      BY DEF KeyFor, Keyed, Retellers
    <3>4. QED
      BY <1>1, <1>8, <1>10, <2>1, <3>1, <3>2, <3>3 DEF Hold
  <2>4. \A i \in Keys : (Pends(w, i)' => Pends(w, i)) /\ (Done(w, i) => Done(w, i)')
    BY <1>1, <1>8, <1>10, <2>1 DEF Pends, Holds, Done
  <2>5. \A i \in Keys, r \in Recipients : Aware(w, i, r) => Aware(w, i, r)'
    BY <1>11, <2>1
  <2>6. QED
    BY <1>1, <1>7, <1>8, <2>1, <2>2, <2>3, <2>4, <2>5, LanePays DEF Working
<1>13. CASE answer.status # "claimed" /\ w \in Monitors
  <2>1. Moves(w, "choose", after) /\ pc'[w] = "choose" /\ mem'[w] = after /\ retold' = retold
    BY <1>5, <1>13, RunsMove DEF Moves
  <2>2. Hold(w)'
    BY <2>1 DEF Hold
  <2>3. \A i \in Keys : (Pends(w, i)' => Pends(w, i)) /\ (Done(w, i) => Done(w, i)')
    BY <1>1, <1>8, <2>1 DEF Pends, Holds, Done
  <2>4. \A i \in Keys, r \in Recipients : Aware(w, i, r) => Aware(w, i, r)'
    BY <1>11, <2>1
  <2>5. QED
    BY <1>1, <1>7, <1>8, <1>9, <2>1, <2>2, <2>3, <2>4, LanePays DEF Working
<1>14. CASE answer.status # "claimed" /\ w \notin Monitors
  <2>1. Ends(w) /\ retold' = retold
    BY <1>5, <1>14
  <2>2. QED
    BY <1>1, <1>10, <1>14, <2>1, EndsPays
<1>15. QED
  BY <1>12, <1>13, <1>14

LEMMA NoCandidatePays ==
  ASSUME IInv, IInv', CopyInv, NEW w \in Runs, NoCandidate(w)
  PROVE  CopyInv'
<1>1. /\ pc[w] = "choose" /\ UNCHANGED <<branch, rank, now, told, wasted, reverting>> /\ mem[w].todo = {}
      /\ retold' = retold /\ accidents' = accidents /\ pc[w] \in Working /\ heard' = heard
  BY DEF NoCandidate, world, faults, told, Working
<1>2. /\ mem[w].local \in Ledger /\ Sound(mem[w].local, mem[w].saw) /\ Covers(mem[w].local, mem[w].local)
  BY <1>1, SoundHand
<1>3. CASE w \in Monitors
  <2>1. Goto(w, "store", mem[w])
    BY <1>3 DEF NoCandidate
  <2>2. Moves(w, "store", mem[w]) /\ pc'[w] = "store" /\ mem'[w] = mem[w]
    BY <2>1, RunsMove DEF Moves
  <2>3. Hold(w)' /\ \A k \in Keys : <<w, k>> \notin retold
    BY <1>1, <2>2 DEF Hold, CopyInv, Trail, Retellers, After
  <2>4. \A k \in Keys : (Pends(w, k)' => Pends(w, k)) /\ (Done(w, k) => Done(w, k)')
    BY <1>1, <1>3, <2>2 DEF Pends, Holds, Done
  <2>5. ASSUME NEW k \in Keys, NEW r \in Recipients, Aware(w, k, r)
        PROVE  Aware(w, k, r)'
    <3>1. Knows(mem[w].local, heard[k], k, r)
      BY <1>1, <2>5 DEF Aware
    <3>2. QED
      BY <1>1, <1>2, <2>2, <3>1, AwareOn
  <2>6. QED
    BY <1>1, <1>2, <2>2, <2>3, <2>4, <2>5, LanePays DEF Working
<1>4. CASE w \notin Monitors
  <2>1. Ends(w) /\ \A k \in Keys : ~Done(w, k)
    BY <1>1, <1>4 DEF NoCandidate, Done
  <2>2. QED
    BY <1>1, <2>1, EndsPays
<1>5. QED
  BY <1>3, <1>4

\* What Drop leaves in the hand.
LEMMA DropHand ==
  ASSUME NEW m \in Hands, NEW L, NEW ok
  PROVE  /\ Drop(m, L, ok).local = L /\ Drop(m, L, ok).todo = m.todo /\ Drop(m, L, ok).saw = m.saw
         /\ Drop(m, L, ok).confirmed = {} /\ Drop(m, L, ok).held = NoClaimHeld
BY DEF Drop, Hands

LEMMA SendRaisesPays ==
  ASSUME IInv, IInv', CopyInv, NEW w \in Runs, SendRaises(w)
  PROVE  CopyInv'
<1> DEFINE c == mem[w]
<1>1. /\ pc[w] = "claimed" /\ UNCHANGED <<branch, rank, now, told, wasted, reverting>>
      /\ retold' = retold /\ accidents' = accidents /\ pc[w] \in Working /\ heard' = heard
  BY DEF SendRaises, world, faults, told, Working
<1>2. /\ c \in Hands /\ c.local \in Ledger /\ Sound(c.local, c.saw) /\ now \in Nat /\ Shaped(w, "claimed", c)
  BY <1>1, SoundHand
<1>3. CASE w \in Monitors
  <2>1. PICK M : M = CompleteClaim(c.local, c.held.key, {}, TRUE, now)
    OBVIOUS
  <2>2. /\ M \in Ledger /\ OnlyClaim(c.local, M, c.held.key)
        /\ c.local.claims[c.held.key].got \subseteq M.claims[c.held.key].got /\ c.held.key \in Keys
    <3>1. c.held.key \in Keys /\ {} \in SUBSET Recipients /\ TRUE \in BOOLEAN
      BY <1>2 DEF Shaped
    <3>2. QED
      BY <1>2, <2>1, <3>1, CompleteTypes
  <2>3. Covers(c.local, M) /\ Sound(M, c.saw)
    BY <1>2, <2>2, ClaimCovers
  <2>4. PICK no, m : no = FALSE /\ m = Drop(c, M, no)
    OBVIOUS
  <2>5. Goto(w, "choose", m)
    BY <1>3, <2>1, <2>4 DEF SendRaises
  <2>6. m.local = M /\ m.todo = c.todo /\ m.saw = c.saw
    BY <1>2, <2>4, DropHand
  <2>7. Moves(w, "choose", m) /\ pc'[w] = "choose" /\ mem'[w] = m
    BY <2>5, RunsMove DEF Moves
  <2>8. Hold(w)' /\ \A k \in Keys : <<w, k>> \notin retold
    BY <1>3, <2>7, ConstantFacts DEF Hold, CopyInv, Trail, Retellers
  <2>9. \A k \in Keys : (Pends(w, k)' => Pends(w, k)) /\ (Done(w, k) => Done(w, k)')
    BY <1>1, <1>3, <2>6, <2>7 DEF Pends, Holds, Done
  <2>10. ASSUME NEW k \in Keys, NEW r \in Recipients, Aware(w, k, r)
         PROVE  Aware(w, k, r)'
    <3>1. Knows(c.local, heard[k], k, r)
      BY <1>1, <2>10 DEF Aware
    <3>2. QED
      BY <1>1, <1>2, <2>2, <2>3, <2>6, <2>7, <3>1, AwareOn
  <2>11. QED
    BY <1>1, <2>3, <2>6, <2>7, <2>8, <2>9, <2>10, LanePays DEF Working
<1>4. CASE w \notin Monitors
  <2>1. Ends(w) /\ \A k \in Keys : ~Done(w, k)
    BY <1>1, <1>4 DEF SendRaises, Done
  <2>2. QED
    BY <1>1, <2>1, EndsPays
<1>5. QED
  BY <1>3, <1>4

\* What a recorded delivery makes of the ledger of a closed claim.
LEMMA RecordCovers ==
  ASSUME NEW D \in Ledger, NEW k \in Keys, NEW saw \in [Keys -> Nat], NEW t \in Nat, t > 0,
         NEW fj \in SUBSET Recipients, NEW trace \in Traces, Sound(D, saw),
         NEW s \in Nat, s = saw[k], NEW said, said = RecordDelivery(D, k, s, trace, fj, t)
  PROVE  /\ said \in Ledger /\ said.claims = D.claims /\ Covers(D, said) /\ Sound(said, saw)
         /\ said.rows[k].told > 0 /\ said.rows[k].state = s
<1>1. said \in Ledger /\ said.claims = D.claims
  BY RecordTypes
<1>2. /\ \A i \in Keys \ {k} : said.rows[i] = D.rows[i]
      /\ said.rows[k].told > 0 /\ said.rows[k].state = s
  <2>1. D.rows[k].state <= s /\ (D.rows[k].sent # {} => D.rows[k].told > 0)
    BY DEF Sound
  <2>2. QED
    BY <2>1, RecordRows
<1>3. \A i \in Keys : /\ D.rows[i].state \in Nat /\ saw[i] \in Nat
                      /\ D.rows[i].state <= saw[i] /\ (D.rows[i].sent # {} => D.rows[i].told > 0)
  BY DEF Ledger, Row, Sound
<1>4. Sound(said, saw) /\ KeepsRows(D, said)
  <2>1. ASSUME NEW i \in Keys
        PROVE  /\ said.rows[i].state <= saw[i] /\ (said.rows[i].sent # {} => said.rows[i].told > 0)
               /\ D.rows[i].told > 0 => said.rows[i].told > 0
               /\ D.rows[i].state <= said.rows[i].state
    <3>1. CASE i = k
      BY <1>2, <1>3, <3>1
    <3>2. CASE i # k
      BY <1>2, <1>3, <3>2
    <3>3. QED
      BY <3>1, <3>2
  <2>2. QED
    BY <2>1 DEF Sound, KeepsRows
<1>5. Covers(D, said)
  BY <1>1, <1>4 DEF Covers, KeepsGot
<1>6. QED
  BY <1>1, <1>2, <1>4, <1>5

\* What a run confirmed of an event is in the ledger it closes the claim in.
LEMMA CloseKnows ==
  ASSUME IInv, CopyInv, NEW w \in Runs, pc[w] = "sent",
         NEW k, k = mem[w].held.event, NEW fj \in SUBSET Recipients,
         NEW done \in Ledger, OnlyClaim(mem[w].local, done, mem[w].held.key),
         mem[w].local.claims[mem[w].held.key].got \cup mem[w].confirmed \subseteq done.claims[mem[w].held.key].got,
         NEW said, said = RecordDelivery(done, k, mem[w].saw[k], TraceOf(w, k), fj, now)
  PROVE  /\ k \in Keys /\ said \in Ledger
         /\ Covers(mem[w].local, done) /\ Sound(done, mem[w].saw)
         /\ Covers(mem[w].local, said) /\ Sound(said, mem[w].saw)
         /\ \A r \in mem[w].confirmed : w \in current => Knows(said, heard[k], k, r)
<1>1. /\ mem[w] \in Hands /\ mem[w].local \in Ledger /\ Sound(mem[w].local, mem[w].saw) /\ now \in Nat /\ now > 0
      /\ mem[w].saw \in [Keys -> Nat] /\ Shaped(w, "sent", mem[w])
  BY SoundHand DEF Working
<1>2. k \in Keys /\ mem[w].held.key \in Keys /\ mem[w].confirmed \in SUBSET Recipients
  BY <1>1 DEF Shaped, Hands
<1>3. PICK L \in Ledger, j \in Keys, saw \in [Keys -> Nat], t \in Nat, ok \in SUBSET Recipients, trace \in Traces :
        /\ L = mem[w].local /\ j = mem[w].held.key /\ saw = mem[w].saw /\ t = now /\ ok = mem[w].confirmed
        /\ trace = TraceOf(w, k) /\ t > 0 /\ Sound(L, saw)
  BY <1>1, <1>2, TraceTypes
<1>4. /\ OnlyClaim(L, done, j) /\ L.claims[j].got \cup ok \subseteq done.claims[j].got
      /\ said = RecordDelivery(done, k, saw[k], trace, fj, t)
  BY <1>3
<1>5. Covers(L, done) /\ Sound(done, saw)
  <2>1. L.claims[j].got \subseteq done.claims[j].got
    BY <1>4
  <2>2. Covers(L, done)
    BY <1>4, <2>1, ClaimCovers
  <2>3. Sound(done, saw)
    BY <1>3, <1>4 DEF OnlyClaim, Sound
  <2>4. QED
    BY <2>2, <2>3
<1>6. /\ said \in Ledger /\ said.claims = done.claims /\ Covers(done, said) /\ Sound(said, saw)
      /\ said.rows[k].told > 0 /\ said.rows[k].state = saw[k]
  <2>1. PICK s \in Nat : s = saw[k]
    BY <1>2
  <2>2. said = RecordDelivery(done, k, s, trace, fj, t) /\ t > 0 /\ k \in Keys
    BY <1>2, <1>3, <1>4, <2>1
  <2>3. /\ said \in Ledger /\ said.claims = done.claims /\ Covers(done, said) /\ Sound(said, saw)
        /\ said.rows[k].told > 0 /\ said.rows[k].state = s
    BY <1>5, <2>1, <2>2, RecordCovers
  <2>4. QED
    BY <2>1, <2>3
<1>7. ok \subseteq said.claims[j].got /\ Covers(L, said)
  <2>1. ok \subseteq said.claims[j].got
    BY <1>4, <1>6
  <2>2. Covers(L, said)
    BY <1>5, <1>6, CoversOn
  <2>3. QED
    BY <2>1, <2>2
<1>8. ASSUME NEW r \in ok, w \in current
      PROVE  Knows(said, heard[k], k, r)
  <2>1. CASE Keyed(k)
    <3>1. j = k
      BY <1>3, <2>1, ConstantFacts DEF CopyInv, Trail, Hold, KeyFor, Keyed
    <3>2. QED
      BY <1>7, <2>1, <3>1 DEF Knows
  <2>2. CASE ~Keyed(k)
    <3>1. \A s \in heard[k] : s <= saw[k]
      BY <1>2, <1>3, <1>8 DEF CopyInv, Heads, Headed
    <3>2. QED
      BY <1>6, <2>2, <3>1 DEF Knows
  <2>3. QED
    BY <2>1, <2>2
<1>9. QED
  BY <1>2, <1>3, <1>5, <1>8, <1>6, <1>7

LEMMA ClosePays ==
  ASSUME IInv, IInv', CopyInv, NEW w \in Runs, Close(w)
  PROVE  CopyInv'
<1> DEFINE c  == mem[w]
           k  == c.held.event
           fj == IF k \in Priority THEN c.confirmed ELSE {}
           ok == c.confirmed = c.held.pending
<1>1. /\ pc[w] = "sent" /\ UNCHANGED <<branch, rank, now, told, wasted, reverting>>
      /\ retold' = retold /\ accidents' = accidents /\ pc[w] \in Working /\ heard' = heard
  BY DEF Close, world, faults, told, Working
<1>2. /\ c \in Hands /\ c.local \in Ledger /\ fj \in SUBSET Recipients /\ c.held.key \in Keys
  <2>1. c \in Hands /\ c.local \in Ledger /\ Shaped(w, "sent", c)
    BY <1>1, SoundHand
  <2>2. QED
    BY <2>1 DEF Hands, Shaped
<1>3. PICK done : done = CompleteClaim(c.local, c.held.key, c.confirmed, FALSE, now)
  OBVIOUS
<1>4. PICK said : said = RecordDelivery(done, k, c.saw[k], TraceOf(w, k), fj, now)
  OBVIOUS
<1>5. /\ k \in Keys /\ done \in Ledger /\ said \in Ledger
      /\ Covers(c.local, done) /\ Sound(done, c.saw)
      /\ Covers(c.local, said) /\ Sound(said, c.saw)
      /\ \A r \in c.confirmed : w \in current => Knows(said, heard[k], k, r)
  <2>1. c.confirmed \in SUBSET Recipients /\ now \in Nat /\ FALSE \in BOOLEAN
    BY <1>2 DEF Hands, IInv, TypeOK
  <2>2. /\ done \in Ledger /\ OnlyClaim(c.local, done, c.held.key)
        /\ c.local.claims[c.held.key].got \cup c.confirmed \subseteq done.claims[c.held.key].got
    BY <1>2, <1>3, <2>1, CompleteTypes
  <2>3. QED
    BY <1>1, <1>2, <1>4, <2>2, CloseKnows
<1>6. /\ w \in Monitors => Goto(w, "choose", Drop(c, IF c.confirmed = {} THEN done ELSE said, ok))
      /\ w \notin Monitors =>
            \/ Goto(w, "store", Drop(c, said, ok))
            \/ c.confirmed = {} /\ Ends(w)
  BY <1>3, <1>4 DEF Close
<1> HIDE DEF fj, ok
<1>7. ASSUME NEW l \in {"choose", "store"}, l = "choose" <=> w \in Monitors,
             NEW L \in {done, said}, L = said \/ c.confirmed = {}, Goto(w, l, Drop(c, L, ok))
      PROVE  CopyInv'
  <2>1. PICK m : m = Drop(c, L, ok)
    OBVIOUS
  <2>2. m.local = L /\ m.todo = c.todo /\ m.saw = c.saw /\ m.confirmed = {}
    BY <1>2, <2>1, DropHand
  <2>3. Moves(w, l, m) /\ pc'[w] = l /\ mem'[w] = m
    BY <1>7, <2>1, RunsMove DEF Moves
  <2>4. Covers(c.local, m.local) /\ Sound(m.local, m.saw) /\ m.local \in Ledger
    BY <1>5, <2>2
  <2>5. Hold(w)'
    BY <1>7, <2>3 DEF Hold
  <2>6. \A j \in Keys : <<w, j>> \in retold' => w \in Schedulers /\ l \in After
    <3>1. \A j \in Keys : <<w, j>> \in retold' => w \in Schedulers
      BY <1>1 DEF CopyInv, Trail, Retellers
    <3>2. w \in Schedulers => l = "store"
      BY <1>7, ConstantFacts
    <3>3. QED
      BY <3>1, <3>2 DEF After
  <2>7. \A j \in Keys : (Pends(w, j)' => Pends(w, j)) /\ (Done(w, j) => Done(w, j)')
    BY <1>1, <1>7, <2>2, <2>3 DEF Pends, Holds, Done
  <2>8. ASSUME NEW j \in Keys, NEW r \in Recipients, w \in current, Aware(w, j, r)
        PROVE  Aware(w, j, r)'
    <3>1. CASE Knows(c.local, heard[j], j, r)
      BY <1>1, <1>2, <2>3, <2>4, <3>1, AwareOn
    <3>2. CASE j = k /\ r \in c.confirmed
      <4>1. L = said
        BY <1>7, <3>2
      <4>2. Knows(said, heard[j], j, r)
        BY <1>5, <2>8, <3>2
      <4>3. QED
        BY <1>1, <2>2, <2>3, <4>1, <4>2 DEF Aware, Knows, Keyed
    <3>3. QED
      BY <2>8, <3>1, <3>2 DEF Aware
  <2>9. l \in Working /\ l # "claimed"
    BY <1>7 DEF Working
  <2>10. QED
    BY <1>1, <2>2, <2>3, <2>4, <2>5, <2>6, <2>7, <2>8, <2>9, LanePays
<1>8. CASE w \in Monitors
  <2>1. PICK L \in {done, said} : L = IF c.confirmed = {} THEN done ELSE said
    OBVIOUS
  <2>2. Goto(w, "choose", Drop(c, L, ok)) /\ (L = said \/ c.confirmed = {})
    BY <1>6, <1>8, <2>1
  <2>3. QED
    BY <1>7, <1>8, <2>2
<1>9. CASE w \notin Monitors /\ Goto(w, "store", Drop(c, said, ok))
  BY <1>7, <1>9
<1>10. CASE w \notin Monitors /\ c.confirmed = {} /\ Ends(w)
  <2>1. \A j \in Keys : ~Done(w, j)
    BY <1>1, <1>10 DEF Done
  <2>2. QED
    BY <1>1, <1>10, <2>1, EndsPays
<1>11. QED
  BY <1>6, <1>8, <1>9, <1>10

\* Every fault pays for what it makes a ledger forget.
LEMMA FaultsPay ==
  ASSUME IInv, IInv', CopyInv, NEW w \in Runs, Killed(w) \/ ItemBreaks(w)
  PROVE  CopyInv'
<1>1. /\ accidents < accidents' /\ UNCHANGED <<branch, rank, now, told, retold, wasted, reverting>>
      /\ pc[w] # "ended"
  <2>1. accidents' = accidents + 1 /\ accidents \in Nat
    BY DEF Killed, ItemBreaks, Accident, IInv, TypeOK
  <2>2. UNCHANGED <<branch, rank, now, told, retold, wasted, reverting>> /\ pc[w] # "ended"
    BY DEF Killed, ItemBreaks, world
  <2>3. QED
    BY <2>1, <2>2
<1>2. CASE Killed(w)
  BY <1>1, <1>2, EndsPays DEF Killed
<1>3. CASE ItemBreaks(w)
  <2>1. pc[w] = "sent" /\ w \in Monitors /\ pc[w] \in Working /\ "choose" \in Working
    BY <1>3 DEF ItemBreaks, Working
  <2>2. /\ mem[w] \in Hands /\ mem[w].local \in Ledger /\ Sound(mem[w].local, mem[w].saw)
        /\ Covers(mem[w].local, mem[w].local)
    BY <2>1, SoundHand
  <2>3. PICK no, m : no = FALSE /\ m = Drop(mem[w], mem[w].local, no)
    OBVIOUS
  <2>4. m.local = mem[w].local /\ m.todo = mem[w].todo /\ m.saw = mem[w].saw
    BY <2>2, <2>3, DropHand
  <2>5. Goto(w, "choose", m)
    BY <1>3, <2>3 DEF ItemBreaks
  <2>6. Moves(w, "choose", m) /\ pc'[w] = "choose" /\ mem'[w] = m
    BY <2>5, RunsMove DEF Moves
  <2>7. Hold(w)' /\ \A k \in Keys : <<w, k>> \notin retold
    BY <2>1, <2>6, ConstantFacts DEF Hold, CopyInv, Trail, Retellers
  <2>8. \A k \in Keys : (Pends(w, k)' => Pends(w, k)) /\ (Done(w, k) => Done(w, k)')
    BY <2>1, <2>4, <2>6 DEF Pends, Holds, Done
  <2>9. Covers(mem[w].local, m.local) /\ Sound(m.local, m.saw)
    BY <2>2, <2>4
  <2>10. retold' = retold
    BY <1>1
  <2>11. QED
    BY <1>1, <2>1, <2>4, <2>6, <2>7, <2>8, <2>9, <2>10, LanePays
<1>4. QED
  BY <1>2, <1>3

\* The run that has the head calls Telegram for an event: a confirmed recipient is owed
\* nothing after it, and was owed, or hears news, or is told again under an anchor.
LEMMA ConfirmedIsPaid ==
  ASSUME IInv, IInv', CopyInv, Heads', NEW w \in current, pc[w] = "claimed",
         NEW k \in Keys, k = mem[w].held.event, NEW m, Moves(w, "sent", m),
         m.local = mem[w].local, m.saw = mem[w].saw, m.todo = mem[w].todo, m.held = mem[w].held,
         NEW r \in m.confirmed, r \in mem[w].held.pending, Done(w, k)',
         UNCHANGED <<branch, retold>>, mem[w].saw[k] \in heard'[k]
  PROVE  /\ ~Owes(k, r)'
         /\ heard'[k] # heard[k] \/ Retold(k)' # Retold(k) \/ Owes(k, r)
<1>1. /\ w \in Runs /\ pc'[w] = "sent" /\ mem'[w] = m /\ ledger' = ledger /\ current' = current
      /\ retold' = retold /\ pc[w] \in Working /\ Heads /\ Hold(w)
  BY DEF IInv, TypeOK, Moves, branch, Working, CopyInv, Trail
<1>2. \A v \in current : v # w => ~Done(v, k) /\ ~Done(v, k)' /\ pc'[v] \notin Working
  <2>1. SUFFICES ASSUME NEW v \in current, v # w
                 PROVE  ~Done(v, k) /\ ~Done(v, k)' /\ pc'[v] \notin Working
    OBVIOUS
  <2>2. ~Done(v, k) /\ pc[v] \notin Working
    BY <1>1, <2>1, SoleWorker
  <2>3. pc'[v] = pc[v]
    BY <2>1 DEF Moves, IInv, TypeOK
  <2>4. ~Done(v, k)'
    BY <2>2, <2>3 DEF Done, Working
  <2>5. QED
    BY <2>2, <2>3, <2>4
<1>3. ~Owes(k, r)'
  <2>1. Aware(w, k, r)'
    BY <1>1 DEF Aware
  <2>2. Known(k, r)'
    BY <1>1, <1>2, <2>1 DEF Known
  <2>3. ~Again(k)'
    <3>1. ~Pends(w, k)'
      BY <1>1 DEF Done, Pends
    <3>2. QED
      BY <1>1, <1>2, <3>1 DEF Again
  <2>4. QED
    BY <2>2, <2>3 DEF Owes
<1>4. ASSUME heard'[k] = heard[k], Retold(k)' = Retold(k), ~Owes(k, r)
      PROVE  FALSE
  <2>1. mem[w].saw[k] \in heard[k] /\ Known(k, r) /\ ~Again(k)
    BY <1>4 DEF Owes
  <2>2. Holds(w, k) /\ ~Done(w, k)
    BY <1>1 DEF Holds, Done, Pends
  <2>3. Knows(ledger, heard[k], k, r)
    BY <1>2, <2>1, <2>2 DEF Known
  <2>4. CASE Keyed(k)
    <3>1. Covers(ledger, mem[w].local)
      BY <1>1, WorkerIsNew, HeadCovered
    <3>2. r \in mem[w].local.claims[k].got
      BY <2>3, <2>4, <3>1 DEF Knows, Covers, KeepsGot
    <3>3. QED
      BY <1>1, <2>4, <3>2 DEF Hold
  <2>5. CASE ~Keyed(k) /\ w \in Monitors
    BY <1>1, <2>1, <2>2, <2>5 DEF Again, Pends
  <2>6. CASE ~Keyed(k) /\ w \notin Monitors /\ w \in Retellers(k)
    <3>1. w \notin Retold(k)
      BY <2>2 DEF Retold
    <3>2. w \in Retold(k)'
      BY <1>1, <2>6 DEF Retold, Retellers, Holds
    <3>3. QED
      BY <1>4, <3>1, <3>2
  <2>7. CASE ~Keyed(k) /\ w \notin Monitors /\ w \notin Retellers(k)
    <3>1. ledger.rows[k].told = 0 \/ ledger.rows[k].state < mem[w].saw[k]
      BY <1>1, <2>7 DEF Hold
    <3>2. ledger.rows[k].told > 0 /\ mem[w].saw[k] <= ledger.rows[k].state
      BY <2>1, <2>3, <2>7 DEF Knows
    <3>3. ledger.rows[k].told \in Nat /\ ledger.rows[k].state \in Nat /\ mem[w].saw[k] \in Nat
      BY <1>1 DEF IInv, TypeOK, Ledger, Row
    <3>4. QED
      BY <3>1, <3>2, <3>3
  <2>8. QED
    BY <2>4, <2>5, <2>6, <2>7
<1>5. QED
  BY <1>3, <1>4

LEMMA TelegramPays ==
  ASSUME IInv, IInv', CopyInv, NEW w \in Runs, Telegram(w)
  PROVE  CopyInv'
<1> DEFINE k  == mem[w].held.event
           to == mem[w].held.pending
           Message(r, S) == IF r \in S THEN 1 ELSE 0
<1>1. /\ pc[w] = "claimed" /\ pc[w] \in Working /\ "sent" \in Working
      /\ UNCHANGED <<branch, rank, now, retold, wasted, reverting>>
      /\ ledger' = ledger /\ current' = current /\ wasted' = wasted /\ retold' = retold
      /\ reverting' = reverting
  BY DEF Telegram, world, branch, Working
<1>2. /\ mem[w] \in Hands /\ mem[w].local \in Ledger /\ Sound(mem[w].local, mem[w].saw)
      /\ Covers(mem[w].local, mem[w].local) /\ Shaped(w, "claimed", mem[w]) /\ Hold(w)
  BY <1>1, SoundHand DEF CopyInv, Trail
<1>3. k \in Keys /\ to \subseteq Recipients /\ (w \in Monitors => k \notin mem[w].todo)
  BY <1>1, <1>2 DEF Shaped, Hands, Hold, KeyFor
<1>4. PICK ok \in SUBSET to, gone \in SUBSET to :
        /\ accidents' = accidents + Cardinality(gone)
        /\ Goto(w, "sent", [mem[w] EXCEPT !.confirmed = ok])
        /\ copies' = [copies EXCEPT ![k] = [r \in Recipients |-> @[r] + Message(r, ok) + Message(r, gone)]]
        /\ heard'  = [heard EXCEPT ![k] = IF ok \cup gone = {} THEN @ ELSE @ \cup {mem[w].saw[k]}]
  BY DEF Telegram
<1>5. PICK m : m = [mem[w] EXCEPT !.confirmed = ok]
  OBVIOUS
<1>6. /\ m.local = mem[w].local /\ m.saw = mem[w].saw /\ m.todo = mem[w].todo /\ m.held = mem[w].held
      /\ m.confirmed = ok
  BY <1>2, <1>5 DEF Hands
<1>7. Moves(w, "sent", m) /\ pc'[w] = "sent" /\ mem'[w] = m
  BY <1>4, <1>5, RunsMove DEF Moves
<1>8. /\ \A j \in Keys \ {k} : copies'[j] = copies[j] /\ heard'[j] = heard[j]
      /\ heard'[k] = IF ok \cup gone = {} THEN heard[k] ELSE heard[k] \cup {mem[w].saw[k]}
      /\ \A r \in Recipients : copies'[k][r] = copies[k][r] + Message(r, ok) + Message(r, gone)
  BY <1>3, <1>4 DEF IInv, TypeOK
<1>9. Rows' /\ Heads'
  <2>1. \A j \in Keys : heard'[j] = heard[j] \/ heard'[j] = heard[j] \cup {mem[w].saw[j]}
    BY <1>8
  <2>2. Covers(mem[w].local, m.local) /\ Sound(m.local, m.saw)
    BY <1>2, <1>6
  <2>3. QED
    BY <1>1, <1>6, <1>7, <2>1, <2>2, LaneRows DEF CopyInv
<1>10. Trail'
  <2>1. Hold(w)'
    BY <1>1, <1>2, <1>6, <1>7 DEF Hold, KeyFor
  <2>2. \A j \in Keys : <<w, j>> \in retold' => w \in Schedulers /\ "sent" \in After
    BY <1>1 DEF CopyInv, Trail, Retellers, After
  <2>3. w \notin wasted'
    BY <1>1 DEF CopyInv, Trail
  <2>4. QED
    BY <1>1, <1>7, <2>1, <2>2, <2>3, TrailMove DEF CopyInv
<1>11. \A j \in Keys : /\ Pends(w, j)' => Pends(w, j)
                       /\ Done(w, j) => Done(w, j)'
  BY <1>1, <1>6, <1>7 DEF Pends, Holds, Done
<1>12. \A v \in Runs \ {w}, j \in Keys : Done(v, j)' = Done(v, j) /\ Holds(v, j)' = Holds(v, j)
  BY <1>7 DEF Moves, Done, Pends, Holds
<1>13. ASSUME NEW j \in Keys
       PROVE  Retold(j) \subseteq Retold(j)' /\ Spent(j) \subseteq Spent(j)'
  <2>1. ~Holds(w, j)'
    BY <1>7 DEF Holds
  <2>2. Retold(j) \subseteq Retold(j)'
    BY <1>1, <1>12, <2>1 DEF Retold, Retellers
  <2>3. Spent(j) \subseteq Spent(j)'
    BY <1>1, <1>11, <1>12 DEF Spent
  <2>4. QED
    BY <2>2, <2>3
<1>14. IsFiniteSet(gone) /\ Cardinality(gone) \in Nat
  BY <1>3, DeliveryAssumption, FS_Subset, FS_CardinalityType
<1>15. accidents <= accidents'
  BY <1>4, <1>14 DEF IInv, TypeOK
<1>16. ASSUME NEW j \in Keys, NEW r \in Recipients, heard'[j] = heard[j], j # k \/ w \notin current \/ r \notin ok
       PROVE  Owes(j, r)' => Owes(j, r)
  <2>1. CASE w \in current
    <3>1. Done(w, j) /\ Aware(w, j, r) => Aware(w, j, r)'
      <4>1. Aware(w, j, r) => Knows(mem[w].local, heard[j], j, r)
        BY <1>1 DEF Aware
      <4>2. Knows(mem[w].local, heard[j], j, r) => Aware(w, j, r)'
        BY <1>2, <1>6, <1>7, <1>16, AwareOn
      <4>3. QED
        BY <4>1, <4>2
    <3>2. Heads
      BY DEF CopyInv
    <3>3. QED
      BY <1>1, <1>6, <1>7, <1>9, <1>11, <1>16, <2>1, <3>1, <3>2, LaneOwes
  <2>2. CASE w \notin current
    BY <1>1, <1>7, <1>16, <2>2, OthersOwe
  <2>3. QED
    BY <2>1, <2>2
<1>17. ASSUME NEW j \in Keys, NEW r \in Recipients
       PROVE  Paid(j, r)'
  <2>1. Heads /\ Paid(j, r) /\ reverting \subseteq reverting'
    BY <1>1 DEF CopyInv, AllPaid
  <2>2. CASE j # k
    <3>1. heard'[j] = heard[j] /\ copies'[j][r] = copies[j][r]
      BY <1>8, <2>2
    <3>2. Owes(j, r)' => Owes(j, r)
      BY <1>16, <2>2, <3>1
    <3>3. QED
      BY <1>9, <1>13, <1>15, <2>1, <3>1, <3>2, NoCopyBalance
  <2>3. CASE j = k
    <3>1. IsFiniteSet(Spent(j)')
      BY DeliveryAssumption, FS_Subset DEF Spent, IInv, TypeOK
    <3>2. PICK s0 \in Nat, s1 \in Nat : /\ s0 = Cardinality(Spent(j)) /\ s1 = Cardinality(Spent(j)')
                                        /\ s0 <= s1 /\ (Spent(j)' # Spent(j) => s0 + 1 <= s1)
      BY <1>13, <3>1, CardGrows
    <3>3. PICK c0 \in Nat, c1 \in Nat, a0 \in Nat, a1 \in Nat, g \in Nat :
            /\ c0 = copies[j][r] /\ c1 = copies'[j][r] /\ a0 = accidents /\ a1 = accidents' /\ g = Cardinality(gone)
      <4>1. copies[j][r] \in Nat /\ copies'[j][r] \in Nat /\ accidents \in Nat /\ accidents' \in Nat
        BY DEF IInv, TypeOK
      <4>2. QED
        BY <1>14, <4>1
    <3>4. PICK x \in {0, 1}, y \in {0, 1} : x = Message(r, ok) /\ y = Message(r, gone)
      OBVIOUS
    <3>5. PICK o0 \in {0, 1}, o1 \in {0, 1}, bh \in {0, 1}, bt \in {0, 1}, bv \in {0, 1} :
            /\ o0 = Bit(Owes(j, r)) /\ o1 = Bit(Owes(j, r)') /\ bh = Bit(heard'[j] # heard[j])
            /\ bt = Bit(Retold(j)' # Retold(j)) /\ bv = Bit(reverting' # reverting)
      BY DEF Bit
    <3>6. c1 = c0 + x + y /\ a1 = a0 + g
      BY <1>4, <1>8, <2>3, <3>3, <3>4
    <3>7. y <= g
      <4>1. CASE r \in gone
        <5>1. {r} \subseteq gone /\ Cardinality({r}) = 1
          BY <4>1, FS_Singleton
        <5>2. Cardinality({r}) <= Cardinality(gone)
          BY <1>14, <5>1, FS_Subset
        <5>3. QED
          BY <3>3, <3>4, <5>1, <5>2
      <4>2. CASE r \notin gone
        BY <3>4, <4>2
      <4>3. QED
        BY <4>1, <4>2
    <3>8. r \notin ok \/ w \notin current => o1 <= o0 + bh
      BY <1>16, <3>5 DEF Bit
    <3>9. r \in ok /\ w \notin current => s0 + 1 <= s1
      <4>1. SUFFICES ASSUME r \in ok, w \notin current
                     PROVE  Spent(j)' # Spent(j)
        BY <3>2
      <4>2. ~Done(w, j) /\ w \notin wasted
        BY <1>1, <2>3 DEF Done, Pends, Holds, CopyInv, Trail
      <4>3. Done(w, j)'
        BY <1>3, <1>6, <1>7, <2>3, <4>1 DEF Done, Pends, Holds
      <4>4. QED
        BY <1>1, <4>1, <4>2, <4>3 DEF Spent
    <3>10. r \in ok /\ w \in current => o1 = 0 /\ (bh = 1 \/ bt = 1 \/ o0 = 1)
      <4>1. SUFFICES ASSUME r \in ok, w \in current
                     PROVE  ~Owes(j, r)' /\ (heard'[j] # heard[j] \/ Retold(j)' # Retold(j) \/ Owes(j, r))
        BY <3>5 DEF Bit
      <4>2. Done(w, j)'
        BY <1>3, <1>6, <1>7, <2>3, <4>1 DEF Done, Pends, Holds
      <4>3. mem[w].saw[j] \in heard'[j]
        BY <1>8, <2>3, <4>1
      <4>4. r \in m.confirmed /\ r \in mem[w].held.pending
        BY <1>6, <4>1
      <4>5. QED
        BY <1>1, <1>6, <1>7, <1>9, <2>3, <4>1, <4>2, <4>3, <4>4, ConfirmedIsPaid
    <3>11. x = 1 <=> r \in ok
      BY <3>4
    <3>12. x + o1 + s0 <= o0 + s1 + bh + bt
      <4>1. CASE r \notin ok
        BY <3>2, <3>8, <3>11, <4>1
      <4>2. CASE r \in ok /\ w \notin current
        BY <3>2, <3>8, <3>9, <4>2
      <4>3. CASE r \in ok /\ w \in current
        BY <3>2, <3>10, <4>3
      <4>4. QED
        BY <4>1, <4>2, <4>3
    <3>13. c1 + o1 + a0 + s0 <= c0 + o0 + a1 + s1 + bh + bt + bv
      BY <3>6, <3>7, <3>12
    <3>14. copies'[j][r] + Bit(Owes(j, r)') + accidents + Cardinality(Spent(j))
             <= copies[j][r] + Bit(Owes(j, r)) + accidents' + Cardinality(Spent(j)')
                + Bit(heard'[j] # heard[j]) + Bit(Retold(j)' # Retold(j)) + Bit(reverting' # reverting)
      BY <3>2, <3>3, <3>5, <3>13
    <3>15. heard[j] \subseteq heard'[j]
      BY <1>8, <2>3
    <3>16. QED
      BY <1>9, <1>13, <2>1, <3>14, <3>15, Balance
  <2>4. QED
    BY <2>2, <2>3
<1>18. QED
  BY <1>9, <1>10, <1>17 DEF CopyInv, AllPaid

LEMMA NextPays ==
  ASSUME IInv, CopyInv, [Next]_vars
  PROVE  CopyInv'
<1>1. IInv'
  BY NextKeeps
<1>2. ASSUME NEW w \in Runs, Step(w) \/ Killed(w) \/ ItemBreaks(w)
      PROVE  CopyInv'
  BY <1>1, <1>2, RestorePays, LookupPays, EnterPays, RevalidatePays, PublishPays, GatePays, PassOverPays,
     ClaimsPays, TelegramPays, SendRaisesPays, ClosePays, NoCandidatePays, StorePays, FaultsPay DEF Step
<1>3. now \in Nat /\ rank \in [Keys -> Nat]
  BY DEF IInv, TypeOK
<1>4. ASSUME NEW k \in Events, Rise(k)
      PROVE  CopyInv'
  <2>1. UNCHANGED <<branch, pc, mem, told, retold, faults>> /\ now' = now
    BY <1>4 DEF Rise
  <2>2. rank' = [rank EXCEPT ![k] = @ + 1]
    BY <1>4 DEF Rise
  <2>3. now <= now' /\ \A j \in Keys : rank[j] <= rank'[j]
    BY <1>3, <2>1, <2>2
  <2>4. QED
    BY <1>1, <2>1, <2>3, AsidePays
<1>5. CASE Tick
  <2>1. UNCHANGED <<branch, pc, mem, told, retold, faults>> /\ now' = now + 1 /\ rank' = rank
    BY <1>5 DEF Tick
  <2>2. now <= now' /\ \A j \in Keys : rank[j] <= rank'[j]
    BY <1>3, <2>1
  <2>3. QED
    BY <1>1, <2>1, <2>2, AsidePays
<1>6. CASE UNCHANGED vars
  <2>1. UNCHANGED <<branch, pc, mem, told, retold, faults>> /\ now' = now /\ rank' = rank
    BY <1>6 DEF vars, world
  <2>2. now <= now' /\ \A j \in Keys : rank[j] <= rank'[j]
    BY <1>3, <2>1
  <2>3. QED
    BY <1>1, <2>1, <2>2, AsidePays
<1>7. QED
  BY <1>1, <1>2, <1>4, <1>5, <1>6, OtherWriterPays DEF Next

\* What is paid for has a cause: a run that has told its part and lost the head is overtaken.
LEMMA PaidHasCause ==
  ASSUME IInv, AllPaid, Heads
  PROVE  CopiesHaveCauses
<1>1. SUFFICES ASSUME NEW k \in Keys, NEW r \in Recipients
               PROVE  copies[k][r] <= Cardinality(heard[k]) + Cardinality(Retellers(k)) + accidents
                                      + Cardinality(wasted \cup Overtaken) + Cardinality(reverting)
  BY DEF CopiesHaveCauses
<1>2. Spent(k) \subseteq wasted \cup Overtaken /\ wasted \cup Overtaken \subseteq Runs
  BY DEF Spent, Done, Overtaken, IInv, TypeOK
<1>3. Retold(k) \subseteq Retellers(k) /\ Retellers(k) \subseteq Runs
  BY DEF Retold, Retellers
<1>4. IsFiniteSet(wasted \cup Overtaken) /\ IsFiniteSet(Retellers(k)) /\ IsFiniteSet(reverting) /\ IsFiniteSet(heard[k])
  BY <1>2, <1>3, RunSets, DeliveryAssumption, FS_Subset DEF Heads
<1>5. PICK s0 \in Nat, s1 \in Nat : s0 = Cardinality(Spent(k)) /\ s1 = Cardinality(wasted \cup Overtaken) /\ s0 <= s1
  BY <1>2, <1>4, CardGrows
<1>6. PICK t0 \in Nat, t1 \in Nat : t0 = Cardinality(Retold(k)) /\ t1 = Cardinality(Retellers(k)) /\ t0 <= t1
  BY <1>3, <1>4, CardGrows
<1>7. PICK h \in Nat, v \in Nat : h = Cardinality(heard[k]) /\ v = Cardinality(reverting)
  BY <1>4, FS_CardinalityType
<1>8. PICK c \in Nat, a \in Nat : c = copies[k][r] /\ a = accidents
  BY DEF IInv, TypeOK
<1>9. PICK o \in Nat : o = Bit(Owes(k, r))
  BY DEF Bit
<1>10. c + o <= h + t0 + a + s0 + v
  BY <1>5, <1>6, <1>7, <1>8, <1>9 DEF AllPaid, Paid
<1>11. c <= h + t1 + a + s1 + v
  BY <1>5, <1>6, <1>10
<1>12. QED
  BY <1>5, <1>6, <1>7, <1>8, <1>11

\* A recipient hears of an event once for each material state it was told in, and once
\* more only for a cause: a run that tells it again under an anchor, an accident, a run
\* whose ledger the branch did not take, and a run that put an older ledger on it.
THEOREM EveryCopyHasACause == Spec => []CopiesHaveCauses
<1>1. Init => IInv /\ CopyInv
  BY InitHolds, InitPays
<1>2. IInv /\ CopyInv /\ [Next]_vars => (IInv /\ CopyInv)'
  BY NextKeeps, NextPays
<1>3. IInv /\ CopyInv => CopiesHaveCauses
  BY PaidHasCause DEF CopyInv
<1>4. QED
  BY <1>1, <1>2, <1>3, PTL DEF Spec
=============================================================================
