------------------------- MODULE DataReleaseProofs -------------------------
(***************************************************************************)
(* What the compare-and-swap of the branch gives, for any number of        *)
(* writers, any order the queue lets them in and any number of faults.     *)
(*                                                                         *)
(* A writer owns the place right after the base it expects.  It publishes  *)
(* only while the branch ends at that base, so a commit of its own can     *)
(* only lie there (OwnPlace), and its files keep what they were restored   *)
(* from (HoldsSource).  The properties follow when that commit is added.   *)
(***************************************************************************)
EXTENDS DataRelease, SequenceTheorems, TLAPS

Pushing(w) == pc[w] \in {"push", "refetch"}

\* A commit that is being pushed has a try left and lies on the expected base.
OnItsBase(w) == Pushing(w) => attempts[w] < MaxAttempts /\ parent[w] = base[w]

\* The files in the runner hold what the release they came from held.
HoldsSource(w) == source[w] # 0 =>
    \A f \in Selected(w) : branch[source[w]].tree[f] \subseteq tree[w][f]

\* A commit of the publication in progress lies right after its parent and
\* holds the files of the runner.
OwnPlace(w) == Pushing(w) => \A n \in Positions : branch[n].id = Commit(w) =>
    /\ n = parent[w] + 1
    /\ \A f \in Selected(w) : branch[n].tree[f] = tree[w][f]

\* No commit lies on the branch before its writer pushes it ...
NotYet(w) == \A n \in Positions, k \in Rounds : branch[n].id = <<w, k>> =>
    k < round[w] \/ (k = round[w] /\ (Pushing(w) \/ pc[w] = "ended"))

\* ... and who records a delivery does not return to the queue.
RecordsOnly(w) == round[w] = 2 =>
    Pushing(w) \/ pc[w] \in {"work", "publish", "ended"}

\* DeliversPublished, for one writer.
Delivers(w) == round[w] = 2 =>
    \A n \in Positions : branch[n].id = <<w, 1>> <=> n = base[w]

WriterInv(w) == /\ OnItsBase(w) /\ HoldsSource(w) /\ OwnPlace(w)
                /\ NotYet(w) /\ RecordsOnly(w) /\ Delivers(w)

\* The branch starts with a release that no writer made.
FirstRelease == Tip >= 1 /\ branch[1].id = <<>>

BranchInv == /\ FirstRelease /\ BasedReleaseForgetsNothing
             /\ PartialKeepsOthers /\ LedgerFollowsRelease

IInv == TypeOK /\ BranchInv /\ \A w \in Writers : WriterInv(w)
-----------------------------------------------------------------------------
(* What a step does: it touches one writer and adds at most one commit.    *)

Commits == [id : Updates \cup {<<>>}, tree : Trees, from : Nat, onto : Nat]

\* Only writer w moves.
Alone(w) == \A u \in Writers \ {w} :
    /\ pc'[u] = pc[u] /\ round'[u] = round[u] /\ base'[u] = base[u]
    /\ parent'[u] = parent[u] /\ tree'[u] = tree[u] /\ source'[u] = source[u]
    /\ attempts'[u] = attempts[u]

\* The branch stays as it is or takes the commit w is pushing.
BranchMoves(w) == UNCHANGED branch \/ (MayPush(w) /\ Accept(w))

\* The commit of a push is well formed, and has the files of the runner where
\* the writer selected them and those of the parent elsewhere.
LEMMA CandidateShape ==
  ASSUME TypeOK, NEW w \in Writers
  PROVE  /\ Candidate(w) \in Commits
         /\ Candidate(w).id = <<w, round[w]>>
         /\ Candidate(w).from = source[w] /\ Candidate(w).onto = base[w]
         /\ \A f \in Files : Candidate(w).tree[f] = IF f \in Selected(w) THEN tree[w][f]
                                                    ELSE branch[parent[w]].tree[f]
<1>1. /\ round[w] \in Rounds /\ source[w] \in Nat /\ base[w] \in Nat
      /\ parent[w] \in 1 .. Len(branch) /\ tree[w] \in Trees
  BY DEF TypeOK, Positions, Tip
<1>2. branch[parent[w]] \in Commits
  <2>1. branch \in Seq(Commits)
    BY DEF TypeOK, Commits
  <2>2. QED
    BY <1>1, <2>1
<1>3. Staged(w) \in Trees
  BY <1>1, <1>2 DEF Staged, Trees, Commits
<1>4. Commit(w) \in Updates
  BY <1>1 DEF Commit, Updates
<1>5. QED
  BY <1>1, <1>3, <1>4 DEF Candidate, Commits, Staged, Commit

\* An accepted push adds the commit at the end and changes nothing before it.
LEMMA AcceptGrows ==
  ASSUME TypeOK, NEW w \in Writers, Accept(w)
  PROVE  /\ branch' \in Seq(Commits)
         /\ Tip \in Nat /\ Tip' = Tip + 1
         /\ \A n \in 1 .. Tip : branch'[n] = branch[n]
         /\ branch'[Tip + 1] = Candidate(w)
<1>1. branch \in Seq(Commits) /\ Candidate(w) \in Commits
  BY CandidateShape DEF TypeOK, Commits
<1>2. branch' = Append(branch, Candidate(w))
  BY DEF Accept
<1>3. QED
  BY <1>1, <1>2, AppendProperties DEF Tip

\* A push that is taken keeps what the branch holds.
LEMMA AcceptKeepsBranch ==
  ASSUME IInv, NEW w \in Writers, MayPush(w), Accept(w)
  PROVE  BranchInv'
<1> DEFINE c == Candidate(w)
<1>1. TypeOK /\ BranchInv /\ WriterInv(w)
  BY DEF IInv
<1>2. /\ Tip \in Nat /\ Tip' = Tip + 1
      /\ \A n \in 1 .. Tip : branch'[n] = branch[n]
      /\ branch'[Tip + 1] = c
  BY <1>1, AcceptGrows
<1>3. /\ c.id = <<w, round[w]>> /\ c.from = source[w] /\ c.onto = base[w]
      /\ \A f \in Files : c.tree[f] = IF f \in Selected(w) THEN tree[w][f]
                                      ELSE branch[parent[w]].tree[f]
  BY <1>1, CandidateShape
<1>4. parent[w] = Tip /\ base[w] = Tip /\ Tip \in 1 .. Tip /\ round[w] \in Rounds
  BY <1>1 DEF WriterInv, OnItsBase, Pushing, MayPush, Accept, TypeOK, Positions
<1> HIDE DEF c
<1>5. \A n \in 1 .. Tip' - 1 : n \in 1 .. Tip /\ (n # Tip => n + 1 \in 1 .. Tip /\ n \in 1 .. Tip - 1)
  BY <1>2
<1>6. BasedReleaseForgetsNothing'
  <2> SUFFICES ASSUME NEW n \in 1 .. Tip' - 1, NEW f \in Files,
                      branch'[n + 1].from = branch'[n + 1].onto
               PROVE  branch'[n].tree[f] \subseteq branch'[n + 1].tree[f]
    BY DEF BasedReleaseForgetsNothing, Keeps, Tip
  <2>1. CASE n # Tip
    BY <1>1, <1>2, <1>5, <2>1 DEF BranchInv, BasedReleaseForgetsNothing, Keeps
  <2>2. CASE n = Tip
    <3>1. source[w] = Tip /\ source[w] # 0
      BY <1>2, <1>3, <1>4, <2>2
    <3>2. f \in Selected(w) => branch[Tip].tree[f] \subseteq tree[w][f]
      BY <1>1, <3>1 DEF WriterInv, HoldsSource
    <3>3. QED
      BY <1>2, <1>3, <1>4, <2>2, <3>2
  <2>3. QED
    BY <2>1, <2>2
<1>7. PartialKeepsOthers'
  <2> SUFFICES ASSUME NEW n \in 1 .. Tip' - 1, NEW u \in Writers, NEW f \in Files,
                      branch'[n + 1].id \in {u} \X Rounds, f \notin Selected(u)
               PROVE  branch'[n + 1].tree[f] = branch'[n].tree[f]
    BY DEF PartialKeepsOthers, Tip
  <2>1. CASE n # Tip
    BY <1>1, <1>2, <1>5, <2>1 DEF BranchInv, PartialKeepsOthers
  <2>2. CASE n = Tip
    <3>1. u = w
      BY <1>2, <1>3, <2>2
    <3>2. QED
      BY <1>2, <1>3, <1>4, <2>2, <3>1
  <2>3. QED
    BY <2>1, <2>2
<1>8. LedgerFollowsRelease'
  <2> SUFFICES ASSUME NEW n \in 1 .. Tip', NEW u \in Writers, branch'[n].id = <<u, 2>>
               PROVE  branch'[n - 1].id = <<u, 1>>
    BY DEF LedgerFollowsRelease, Positions, Tip
  <2>1. CASE n # Tip + 1
    <3>1. n \in 1 .. Tip
      BY <1>2, <2>1
    <3>2. branch[n].id = <<u, 2>> /\ branch[n - 1].id = <<u, 1>>
      BY <1>1, <1>2, <3>1 DEF BranchInv, LedgerFollowsRelease, Positions
    <3>3. n # 1
      BY <1>1, <3>2 DEF BranchInv, FirstRelease
    <3>4. QED
      BY <1>2, <3>1, <3>2, <3>3
  <2>2. CASE n = Tip + 1
    <3>1. u = w /\ round[w] = 2
      BY <1>2, <1>3, <2>2
    <3>2. branch[base[w]].id = <<w, 1>>
      BY <1>1, <1>4, <3>1 DEF WriterInv, Delivers, Positions
    <3>3. QED
      BY <1>2, <1>4, <2>2, <3>1, <3>2
  <2>3. QED
    BY <2>1, <2>2
<1>9. FirstRelease'
  BY <1>1, <1>2 DEF BranchInv, FirstRelease
<1>10. QED
  BY <1>6, <1>7, <1>8, <1>9 DEF BranchInv
\* A step of w leaves the other writers as they were, and a commit of w on the
\* branch is none of theirs.
LEMMA OthersKeep ==
  ASSUME IInv, NEW w \in Writers, Alone(w), BranchMoves(w), NEW u \in Writers \ {w}
  PROVE  WriterInv(u)'
<1>1. /\ pc'[u] = pc[u] /\ round'[u] = round[u] /\ base'[u] = base[u]
      /\ parent'[u] = parent[u] /\ tree'[u] = tree[u] /\ source'[u] = source[u]
      /\ attempts'[u] = attempts[u]
  BY DEF Alone
<1>2. TypeOK /\ WriterInv(u)
  BY DEF IInv
<1>3. /\ Tip \in Nat /\ Tip' \in Nat /\ Tip' >= Tip
      /\ \A n \in 1 .. Tip : branch'[n] = branch[n]
      /\ \A n \in 1 .. Tip' : n \in 1 .. Tip \/ branch'[n].id = <<w, round[w]>>
  <2>1. CASE UNCHANGED branch
    BY <1>2, <2>1 DEF TypeOK, Tip
  <2>2. CASE MayPush(w) /\ Accept(w)
    <3>1. /\ Tip \in Nat /\ Tip' = Tip + 1
          /\ \A n \in 1 .. Tip : branch'[n] = branch[n]
          /\ branch'[Tip + 1] = Candidate(w)
      BY <1>2, <2>2, AcceptGrows
    <3>2. Candidate(w).id = <<w, round[w]>>
      BY <1>2, CandidateShape
    <3>3. QED
      BY <3>1, <3>2
  <2>3. QED
    BY <2>1, <2>2 DEF BranchMoves
<1>4. \A n \in 1 .. Tip', k \in Rounds : branch'[n].id = <<u, k>> =>
         n \in 1 .. Tip /\ branch[n].id = <<u, k>>
  BY <1>3
<1>5. /\ round[u] \in Rounds /\ source[u] \in 0 .. Tip /\ base[u] \in 1 .. Tip
      /\ 1 \in Rounds
  BY <1>2, <1>3 DEF TypeOK, Positions, Rounds
<1>6. OnItsBase(u)'
  BY <1>1, <1>2 DEF WriterInv, OnItsBase, Pushing
<1>7. HoldsSource(u)'
  <2> SUFFICES ASSUME source[u] # 0, NEW f \in Selected(u)
               PROVE  branch'[source[u]].tree[f] \subseteq tree[u][f]
    BY <1>1 DEF HoldsSource, Selected, Files
  <2>1. source[u] \in 1 .. Tip
    BY <1>3, <1>5
  <2>2. QED
    BY <1>2, <1>3, <2>1 DEF WriterInv, HoldsSource
<1>8. OwnPlace(u)'
  <2> SUFFICES ASSUME Pushing(u), NEW n \in 1 .. Tip', branch'[n].id = Commit(u)
               PROVE  n = parent[u] + 1 /\ \A f \in Selected(u) : branch'[n].tree[f] = tree[u][f]
    BY <1>1 DEF OwnPlace, Pushing, Commit, Positions, Tip, Selected, Files
  <2>1. n \in 1 .. Tip /\ branch[n].id = Commit(u)
    BY <1>4, <1>5 DEF Commit
  <2>2. QED
    BY <1>2, <1>3, <2>1 DEF WriterInv, OwnPlace, Positions
<1>9. NotYet(u)'
  BY <1>1, <1>2, <1>4 DEF WriterInv, NotYet, Pushing, Positions, Tip
<1>10. RecordsOnly(u)'
  BY <1>1, <1>2 DEF WriterInv, RecordsOnly, Pushing
<1>11. Delivers(u)'
  <2> SUFFICES ASSUME round[u] = 2, NEW n \in 1 .. Tip'
               PROVE  branch'[n].id = <<u, 1>> <=> n = base[u]
    BY <1>1 DEF Delivers, Positions, Tip
  <2>1. CASE n \in 1 .. Tip
    BY <1>2, <1>3, <2>1 DEF WriterInv, Delivers, Positions
  <2>2. CASE n \notin 1 .. Tip
    BY <1>4, <1>5, <2>2
  <2>3. QED
    BY <2>1, <2>2
<1>12. QED
  BY <1>6, <1>7, <1>8, <1>9, <1>10, <1>11 DEF WriterInv

\* So a step of w preserves the invariant when it does so for w.
LEMMA StepKeeps ==
  ASSUME IInv, NEW w \in Writers, TypeOK', Alone(w), BranchMoves(w), WriterInv(w)'
  PROVE  IInv'
<1>1. BranchInv'
  <2>1. CASE UNCHANGED branch
    BY <2>1 DEF IInv, BranchInv, FirstRelease, BasedReleaseForgetsNothing, PartialKeepsOthers,
                LedgerFollowsRelease, Positions, Tip, Keeps, Selected, Files
  <2>2. CASE MayPush(w) /\ Accept(w)
    BY <2>2, AcceptKeepsBranch
  <2>3. QED
    BY <2>1, <2>2 DEF BranchMoves
<1>2. \A u \in Writers \ {w} : WriterInv(u)'
  BY OthersKeep
<1>3. QED
  BY <1>1, <1>2 DEF IInv

\* A writer outside a publication: what remains of its invariant.
LEMMA Outside ==
  ASSUME IInv, NEW w \in Writers, UNCHANGED branch, pc'[w] \notin {"push", "refetch"},
         round'[w] = round[w], HoldsSource(w)', RecordsOnly(w)',
         round[w] = 2 => base'[w] = base[w],
         pc'[w] = "ended" \/ pc[w] \notin {"push", "refetch", "ended"}
  PROVE  WriterInv(w)'
<1>1. WriterInv(w)
  BY DEF IInv
<1>2. OnItsBase(w)' /\ OwnPlace(w)'
  BY DEF OnItsBase, OwnPlace, Pushing
<1>3. NotYet(w)'
  BY <1>1 DEF WriterInv, NotYet, Pushing, Positions, Tip
<1>4. Delivers(w)'
  BY <1>1 DEF WriterInv, Delivers, Positions, Tip
<1>5. QED
  BY <1>2, <1>3, <1>4 DEF WriterInv
\* The end of the branch is one of its commits.
LEMMA TipIsACommit ==
  ASSUME TypeOK, NEW w \in Writers
  PROVE  Tip \in Positions /\ branch[Tip] \in Commits
<1>1. branch \in Seq(Commits)
  BY DEF TypeOK, Commits
<1>2. Tip \in Nat /\ track[w] \in 1 .. Tip
  BY <1>1 DEF TypeOK, Positions, Tip
<1>3. Tip \in 1 .. Tip
  BY <1>2
<1>4. QED
  BY <1>1, <1>3 DEF Positions, Tip

-----------------------------------------------------------------------------
LEMMA InitIInv == Init => IInv
<1> SUFFICES ASSUME Init PROVE IInv
  OBVIOUS
<1> DEFINE first == [id |-> <<>>, tree |-> MainTree, from |-> 0, onto |-> 0]
<1>1. branch = <<first>> /\ first \in Commits /\ first.id = <<>>
  BY DEF Init, Commits, MainTree, Trees
<1>2. branch \in Seq(Commits) /\ Len(branch) = 1 /\ branch[1] = first
  BY <1>1
<1>3. TypeOK
  <2>1. /\ branch \in Seq([id : Updates \cup {<<>>}, tree : Trees, from : Nat, onto : Nat])
        /\ 1 \in Positions
    BY <1>2 DEF Commits, Positions, Tip
  <2>2. MainTree \in Trees
    BY DEF MainTree, Trees
  <2>3. QED
    BY <2>1, <2>2, ReleaseAssumption DEF Init, TypeOK, Pcs, Rounds, MaxAttempts
<1>4. BranchInv
  BY <1>1, <1>2 DEF BranchInv, FirstRelease, BasedReleaseForgetsNothing, PartialKeepsOthers,
                    LedgerFollowsRelease, Positions, Tip
<1>5. ASSUME NEW w \in Writers PROVE WriterInv(w)
  <2>1. \A k : branch[1].id # <<w, k>>
    BY <1>1, <1>2
  <2>2. NotYet(w)
    BY <1>2, <2>1 DEF NotYet, Positions, Tip
  <2>3. QED
    BY <2>2 DEF Init, WriterInv, OnItsBase, HoldsSource, OwnPlace, RecordsOnly, Delivers, Pushing
<1>6. QED
  BY <1>3, <1>4, <1>5 DEF IInv

LEMMA EnterKeeps ==
  ASSUME IInv, NEW w \in Writers, Enter(w)
  PROVE  IInv'
<1>1. TypeOK /\ WriterInv(w) /\ UNCHANGED branch
  BY DEF IInv, Enter
<1>2. TypeOK' /\ Alone(w)
  BY <1>1 DEF TypeOK, Alone, Enter, Goto, Positions, Tip, Pcs
<1>3. pc[w] = "queue" /\ pc'[w] \in {"restore", "revalidate"} /\ round'[w] = round[w]
  BY <1>1 DEF Enter, Goto, TypeOK
<1>4. HoldsSource(w)' /\ RecordsOnly(w)'
  BY <1>1, <1>3 DEF WriterInv, HoldsSource, RecordsOnly, Pushing, Enter
<1>5. WriterInv(w)'
  BY <1>1, <1>3, <1>4, Outside DEF Enter
<1>6. QED
  BY <1>1, <1>2, <1>5, StepKeeps DEF BranchMoves

LEMMA RestoreKeeps ==
  ASSUME IInv, NEW w \in Writers, Restore(w)
  PROVE  IInv'
<1>1. TypeOK /\ WriterInv(w) /\ UNCHANGED branch
  BY DEF IInv, Restore
<1>2. Tip \in Positions /\ branch[Tip] \in Commits
  BY <1>1, TipIsACommit
<1>3. [f \in Files |-> IF f \in Selected(w) THEN branch[Tip].tree[f] ELSE {}] \in Trees
  BY <1>2 DEF Trees, Commits
<1>4. TypeOK' /\ Alone(w)
  BY <1>1, <1>2, <1>3 DEF TypeOK, Alone, Restore, Fetched, Goto, Positions, Tip, Pcs
<1>5. /\ pc[w] = "restore" /\ pc'[w] = "lookup" /\ round'[w] = round[w]
      /\ source'[w] = Tip
      /\ tree'[w] = [f \in Files |-> IF f \in Selected(w) THEN branch[Tip].tree[f] ELSE {}]
  BY <1>1 DEF Restore, Goto, TypeOK
<1>6. HoldsSource(w)'
  BY <1>1, <1>5 DEF HoldsSource, Selected, Files
<1>7. RecordsOnly(w)'
  BY <1>1, <1>5 DEF WriterInv, RecordsOnly, Pushing
<1>8. WriterInv(w)'
  BY <1>1, <1>5, <1>6, <1>7, Outside DEF Restore
<1>9. QED
  BY <1>1, <1>4, <1>8, StepKeeps DEF BranchMoves

LEMMA RestoreNothingKeeps ==
  ASSUME IInv, NEW w \in Writers, RestoreNothing(w)
  PROVE  IInv'
<1>1. TypeOK /\ WriterInv(w) /\ UNCHANGED branch
  BY DEF IInv, RestoreNothing
<1>2. MainTree \in Trees
  BY DEF MainTree, Trees
<1>3. TypeOK' /\ Alone(w)
  BY <1>1, <1>2, ReleaseAssumption
     DEF TypeOK, Alone, RestoreNothing, Fault, Goto, Positions, Tip, Pcs
<1>4. /\ pc[w] = "restore" /\ pc'[w] = "lookup" /\ round'[w] = round[w]
      /\ source'[w] = 0
  BY <1>1 DEF RestoreNothing, Goto, TypeOK
<1>5. HoldsSource(w)' /\ RecordsOnly(w)'
  BY <1>1, <1>4 DEF WriterInv, HoldsSource, RecordsOnly, Pushing
<1>6. WriterInv(w)'
  BY <1>1, <1>4, <1>5, Outside DEF RestoreNothing
<1>7. QED
  BY <1>1, <1>3, <1>6, StepKeeps DEF BranchMoves

\* The base of a writer that records a delivery is not looked up again.
LEMMA LookupKeeps ==
  ASSUME IInv, NEW w \in Writers, Lookup(w)
  PROVE  IInv'
<1>1. TypeOK /\ WriterInv(w) /\ UNCHANGED branch
  BY DEF IInv, Lookup
<1>2. Tip \in Positions
  BY <1>1, TipIsACommit
<1>3. TypeOK' /\ Alone(w)
  BY <1>1, <1>2 DEF TypeOK, Alone, Lookup, Fetched, Goto, Positions, Tip, Pcs
<1>4. /\ pc[w] = "lookup" /\ pc'[w] = "work" /\ round'[w] = round[w]
  BY <1>1 DEF Lookup, Goto, TypeOK
<1>5. round[w] # 2
  BY <1>1, <1>4 DEF WriterInv, RecordsOnly, Pushing
<1>6. HoldsSource(w)' /\ RecordsOnly(w)'
  BY <1>1, <1>4 DEF WriterInv, HoldsSource, RecordsOnly, Pushing, Lookup
<1>7. WriterInv(w)'
  BY <1>1, <1>4, <1>5, <1>6, Outside
<1>8. QED
  BY <1>1, <1>3, <1>7, StepKeeps DEF BranchMoves

LEMMA WorkKeeps ==
  ASSUME IInv, NEW w \in Writers, Work(w)
  PROVE  IInv'
<1>1. TypeOK /\ WriterInv(w) /\ UNCHANGED branch
  BY DEF IInv, Work
<1> DEFINE t == [f \in Files |-> IF f \in Selected(w) THEN tree[w][f] \cup {Commit(w)}
                                                     ELSE tree[w][f]]
<1>2. t \in Trees
  BY <1>1 DEF TypeOK, Trees, Updates, Commit
<1>3. tree' = [tree EXCEPT ![w] = t]
  BY <1>1 DEF Work, TypeOK
<1> HIDE DEF t
<1>4. TypeOK' /\ Alone(w)
  BY <1>1, <1>2, <1>3 DEF TypeOK, Alone, Work, Goto, Positions, Tip, Pcs
<1>5. /\ pc[w] = "work" /\ round'[w] = round[w] /\ source'[w] = source[w]
      /\ pc'[w] \in {"publish", "revalidate", "queue"}
      /\ round[w] = 2 => pc'[w] = "publish"
      /\ tree'[w] = t
  BY <1>1, <1>3 DEF Work, Goto, TypeOK
<1>6. \A f \in Files : tree[w][f] \subseteq t[f]
  BY DEF t
<1>7. HoldsSource(w)'
  <2>1. \A f \in Selected(w) : f \in Files
    BY DEF Selected, Files
  <2>2. QED
    BY <1>1, <1>5, <1>6, <2>1 DEF WriterInv, HoldsSource, Selected
<1>8. RecordsOnly(w)'
  BY <1>5 DEF RecordsOnly
<1>9. WriterInv(w)'
  BY <1>1, <1>5, <1>7, <1>8, Outside DEF Work
<1>10. QED
  BY <1>1, <1>4, <1>9, StepKeeps DEF BranchMoves

LEMMA RevalidateKeeps ==
  ASSUME IInv, NEW w \in Writers, Revalidate(w)
  PROVE  IInv'
<1>1. TypeOK /\ WriterInv(w) /\ UNCHANGED branch
  BY DEF IInv, Revalidate
<1>2. Tip \in Positions
  BY <1>1, TipIsACommit
<1>3. TypeOK' /\ Alone(w)
  BY <1>1, <1>2 DEF TypeOK, Alone, Revalidate, Ends, Fetched, Goto, Positions, Tip, Pcs
<1>4. /\ pc[w] = "revalidate" /\ pc'[w] \in {"publish", "restore", "ended"}
      /\ round'[w] = round[w]
  BY <1>1 DEF Revalidate, Ends, Goto, TypeOK
<1>5. HoldsSource(w)' /\ RecordsOnly(w)'
  BY <1>1, <1>4 DEF WriterInv, HoldsSource, RecordsOnly, Pushing, Revalidate
<1>6. WriterInv(w)'
  BY <1>1, <1>4, <1>5, Outside DEF Revalidate
<1>7. QED
  BY <1>1, <1>3, <1>6, StepKeeps DEF BranchMoves

\* A publication begins on the expected base, with nothing of it on the branch.
LEMMA PublishKeeps ==
  ASSUME IInv, NEW w \in Writers, Publish(w)
  PROVE  IInv'
<1>1. TypeOK /\ WriterInv(w) /\ UNCHANGED branch
  BY DEF IInv, Publish
<1>2. Tip \in Positions /\ Commit(w) \in Updates
  BY <1>1, TipIsACommit DEF Commit, Updates, TypeOK
<1>3. TypeOK' /\ Alone(w)
  <2>1. CASE Tip = base[w]
    <3>1. /\ attempts' = [attempts EXCEPT ![w] = 0] /\ pc' = [pc EXCEPT ![w] = "push"]
          /\ track' = [track EXCEPT ![w] = Tip] /\ parent' = [parent EXCEPT ![w] = Tip]
          /\ UNCHANGED <<branch, round, rebuilt, base, tree, source, inside, failed, faults>>
      BY <2>1 DEF Publish, Fetched, Goto
    <3>2. attempts' \in [Writers -> 0 .. MaxAttempts] /\ pc' \in [Writers -> Pcs]
      BY <1>1, <3>1 DEF TypeOK, MaxAttempts, Pcs
    <3>3. QED
      BY <1>1, <1>2, <3>1, <3>2 DEF TypeOK, Alone, Positions, Tip
  <2>2. CASE Tip # base[w]
    <3>1. <<Commit(w), "mismatch">> \in Updates \X Errors
      BY <1>2 DEF Errors
    <3>2. /\ pc' = [pc EXCEPT ![w] = "ended"] /\ inside' = inside \ {w}
          /\ failed' = failed \cup {<<Commit(w), "mismatch">>}
          /\ track' = [track EXCEPT ![w] = Tip] /\ parent' = [parent EXCEPT ![w] = Tip]
          /\ UNCHANGED <<branch, round, rebuilt, base, tree, source, attempts, faults>>
      BY <2>2 DEF Publish, Fails, Ends, Fetched, Goto
    <3>3. failed' \subseteq Updates \X Errors /\ pc' \in [Writers -> Pcs]
      BY <1>1, <3>1, <3>2 DEF TypeOK, Pcs
    <3>4. QED
      BY <1>1, <1>2, <3>2, <3>3 DEF TypeOK, Alone, Positions, Tip
  <2>3. QED
    BY <2>1, <2>2
<1>4. /\ pc[w] = "publish" /\ round'[w] = round[w] /\ base'[w] = base[w]
      /\ source'[w] = source[w] /\ tree'[w] = tree[w] /\ parent'[w] = Tip
      /\ \/ Tip = base[w] /\ attempts'[w] = 0 /\ pc'[w] = "push"
         \/ pc'[w] = "ended"
  BY <1>1 DEF Publish, Fails, Ends, Goto, TypeOK
<1>5. \A n \in Positions : branch[n].id # Commit(w)
  <2>1. round[w] \in Rounds /\ ~(round[w] < round[w]) /\ ~Pushing(w)
    BY <1>1, <1>4 DEF TypeOK, Rounds, Pushing
  <2>2. QED
    BY <1>1, <1>4, <2>1 DEF WriterInv, NotYet, Commit
<1>6. OnItsBase(w)' /\ OwnPlace(w)' /\ RecordsOnly(w)'
  BY <1>1, <1>4, <1>5
     DEF OnItsBase, OwnPlace, RecordsOnly, Pushing, MaxAttempts, Commit, Positions, Tip
<1>7. HoldsSource(w)' /\ NotYet(w)' /\ Delivers(w)'
  BY <1>1, <1>4, <1>5
     DEF WriterInv, HoldsSource, NotYet, Delivers, Pushing, Commit, Positions, Tip, Selected, Files
<1>8. WriterInv(w)'
  BY <1>6, <1>7 DEF WriterInv
<1>9. QED
  BY <1>1, <1>3, <1>8, StepKeeps DEF BranchMoves
-----------------------------------------------------------------------------
\* Whether the server took the push or not: a commit of this publication lies
\* in its own place, and what held of the branch for its writer still does.
LEMMA PushedBranch ==
  ASSUME IInv, NEW w \in Writers, pc[w] = "push", BranchMoves(w)
  PROVE  /\ branch' \in Seq(Commits) /\ Tip \in Nat /\ Tip' \in Nat /\ Tip' >= Tip
         /\ \A n \in 1 .. Tip' : branch'[n].id = Commit(w) =>
               /\ n = parent[w] + 1
               /\ \A f \in Selected(w) : branch'[n].tree[f] = tree[w][f]
         /\ \A n \in 1 .. Tip', k \in Rounds : branch'[n].id = <<w, k>> =>
               k < round[w] \/ k = round[w]
         /\ round[w] = 2 => \A n \in 1 .. Tip' : branch'[n].id = <<w, 1>> <=> n = base[w]
         /\ source[w] # 0 =>
               \A f \in Selected(w) : branch'[source[w]].tree[f] \subseteq tree[w][f]
<1>1. TypeOK /\ WriterInv(w) /\ Pushing(w)
  BY DEF IInv, Pushing
<1>2. branch \in Seq(Commits)
  BY <1>1 DEF TypeOK, Commits
<1>3. CASE UNCHANGED branch
  BY <1>1, <1>2, <1>3 DEF WriterInv, OwnPlace, NotYet, Delivers, HoldsSource, Positions, Tip
<1>4. CASE MayPush(w) /\ Accept(w)
  <2>1. /\ branch' \in Seq(Commits) /\ Tip \in Nat /\ Tip' = Tip + 1
        /\ \A n \in 1 .. Tip : branch'[n] = branch[n]
        /\ branch'[Tip + 1] = Candidate(w)
    BY <1>1, <1>4, AcceptGrows
  <2>2. /\ Candidate(w).id = <<w, round[w]>>
        /\ \A f \in Selected(w) : Candidate(w).tree[f] = tree[w][f]
    BY <1>1, CandidateShape DEF Selected, Files
  <2>3. /\ parent[w] = Tip /\ base[w] = Tip /\ round[w] \in Rounds
        /\ source[w] \in 0 .. Tip
    BY <1>1, <1>4, <2>1
       DEF TypeOK, WriterInv, OnItsBase, Accept, Positions
  <2>4. \A n \in 1 .. Tip' : n \in 1 .. Tip \/ n = Tip + 1
    BY <2>1
  <2>5. ASSUME NEW n \in 1 .. Tip', branch'[n].id = Commit(w)
        PROVE  n = parent[w] + 1 /\ \A f \in Selected(w) : branch'[n].tree[f] = tree[w][f]
    BY <1>1, <2>1, <2>2, <2>3, <2>4, <2>5 DEF WriterInv, OwnPlace, Positions
  <2>6. ASSUME NEW n \in 1 .. Tip', NEW k \in Rounds, branch'[n].id = <<w, k>>
        PROVE  k < round[w] \/ k = round[w]
    BY <1>1, <2>1, <2>2, <2>4, <2>6 DEF WriterInv, NotYet, Positions
  <2>7. ASSUME round[w] = 2, NEW n \in 1 .. Tip'
        PROVE  branch'[n].id = <<w, 1>> <=> n = base[w]
    <3>1. base[w] \in 1 .. Tip
      BY <1>1 DEF TypeOK, Positions
    <3>2. CASE n \in 1 .. Tip
      BY <1>1, <2>1, <2>7, <3>2 DEF WriterInv, Delivers, Positions
    <3>3. CASE n = Tip + 1
      BY <2>1, <2>2, <2>3, <2>7, <3>1, <3>3
    <3>4. QED
      BY <2>4, <3>2, <3>3
  <2>8. ASSUME source[w] # 0, NEW f \in Selected(w)
        PROVE  branch'[source[w]].tree[f] \subseteq tree[w][f]
    <3>1. source[w] \in 1 .. Tip
      BY <2>1, <2>3, <2>8
    <3>2. QED
      BY <1>1, <2>1, <2>8, <3>1 DEF WriterInv, HoldsSource
  <2>9. QED
    BY <2>1, <2>5, <2>6, <2>7, <2>8
<1>5. QED
  BY <1>3, <1>4 DEF BranchMoves

\* A publication that succeeds ends the run or makes its commit, which is on
\* the branch once, the base of what the run records.
LEMMA PublishedKeeps ==
  ASSUME IInv, NEW w \in Writers, pc[w] = "push", BranchMoves(w), UNCHANGED faults,
         NEW n \in 1 .. Tip', branch'[n].id = Commit(w), Published(w, n)
  PROVE  IInv'
<1>1. TypeOK /\ WriterInv(w)
  BY DEF IInv
<1>2. /\ branch' \in Seq(Commits) /\ Tip \in Nat /\ Tip' \in Nat /\ Tip' >= Tip
      /\ \A m \in 1 .. Tip' : branch'[m].id = Commit(w) =>
            /\ m = parent[w] + 1
            /\ \A f \in Selected(w) : branch'[m].tree[f] = tree[w][f]
      /\ \A m \in 1 .. Tip', k \in Rounds : branch'[m].id = <<w, k>> =>
            k < round[w] \/ k = round[w]
      /\ round[w] = 2 => \A m \in 1 .. Tip' : branch'[m].id = <<w, 1>> <=> m = base[w]
  BY PushedBranch
<1>3. \A m \in 1 .. Tip' : branch'[m].id = Commit(w) <=> m = n
  BY <1>2
<1>4. \A m \in 1 .. Tip : m \in 1 .. Tip'
  BY <1>2
<1>5. /\ source' = [source EXCEPT ![w] = n]
      /\ UNCHANGED <<rebuilt, parent, tree, attempts, failed>>
      /\ \/ /\ pc' = [pc EXCEPT ![w] = "ended"] /\ inside' = inside \ {w}
            /\ UNCHANGED <<round, base, track>>
         \/ /\ round[w] = 1 /\ round' = [round EXCEPT ![w] = 2]
            /\ base' = [base EXCEPT ![w] = n] /\ track' = [track EXCEPT ![w] = n]
            /\ pc' = [pc EXCEPT ![w] = "work"] /\ UNCHANGED inside
  BY DEF Published, Ends, Goto
<1>6. TypeOK'
  <2>1. /\ parent \in [Writers -> 1 .. Tip'] /\ base \in [Writers -> 1 .. Tip']
        /\ track \in [Writers -> 1 .. Tip'] /\ source \in [Writers -> 1 .. Tip' \cup {0}]
    BY <1>1, <1>4 DEF TypeOK, Positions
  <2>2. /\ base' \in [Writers -> 1 .. Tip'] /\ track' \in [Writers -> 1 .. Tip']
        /\ source' \in [Writers -> 1 .. Tip' \cup {0}]
    BY <1>5, <2>1
  <2>3. /\ pc' \in [Writers -> Pcs] /\ round' \in [Writers -> Rounds] /\ inside' \subseteq Writers
    BY <1>1, <1>5 DEF TypeOK, Pcs, Rounds
  <2>4. QED
    BY <1>1, <1>2, <1>5, <2>1, <2>2, <2>3 DEF TypeOK, Positions, Tip, Commits
<1>7. Alone(w)
  BY <1>1, <1>5 DEF TypeOK, Alone
<1>8. WriterInv(w)'
  <2>1. /\ source'[w] = n /\ tree'[w] = tree[w]
        /\ \/ pc'[w] = "ended" /\ round'[w] = round[w] /\ base'[w] = base[w]
           \/ pc'[w] = "work" /\ round[w] = 1 /\ round'[w] = 2 /\ base'[w] = n
    BY <1>1, <1>5 DEF TypeOK
  <2>2. HoldsSource(w)'
    BY <1>2, <2>1 DEF HoldsSource, Selected
  <2>3. OnItsBase(w)' /\ OwnPlace(w)' /\ RecordsOnly(w)'
    BY <2>1 DEF OnItsBase, OwnPlace, RecordsOnly, Pushing
  <2>4. NotYet(w)'
    <3>1. CASE pc'[w] = "ended" /\ round'[w] = round[w]
      BY <1>2, <3>1 DEF NotYet, Pushing, Positions, Tip
    <3>2. CASE round[w] = 1 /\ round'[w] = 2
      BY <1>2, <3>2 DEF NotYet, Positions, Tip, Rounds
    <3>3. QED
      BY <2>1, <3>1, <3>2
  <2>5. Delivers(w)'
    BY <1>2, <1>3, <2>1 DEF Delivers, Positions, Tip, Commit
  <2>6. QED
    BY <2>2, <2>3, <2>4, <2>5 DEF WriterInv
<1>9. QED
  BY <1>6, <1>7, <1>8, StepKeeps

\* A publication that fails and left the branch alone ends the run.
LEMMA FailsKeeps ==
  ASSUME IInv, NEW w \in Writers, NEW e \in Errors, Fails(w, e), faults' \in 0 .. MaxFaults,
         UNCHANGED <<branch, round, rebuilt, track, base, parent, tree, source, attempts>>
  PROVE  IInv'
<1>1. TypeOK /\ WriterInv(w)
  BY DEF IInv
<1>2. <<Commit(w), e>> \in Updates \X Errors
  BY <1>1 DEF TypeOK, Commit, Updates
<1>3. TypeOK' /\ Alone(w)
  BY <1>1, <1>2 DEF TypeOK, Alone, Fails, Ends, Goto, Positions, Tip, Pcs
<1>4. pc'[w] = "ended" /\ round'[w] = round[w]
  BY <1>1 DEF Fails, Ends, Goto, TypeOK
<1>5. HoldsSource(w)' /\ RecordsOnly(w)'
  BY <1>1, <1>4 DEF WriterInv, HoldsSource, RecordsOnly, Pushing
<1>6. WriterInv(w)'
  BY <1>1, <1>4, <1>5, Outside
<1>7. QED
  BY <1>3, <1>6, StepKeeps DEF BranchMoves

\* Those publications: before the push, at a moved branch, refused, or when the
\* branch could not be fetched again.
LEMMA FailuresKeep ==
  ASSUME IInv, NEW w \in Writers,
         PublishBreaks(w) \/ PushMoved(w) \/ PushRejected(w) \/ RefetchFails(w)
  PROVE  IInv'
<1>1. faults' \in 0 .. MaxFaults
  BY ReleaseAssumption
     DEF IInv, TypeOK, PublishBreaks, PushMoved, PushRejected, RefetchFails, Fault
<1>2. UNCHANGED <<branch, round, rebuilt, track, base, parent, tree, source, attempts>>
  BY DEF PublishBreaks, PushMoved, PushRejected, RefetchFails, PushFails
<1>3. \E e \in Errors : Fails(w, e)
  BY DEF PublishBreaks, PushMoved, PushRejected, RefetchFails, PushFails, Errors
<1>4. QED
  BY <1>1, <1>2, <1>3, FailsKeeps

LEMMA PushFoundKeeps ==
  ASSUME IInv, NEW w \in Writers, PushFound(w)
  PROVE  IInv'
<1>1. TypeOK /\ UNCHANGED branch /\ UNCHANGED faults
  BY DEF IInv, PushFound
<1>2. track[w] \in 1 .. Tip' /\ branch'[track[w]].id = Commit(w)
  BY <1>1 DEF TypeOK, PushFound, Installed, Positions, Tip
<1>3. QED
  BY <1>1, <1>2, PublishedKeeps DEF PushFound, BranchMoves

LEMMA PushAcceptedKeeps ==
  ASSUME IInv, NEW w \in Writers, PushAccepted(w)
  PROVE  IInv'
<1>1. TypeOK /\ MayPush(w) /\ Accept(w) /\ pc[w] = "push"
  BY DEF IInv, PushAccepted, MayPush
<1>2. Tip \in Nat /\ Tip' = Tip + 1 /\ branch'[Tip + 1] = Candidate(w)
  BY <1>1, AcceptGrows
<1>3. Tip + 1 \in 1 .. Tip' /\ branch'[Tip + 1].id = Commit(w)
  BY <1>1, <1>2, CandidateShape DEF Commit
<1>4. QED
  BY <1>1, <1>3, PublishedKeeps DEF PushAccepted, BranchMoves

\* An error may hide that the server took the push.
LEMMA PushErredKeeps ==
  ASSUME IInv, NEW w \in Writers, PushErred(w) \/ PushLost(w)
  PROVE  IInv'
<1>1. TypeOK /\ WriterInv(w) /\ MayPush(w) /\ pc[w] = "push" /\ Pushing(w)
  BY DEF IInv, PushErred, PushLost, MayPush, Pushing
<1>2. BranchMoves(w)
  BY <1>1 DEF PushErred, PushLost, BranchMoves
<1>3. /\ branch' \in Seq(Commits) /\ Tip \in Nat /\ Tip' \in Nat /\ Tip' >= Tip
      /\ \A n \in 1 .. Tip' : branch'[n].id = Commit(w) =>
            /\ n = parent[w] + 1
            /\ \A f \in Selected(w) : branch'[n].tree[f] = tree[w][f]
      /\ \A n \in 1 .. Tip', k \in Rounds : branch'[n].id = <<w, k>> =>
            k < round[w] \/ k = round[w]
      /\ round[w] = 2 => \A n \in 1 .. Tip' : branch'[n].id = <<w, 1>> <=> n = base[w]
      /\ source[w] # 0 =>
            \A f \in Selected(w) : branch'[source[w]].tree[f] \subseteq tree[w][f]
  BY <1>1, <1>2, PushedBranch
<1>4. attempts[w] \in Nat /\ attempts[w] < MaxAttempts /\ parent[w] = base[w]
  BY <1>1 DEF TypeOK, WriterInv, OnItsBase
<1>5. /\ attempts' = [attempts EXCEPT ![w] = attempts[w] + 1]
      /\ faults < MaxFaults /\ faults' = faults + 1
      /\ UNCHANGED <<track, round, rebuilt, base, parent, tree, source>>
      /\ \/ /\ pc' = [pc EXCEPT ![w] = "ended"] /\ inside' = inside \ {w}
            /\ \E e \in Errors : failed' = failed \cup {<<Commit(w), e>>}
         \/ /\ attempts[w] + 1 < MaxAttempts /\ pc' = [pc EXCEPT ![w] = "refetch"]
            /\ UNCHANGED <<inside, failed>>
  <2>1. CASE PushErred(w)
    BY <1>4, <2>1 DEF PushErred, PushFails, Fails, Ends, Goto, Fault, MaxAttempts, Errors
  <2>2. CASE PushLost(w)
    BY <2>2 DEF PushLost, PushFails, Fails, Ends, Goto, Fault, Errors
  <2>3. QED
    BY <2>1, <2>2
<1>6. TypeOK'
  <2>1. \A n \in 1 .. Tip : n \in 1 .. Tip'
    BY <1>3
  <2>2. /\ parent \in [Writers -> 1 .. Tip'] /\ base \in [Writers -> 1 .. Tip']
        /\ track \in [Writers -> 1 .. Tip'] /\ source \in [Writers -> 1 .. Tip' \cup {0}]
    BY <1>1, <2>1 DEF TypeOK, Positions
  <2>3. attempts' \in [Writers -> 0 .. MaxAttempts] /\ faults' \in 0 .. MaxFaults
    BY <1>1, <1>4, <1>5, ReleaseAssumption DEF TypeOK, MaxAttempts
  <2>4. /\ pc' \in [Writers -> Pcs] /\ inside' \subseteq Writers /\ failed' \subseteq Updates \X Errors
    <3>1. Commit(w) \in Updates
      BY <1>1 DEF TypeOK, Commit, Updates
    <3>2. \A e \in Errors : <<Commit(w), e>> \in Updates \X Errors
      BY <3>1
    <3>3. failed \subseteq Updates \X Errors /\ inside \subseteq Writers /\ pc \in [Writers -> Pcs]
      BY <1>1 DEF TypeOK
    <3>4. failed' \subseteq Updates \X Errors
      BY <1>5, <3>2, <3>3
    <3>5. QED
      BY <1>5, <3>3, <3>4 DEF Pcs
  <2>5. QED
    BY <1>1, <1>3, <1>5, <2>2, <2>3, <2>4 DEF TypeOK, Positions, Tip, Commits
<1>7. Alone(w)
  BY <1>1, <1>5 DEF TypeOK, Alone
<1>8. WriterInv(w)'
  <2>1. /\ round'[w] = round[w] /\ base'[w] = base[w] /\ parent'[w] = parent[w]
        /\ source'[w] = source[w] /\ tree'[w] = tree[w] /\ attempts'[w] = attempts[w] + 1
        /\ pc'[w] = "ended" \/ (attempts[w] + 1 < MaxAttempts /\ pc'[w] = "refetch")
    BY <1>1, <1>5 DEF TypeOK
  <2>2. OnItsBase(w)' /\ RecordsOnly(w)'
    BY <1>4, <2>1 DEF OnItsBase, RecordsOnly, Pushing
  <2>3. HoldsSource(w)'
    BY <1>3, <2>1 DEF HoldsSource, Selected
  <2>4. OwnPlace(w)'
    BY <1>3, <2>1 DEF OwnPlace, Positions, Tip, Commit, Selected
  <2>5. NotYet(w)' /\ Delivers(w)'
    BY <1>3, <2>1 DEF NotYet, Delivers, Pushing, Positions, Tip
  <2>6. QED
    BY <2>2, <2>3, <2>4, <2>5 DEF WriterInv
<1>9. QED
  BY <1>2, <1>6, <1>7, <1>8, StepKeeps

LEMMA RefetchKeeps ==
  ASSUME IInv, NEW w \in Writers, Refetch(w)
  PROVE  IInv'
<1>1. TypeOK /\ WriterInv(w) /\ UNCHANGED branch
  BY DEF IInv, Refetch
<1>2. Tip \in Positions
  BY <1>1, TipIsACommit
<1>3. TypeOK' /\ Alone(w)
  BY <1>1, <1>2 DEF TypeOK, Alone, Refetch, Fetched, Goto, Positions, Tip, Pcs
<1>4. pc[w] = "refetch" /\ pc'[w] = "push"
  BY <1>1 DEF TypeOK, Refetch, Goto
<1>5. WriterInv(w)'
  BY <1>1, <1>4 DEF WriterInv, OnItsBase, HoldsSource, OwnPlace, NotYet, RecordsOnly, Delivers,
                    Pushing, Refetch, Commit, Positions, Tip, Selected
<1>6. QED
  BY <1>1, <1>3, <1>5, StepKeeps DEF BranchMoves

LEMMA BreaksKeeps ==
  ASSUME IInv, NEW w \in Writers, Breaks(w)
  PROVE  IInv'
<1>1. TypeOK /\ WriterInv(w) /\ UNCHANGED branch
  BY DEF IInv, Breaks
<1>2. TypeOK' /\ Alone(w)
  BY <1>1, ReleaseAssumption DEF TypeOK, Alone, Breaks, Ends, Fault, Goto, Positions, Tip, Pcs
<1>3. pc'[w] = "ended" /\ round'[w] = round[w]
  BY <1>1 DEF TypeOK, Breaks, Ends, Goto
<1>4. HoldsSource(w)' /\ RecordsOnly(w)'
  BY <1>1, <1>3 DEF WriterInv, HoldsSource, RecordsOnly, Pushing, Breaks
<1>5. WriterInv(w)'
  BY <1>1, <1>3, <1>4, Outside DEF Breaks
<1>6. QED
  BY <1>1, <1>2, <1>5, StepKeeps DEF BranchMoves

-----------------------------------------------------------------------------
LEMMA NextKeeps == IInv /\ [Next]_vars => IInv'
<1> SUFFICES ASSUME IInv, [Next]_vars PROVE IInv'
  OBVIOUS
<1>1. ASSUME NEW w \in Writers, Prepare(w) PROVE IInv'
  BY <1>1, RestoreKeeps, RestoreNothingKeeps, LookupKeeps, WorkKeeps, RevalidateKeeps,
     PublishKeeps, FailuresKeep DEF Prepare
<1>2. ASSUME NEW w \in Writers, Push(w) PROVE IInv'
  BY <1>2, FailuresKeep, PushFoundKeeps, PushAcceptedKeeps, PushErredKeeps, RefetchKeeps DEF Push
<1>3. CASE UNCHANGED vars
  <2>1. UNCHANGED <<branch, pc, round, rebuilt, track, base, parent, tree, source, attempts,
                    inside, failed, faults>>
    BY <1>3 DEF vars, local
  <2>2. TypeOK'
    BY <2>1 DEF IInv, TypeOK, Positions, Tip
  <2>3. BranchInv'
    BY <2>1 DEF IInv, BranchInv, FirstRelease, BasedReleaseForgetsNothing, PartialKeepsOthers,
                LedgerFollowsRelease, Positions, Tip, Keeps, Selected
  <2>4. ASSUME NEW w \in Writers PROVE WriterInv(w)'
    BY <2>1 DEF IInv, WriterInv, OnItsBase, HoldsSource, OwnPlace, NotYet, RecordsOnly,
                Delivers, Pushing, Commit, Positions, Tip, Selected
  <2>5. QED
    BY <2>2, <2>3, <2>4 DEF IInv
<1>4. QED
  BY <1>1, <1>2, <1>3, EnterKeeps, BreaksKeeps DEF Next, Runs, Done

\* The inductive invariant holds in every reachable state.
THEOREM Invariance == Spec => []IInv
<1>1. QED
  BY InitIInv, NextKeeps, PTL DEF Spec

\* Every variable stays in its domain and every position lies on the branch.
THEOREM TypeCorrect == Spec => []TypeOK
<1>1. IInv => TypeOK
  BY DEF IInv
<1>2. QED
  BY <1>1, Invariance, PTL

\* Whatever the queue lets through and whatever the server answers, a release
\* made from the base its writer expected forgets nothing (data_release.py,
\* publish and _push_commit_with_retry).
THEOREM ForgetsNothing == Spec => []BasedReleaseForgetsNothing
<1>1. IInv => BasedReleaseForgetsNothing
  BY DEF IInv, BranchInv
<1>2. QED
  BY <1>1, Invariance, PTL

\* A partial writer carries every other artifact forward from the commit right
\* before its own (data_release.py, _create_commit).
THEOREM CarriesOthersForward == Spec => []PartialKeepsOthers
<1>1. IInv => PartialKeepsOthers
  BY DEF IInv, BranchInv
<1>2. QED
  BY <1>1, Invariance, PTL

\* The record of a delivery lies directly on the release it was made for.
THEOREM RecordsOnItsRelease == Spec => []LedgerFollowsRelease
<1>1. IInv => LedgerFollowsRelease
  BY DEF IInv, BranchInv
<1>2. QED
  BY <1>1, Invariance, PTL

\* Who goes on to deliver has its release on the branch exactly once, as the
\* base of what it will record.
THEOREM DeliversItsRelease == Spec => []DeliversPublished
<1>1. IInv => DeliversPublished
  <2> SUFFICES ASSUME IInv, NEW w \in Writers, round[w] = 2
               PROVE  {n \in Positions : branch[n].id = <<w, 1>>} = {base[w]}
    BY DEF DeliversPublished
  <2>1. base[w] \in Positions /\ Delivers(w)
    BY DEF IInv, TypeOK, WriterInv
  <2>2. QED
    BY <2>1 DEF Delivers
<1>2. QED
  BY <1>1, Invariance, PTL

-----------------------------------------------------------------------------
(* What was reported as failed.                                            *)

\* A publication that was reported as failed ended its run.
FailedIsOver == \A w \in Writers, k \in Rounds, e \in Errors :
    <<<<w, k>>, e>> \in failed => pc[w] = "ended"

\* A writer that is about to push has seen its commit if it is on the branch:
\* after each error it fetches first.
Looked(w) == pc[w] = "push" =>
    /\ track[w] >= parent[w]
    /\ \A n \in Positions : branch[n].id = Commit(w) => track[w] > parent[w]

ReportInv == FailedIsOver /\ InstalledIsReported /\ \A w \in Writers : Looked(w)

\* What the other writers' steps leave of a writer.
Still(u) == UNCHANGED <<pc[u], round[u], track[u], parent[u], attempts[u]>>

\* A report that is right: the outcome is open, or the commit is not the head.
Honest(w, e) == e \in OutcomeUnknown(w)' \/ (UNCHANGED branch /\ branch[Tip].id # Commit(w))

\* A step touches one writer, and none that has ended.
LEMMA StepShape ==
  ASSUME TypeOK, NEW w \in Writers, Runs(w) \/ Breaks(w)
  PROVE  (\A u \in Writers \ {w} : Still(u)) /\ pc[w] # "ended"
<1>1. \A u \in Writers \ {w} : Still(u)
  <2>1. CASE Enter(w) \/ Breaks(w)
    BY <2>1 DEF Enter, Breaks, Ends, Goto, Still, TypeOK
  <2>2. CASE Prepare(w)
    BY <2>2 DEF Prepare, Restore, RestoreNothing, Lookup, Work, Revalidate, Publish, PublishBreaks,
       Fails, Ends, Goto, Fetched, Still, TypeOK
  <2>3. CASE Push(w)
    BY <2>3 DEF Push, PushFound, PushMoved, PushAccepted, PushRejected, PushErred, PushLost, Refetch,
       RefetchFails, Published, PushFails, Fails, MayPush, Ends, Goto, Fetched, Still, TypeOK
  <2>4. QED
    BY <2>1, <2>2, <2>3 DEF Runs
<1>2. pc[w] # "ended"
  BY DEF Runs, Enter, Breaks, Prepare, Restore, RestoreNothing, Lookup, Work, Revalidate, Publish,
     PublishBreaks, Push, PushFound, PushMoved, PushAccepted, PushRejected, PushErred, PushLost,
     Refetch, RefetchFails, MayPush
<1>3. QED
  BY <1>1, <1>2

\* A step that reports nothing, or honestly, keeps the invariant if its writer
\* has looked.
LEMMA ReportKept ==
  ASSUME IInv, ReportInv, NEW w \in Writers, Runs(w) \/ Breaks(w), BranchMoves(w), IInv', Looked(w)',
         \/ failed' = failed
         \/ \E e \in Errors : /\ failed' = failed \cup {<<Commit(w), e>>}
                              /\ pc'[w] = "ended" /\ Honest(w, e)
  PROVE  ReportInv'
<1>1. (\A u \in Writers \ {w} : Still(u)) /\ pc[w] # "ended"
  BY StepShape DEF IInv
<1>2. \A u \in Writers, k \in Rounds, d \in Errors :
          <<<<u, k>>, d>> \in failed => u # w /\ pc[u] = "ended" /\ Still(u)
  BY <1>1 DEF ReportInv, FailedIsOver
<1>3. \A u \in Writers, k \in Rounds, d \in Errors : <<<<u, k>>, d>> \in failed' =>
          \/ <<<<u, k>>, d>> \in failed
          \/ <<u, k>> = Commit(w) /\ u = w /\ pc'[w] = "ended" /\ Honest(w, d)
  BY DEF Commit
<1>4. FailedIsOver'
  BY <1>2, <1>3 DEF FailedIsOver, Still
<1>5. InstalledIsReported'
  <2> SUFFICES ASSUME NEW v \in Updates, NEW d \in Errors,
                      branch'[Tip'].id = v, <<v, d>> \in failed'
               PROVE  d \in OutcomeUnknown(v[1])'
    BY DEF InstalledIsReported, Updates, Tip
  <2>1. PICK u \in Writers, k \in Rounds : v = <<u, k>>
    BY DEF Updates
  <2>2. CASE <<v, d>> \in failed
    <3>1. u # w /\ attempts'[u] = attempts[u]
      BY <1>2, <2>1, <2>2 DEF Still
    <3>2. UNCHANGED branch
      <4>1. ASSUME MayPush(w), Accept(w) PROVE branch'[Tip'].id = Commit(w)
        BY <4>1, AcceptGrows, CandidateShape DEF IInv, Commit
      <4>2. QED
        BY <2>1, <3>1, <4>1 DEF BranchMoves, Commit
    <3>3. d \in OutcomeUnknown(u)
      BY <2>1, <2>2, <3>2 DEF ReportInv, InstalledIsReported, Tip
    <3>4. QED
      BY <2>1, <3>1, <3>3 DEF OutcomeUnknown
  <2>3. CASE v = Commit(w) /\ u = w /\ Honest(w, d)
    BY <2>1, <2>3 DEF Honest, Tip
  <2>4. QED
    BY <1>3, <2>1, <2>2, <2>3
<1>6. ASSUME NEW u \in Writers \ {w} PROVE Looked(u)'
  <2>1. Still(u) /\ Looked(u)
    BY <1>1 DEF ReportInv
  <2> SUFFICES ASSUME pc'[u] = "push", NEW n \in Positions', branch'[n].id = Commit(u)'
               PROVE  track'[u] > parent'[u]
    BY <2>1 DEF Looked, Still
  <2>2. Commit(u)' = Commit(u)
    BY <2>1 DEF Commit, Still
  <2>3. n \in Positions /\ branch[n].id = Commit(u)
    <3>1. CASE UNCHANGED branch
      BY <2>2, <3>1 DEF Positions, Tip
    <3>2. CASE MayPush(w) /\ Accept(w)
      <4>1. /\ Tip \in Nat /\ Tip' = Tip + 1 /\ branch'[Tip + 1].id = Commit(w)
            /\ \A m \in 1 .. Tip : branch'[m] = branch[m]
        BY <3>2, AcceptGrows, CandidateShape DEF IInv, Commit
      <4>2. Commit(w) # Commit(u)
        BY DEF Commit
      <4>3. n \in 1 .. Tip
        BY <2>2, <4>1, <4>2 DEF Positions
      <4>4. QED
        BY <2>2, <4>1, <4>3 DEF Positions
    <3>3. QED
      BY <3>1, <3>2 DEF BranchMoves
  <2>4. QED
    BY <2>1, <2>3 DEF Looked, Still
<1>7. QED
  BY <1>4, <1>5, <1>6 DEF ReportInv

\* publish: the commit is built only now, so it is nowhere on the branch.
LEMMA PublishReports ==
  ASSUME IInv, IInv', ReportInv, NEW w \in Writers, Publish(w) \/ PublishBreaks(w)
  PROVE  ReportInv'
<1>1. TypeOK /\ NotYet(w) /\ Tip \in Positions
  BY TipIsACommit DEF IInv, WriterInv
<1>2. UNCHANGED <<branch, round>> /\ pc[w] = "publish" /\ (Runs(w) \/ Breaks(w)) /\ BranchMoves(w)
  BY DEF Publish, PublishBreaks, Runs, Prepare, BranchMoves
<1>3. \A n \in Positions : branch[n].id # Commit(w)
  <2>1. round[w] \in {1, 2}
    BY <1>1 DEF TypeOK, Rounds
  <2>2. QED
    BY <1>1, <1>2, <2>1 DEF NotYet, Commit, Pushing, Rounds
<1>4. Looked(w)'
  <2>1. \A n \in Positions' : branch'[n].id # Commit(w)'
    BY <1>2, <1>3 DEF Positions, Tip, Commit
  <2>2. pc'[w] = "push" => track'[w] = Tip /\ parent'[w] = Tip
    BY <1>1 DEF Publish, PublishBreaks, Fails, Ends, Goto, Fetched, TypeOK
  <2>3. Tip \in Nat
    BY <1>1 DEF Positions
  <2>4. QED
    BY <2>1, <2>2, <2>3 DEF Looked
<1>5. \/ failed' = failed
      \/ \E e \in Errors : failed' = failed \cup {<<Commit(w), e>>} /\ pc'[w] = "ended"
  BY <1>1 DEF Publish, PublishBreaks, Fails, Ends, Goto, TypeOK, Errors
<1>6. \A e \in Errors : Honest(w, e)
  BY <1>1, <1>2, <1>3 DEF Honest
<1>7. QED
  BY <1>2, <1>4, <1>5, <1>6, ReportKept

\* The branch moved: the commit is not the head, because it was looked for, and
\* what is at the head of this writer was found.
LEMMA MovedReports ==
  ASSUME IInv, IInv', ReportInv, NEW w \in Writers, PushMoved(w) \/ PushRejected(w)
  PROVE  ReportInv'
<1>1. TypeOK /\ OwnPlace(w) /\ Looked(w) /\ Tip \in Positions
  BY TipIsACommit DEF IInv, WriterInv, ReportInv
<1>2. pc[w] = "push" /\ ~Installed(w) /\ (track[w] = parent[w] => Tip # parent[w])
  BY DEF PushMoved, PushRejected, MayPush
<1>3. /\ UNCHANGED branch /\ pc'[w] = "ended"
      /\ \E e \in Errors : failed' = failed \cup {<<Commit(w), e>>}
  BY <1>1 DEF PushMoved, PushRejected, PushFails, Fails, Ends, Goto, TypeOK, Errors
<1>4. branch[Tip].id # Commit(w)
  <2> SUFFICES ASSUME branch[Tip].id = Commit(w) PROVE FALSE
    OBVIOUS
  <2>1. Tip = parent[w] + 1 /\ track[w] > parent[w]
    BY <1>1, <1>2 DEF OwnPlace, Looked, Pushing
  <2>2. track[w] = Tip
    BY <1>1, <2>1 DEF TypeOK, Positions
  <2>3. QED
    BY <1>2, <2>2 DEF Installed
<1>5. QED
  BY <1>3, <1>4, ReportKept DEF BranchMoves, Runs, Push, Looked, Honest

\* An error that leaves the outcome open; the third server error is the last try.
LEMMA ErrReports ==
  ASSUME IInv, IInv', ReportInv, NEW w \in Writers, PushErred(w) \/ PushLost(w) \/ RefetchFails(w)
  PROVE  ReportInv'
<1>1. TypeOK /\ attempts[w] \in Nat /\ attempts'[w] \in 0 .. MaxAttempts
  <2>1. TypeOK /\ TypeOK'
    BY DEF IInv
  <2>2. attempts[w] \in 0 .. MaxAttempts /\ attempts'[w] \in 0 .. MaxAttempts
    BY <2>1 DEF TypeOK
  <2>3. QED
    BY <2>1, <2>2 DEF MaxAttempts
<1>2. BranchMoves(w) /\ Runs(w)
  BY DEF PushErred, PushLost, RefetchFails, BranchMoves, Runs, Push
<1>3. pc'[w] \in {"ended", "refetch"}
  BY <1>1 DEF PushErred, PushLost, RefetchFails, PushFails, Fails, Ends, Goto, TypeOK
<1>4. \/ failed' = failed
      \/ \E e \in Errors : /\ failed' = failed \cup {<<Commit(w), e>>} /\ pc'[w] = "ended"
                           /\ e \in OutcomeUnknown(w)'
  <2>1. CASE PushErred(w)
    <3>1. attempts'[w] = attempts[w] + 1
      BY <1>1, <2>1 DEF PushErred, TypeOK
    <3>2. attempts[w] + 1 >= MaxAttempts => "exhausted" \in OutcomeUnknown(w)'
      BY <1>1, <3>1 DEF OutcomeUnknown, MaxAttempts
    <3>3. QED
      BY <1>1, <2>1, <3>2 DEF PushErred, PushFails, Fails, Ends, Goto, TypeOK, Errors
  <2>2. CASE PushLost(w) \/ RefetchFails(w)
    BY <1>1, <2>2
       DEF PushLost, RefetchFails, PushFails, Fails, Ends, Goto, TypeOK, Errors, OutcomeUnknown
  <2>3. QED
    BY <2>1, <2>2
<1>5. QED
  BY <1>2, <1>3, <1>4, ReportKept DEF Looked, Honest

LEMMA RefetchReports ==
  ASSUME IInv, IInv', ReportInv, NEW w \in Writers, Refetch(w)
  PROVE  ReportInv'
<1>1. TypeOK /\ OwnPlace(w) /\ Tip \in Positions
  BY TipIsACommit DEF IInv, WriterInv
<1>2. UNCHANGED <<branch, round, parent, failed>> /\ pc[w] = "refetch" /\ track'[w] = Tip
  BY <1>1 DEF Refetch, Fetched, TypeOK
<1>3. Looked(w)'
  <2>1. parent[w] \in 1 .. Tip /\ Tip \in Nat
    BY <1>1 DEF TypeOK, Positions
  <2>2. \A n \in Positions : branch[n].id = Commit(w) => n = parent[w] + 1 /\ n <= Tip
    BY <1>1, <1>2 DEF OwnPlace, Pushing, Positions
  <2>3. Commit(w)' = Commit(w) /\ Positions' = Positions /\ branch' = branch
    BY <1>2 DEF Commit, Positions, Tip
  <2>4. QED
    BY <1>2, <2>1, <2>2, <2>3 DEF Looked
<1>4. QED
  BY <1>2, <1>3, ReportKept DEF BranchMoves, Runs, Push

\* The other steps do not push next and report nothing.
LEMMA QuietReports ==
  ASSUME IInv, IInv', ReportInv, NEW w \in Writers,
         \/ Enter(w) \/ Breaks(w) \/ Restore(w) \/ RestoreNothing(w) \/ Lookup(w) \/ Work(w)
         \/ Revalidate(w) \/ PushFound(w) \/ PushAccepted(w)
  PROVE  ReportInv'
<1>1. Runs(w) \/ Breaks(w)
  BY DEF Runs, Prepare, Push
<1>2. failed' = failed
  BY DEF Enter, Breaks, Restore, RestoreNothing, Lookup, Work, Revalidate, PushFound, PushAccepted,
     Published
<1>3. pc'[w] # "push"
  BY DEF IInv, Enter, Breaks, Restore, RestoreNothing, Lookup, Work, Revalidate, PushFound,
     PushAccepted, Published, Ends, Goto, TypeOK
<1>4. BranchMoves(w)
  BY DEF Enter, Breaks, Restore, RestoreNothing, Lookup, Work, Revalidate, PushFound, PushAccepted,
     BranchMoves
<1>5. QED
  BY <1>1, <1>2, <1>3, <1>4, ReportKept DEF Looked

LEMMA ReportsKept == IInv /\ ReportInv /\ [Next]_vars => ReportInv'
<1> SUFFICES ASSUME IInv, ReportInv, [Next]_vars PROVE ReportInv'
  OBVIOUS
<1>1. IInv'
  BY NextKeeps
<1>2. ASSUME NEW w \in Writers, Runs(w) \/ Breaks(w) PROVE ReportInv'
  BY <1>1, <1>2, PublishReports, MovedReports, ErrReports, RefetchReports, QuietReports
     DEF Runs, Prepare, Push
<1>3. CASE UNCHANGED vars
  BY <1>3 DEF vars, local, ReportInv, FailedIsOver, InstalledIsReported, OutcomeUnknown, Looked,
     Commit, Positions, Tip
<1>4. QED
  BY <1>2, <1>3 DEF Next, Done

LEMMA InitReports == Init => ReportInv
BY DEF Init, ReportInv, FailedIsOver, InstalledIsReported, Looked

\* The head of the branch was reported as failed only with an error that leaves
\* the outcome open: an answer that was lost, a fetch that failed, or three server
\* errors.  publish() finds every other commit that an error hid, and never takes
\* its own for the commit of somebody else (data_release.py,
\* _push_commit_with_retry).
THEOREM ReportsWhatItInstalled == Spec => []InstalledIsReported
<1>1. ReportInv => InstalledIsReported
  BY DEF ReportInv
<1>2. QED
  BY <1>1, InitReports, ReportsKept, InitIInv, NextKeeps, PTL DEF Spec
=============================================================================
