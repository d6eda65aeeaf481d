----------------------------- MODULE DataRelease -----------------------------
(***************************************************************************)
(* The data-release branch and the workflows that publish to it            *)
(* (src/data_release.py, src/scheduled_preparation.py and the steps of the *)
(* workflows around them).  A writer restores the files of the branch,     *)
(* looks up the commit they are based on, changes them, and pushes a       *)
(* commit on that base: first the release, then the ledger of what was     *)
(* delivered.  The base is compared when the writer publishes and again by *)
(* the server, which moves the branch only forward.                        *)
(*                                                                         *)
(* A commit is what it holds: for each group of files the updates that     *)
(* went into it.  The writer queue (src/writer_queue.py) lets Capacity     *)
(* writers in: one, or more when it decides from listings that lag behind. *)
(***************************************************************************)
EXTENDS Naturals, Sequences, FiniteSets

CONSTANTS Writers,
          QueueFirst,     \* writers that restore inside the queue
          Rebuilders,     \* writers that prepare a second time when the base moved
          CacheWriters,   \* writers that also publish the research caches
          Deliverers,     \* writers that deliver what they published and record it
          Capacity,       \* writers the queue lets in at once
          MaxFaults       \* bound: failed steps, pushes answered by an error, cancelled runs

ASSUME ReleaseAssumption ==
    /\ QueueFirst \subseteq Writers /\ Rebuilders \subseteq QueueFirst
    /\ CacheWriters \subseteq Writers /\ Deliverers \subseteq Writers
    /\ IsFiniteSet(Writers)
    /\ Capacity \in Nat \ {0} /\ MaxFaults \in Nat

VARIABLES
    branch,   \* the commits of the branch: id, tree, the commit its files were
              \* restored from, and the base its writer expected
    pc,
    round,    \* 1: the release, 2: the delivery ledger
    rebuilt,  \* the preparation was repeated
    track,    \* origin/data-release in the runner: a position in branch
    base,     \* --expected-base-sha: a position in branch
    parent,   \* the parent of the commit being pushed: a position in branch
    tree,     \* the files in the runner
    source,   \* the position they were restored from, 0: the checkout of main
    attempts, \* pushes made for this commit
    inside,   \* writers admitted by the queue
    failed,   \* commits that publish() gave up, each with the error it raised
    faults

local  == <<pc, round, rebuilt, track, base, parent, tree, source, attempts>>
vars   == <<branch, local, inside, failed, faults>>

Files       == {"site", "caches"}
Rounds      == {1, 2}
Updates     == Writers \X Rounds
Selected(w) == IF w \in CacheWriters THEN Files ELSE {"site"}
Tip         == Len(branch)
Commit(w)   == <<w, round[w]>>
MainTree    == [f \in Files |-> {}]
MaxAttempts == 3

\* What publish() raises: expected_base_sha_mismatch; anything else before the
\* push; then data_release_push_remote_ref_changed, push_rejected because the
\* server refused, push_rejected with any other answer, push_transient_retry_
\* exhausted and push_recovery_fetch_failed.
Errors == {"mismatch", "unprepared", "ref_changed", "refused", "unanswered", "exhausted",
           "fetch_failed"}

\* The branch starts with a release that no writer of the model made.
Init ==
    /\ branch   = <<[id |-> <<>>, tree |-> MainTree, from |-> 0, onto |-> 0]>>
    /\ pc       = [w \in Writers |-> IF w \in QueueFirst THEN "queue" ELSE "restore"]
    /\ round    = [w \in Writers |-> 1]
    /\ rebuilt  = [w \in Writers |-> FALSE]
    /\ track    = [w \in Writers |-> 1]
    /\ base     = [w \in Writers |-> 1]
    /\ parent   = [w \in Writers |-> 1]
    /\ tree     = [w \in Writers |-> MainTree]
    /\ source   = [w \in Writers |-> 0]
    /\ attempts = [w \in Writers |-> 0]
    /\ inside   = {}
    /\ failed   = {}
    /\ faults   = 0

-----------------------------------------------------------------------------
Goto(w, p) == pc' = [pc EXCEPT ![w] = p]
Fault      == faults < MaxFaults /\ faults' = faults + 1
Fetched(w) == track' = [track EXCEPT ![w] = Tip]

\* The run ends, which frees its place in the queue.
Ends(w) == Goto(w, "ended") /\ inside' = inside \ {w}

\* publish() raises e, and the step that called it fails.
Fails(w, e) == Ends(w) /\ failed' = failed \cup {<<Commit(w), e>>}

Enter(w) ==
    /\ pc[w] = "queue" /\ Cardinality(inside) < Capacity
    /\ inside' = inside \cup {w}
    /\ Goto(w, IF w \in QueueFirst THEN "restore" ELSE "revalidate")
    /\ UNCHANGED <<branch, round, rebuilt, track, base, parent, tree, source, attempts, failed, faults>>

\* restore: fetch, then check the selected files out.
Restore(w) ==
    /\ pc[w] = "restore"
    /\ Fetched(w)
    /\ tree'   = [tree EXCEPT ![w] = [f \in Files |-> IF f \in Selected(w) THEN branch[Tip].tree[f]
                                                                          ELSE {}]]
    /\ source' = [source EXCEPT ![w] = Tip]
    /\ Goto(w, "lookup")
    /\ UNCHANGED <<branch, round, rebuilt, base, parent, attempts, inside, failed, faults>>

\* Fault: a fetch that fails leaves no remote branch behind.
RestoreForgetting(w) ==
    /\ pc[w] = "restore"
    /\ track'  = [track EXCEPT ![w] = 0]
    /\ tree'   = [tree EXCEPT ![w] = MainTree]
    /\ source' = [source EXCEPT ![w] = 0]
    /\ Goto(w, "lookup")
    /\ Fault /\ UNCHANGED <<branch, round, rebuilt, base, parent, attempts, inside, failed>>

\* A fetch that fails is reported as branch_missing and the step succeeds: the
\* writer goes on with the files of main.
RestoreNothing(w) ==
    /\ pc[w] = "restore"
    /\ tree'   = [tree EXCEPT ![w] = MainTree]
    /\ source' = [source EXCEPT ![w] = 0]
    /\ Goto(w, "lookup")
    /\ Fault /\ UNCHANGED <<branch, round, rebuilt, track, base, parent, attempts, inside, failed>>

\* The base is looked up with a fetch of its own.
Lookup(w) ==
    /\ pc[w] = "lookup"
    /\ Fetched(w)
    /\ base' = [base EXCEPT ![w] = Tip]
    /\ Goto(w, "work")
    /\ UNCHANGED <<branch, round, rebuilt, parent, tree, source, attempts, inside, failed, faults>>

\* The writer changes its files.  In the second round the base is the commit of
\* the first, and the change is the record of what was delivered.
Work(w) ==
    /\ pc[w] = "work"
    /\ tree' = [tree EXCEPT ![w] = [f \in Files |-> IF f \in Selected(w) THEN @[f] \cup {Commit(w)}
                                                                        ELSE @[f]]]
    /\ Goto(w, IF round[w] = 2 THEN "publish"
               ELSE IF w \in QueueFirst THEN "revalidate" ELSE "queue")
    /\ UNCHANGED <<branch, round, rebuilt, track, base, parent, source, attempts, inside, failed, faults>>

\* Fault: a writer whose base moved looks again instead of giving up.
RevalidatePolling(w) ==
    /\ pc[w] = "revalidate"
    /\ Fetched(w)
    /\ Goto(w, IF Tip = base[w] THEN "publish" ELSE "revalidate")
    /\ UNCHANGED <<branch, round, rebuilt, base, parent, tree, source, attempts, inside, failed, faults>>

\* The base moved while the writer prepared or waited: prepare again, once, or
\* leave it to the next run.
Revalidate(w) ==
    /\ pc[w] = "revalidate"
    /\ Fetched(w)
    /\ \/ Tip = base[w] /\ Goto(w, "publish") /\ UNCHANGED <<rebuilt, inside>>
       \/ /\ Tip # base[w] /\ w \in Rebuilders /\ ~rebuilt[w]
          /\ rebuilt' = [rebuilt EXCEPT ![w] = TRUE]
          /\ Goto(w, "restore") /\ UNCHANGED inside
       \/ /\ Tip # base[w] /\ (w \in Rebuilders => rebuilt[w])
          /\ Ends(w) /\ UNCHANGED rebuilt
    /\ UNCHANGED <<branch, round, base, parent, tree, source, attempts, failed, faults>>

\* Fault: the expected base is not compared.
PublishUnchecked(w) ==
    /\ pc[w] = "publish"
    /\ Fetched(w)
    /\ parent'   = [parent EXCEPT ![w] = Tip]
    /\ attempts' = [attempts EXCEPT ![w] = 0]
    /\ Goto(w, "push")
    /\ UNCHANGED <<branch, round, rebuilt, base, tree, source, inside, failed, faults>>

\* publish: fetch, compare with the expected base, build the commit.
Publish(w) ==
    /\ pc[w] = "publish"
    /\ Fetched(w)
    /\ parent' = [parent EXCEPT ![w] = Tip]
    /\ IF Tip = base[w]
       THEN /\ attempts' = [attempts EXCEPT ![w] = 0]
            /\ Goto(w, "push") /\ UNCHANGED <<inside, failed>>
       ELSE Fails(w, "mismatch") /\ UNCHANGED attempts
    /\ UNCHANGED <<branch, round, rebuilt, base, tree, source, faults>>

\* Its fetch fails, or git cannot build the commit.
PublishBreaks(w) ==
    /\ pc[w] = "publish" /\ Fault
    /\ Fails(w, "unprepared")
    /\ UNCHANGED <<branch, round, rebuilt, track, base, parent, tree, source, attempts>>

-----------------------------------------------------------------------------
(* _push_commit_with_retry                                                 *)

\* Fault: the index starts empty, so only the selected files are in the commit.
StagedAlone(w) == [f \in Files |-> IF f \in Selected(w) THEN tree[w][f] ELSE {}]

\* The index is seeded from the parent, then the selected files are staged.
Staged(w) == [f \in Files |-> IF f \in Selected(w) THEN tree[w][f] ELSE branch[parent[w]].tree[f]]

Candidate(w) == [id |-> Commit(w), tree |-> Staged(w), from |-> source[w], onto |-> base[w]]

\* Fault: the server takes any push.
AcceptForced(w) == branch' = Append(branch, Candidate(w))

\* The server moves the branch from the parent of the commit and from nowhere else.
Accept(w) == Tip = parent[w] /\ branch' = Append(branch, Candidate(w))

\* The commit at position n is the branch: the run is over, or one that delivers
\* goes on and records that on top of it.
Published(w, n) ==
    /\ source' = [source EXCEPT ![w] = n]
    /\ \/ Ends(w) /\ UNCHANGED <<round, base, track>>
       \/ /\ w \in Deliverers /\ round[w] = 1
          /\ round' = [round EXCEPT ![w] = 2]
          /\ base'  = [base EXCEPT ![w] = n]
          /\ track' = [track EXCEPT ![w] = n]
          /\ Goto(w, "work") /\ UNCHANGED inside
    /\ UNCHANGED <<rebuilt, parent, tree, attempts, failed>>

PushFails(w, e) == Fails(w, e) /\ UNCHANGED <<round, rebuilt, base, parent, tree, source>>

Installed(w) == branch[track[w]].id = Commit(w)
MayPush(w)   == pc[w] = "push" /\ ~Installed(w) /\ track[w] = parent[w]

PushFound(w) ==
    /\ pc[w] = "push" /\ Installed(w)
    /\ Published(w, track[w])
    /\ UNCHANGED <<branch, faults>>

PushMoved(w) ==
    /\ pc[w] = "push" /\ ~Installed(w) /\ track[w] # parent[w]
    /\ PushFails(w, "ref_changed")
    /\ UNCHANGED <<branch, track, attempts, faults>>

PushAccepted(w) ==
    /\ MayPush(w) /\ Accept(w)
    /\ Published(w, Tip + 1)
    /\ UNCHANGED faults

PushRejected(w) ==
    /\ MayPush(w) /\ Tip # parent[w]
    /\ PushFails(w, "refused")
    /\ UNCHANGED <<branch, track, attempts, faults>>

\* Fault: a server error is taken for a success.
PushAssumed(w) ==
    /\ MayPush(w) /\ Fault
    /\ Published(w, parent[w])
    /\ UNCHANGED branch

\* Fault: the first server error ends the publication.
PushErredOnce(w) ==
    /\ MayPush(w) /\ Fault
    /\ Accept(w) \/ UNCHANGED branch
    /\ attempts' = [attempts EXCEPT ![w] = @ + 1]
    /\ PushFails(w, "exhausted")
    /\ UNCHANGED track

\* A server error, before or after the branch moved: after the third the
\* publication fails, before that the branch is looked at again.
PushErred(w) ==
    /\ MayPush(w) /\ Fault
    /\ Accept(w) \/ UNCHANGED branch
    /\ attempts' = [attempts EXCEPT ![w] = @ + 1]
    /\ IF attempts[w] + 1 >= MaxAttempts
       THEN PushFails(w, "exhausted")
       ELSE Goto(w, "refetch") /\ UNCHANGED <<round, rebuilt, base, parent, tree, source, inside, failed>>
    /\ UNCHANGED track

\* Any other error, such as a connection that drops: it is not tried again, even
\* if the branch moved.
PushLost(w) ==
    /\ MayPush(w) /\ Fault
    /\ Accept(w) \/ UNCHANGED branch
    /\ attempts' = [attempts EXCEPT ![w] = @ + 1]
    /\ PushFails(w, "unanswered")
    /\ UNCHANGED track

Refetch(w) ==
    /\ pc[w] = "refetch"
    /\ Fetched(w)
    /\ Goto(w, "push")
    /\ UNCHANGED <<branch, round, rebuilt, base, parent, tree, source, attempts, inside, failed, faults>>

\* The branch cannot be looked at again.
RefetchFails(w) ==
    /\ pc[w] = "refetch" /\ Fault
    /\ PushFails(w, "fetch_failed")
    /\ UNCHANGED <<branch, track, attempts>>

\* The run is cancelled, or a step other than a publication fails.
Breaks(w) ==
    /\ pc[w] # "ended"
    /\ Ends(w)
    /\ Fault /\ UNCHANGED <<branch, round, rebuilt, track, base, parent, tree, source, attempts, failed>>

Push(w) == PushFound(w) \/ PushMoved(w) \/ PushAccepted(w) \/ PushRejected(w)
             \/ PushErred(w) \/ PushLost(w) \/ Refetch(w) \/ RefetchFails(w)
Prepare(w) == Restore(w) \/ RestoreNothing(w) \/ Lookup(w) \/ Work(w) \/ Revalidate(w)
                \/ Publish(w) \/ PublishBreaks(w)
Runs(w)    == Enter(w) \/ Prepare(w) \/ Push(w)

Done == (\A w \in Writers : pc[w] = "ended") /\ UNCHANGED vars

Next == (\E w \in Writers : Runs(w) \/ Breaks(w)) \/ Done

Spec == Init /\ [][Next]_vars

\* Steps of a run that began are executed, and the queue is polled.
FairSpec == Spec /\ \A w \in Writers : WF_vars(Prepare(w) \/ Push(w)) /\ WF_vars(Enter(w))

-----------------------------------------------------------------------------
(* Properties                                                              *)

Trees     == [Files -> SUBSET Updates]
Positions == 1 .. Tip
Pcs == {"queue", "restore", "lookup", "work", "revalidate", "publish", "push", "refetch", "ended"}

\* Every variable stays in its domain; a position lies on the branch.
TypeOK ==
    /\ branch   \in Seq([id : Updates \cup {<<>>}, tree : Trees, from : Nat, onto : Nat])
    /\ pc       \in [Writers -> Pcs]
    /\ round    \in [Writers -> Rounds]
    /\ rebuilt  \in [Writers -> BOOLEAN]
    /\ track    \in [Writers -> Positions]
    /\ base     \in [Writers -> Positions]
    /\ parent   \in [Writers -> Positions]
    /\ tree     \in [Writers -> Trees]
    /\ source   \in [Writers -> Positions \cup {0}]
    /\ attempts \in [Writers -> 0 .. MaxAttempts]
    /\ inside   \subseteq Writers
    /\ failed   \subseteq Updates \X Errors
    /\ faults   \in 0 .. MaxFaults

Keeps(old, new) == \A f \in Files : old.tree[f] \subseteq new.tree[f]

\* Whatever the queue lets through and whatever the server answers: when the
\* files of a commit were restored from the base its writer expected, it loses
\* nothing that the release before it held.
BasedReleaseForgetsNothing ==
    \A n \in 1 .. Tip - 1 :
        branch[n + 1].from = branch[n + 1].onto => Keeps(branch[n], branch[n + 1])

\* "A partial writer updates only its selected artifacts and carries every other
\* artifact forward", as they are in the commit right before its own.
PartialKeepsOthers ==
    \A n \in 1 .. Tip - 1, w \in Writers, f \in Files :
        branch[n + 1].id \in {w} \X Rounds /\ f \notin Selected(w)
            => branch[n + 1].tree[f] = branch[n].tree[f]

\* The record of a delivery follows directly on the release it was made for, so
\* no release of another writer is rewritten by it.
LedgerFollowsRelease ==
    \A n \in Positions, w \in Writers : branch[n].id = <<w, 2>> => branch[n - 1].id = <<w, 1>>

\* A writer that goes on to deliver has its release on the branch, as the base
\* of what it will record, and it is there once.
DeliversPublished ==
    \A w \in Writers : round[w] = 2 => {n \in Positions : branch[n].id = <<w, 1>>} = {base[w]}

\* Every run ends, also those that wait for the queue.
EveryRunEnds == \A w \in Writers : <>(pc[w] = "ended")

\* The errors that leave open whether the commit was installed; the last one only
\* after every push that publish() may make.
OutcomeUnknown(w) == {"unanswered", "fetch_failed"}
                       \cup (IF attempts[w] = MaxAttempts THEN {"exhausted"} ELSE {})

\* "An already-installed candidate is success": the head of the branch was not
\* reported as a publication that failed, unless with an error that leaves the
\* outcome open.  A refusal, a moved base and a moved branch never hide it, and a
\* server error is looked up before it is given up.
InstalledIsReported ==
    \A u \in Updates, e \in Errors :
        branch[Tip].id = u /\ <<u, e>> \in failed => e \in OutcomeUnknown(u[1])
=============================================================================
