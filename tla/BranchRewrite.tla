--------------------------- MODULE BranchRewrite ---------------------------
(***************************************************************************)
(* One run of the branch-sync or the ready-for-merge pipeline on the head  *)
(* branch of a pull request, while people push to the branch and merge     *)
(* into its base: clone, rebase or squash, the agent's fallback when the   *)
(* rebase stops, and the pushes.                                           *)
(*                                                                         *)
(* A history is the set of its commits, a commit the set of the changes it *)
(* makes and the number of times they were rewritten; one history descends *)
(* from another when it contains it.  Git is modelled by what the nodes    *)
(* use of it: a plain push needs a descendant, a lease the history that it *)
(* names, and --force-if-includes adds nothing to a lease that names one.  *)
(* The clone is a full one and the pipeline's own commits are not empty.   *)
(***************************************************************************)
EXTENDS Naturals, FiniteSets

CONSTANTS
    MaxBehind,       \* autoReviewBranchSyncMaxBehindCommits
    MergeLimit,      \* bound: commits merged into the base
    PushLimit        \* bound: pushes of other people

ASSUME RewriteAssumption == MaxBehind \in Nat /\ MergeLimit \in Nat /\ PushLimit \in Nat

VARIABLES
    job,             \* which pipeline runs, and whether both reviews were completed
    base, feature,   \* GitHub's histories
    others,          \* pushes of other people so far
    originBase, originFeature,  \* the remote-tracking refs of the clone
    localHead,       \* HEAD
    cloned,          \* what was checked out
    place,           \* the node, and where in it
    lease,           \* expectedRemoteSha
    rebased, forceLease, headSha,  \* the context bag
    conflictSeen,    \* rebaseConflictBaseBranch is set
    loopRounds,      \* of the on_failure loop, max_rounds 1
    fetchFailed,     \* sync_base_branch failed before it tried to rebase
    runResult

remotes == <<base, feature, others>>
localRefs == <<originBase, originFeature, localHead, cloned>>
contextBag == <<rebased, forceLease, headSha, conflictSeen>>
rewriteVars ==
    <<job, remotes, localRefs, place, lease, contextBag, loopRounds, fetchFailed, runResult>>

CommitOf(changes, gen) == [changes |-> changes, gen |-> gen]
ContentsOf(history) == UNION {commit.changes : commit \in history}

\* Two commits of the pull request, on one of the base.
FirstBase == {CommitOf({<<"base", 0>>}, 0)}
FirstFeature == FirstBase \cup {CommitOf({<<"own", 1>>}, 0), CommitOf({<<"own", 2>>}, 0)}

BranchTypeOK ==
    /\ job \in [pipeline : {"branch-sync", "ready-for-merge"}, reviewed : BOOLEAN]
    /\ \A history \in
         {base, feature, originBase, originFeature, localHead, cloned, lease, headSha} :
         \A commit \in history :
           commit.gen \in Nat /\ commit.changes \subseteq {"base", "own", "other"} \X Nat
    /\ others \in 0 .. PushLimit
    /\ place \in {"clone", "sync", "resolve", "agent", "pushFix", "squash", "push", "ci", "end"}
    /\ rebased \in BOOLEAN /\ forceLease \in BOOLEAN /\ conflictSeen \in BOOLEAN
    /\ loopRounds \in 0 .. 1 /\ fetchFailed \in BOOLEAN
    /\ runResult \in {"none", "success", "failure"}

BranchInit ==
    /\ job \in [pipeline : {"branch-sync", "ready-for-merge"}, reviewed : BOOLEAN]
    /\ base = FirstBase /\ feature = FirstFeature /\ others = 0
    /\ originBase = {} /\ originFeature = {} /\ localHead = {} /\ cloned = {}
    /\ place = "clone" /\ lease = {}
    /\ rebased = FALSE /\ forceLease = FALSE /\ headSha = {} /\ conflictSeen = FALSE
    /\ loopRounds = 0 /\ fetchFailed = FALSE /\ runResult = "none"

-----------------------------------------------------------------------------
(* Other people                                                            *)

BaseMoves ==
    /\ Cardinality(base) <= MergeLimit
    /\ base' = base \cup {CommitOf({<<"base", Cardinality(base)>>}, 0)}
    /\ UNCHANGED <<job, feature, others, localRefs, place, lease, contextBag, loopRounds,
                   fetchFailed, runResult>>

\* A push on top of the branch, or a forced one that amends a commit of it.
OthersPush ==
    /\ others < PushLimit
    /\ others' = others + 1
    /\ \/ feature' = feature \cup {CommitOf({<<"other", others + 1>>}, 0)}
       \/ \E commit \in feature \ base :
            feature' = (feature \ {commit})
              \cup {CommitOf(commit.changes \cup {<<"other", others + 1>>}, commit.gen + 1)}
    /\ UNCHANGED <<job, base, localRefs, place, lease, contextBag, loopRounds, fetchFailed,
                   runResult>>

-----------------------------------------------------------------------------
(* The nodes                                                               *)

RunEnds(outcome) == place' = "end" /\ runResult' = outcome

\* cloneNode of a run that reuses the branch.
Clones ==
    /\ place = "clone"
    /\ \/ /\ originBase' = base /\ originFeature' = feature
          /\ localHead' = feature /\ cloned' = feature /\ headSha' = feature
          /\ place' = IF job.pipeline = "branch-sync" THEN "sync" ELSE "squash"
          /\ UNCHANGED runResult
       \/ RunEnds("failure") /\ UNCHANGED <<localRefs, headSha>>
    /\ UNCHANGED <<job, remotes, lease, rebased, forceLease, conflictSeen, loopRounds, fetchFailed>>

Rewritten(commits) == {CommitOf(c.changes, c.gen + 1) : c \in commits}

Rebase(history, onto) == onto \cup Rewritten(history \ onto)

Behind(history, onto) == Cardinality(onto \ history)

\* After sync_base_branch: the push node and wait_ci run if ctx.rebasePerformed.
AfterSync == IF rebased' THEN place' = "push" /\ UNCHANGED runResult ELSE RunEnds("success")

\* Without both reviews the branch is left alone.
SyncSkips ==
    /\ place = "sync" /\ ~job.reviewed
    /\ rebased' = FALSE /\ forceLease' = FALSE
    /\ AfterSync
    /\ UNCHANGED <<job, remotes, localRefs, lease, headSha, conflictSeen, loopRounds, fetchFailed>>

\* handleLoopFailure: one round of resolve_rebase_conflicts, whatever failed.
SyncFails ==
    IF loopRounds = 0
    THEN place' = "resolve" /\ loopRounds' = 1 /\ UNCHANGED runResult
    ELSE RunEnds("failure") /\ UNCHANGED loopRounds

SyncCannotFetch ==
    /\ place = "sync" /\ job.reviewed
    /\ SyncFails
    /\ fetchFailed' = TRUE
    /\ UNCHANGED <<job, remotes, localRefs, lease, contextBag>>

\* Close enough to the base: what resolve_rebase_conflicts did and pushed counts.
SyncKeeps ==
    /\ place = "sync" /\ job.reviewed
    /\ Behind(localHead, base) <= MaxBehind
    /\ originBase' = base
    /\ rebased' = (rebased /\ conflictSeen)
    /\ forceLease' = FALSE
    /\ AfterSync
    /\ UNCHANGED <<job, remotes, originFeature, localHead, cloned, lease, headSha, conflictSeen,
                   loopRounds, fetchFailed>>

\* (Mutant: `git fetch origin` without a branch refreshes every ref.)
SyncRebasesFetchingAll ==
    /\ place = "sync" /\ job.reviewed
    /\ Behind(localHead, base) > MaxBehind
    /\ originBase' = base /\ originFeature' = feature
    /\ localHead' = Rebase(localHead, base) /\ headSha' = localHead'
    /\ rebased' = TRUE /\ forceLease' = TRUE
    /\ AfterSync
    /\ UNCHANGED <<job, remotes, cloned, lease, conflictSeen, loopRounds, fetchFailed>>

SyncRebases ==
    /\ place = "sync" /\ job.reviewed
    /\ Behind(localHead, base) > MaxBehind
    /\ originBase' = base
    /\ localHead' = Rebase(localHead, base) /\ headSha' = localHead'
    /\ rebased' = TRUE /\ forceLease' = TRUE
    /\ AfterSync
    /\ UNCHANGED <<job, remotes, originFeature, cloned, lease, conflictSeen, loopRounds, fetchFailed>>

\* The rebase stops and is aborted.
SyncConflicts ==
    /\ place = "sync" /\ job.reviewed
    /\ Behind(localHead, base) > MaxBehind
    /\ originBase' = base
    /\ conflictSeen' = TRUE /\ rebased' = FALSE /\ forceLease' = FALSE
    /\ SyncFails
    /\ UNCHANGED <<job, remotes, originFeature, localHead, cloned, lease, headSha, fetchFailed>>

\* One fetch of both refs, and the lease read from the second.
ResolveFetches ==
    /\ place = "resolve"
    /\ originBase' = base /\ originFeature' = feature
    /\ lease' = feature
    /\ place' = "agent"
    /\ UNCHANGED <<job, remotes, localHead, cloned, contextBag, loopRounds, fetchFailed, runResult>>

\* The rebase converged, with the agent's edits or by skipping what became empty.
AgentRebases ==
    /\ place = "agent"
    /\ ~(originBase \subseteq localHead)
    /\ localHead' = Rebase(localHead, originBase)
    /\ place' = "pushFix"
    /\ UNCHANGED <<job, remotes, originBase, originFeature, cloned, lease, contextBag, loopRounds,
                   fetchFailed, runResult>>

\* A failed fetch, sensitive files, markers or edits left behind, no new HEAD, too
\* many steps: aborted, and the loop has no further round.
ResolveFails ==
    /\ place \in {"resolve", "agent", "pushFix"}
    /\ RunEnds("failure")
    /\ UNCHANGED <<job, remotes, localRefs, lease, contextBag, loopRounds, fetchFailed>>

Pushed == feature' = localHead /\ originFeature' = localHead

\* (Mutant: the context bag still names the commit from before the rebase.)
FixPushesUnnoted ==
    /\ place = "pushFix" /\ feature = lease
    /\ Pushed
    /\ rebased' = TRUE /\ forceLease' = TRUE
    /\ place' = "sync"
    /\ UNCHANGED <<job, base, others, originBase, localHead, cloned, lease, conflictSeen, headSha,
                   loopRounds, fetchFailed, runResult>>

\* --force-with-lease=<ref>:<sha> --force-if-includes; then the failed node again.
FixPushes ==
    /\ place = "pushFix" /\ feature = lease
    /\ Pushed
    /\ rebased' = TRUE /\ forceLease' = TRUE /\ headSha' = localHead
    /\ place' = "sync"
    /\ UNCHANGED <<job, base, others, originBase, localHead, cloned, lease, conflictSeen, loopRounds,
                   fetchFailed, runResult>>

\* One commit of its own on the merge base, if there is more than one.
Squashes ==
    /\ place = "squash"
    /\ \/ /\ originBase' = base
          /\ LET own == localHead \ base IN
             IF Cardinality(own) <= 1
             THEN forceLease' = FALSE /\ RunEnds("success") /\ UNCHANGED <<localHead, headSha>>
             ELSE /\ localHead' = (localHead \cap base) \cup
                       {CommitOf(ContentsOf(own), 1 + CHOOSE g \in {c.gen : c \in own} :
                                                     \A c \in own : c.gen <= g)}
                  /\ headSha' = localHead' /\ forceLease' = TRUE
                  /\ place' = "push" /\ UNCHANGED runResult
       \/ RunEnds("failure") /\ UNCHANGED <<originBase, localHead, headSha, forceLease>>
    /\ UNCHANGED <<job, remotes, originFeature, cloned, lease, rebased, conflictSeen, loopRounds,
                   fetchFailed>>

\* (Mutant: a forced push without the lease.)
PushesForced ==
    /\ place = "push"
    /\ forceLease \/ feature \subseteq localHead
    /\ Pushed
    /\ place' = "ci"
    /\ UNCHANGED <<job, base, others, originBase, localHead, cloned, lease, contextBag, loopRounds,
                   fetchFailed, runResult>>

\* pushNode: --force-with-lease compares with the tracking ref.
PushesBranch ==
    /\ place = "push"
    /\ IF forceLease THEN feature = originFeature ELSE feature \subseteq localHead
    /\ Pushed
    /\ place' = "ci"
    /\ UNCHANGED <<job, base, others, originBase, localHead, cloned, lease, contextBag, loopRounds,
                   fetchFailed, runResult>>

\* A refused or failed push ends the run.
PushFails ==
    /\ place = "push"
    /\ RunEnds("failure")
    /\ UNCHANGED <<job, remotes, localRefs, lease, contextBag, loopRounds, fetchFailed>>

CiEnds ==
    /\ place = "ci"
    /\ \E outcome \in {"success", "failure"} : RunEnds(outcome)
    /\ UNCHANGED <<job, remotes, localRefs, lease, contextBag, loopRounds, fetchFailed>>

BranchNext ==
    \/ BaseMoves \/ OthersPush \/ Clones
    \/ SyncSkips \/ SyncCannotFetch \/ SyncKeeps \/ SyncRebases \/ SyncConflicts
    \/ ResolveFetches \/ AgentRebases \/ ResolveFails \/ FixPushes
    \/ Squashes \/ PushesBranch \/ PushFails \/ CiEnds

BranchSpec == BranchInit /\ [][BranchNext]_rewriteVars

-----------------------------------------------------------------------------
(* Properties                                                              *)

\* What the run's push takes off the branch.
LostByPush == ContentsOf(feature) \ ContentsOf(feature')

\* No push of the run takes away a change that it does not bring back rewritten,
\* but for one case: the push of the agent's fallback takes away what came
\* between the clone and the fallback's fetch.
PushesKeepChanges ==
    [][others' = others =>
         LostByPush \subseteq IF place = "pushFix" THEN ContentsOf(lease) \ ContentsOf(cloned)
                              ELSE {}]_rewriteVars

\* "--force-if-includes adds a second check that our local history has pulled in
\* any commits from the remote ref" (resolve-rebase-conflicts.ts:250-251): so no
\* push of the run takes away a change that it does not bring back rewritten.
PushesIncludeRemote == [][others' = others => LostByPush = {}]_rewriteVars

\* The condition of push and wait_ci in the pipeline's file.
WaitsForCi == IF job.pipeline = "branch-sync" THEN rebased ELSE forceLease

\* wait_ci looks at the head that the run pushed last, and a run that succeeded
\* with a rewritten branch has waited for its CI, unless sync_base_branch failed
\* before it could see a conflict.
CiSeesPush ==
    /\ place = "ci" => headSha = originFeature
    /\ runResult = "success" /\ originFeature # cloned => WaitsForCi \/ fetchFailed
=============================================================================
