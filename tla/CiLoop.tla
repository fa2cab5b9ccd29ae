------------------------------- MODULE CiLoop -------------------------------
(***************************************************************************)
(* The wait_ci node, the engine's loop around it when it fails, and the    *)
(* fix_ci node with its inner loop of agent rounds and local tests.        *)
(*                                                                         *)
(* Commits are numbered as they are made; 1 is the one that the pipeline   *)
(* pushed before.  What GitHub lists for a commit, after the filters, is   *)
(* "none" until a check registers.  The agent may edit the tree, commit or *)
(* rewrite history; a push may fail before or after the commit arrived.    *)
(* Nobody else pushes to the branch.  Time-outs happen at any time.        *)
(***************************************************************************)
EXTENDS Naturals

CONSTANTS
    FixRounds,           \* max_rounds of the node's on_failure
    InnerRounds,         \* INNER_TEST_MAX_ROUNDS; 1 without a local test
    LocalTest,           \* LOCAL_TEST_COMMAND is set
    BailEnabled,         \* ciFixAgentBailEnabled
    WarnOnExhausted,     \* on_exhausted: complete_with_warning
    AgentCommits         \* bound: commits of the agent

ASSUME CiLoopAssumption ==
    /\ FixRounds \in Nat \ {0} /\ InnerRounds \in Nat \ {0} /\ AgentCommits \in Nat
    /\ LocalTest \in BOOLEAN /\ BailEnabled \in BOOLEAN /\ WarnOnExhausted \in BOOLEAN
    /\ ~LocalTest => InnerRounds = 1

VARIABLES
    ci,              \* where the node or the loop is
    checks,          \* what GitHub lists for a commit
    remote, tracked, \* the last commit that arrived, and what origin/<branch> says
    made,            \* commits made so far
    head, dirty,     \* the working copy: HEAD, and whether there are edits
    diverged,        \* HEAD does not descend from the remote's commit
    commitSha,       \* the context bag's
    attempt, round,  \* of the engine's loop and of the inner one
    startHead,       \* beforeHead
    gate,            \* why the working copy may be pushed
    ciOutcome

workingCopy == <<made, head, dirty, diverged>>
github      == <<checks, remote, tracked>>
ciVars      == <<ci, github, workingCopy, commitSha, attempt, round, startHead, gate, ciOutcome>>

Commits == 1 .. 1 + AgentCommits + FixRounds

CiTypeOK ==
    /\ ci \in {"idle", "patience", "poll", "loop", "agent", "test", "commit", "done"}
    /\ checks \in [Commits -> {"none", "running", "green", "red", "cancelled"}]
    /\ remote \in Commits /\ tracked \in Commits /\ made \in Commits /\ head \in 1 .. made
    /\ dirty \in BOOLEAN /\ diverged \in BOOLEAN
    /\ commitSha \in 1 .. made /\ startHead \in 1 .. made
    /\ attempt \in 0 .. FixRounds /\ round \in 0 .. InnerRounds
    /\ gate \in {"closed", "passed", "untested", "infrastructure", "bail"}
    /\ ciOutcome \in {"none", "success", "warning", "failure"}

CiInit ==
    /\ ci = "idle" /\ ciOutcome = "none"
    /\ checks = [c \in Commits |-> "none"]
    /\ remote = 1 /\ tracked = 1 /\ made = 1 /\ head = 1 /\ commitSha = 1 /\ startHead = 1
    /\ dirty = FALSE /\ diverged = FALSE
    /\ attempt = 0 /\ round = 0 /\ gate = "closed"

Ends(outcome) == ci' = "done" /\ ciOutcome' = outcome

-----------------------------------------------------------------------------
(* GitHub                                                                  *)

\* Checks register, end, and more may register later.
CheckMoves == {<<"none", "running">>, <<"running", "green">>, <<"running", "red">>,
               <<"running", "cancelled">>, <<"green", "running">>}

ChecksMove(c) ==
    /\ c <= remote
    /\ \E m \in CheckMoves : checks[c] = m[1] /\ checks' = [checks EXCEPT ![c] = m[2]]
    /\ UNCHANGED <<ci, remote, tracked, workingCopy, commitSha, attempt, round, startHead,
                   gate, ciOutcome>>

-----------------------------------------------------------------------------
(* waitCiNode                                                              *)

WaitCi ==
    /\ ci = "idle"
    /\ ci' = "patience"
    /\ UNCHANGED <<github, workingCopy, commitSha, attempt, round, startHead, gate, ciOutcome>>

\* A check was listed, or the patience window is over.
PatienceEnds ==
    /\ ci = "patience"
    /\ ci' = "poll"
    /\ UNCHANGED <<github, workingCopy, commitSha, attempt, round, startHead, gate, ciOutcome>>

\* Nothing listed counts as no CI, a cancelled CI as passed.
CiPasses ==
    /\ ci = "poll" /\ checks[commitSha] \in {"none", "green", "cancelled"}
    /\ Ends("success")
    /\ UNCHANGED <<github, workingCopy, commitSha, attempt, round, startHead, gate>>

\* A check failed, the time to wait is over, or GitHub could not be asked.
CiFails ==
    /\ ci \in {"patience", "poll"}
    /\ ci' = "loop"
    /\ UNCHANGED <<github, workingCopy, commitSha, attempt, round, startHead, gate, ciOutcome>>

-----------------------------------------------------------------------------
(* handleLoopFailure                                                       *)

\* (Mutant: only attempts whose fix was pushed are counted.)
FixRoundIfPushed ==
    /\ ci = "loop" /\ attempt < FixRounds
    /\ attempt' = IF commitSha = head THEN attempt + 1 ELSE attempt
    /\ ci' = "agent" /\ round' = 1 /\ startHead' = head /\ gate' = "closed"
    /\ UNCHANGED <<github, workingCopy, commitSha, ciOutcome>>

\* (Mutant: one round too many.)
FixRoundOnceMore ==
    /\ ci = "loop" /\ attempt <= FixRounds
    /\ attempt' = attempt + 1
    /\ ci' = "agent" /\ round' = 1 /\ startHead' = head /\ gate' = "closed"
    /\ UNCHANGED <<github, workingCopy, commitSha, ciOutcome>>

FixRound ==
    /\ ci = "loop" /\ attempt < FixRounds
    /\ attempt' = attempt + 1
    /\ ci' = "agent" /\ round' = 1 /\ startHead' = head /\ gate' = "closed"
    /\ UNCHANGED <<github, workingCopy, commitSha, ciOutcome>>

LoopExhausted ==
    /\ ci = "loop" /\ attempt = FixRounds
    /\ Ends(IF WarnOnExhausted THEN "warning" ELSE "failure")
    /\ UNCHANGED <<github, workingCopy, commitSha, attempt, round, startHead, gate>>

-----------------------------------------------------------------------------
(* fixCiNode                                                               *)

LeavesFix == round' = 0 /\ startHead' = 1 /\ gate' = "closed"

FixFails == ci' = "loop" /\ LeavesFix

\* What the agent does to the tree: nothing, edits, or a commit or rewritten history.
AgentWorks ==
    \/ UNCHANGED workingCopy
    \/ dirty' \in {TRUE, ~dirty} /\ UNCHANGED <<made, head, diverged>>
    \/ /\ made < AgentCommits + attempt \* leaves the node's own commits their numbers
       /\ made' = made + 1 /\ head' = made'
       /\ dirty' \in BOOLEAN /\ diverged' \in {diverged, TRUE}

\* Changes of this round, and changes since the fix began.
Progress == workingCopy' # workingCopy \/ (dirty /\ dirty')
Candidate == dirty' \/ head' # startHead

\* A round fails when the agent's command does or when nothing came of it.
AgentRound ==
    /\ ci = "agent"
    /\ AgentWorks
    /\ \/ FixFails
       \/ /\ BailEnabled /\ round >= 2 /\ Candidate
          /\ ci' = "commit" /\ gate' = "bail" /\ UNCHANGED <<round, startHead>>
       \/ /\ Progress
          /\ IF LocalTest THEN ci' = "test" /\ gate' = gate
                          ELSE ci' = "commit" /\ gate' = "untested"
          /\ UNCHANGED <<round, startHead>>
    /\ UNCHANGED <<github, commitSha, attempt, ciOutcome>>

\* The local test passed, or could not be run.
TestPasses ==
    /\ ci = "test"
    /\ ci' = "commit" /\ gate' \in {"passed", "infrastructure"}
    /\ UNCHANGED <<github, workingCopy, commitSha, attempt, round, startHead, ciOutcome>>

\* (Mutant: the last round leaves the inner loop for the commit.)
TestFailsLastCommits ==
    /\ ci = "test"
    /\ IF round = InnerRounds
       THEN ci' = "commit" /\ round' = round
       ELSE ci' = "agent" /\ round' = round + 1
    /\ UNCHANGED <<github, workingCopy, commitSha, attempt, startHead, gate, ciOutcome>>

TestFails ==
    /\ ci = "test"
    /\ IF round = InnerRounds
       THEN FixFails
       ELSE ci' = "agent" /\ round' = round + 1 /\ UNCHANGED <<startHead, gate>>
    /\ UNCHANGED <<github, workingCopy, commitSha, attempt, ciOutcome>>

\* (Mutant: the pushed commit is not an output of the node.)
PushesUnreported(c) ==
    \/ /\ ci' = "patience" /\ remote' = c /\ tracked' = c /\ commitSha' = commitSha
       /\ diverged' = FALSE
    \/ ci' = "loop" /\ UNCHANGED <<remote, tracked, commitSha, diverged>>

\* The push of commit c; the working copy is as given.  It may fail before or
\* after the commit arrived; only its success is put into the context bag.
Pushes(c) ==
    \/ /\ ci' = "patience" /\ remote' = c /\ tracked' = c /\ commitSha' = c
       /\ diverged' = FALSE
    \/ ci' = "loop" /\ remote' = c /\ diverged' = FALSE /\ UNCHANGED <<tracked, commitSha>>
    \/ ci' = "loop" /\ UNCHANGED <<remote, tracked, commitSha, diverged>>

\* Only history changed: the rewritten ref is pushed with a lease.
PushesHistory ==
    /\ ci = "commit" /\ ~dirty
    /\ \/ head # startHead /\ tracked = remote /\ Pushes(head)
       \/ ci' = "loop" /\ UNCHANGED <<remote, tracked, commitSha, diverged>>
    /\ LeavesFix
    /\ UNCHANGED <<checks, made, head, dirty, attempt, ciOutcome>>

\* commitCaptureAndPush; a push that is no fast-forward is rejected.
CommitsAndPushes ==
    /\ ci = "commit" /\ dirty
    /\ \/ /\ made' = made + 1 /\ head' = made' /\ dirty' = FALSE
          /\ \/ ~diverged /\ Pushes(head')
             \/ ci' = "loop" /\ UNCHANGED <<remote, tracked, commitSha, diverged>>
       \/ ci' = "loop" /\ UNCHANGED <<remote, tracked, commitSha, workingCopy>>
    /\ LeavesFix
    /\ UNCHANGED <<checks, attempt, ciOutcome>>

-----------------------------------------------------------------------------
\* The steps of the engine and the nodes.
CiNodes ==
    \/ PatienceEnds \/ CiPasses \/ CiFails \/ FixRound \/ LoopExhausted
    \/ AgentRound \/ TestPasses \/ TestFails \/ PushesHistory \/ CommitsAndPushes

CiNext == WaitCi \/ CiNodes \/ \E c \in Commits : ChecksMove(c)

CiSpec == CiInit /\ [][CiNext]_ciVars

\* The engine executes the nodes; each command has a time-out.
CiFairness == WF_ciVars(CiNodes)

CiLiveSpec == CiSpec /\ CiFairness

-----------------------------------------------------------------------------
\* A loop that reports success has looked at the last commit that reached the
\* branch, whatever pushes failed or arrived unnoticed before it
\* (fix-ci-node.ts, pipeline-engine.ts).
VerdictOnLastPush == ciOutcome = "success" => commitSha = remote

\* Nothing reaches the branch unless, in the same fix, the local test passed,
\* is not configured, could not run or was waived by the agent.
NoUngatedPush == [][remote' # remote => gate # "closed"]_ciVars

\* Once wait_ci was entered, the node or its loop ends.
CiLoopEnds == ci # "idle" ~> ci = "done"
=============================================================================
