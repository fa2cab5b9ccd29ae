-------------------------- MODULE Pipeline_proofs --------------------------
(***************************************************************************)
(* Safety of the pipeline engine, for every set of pipelines and every     *)
(* limit, of the CI loop, for every number of rounds and commits, and of   *)
(* the rewriting of a branch, for every number of pushes and merges.  They *)
(* share no state; each part below is about one of them.                   *)
(*                                                                         *)
(* The flags and the rest of the state are kept in separate invariants:    *)
(* FlagTypes is inductive on its own, EInv relative to it.                 *)
(***************************************************************************)
EXTENDS PipelineEngine, CiLoop, BranchRewrite, FiniteSetTheorems, WellFoundedInduction, TLAPS

-----------------------------------------------------------------------------
(* The pipeline engine                                                     *)

\* The walk is at a node exactly where a handler is chosen, run or recovered from.
AtNode == engine \in {"starting", "handler", "loop", "fixing", "retrying"}
PositionInv == AtNode => node <= Len(pipeline)

\* The jumps of the outer walk and those of the nested one
JumpInv == jumps <= gotos + (IF inSandbox THEN MaxGotos ELSE 0)

\* What may have been started since the abort, at each place of the walk
LateInv ==
    /\ ~aborted => lateNodes = 0
    /\ engine \in {"idle", "starting"} => lateNodes = 0
    /\ engine = "handler" => lateNodes <= 1
    /\ engine \in {"loop", "retrying"} => lateNodes <= 1 + 2 * loopRound
    /\ engine = "fixing" => lateNodes <= 2 * loopRound
    /\ lateNodes <= 1 + 2 * MaxRounds

\* A failure that nothing has made up for is being worked on, or is the outcome.
FailureInv ==
    /\ engine \notin {"cleanup", "done"} => outcome = "none"
    /\ failing => outcome = "failure" \/ engine \in {"loop", "fixing", "retrying"}

\* A container without a handle is one that docker hid.
HandleInv == container /\ ~handle => dockerFaults > 0

\* The types of the flags, and those of the rest
FlagTypes ==
    /\ inSandbox \in BOOLEAN /\ aborted \in BOOLEAN /\ failing \in BOOLEAN
    /\ warned \in BOOLEAN /\ handle \in BOOLEAN /\ container \in BOOLEAN
WalkTypes ==
    /\ pipeline \in Pipelines
    /\ engine \in {"idle", "next", "starting", "handler", "loop", "fixing", "retrying",
                   "cleanup", "done"}
    /\ node \in 1 .. Len(pipeline) + 1
    /\ skipIds \subseteq NodeIds
    /\ gotos \in 0 .. MaxGotos /\ jumps \in Nat /\ loopRound \in 0 .. MaxRounds
    /\ lateNodes \in Nat /\ dockerFaults \in 0 .. DockerFaults
    /\ outcome \in {"none", "success", "completed_with_warnings", "failure"}

EInv ==
    /\ WalkTypes /\ PositionInv /\ JumpInv /\ LateInv /\ FailureInv
    /\ HandleInv /\ NoStrayContainer

Outcomes == {"success", "soft_fail", "failure"}

-----------------------------------------------------------------------------
LEMMA LimitTypes == MaxGotos \in Nat /\ MaxRounds \in Nat \ {0} /\ DockerFaults \in Nat
  BY PipelineAssumption

LEMMA PipelineType ==
    ASSUME pipeline \in Pipelines
    PROVE  Len(pipeline) \in Nat /\ NodeIds = 1 .. Len(pipeline)
  BY PipelineAssumption DEF NodeIds

LEMMA EngineInitHolds == EngineInit => FlagTypes /\ EInv
<1> SUFFICES ASSUME EngineInit PROVE FlagTypes /\ EInv
  OBVIOUS
<1>1. FlagTypes
  BY DEF EngineInit, FlagTypes
<1>2. Len(pipeline) \in Nat
  BY PipelineType DEF EngineInit
<1>3. EInv
  BY <1>2, LimitTypes
  DEF EngineInit, EInv, WalkTypes, PositionInv, AtNode, JumpInv, LateInv, FailureInv,
      HandleInv, NoStrayContainer
<1> QED BY <1>1, <1>3

LEMMA FlagsKeep == FlagTypes /\ [EngineNext]_engineVars => FlagTypes'
<1> SUFFICES ASSUME FlagTypes, [EngineNext]_engineVars PROVE FlagTypes'
  OBVIOUS
<1> USE DEF FlagTypes, walk, results, sandbox
<1>0. CASE UNCHANGED engineVars
  BY <1>0 DEF engineVars
<1>1. CASE Begin
  BY <1>1 DEF Begin, CreateSandbox
<1>2. CASE Abort
  BY <1>2 DEF Abort
<1>3. CASE Finish
  BY <1>3 DEF Finish, Returns
<1>4. CASE SeesAbort
  BY <1>4 DEF SeesAbort, Returns
<1>5. CASE Skips
  BY <1>5 DEF Skips
<1>6. CASE Chooses
  BY <1>6 DEF Chooses
<1>7. CASE StartsHandler
  BY <1>7 DEF StartsHandler, Late
<1>8. CASE SetupEnds
  BY <1>8 DEF SetupEnds, CreateSandbox, Proceeds, Advances, Returns
<1>9. ASSUME NEW o \in Outcomes, NodeEnds(o) PROVE FlagTypes'
  BY <1>9 DEF NodeEnds, Proceeds, Advances, Returns
<1>10. ASSUME NEW o \in Outcomes, DecisionEnds(o) PROVE FlagTypes'
  BY <1>10 DEF DecisionEnds, Proceeds, Jumps, Advances, Returns
<1>11. CASE LoopRound
  BY <1>11 DEF LoopRound, Late
<1>12. CASE FixFailed
  BY <1>12 DEF FixFailed
<1>13. CASE Retries
  BY <1>13 DEF Retries, Late
<1>14. CASE LintThrows
  BY <1>14 DEF LintThrows, Returns
<1>15. CASE RetrySucceeds
  BY <1>15 DEF RetrySucceeds, Recovers, Advances
<1>16. CASE RetryFails
  BY <1>16 DEF RetryFails
<1>17. CASE LoopEnds
  BY <1>17 DEF LoopEnds, GivesUp, Recovers, Advances, Returns
<1>18. CASE CleanUp
  BY <1>18 DEF CleanUp, Destroys
<1> QED
  BY <1>0, <1>1, <1>2, <1>3, <1>4, <1>5, <1>6, <1>7, <1>8, <1>9,
     <1>10, <1>11, <1>12, <1>13, <1>14, <1>15, <1>16, <1>17, <1>18
  DEF EngineNext, EngineSteps, HandlerEnds, Outcomes

-----------------------------------------------------------------------------
(* What follows a handler's result, and what docker may do.                *)

LEMMA OneStart ==
    ASSUME NEW n \in Nat, NEW r \in Nat, n <= 1
    PROVE  n <= 1 + 2 * r
  OBVIOUS

\* Where Proceeds leaves the walk
LEMMA ProceedsKeeps ==
    ASSUME EInv, engine = "handler", NEW o \in Outcomes, Proceeds(o),
           pipeline' = pipeline, aborted' = aborted, lateNodes' = lateNodes
    PROVE  /\ engine' \in {"loop", "next", "cleanup"}
           /\ node' \in 1 .. Len(pipeline) + 1 /\ loopRound' \in 0 .. MaxRounds
           /\ outcome' \in {"none", "success", "completed_with_warnings", "failure"}
           /\ PositionInv' /\ LateInv' /\ FailureInv'
<1> USE LimitTypes DEF EInv, WalkTypes, Outcomes
<1>0. Len(pipeline) \in Nat
  BY PipelineType
<1>1. outcome = "none" /\ ~failing /\ node <= Len(pipeline) /\ lateNodes <= 1
  BY DEF FailureInv, PositionInv, AtNode, LateInv
<1>2. /\ engine' \in {"loop", "next", "cleanup"}
      /\ loopRound' \in 0 .. MaxRounds
      /\ outcome' \in {"none", "success", "completed_with_warnings", "failure"}
  BY DEF Proceeds, Advances, Returns
<1>3. /\ node' \in 1 .. Len(pipeline) + 1
      /\ engine' = "loop" => node' = node
  BY <1>0, <1>1 DEF Proceeds, Advances, Returns
<1>4. PositionInv'
  BY <1>1, <1>2, <1>3 DEF PositionInv, AtNode
<1>5. LateInv'
  <2>1. (aborted' = aborted) /\ (lateNodes' = lateNodes)
    OBVIOUS
  <2>2. /\ ~aborted => lateNodes = 0
        /\ lateNodes <= 1 + 2 * MaxRounds
    BY DEF LateInv
  <2>3. lateNodes \in Nat /\ loopRound' \in Nat
    BY <1>2
  <2>4. lateNodes <= 1 + 2 * loopRound'
    BY <1>1, <2>3, OneStart
  <2>5. ~aborted' => lateNodes' = 0
    <3> SUFFICES ASSUME ~aborted' PROVE lateNodes' = 0
      OBVIOUS
    <3>1. ~aborted
      BY <2>1
    <3> QED BY <2>1, <2>2, <3>1, Zenon
  <2>7. lateNodes' <= 1 + 2 * MaxRounds /\ lateNodes' <= 1 + 2 * loopRound'
    BY <2>1, <2>2, <2>4, Zenon
  <2>6. engine' \notin {"idle", "starting", "handler", "retrying", "fixing"}
    BY <1>2
  <2> QED BY <2>5, <2>6, <2>7, Zenon DEF LateInv
<1>6. FailureInv'
  BY <1>1 DEF FailureInv, Proceeds, Advances, Returns
<1> QED BY <1>2, <1>3, <1>4, <1>5, <1>6

\* Only a setup node moves the walk into the sandbox.
LEMMA ProceedsOutside ==
    ASSUME FlagTypes, NEW o, Proceeds(o), pipeline[node].action # "setup"
    PROVE  inSandbox' = inSandbox
  BY DEF Proceeds, FlagTypes, Advances, Returns

\* A failing creation hides its container only with a fault of docker.
LEMMA CreateKeeps ==
    ASSUME FlagTypes, EInv, NEW ok \in BOOLEAN, CreateSandbox(ok)
    PROVE  /\ dockerFaults' \in 0 .. DockerFaults
           /\ HandleInv'
<1>1. dockerFaults' \in 0 .. DockerFaults /\ dockerFaults' >= dockerFaults
  BY LimitTypes DEF CreateSandbox, EInv, WalkTypes, sandbox
<1>2. CASE container' = TRUE /\ handle' = TRUE
  BY <1>1, <1>2 DEF HandleInv
<1>3. CASE UNCHANGED sandbox
  BY <1>1, <1>3 DEF HandleInv, EInv, sandbox
<1>4. CASE dockerFaults' = dockerFaults + 1
  BY <1>1, <1>4 DEF HandleInv, EInv, WalkTypes
<1> QED BY <1>1, <1>2, <1>3, <1>4 DEF CreateSandbox

\* The end of a setup node's handler: the nested walk counts its jumps from zero.
LEMMA SetupKeeps == FlagTypes /\ EInv /\ SetupEnds => EInv'
<1> SUFFICES ASSUME FlagTypes, EInv, SetupEnds PROVE EInv'
  OBVIOUS
<1>1. PICK o \in {"success", "failure"} : CreateSandbox(o = "success") /\ Proceeds(o)
  BY DEF SetupEnds
<1>2. engine = "handler" /\ UNCHANGED <<pipeline, aborted, lateNodes, skipIds, jumps>>
  BY DEF SetupEnds
<1>3. /\ engine' \in {"loop", "next", "cleanup"}
      /\ node' \in 1 .. Len(pipeline) + 1 /\ loopRound' \in 0 .. MaxRounds
      /\ outcome' \in {"none", "success", "completed_with_warnings", "failure"}
      /\ PositionInv' /\ LateInv' /\ FailureInv'
  BY <1>1, <1>2, ProceedsKeeps DEF Outcomes
<1>4. dockerFaults' \in 0 .. DockerFaults /\ HandleInv'
  BY <1>1, CreateKeeps
<1>5. inSandbox' = inSandbox \/ (~inSandbox /\ inSandbox')
  BY <1>1 DEF Proceeds, Returns, Advances, FlagTypes
<1>6. gotos' \in 0 .. MaxGotos /\ JumpInv'
  <2>1. gotos' = IF inSandbox' = inSandbox THEN gotos ELSE 0
    BY DEF SetupEnds
  <2>2. CASE inSandbox' = inSandbox
    BY <2>1, <2>2, <1>2 DEF EInv, WalkTypes, JumpInv
  <2>3. CASE ~inSandbox /\ inSandbox'
    <3>1. (gotos' = 0) /\ (jumps' = jumps) /\ (inSandbox' # inSandbox)
      BY <2>1, <2>3, <1>2
    <3>2. jumps <= gotos
      BY <2>3, LimitTypes DEF EInv, WalkTypes, JumpInv
    <3>3. jumps' <= gotos' + MaxGotos
      BY <3>1, <3>2, LimitTypes DEF EInv, WalkTypes
    <3> QED BY <2>3, <3>1, <3>3, LimitTypes DEF JumpInv
  <2> QED BY <1>5, <2>2, <2>3
<1>7. WalkTypes'
  BY <1>2, <1>3, <1>4, <1>6 DEF EInv, WalkTypes, NodeIds
<1>8. NoStrayContainer'
  BY <1>3 DEF NoStrayContainer
<1> QED BY <1>3, <1>4, <1>6, <1>7, <1>8 DEF EInv

\* The end of any other handler
LEMMA NodeKeeps ==
    ASSUME FlagTypes, EInv, NEW o \in Outcomes, NodeEnds(o)
    PROVE  EInv'
<1>1. /\ engine = "handler" /\ Proceeds(o) /\ pipeline[node].action # "setup"
      /\ UNCHANGED <<pipeline, skipIds, gotos, jumps, sandbox, aborted, lateNodes>>
  BY DEF NodeEnds
<1>2. /\ engine' \in {"loop", "next", "cleanup"}
      /\ node' \in 1 .. Len(pipeline) + 1 /\ loopRound' \in 0 .. MaxRounds
      /\ outcome' \in {"none", "success", "completed_with_warnings", "failure"}
      /\ PositionInv' /\ LateInv' /\ FailureInv'
  BY <1>1, ProceedsKeeps
<1>3. inSandbox' = inSandbox
  BY <1>1, ProceedsOutside
<1>4. JumpInv'
  BY <1>1, <1>3 DEF EInv, JumpInv
<1>5. WalkTypes'
  BY <1>1, <1>2 DEF EInv, WalkTypes, NodeIds, sandbox
<1>6. HandleInv' /\ NoStrayContainer'
  BY <1>1, <1>2 DEF EInv, HandleInv, NoStrayContainer, sandbox
<1> QED BY <1>2, <1>4, <1>5, <1>6 DEF EInv

\* The end of a decision: a jump within the limit, or what its outcome says
LEMMA DecisionKeeps ==
    ASSUME FlagTypes, EInv, NEW o \in Outcomes, DecisionEnds(o)
    PROVE  EInv'
<1>1. /\ engine = "handler" /\ pipeline[node].action # "setup"
      /\ UNCHANGED <<pipeline, sandbox, aborted, lateNodes>>
  BY DEF DecisionEnds
<1>2. skipIds' \subseteq NodeIds
  BY DEF DecisionEnds, EInv, WalkTypes
<1>3. ASSUME NEW target \in NodeIds, Jumps(target, o) PROVE EInv'
  <2>0. Len(pipeline) \in Nat /\ NodeIds = 1 .. Len(pipeline)
    BY PipelineType DEF EInv, WalkTypes
  <2>1. outcome = "none" /\ ~failing /\ lateNodes <= 1
    BY <1>1 DEF EInv, FailureInv, LateInv
  <2>2. gotos' \in 0 .. MaxGotos /\ jumps' \in Nat /\ node' \in 1 .. Len(pipeline) + 1
    BY <1>3, <2>0, LimitTypes DEF Jumps, EInv, WalkTypes
  <2>3. /\ engine' = "next"
        /\ UNCHANGED <<outcome, failing, inSandbox, loopRound, handle, container, dockerFaults>>
    BY <1>1, <1>3 DEF Jumps, sandbox
  <2>4. JumpInv'
    <3>1. gotos' = gotos + 1 /\ jumps' = jumps + 1
      BY <1>3 DEF Jumps
    <3> QED BY <3>1, <2>3, LimitTypes DEF EInv, WalkTypes, JumpInv
  <2>5. WalkTypes'
    BY <1>1, <1>2, <2>2, <2>3 DEF EInv, WalkTypes, NodeIds
  <2>6. PositionInv' /\ LateInv' /\ FailureInv'
    BY <1>1, <2>1, <2>3, LimitTypes
    DEF EInv, WalkTypes, PositionInv, AtNode, LateInv, FailureInv
  <2>7. HandleInv' /\ NoStrayContainer'
    BY <2>3 DEF EInv, HandleInv, NoStrayContainer
  <2> QED BY <2>4, <2>5, <2>6, <2>7 DEF EInv
<1>4. ASSUME Proceeds(o), UNCHANGED <<gotos, jumps>> PROVE EInv'
  <2>2. /\ engine' \in {"loop", "next", "cleanup"}
        /\ node' \in 1 .. Len(pipeline) + 1 /\ loopRound' \in 0 .. MaxRounds
        /\ outcome' \in {"none", "success", "completed_with_warnings", "failure"}
        /\ PositionInv' /\ LateInv' /\ FailureInv'
    BY <1>1, <1>4, ProceedsKeeps
  <2>3. inSandbox' = inSandbox
    BY <1>1, <1>4, ProceedsOutside
  <2>4. JumpInv'
    BY <1>4, <2>3 DEF EInv, JumpInv
  <2>5. WalkTypes'
    BY <1>1, <1>2, <1>4, <2>2 DEF EInv, WalkTypes, NodeIds, sandbox
  <2>6. HandleInv' /\ NoStrayContainer'
    BY <1>1, <2>2 DEF EInv, HandleInv, NoStrayContainer, sandbox
  <2> QED BY <2>2, <2>4, <2>5, <2>6 DEF EInv
<1> QED BY <1>3, <1>4 DEF DecisionEnds

\* The finally of execute
LEMMA CleanUpKeeps == FlagTypes /\ EInv /\ CleanUp => EInv'
<1> SUFFICES ASSUME FlagTypes, EInv, CleanUp PROVE EInv'
  OBVIOUS
<1>1. /\ engine' = "done" /\ UNCHANGED <<handle, walk, results, aborted, lateNodes>>
  BY DEF CleanUp, Destroys
<1>2. /\ dockerFaults' \in 0 .. DockerFaults
      /\ dockerFaults' = dockerFaults \/ dockerFaults' > 0
  BY LimitTypes DEF CleanUp, Destroys, EInv, WalkTypes
<1>3. container' => dockerFaults' > 0
  <2>1. CASE dockerFaults' = dockerFaults /\ container' = (container /\ ~handle)
    BY <2>1 DEF EInv, HandleInv
  <2>2. CASE dockerFaults' = dockerFaults + 1
    BY <2>2 DEF EInv, WalkTypes
  <2> QED BY <2>1, <2>2 DEF CleanUp, Destroys
<1>4. WalkTypes'
  BY <1>1, <1>2 DEF EInv, WalkTypes, walk, results, NodeIds
<1>5. PositionInv' /\ JumpInv'
  BY <1>1 DEF EInv, PositionInv, AtNode, JumpInv, walk
<1>6. LateInv' /\ FailureInv'
  BY <1>1 DEF EInv, LateInv, FailureInv, CleanUp, walk, results
<1>7. HandleInv' /\ NoStrayContainer'
  BY <1>3 DEF HandleInv, NoStrayContainer
<1> QED BY <1>4, <1>5, <1>6, <1>7 DEF EInv

-----------------------------------------------------------------------------
LEMMA EngineKeeps == FlagTypes /\ EInv /\ [EngineNext]_engineVars => EInv'
<1> SUFFICES ASSUME FlagTypes, EInv, [EngineNext]_engineVars PROVE EInv'
  OBVIOUS
<1> USE LimitTypes DEF EInv, WalkTypes, PositionInv, AtNode, JumpInv, LateInv,
        FailureInv, HandleInv, NoStrayContainer, walk, results, sandbox, NodeIds
<1> Len(pipeline) \in Nat
  BY PipelineType
<1>0. CASE UNCHANGED engineVars
  BY <1>0 DEF engineVars
<1>1. CASE Begin
  BY <1>1 DEF Begin, CreateSandbox
<1>2. CASE Abort
  BY <1>2 DEF Abort
<1>3. CASE Finish
  BY <1>3 DEF Finish, Returns
<1>4. CASE SeesAbort
  BY <1>4 DEF SeesAbort, Returns
<1>5. CASE Skips
  BY <1>5 DEF Skips
<1>6. CASE Chooses
  BY <1>6 DEF Chooses
<1>7. CASE StartsHandler
  BY <1>7 DEF StartsHandler, Late
<1>8. CASE SetupEnds
  BY <1>8, SetupKeeps
<1>9. ASSUME NEW o \in Outcomes, NodeEnds(o) PROVE EInv'
  BY <1>9, NodeKeeps
<1>10. ASSUME NEW o \in Outcomes, DecisionEnds(o) PROVE EInv'
  BY <1>10, DecisionKeeps
<1>11. CASE LoopRound
  BY <1>11 DEF LoopRound, Late
<1>12. CASE FixFailed
  BY <1>12 DEF FixFailed
<1>13. CASE Retries
  BY <1>13 DEF Retries, Late
<1>14. CASE LintThrows
  BY <1>14 DEF LintThrows, Returns
<1>15. CASE RetrySucceeds
  BY <1>15 DEF RetrySucceeds, Recovers, Advances
<1>16. CASE RetryFails
  BY <1>16 DEF RetryFails
<1>17. CASE LoopEnds
  BY <1>17 DEF LoopEnds, GivesUp, Recovers, Advances, Returns
<1>18. CASE CleanUp
  BY <1>18, CleanUpKeeps
<1> QED
  BY <1>0, <1>1, <1>2, <1>3, <1>4, <1>5, <1>6, <1>7, <1>8, <1>9,
     <1>10, <1>11, <1>12, <1>13, <1>14, <1>15, <1>16, <1>17, <1>18
  DEF EngineNext, EngineSteps, HandlerEnds, Outcomes

\* The flags are flags and the strengthened invariant holds, always.
THEOREM EngineInductive == EngineSpec => [](FlagTypes /\ EInv)
  BY EngineInitHolds, FlagsKeep, EngineKeeps, PTL DEF EngineSpec

-----------------------------------------------------------------------------
(* The properties the runs check, for every pipeline and every limit.      *)

LEMMA EngineTyped == FlagTypes /\ EInv => EngineTypeOK
  BY Zenon DEF FlagTypes, EInv, WalkTypes, EngineTypeOK

\* Type correctness of the engine's state.
THEOREM EngineTypesHold == EngineSpec => []EngineTypeOK
  BY EngineTyped, EngineInductive, PTL

\* The two walks together jump at most 2 * maxGotos times, whatever the
\* decision nodes answer (pipeline-engine.ts, goto handling).
THEOREM BoundsJumps == EngineSpec => []JumpsBounded
<1>1. EInv => JumpsBounded
  BY LimitTypes DEF EInv, WalkTypes, JumpInv, JumpsBounded
<1> QED BY <1>1, EngineInductive, PTL

\* After an abort at most the chosen node and the rounds of one failure loop
\* are started (pipeline-engine.ts, the abort check at the top of the walk).
THEOREM BoundsLate == EngineSpec => []LateBound
<1>1. EInv => LateBound
  BY DEF EInv, LateInv, LateBound
<1> QED BY <1>1, EngineInductive, PTL

\* No execution is reported successful over a failure nothing made up for.
THEOREM ReportsFailure == EngineSpec => []FailureReported
<1>1. EInv => FailureReported
  BY DEF EInv, FailureInv, FailureReported
<1> QED BY <1>1, EngineInductive, PTL

\* Without a fault of docker, an ended execution leaves no container.
THEOREM LeavesNoContainer == EngineSpec => []NoStrayContainer
<1>1. EInv => NoStrayContainer
  BY DEF EInv
<1> QED BY <1>1, EngineInductive, PTL

-----------------------------------------------------------------------------
(* The CI loop                                                             *)

Fixing == {"agent", "test", "commit"}

CiFlags == dirty \in BOOLEAN /\ diverged \in BOOLEAN

CiPlaces ==
    /\ ci \in {"idle", "patience", "poll", "loop", "agent", "test", "commit", "done"}
    /\ gate \in {"closed", "passed", "untested", "infrastructure", "bail"}
    /\ ciOutcome \in {"none", "success", "warning", "failure"}
    /\ checks \in [Commits -> {"none", "running", "green", "red", "cancelled"}]

\* Commits and rounds; an attempt adds the agent's commits and one of the node.
CiCounts ==
    /\ made \in Nat \ {0}
    /\ head \in 1 .. made /\ commitSha \in 1 .. made /\ startHead \in 1 .. made
    /\ remote \in 1 .. made /\ tracked \in 1 .. made
    /\ attempt \in 0 .. FixRounds /\ round \in 0 .. InnerRounds
    /\ made <= 1 + AgentCommits + attempt
    /\ ci \in Fixing => made <= AgentCommits + attempt
    /\ ci \in {"agent", "test"} => round >= 1

\* Where nothing is being fixed the context bag names the commit that the branch
\* has; a fix gets to its push only through a gate.
CiVerdict ==
    /\ ci \in {"idle", "patience", "poll"} => commitSha = remote
    /\ ci = "commit" => gate # "closed"
    /\ ci # "done" => ciOutcome = "none"
    /\ VerdictOnLastPush

CiInv == CiFlags /\ CiPlaces /\ CiCounts /\ CiVerdict

LEMMA CiLimits ==
    /\ FixRounds \in Nat \ {0} /\ InnerRounds \in Nat \ {0} /\ AgentCommits \in Nat
  BY CiLoopAssumption

LEMMA CiInitHolds == CiInit => CiInv
<1> SUFFICES ASSUME CiInit PROVE CiInv
  OBVIOUS
<1>1. CiFlags
  BY DEF CiInit, CiFlags
<1>2. CiPlaces
  BY DEF CiInit, CiPlaces
<1>3. CiCounts
  BY CiLimits DEF CiInit, CiCounts, Fixing
<1>4. CiVerdict
  BY DEF CiInit, CiVerdict, VerdictOnLastPush
<1> QED BY <1>1, <1>2, <1>3, <1>4 DEF CiInv

\* The flags
LEMMA CiFlagsKeep == CiInv /\ [CiNext]_ciVars => CiFlags'
<1> SUFFICES ASSUME CiInv, [CiNext]_ciVars PROVE CiFlags'
  OBVIOUS
<1> USE DEF CiInv, CiFlags, github, workingCopy
<1>0. CASE UNCHANGED ciVars
  BY <1>0 DEF ciVars, workingCopy, github
<1>1. CASE WaitCi
  BY <1>1 DEF WaitCi
<1>2. CASE PatienceEnds
  BY <1>2 DEF PatienceEnds
<1>3. CASE CiPasses
  BY <1>3 DEF CiPasses, Ends
<1>4. CASE CiFails
  BY <1>4 DEF CiFails
<1>5. CASE FixRound
  BY <1>5 DEF FixRound
<1>6. CASE LoopExhausted
  BY <1>6 DEF LoopExhausted, Ends
<1>7. CASE AgentRound
  BY <1>7 DEF AgentRound, AgentWorks, FixFails, LeavesFix
<1>8. CASE TestPasses
  BY <1>8 DEF TestPasses
<1>9. CASE TestFails
  BY <1>9 DEF TestFails, FixFails, LeavesFix
<1>10. CASE PushesHistory
  BY <1>10 DEF PushesHistory, Pushes, LeavesFix
<1>11. CASE CommitsAndPushes
  BY <1>11 DEF CommitsAndPushes, Pushes, LeavesFix
<1>12. ASSUME NEW c \in Commits, ChecksMove(c) PROVE CiFlags'
  BY <1>12 DEF ChecksMove
<1> QED
  BY <1>0, <1>1, <1>2, <1>3, <1>4, <1>5, <1>6, <1>7, <1>8, <1>9, <1>10, <1>11, <1>12
  DEF CiNext, CiNodes

\* The places
LEMMA CiPlacesKeep == CiInv /\ [CiNext]_ciVars => CiPlaces'
<1> SUFFICES ASSUME CiInv, [CiNext]_ciVars PROVE CiPlaces'
  OBVIOUS
<1> USE DEF CiInv, CiPlaces, github, workingCopy
<1>0. CASE UNCHANGED ciVars
  BY <1>0 DEF ciVars, workingCopy, github
<1>1. CASE WaitCi
  BY <1>1 DEF WaitCi
<1>2. CASE PatienceEnds
  BY <1>2 DEF PatienceEnds
<1>3. CASE CiPasses
  BY <1>3 DEF CiPasses, Ends
<1>4. CASE CiFails
  BY <1>4 DEF CiFails
<1>5. CASE FixRound
  BY <1>5 DEF FixRound
<1>6. CASE LoopExhausted
  BY <1>6 DEF LoopExhausted, Ends
<1>7. CASE AgentRound
  BY <1>7 DEF AgentRound, AgentWorks, FixFails, LeavesFix
<1>8. CASE TestPasses
  BY <1>8 DEF TestPasses
<1>9. CASE TestFails
  BY <1>9 DEF TestFails, FixFails, LeavesFix
<1>10. CASE PushesHistory
  BY <1>10 DEF PushesHistory, Pushes, LeavesFix
<1>11. CASE CommitsAndPushes
  BY <1>11 DEF CommitsAndPushes, Pushes, LeavesFix
<1>12. ASSUME NEW c \in Commits, ChecksMove(c) PROVE CiPlaces'
  <2>1. PICK m \in CheckMoves : checks' = [checks EXCEPT ![c] = m[2]]
    BY <1>12 DEF ChecksMove
  <2>2. m[2] \in {"running", "green", "red", "cancelled"}
    BY DEF CheckMoves
  <2> QED BY <1>12, <2>1, <2>2 DEF ChecksMove
<1> QED
  BY <1>0, <1>1, <1>2, <1>3, <1>4, <1>5, <1>6, <1>7, <1>8, <1>9, <1>10, <1>11, <1>12
  DEF CiNext, CiNodes

\* The commits and rounds
LEMMA CiCountsKeep == CiInv /\ [CiNext]_ciVars => CiCounts'
<1> SUFFICES ASSUME CiInv, [CiNext]_ciVars PROVE CiCounts'
  OBVIOUS
<1> USE CiLimits DEF CiInv, CiCounts, Fixing, github, workingCopy
<1>0. CASE UNCHANGED ciVars
  BY <1>0 DEF ciVars, workingCopy, github
<1>1. CASE WaitCi
  BY <1>1 DEF WaitCi
<1>2. CASE PatienceEnds
  BY <1>2 DEF PatienceEnds
<1>3. CASE CiPasses
  BY <1>3 DEF CiPasses, Ends
<1>4. CASE CiFails
  BY <1>4 DEF CiFails
<1>5. CASE FixRound
  BY <1>5 DEF FixRound
<1>6. CASE LoopExhausted
  BY <1>6 DEF LoopExhausted, Ends
<1>7. CASE AgentRound
  <2>1. /\ ci = "agent" /\ ci' \in {"loop", "commit", "test"}
        /\ UNCHANGED <<commitSha, attempt, remote, tracked>>
        /\ round' \in {0, round} /\ startHead' \in {1, startHead}
        /\ ci' # "loop" => round' = round
    BY <1>7 DEF AgentRound, FixFails, LeavesFix
  <2>2. \/ made' = made /\ head' = head
        \/ made < AgentCommits + attempt /\ made' = made + 1 /\ head' = made + 1
    BY <1>7 DEF AgentRound, AgentWorks
  <2> QED BY <2>1, <2>2
<1>8. CASE TestPasses
  BY <1>8 DEF TestPasses
<1>9. CASE TestFails
  BY <1>9 DEF TestFails, FixFails, LeavesFix
<1>10. CASE PushesHistory
  BY <1>10 DEF PushesHistory, Pushes, LeavesFix
<1>11. CASE CommitsAndPushes
  <2>1. /\ ci = "commit" /\ ci' \in {"loop", "patience"}
        /\ attempt' = attempt /\ round' = 0 /\ startHead' = 1
    BY <1>11 DEF CommitsAndPushes, Pushes, LeavesFix
  <2>2. \/ made' = made /\ head' = head /\ UNCHANGED <<remote, tracked, commitSha>>
        \/ /\ made' = made + 1 /\ head' = made + 1
           /\ remote' \in {remote, head'} /\ tracked' \in {tracked, head'}
           /\ commitSha' \in {commitSha, head'}
    BY <1>11 DEF CommitsAndPushes, Pushes
  <2> QED BY <2>1, <2>2
<1>12. ASSUME NEW c \in Commits, ChecksMove(c) PROVE CiCounts'
  BY <1>12 DEF ChecksMove
<1> QED
  BY <1>0, <1>1, <1>2, <1>3, <1>4, <1>5, <1>6, <1>7, <1>8, <1>9, <1>10, <1>11, <1>12
  DEF CiNext, CiNodes

\* What the verdict is about
LEMMA CiVerdictKeep == CiInv /\ [CiNext]_ciVars => CiVerdict'
<1> SUFFICES ASSUME CiInv, [CiNext]_ciVars PROVE CiVerdict'
  OBVIOUS
<1> USE DEF CiInv, CiVerdict, VerdictOnLastPush, github, workingCopy
<1>0. CASE UNCHANGED ciVars
  BY <1>0 DEF ciVars, workingCopy, github
<1>1. CASE WaitCi
  BY <1>1 DEF WaitCi
<1>2. CASE PatienceEnds
  BY <1>2 DEF PatienceEnds
<1>3. CASE CiPasses
  BY <1>3 DEF CiPasses, Ends
<1>4. CASE CiFails
  BY <1>4 DEF CiFails
<1>5. CASE FixRound
  BY <1>5 DEF FixRound
<1>6. CASE LoopExhausted
  BY <1>6 DEF LoopExhausted, Ends
<1>7. CASE AgentRound
  BY <1>7 DEF AgentRound, AgentWorks, FixFails, LeavesFix
<1>8. CASE TestPasses
  BY <1>8 DEF TestPasses
<1>9. CASE TestFails
  BY <1>9 DEF TestFails, FixFails, LeavesFix
<1>10. CASE PushesHistory
  BY <1>10 DEF PushesHistory, Pushes, LeavesFix
<1>11. CASE CommitsAndPushes
  BY <1>11 DEF CommitsAndPushes, Pushes, LeavesFix
<1>12. ASSUME NEW c \in Commits, ChecksMove(c) PROVE CiVerdict'
  BY <1>12 DEF ChecksMove
<1> QED
  BY <1>0, <1>1, <1>2, <1>3, <1>4, <1>5, <1>6, <1>7, <1>8, <1>9, <1>10, <1>11, <1>12
  DEF CiNext, CiNodes

LEMMA CiKeeps == CiInv /\ [CiNext]_ciVars => CiInv'
<1>1. CiInv /\ [CiNext]_ciVars => CiFlags' /\ CiPlaces' /\ CiCounts' /\ CiVerdict'
  BY CiFlagsKeep, CiPlacesKeep, CiCountsKeep, CiVerdictKeep
<1> QED BY <1>1 DEF CiInv

\* The CI loop's invariant holds, always.
THEOREM CiInductive == CiSpec => []CiInv
  BY CiInitHolds, CiKeeps, PTL DEF CiSpec

LEMMA CiTyped == ASSUME CiInv PROVE CiTypeOK
<1>1. /\ remote \in Commits /\ tracked \in Commits /\ made \in Commits /\ head \in 1 .. made
      /\ commitSha \in 1 .. made /\ startHead \in 1 .. made
      /\ attempt \in 0 .. FixRounds /\ round \in 0 .. InnerRounds
  BY CiLimits DEF CiInv, CiCounts, Commits
<1> QED BY <1>1, Zenon DEF CiInv, CiPlaces, CiFlags, CiTypeOK

\* Type correctness of the CI loop's state, and that the commits made fit the
\* numbers provided for them.
THEOREM CiTypesHold == CiSpec => []CiTypeOK
  BY CiTyped, CiInductive, PTL

\* Success is reported of the last commit that reached the branch
\* (fix-ci-node.ts, pipeline-engine.ts).
THEOREM JudgesLastPush == CiSpec => []VerdictOnLastPush
<1>1. CiInv => VerdictOnLastPush
  BY DEF CiInv, CiVerdict
<1> QED BY <1>1, CiInductive, PTL

\* Every push of a fix has passed a gate (fix-ci-node.ts).
THEOREM GatesPushes == CiSpec => NoUngatedPush
<1>1. CiInv /\ [CiNext]_ciVars => [remote' # remote => gate # "closed"]_ciVars
  <2> SUFFICES ASSUME CiInv, CiNext, remote' # remote PROVE ci = "commit"
    BY DEF CiInv, CiVerdict
  <2> QED BY DEF CiNext, CiNodes, WaitCi, ChecksMove, PatienceEnds, CiPasses, CiFails, FixRound,
             LoopExhausted, AgentRound, TestPasses, TestFails, PushesHistory, CommitsAndPushes,
             github
<1> QED BY <1>1, CiInductive, PTL DEF CiSpec, NoUngatedPush

-----------------------------------------------------------------------------
(* The rewriting of a branch                                               *)

Resolving == {"resolve", "agent", "pushFix"}

RewriteFlags ==
    /\ others \in Nat
    /\ rebased \in BOOLEAN /\ forceLease \in BOOLEAN
    /\ conflictSeen \in BOOLEAN /\ fetchFailed \in BOOLEAN

\* What was cloned is still in HEAD, and outside the fallback HEAD contains what
\* the tracking ref, and with it the lease, names.
ContentsInv ==
    /\ place \in {"sync", "squash", "push"} \cup Resolving
         => ContentsOf(cloned) \subseteq ContentsOf(localHead)
    /\ place \in {"sync", "squash", "push"}
         => ContentsOf(originFeature) \subseteq ContentsOf(localHead)

\* The context bag names HEAD where a push may follow, and the pushed head after it.
NotedInv ==
    /\ place \in {"sync", "squash", "push"} => headSha = localHead
    /\ place = "ci" => headSha = originFeature

\* Where the run has pushed, it is on its way to CI, unless a fetch failed before.
WaitInv ==
    /\ runResult = "success" => place = "end"
    /\ place \in {"sync"} \cup Resolving => job.pipeline = "branch-sync"
    /\ place = "squash" => job.pipeline # "branch-sync" /\ originFeature = cloned
    /\ place \in Resolving => job.reviewed /\ (conflictSeen \/ fetchFailed)
    /\ place = "sync" /\ originFeature # cloned
         => job.reviewed /\ rebased /\ (conflictSeen \/ fetchFailed)
    /\ place \in {"push", "ci"} => WaitsForCi
    /\ runResult = "success" /\ originFeature # cloned => WaitsForCi \/ fetchFailed

RewriteInv == RewriteFlags /\ ContentsInv /\ NotedInv /\ WaitInv

LEMMA ContentsGrow ==
  ASSUME NEW S, NEW T, S \subseteq T PROVE ContentsOf(S) \subseteq ContentsOf(T)
  BY DEF ContentsOf

\* A rebase keeps every change.
LEMMA RebaseKeeps ==
  ASSUME NEW history, NEW onto
  PROVE  ContentsOf(history) \subseteq ContentsOf(Rebase(history, onto))
<1> SUFFICES ASSUME NEW change, NEW commit \in history, change \in commit.changes
             PROVE  \E c \in Rebase(history, onto) : change \in c.changes
  BY DEF ContentsOf
<1>1. CASE commit \in onto
  BY <1>1 DEF Rebase
<1>2. CASE commit \notin onto
  <2>1. CommitOf(commit.changes, commit.gen + 1) \in Rebase(history, onto)
    BY <1>2 DEF Rebase, Rewritten
  <2>2. CommitOf(commit.changes, commit.gen + 1).changes = commit.changes
    BY DEF CommitOf
  <2> QED BY <2>1, <2>2
<1> QED BY <1>1, <1>2

\* A squash keeps every change.
LEMMA SquashKeeps ==
  ASSUME NEW history, NEW onto, NEW gen
  PROVE  ContentsOf(history)
           \subseteq ContentsOf((history \cap onto)
                                  \cup {CommitOf(ContentsOf(history \ onto), gen)})
<1> DEFINE squashed == CommitOf(ContentsOf(history \ onto), gen)
<1> SUFFICES ASSUME NEW change, NEW commit \in history, change \in commit.changes
             PROVE  \E c \in (history \cap onto) \cup {squashed} : change \in c.changes
  BY DEF ContentsOf
<1>1. CASE commit \in onto
  BY <1>1
<1>2. CASE commit \notin onto
  <2>1. change \in ContentsOf(history \ onto)
    BY <1>2 DEF ContentsOf
  <2>2. squashed.changes = ContentsOf(history \ onto)
    BY DEF CommitOf
  <2> QED BY <2>1, <2>2
<1> QED BY <1>1, <1>2

LEMMA RewriteInit == BranchInit => RewriteInv
<1> SUFFICES ASSUME BranchInit PROVE RewriteInv
  OBVIOUS
<1>1. /\ place = "clone" /\ runResult = "none" /\ others = 0 /\ rebased = FALSE
      /\ forceLease = FALSE /\ conflictSeen = FALSE /\ fetchFailed = FALSE
  BY DEF BranchInit
<1>2. RewriteFlags
  BY <1>1 DEF RewriteFlags
<1>3. ContentsInv /\ NotedInv
  BY <1>1 DEF ContentsInv, NotedInv, Resolving
<1>4. WaitInv
  BY <1>1 DEF WaitInv, Resolving
<1> QED BY <1>2, <1>3, <1>4 DEF RewriteInv

LEMMA RewriteFlagsKeep == RewriteInv /\ [BranchNext]_rewriteVars => RewriteFlags'
<1> SUFFICES ASSUME RewriteFlags, [BranchNext]_rewriteVars PROVE RewriteFlags'
  BY DEF RewriteInv
<1> USE DEF RewriteFlags
<1>0. CASE UNCHANGED rewriteVars
  BY <1>0 DEF rewriteVars, remotes, localRefs, contextBag
<1>1. CASE BaseMoves \/ OthersPush \/ Clones
  BY <1>1 DEF BaseMoves, OthersPush, Clones, remotes, localRefs, contextBag
<1>2. CASE SyncSkips \/ SyncCannotFetch \/ SyncConflicts \/ SyncRebases
  BY <1>2 DEF SyncSkips, SyncCannotFetch, SyncConflicts, SyncRebases, remotes, contextBag
<1>3. CASE SyncKeeps
  BY <1>3 DEF SyncKeeps, remotes
<1>4. CASE ResolveFetches \/ AgentRebases \/ ResolveFails \/ FixPushes
  BY <1>4 DEF ResolveFetches, AgentRebases, ResolveFails, FixPushes, remotes, contextBag
<1>5. CASE Squashes
  BY <1>5 DEF Squashes, remotes
<1>6. CASE PushesBranch \/ PushFails \/ CiEnds
  BY <1>6 DEF PushesBranch, PushFails, CiEnds, remotes, contextBag
<1> QED BY <1>0, <1>1, <1>2, <1>3, <1>4, <1>5, <1>6 DEF BranchNext

LEMMA ContentsKeep == RewriteInv /\ [BranchNext]_rewriteVars => ContentsInv'
<1> SUFFICES ASSUME ContentsInv, [BranchNext]_rewriteVars PROVE ContentsInv'
  BY DEF RewriteInv
<1> USE DEF ContentsInv, Resolving
<1>0. CASE UNCHANGED rewriteVars
  BY <1>0 DEF rewriteVars, localRefs, ContentsOf
<1>1. CASE BaseMoves \/ OthersPush
  BY <1>1 DEF BaseMoves, OthersPush, localRefs, ContentsOf
<1>2. CASE Clones
  BY <1>2 DEF Clones, RunEnds, ContentsOf
<1>3. CASE SyncSkips \/ SyncCannotFetch \/ SyncConflicts \/ SyncKeeps
  BY <1>3 DEF SyncSkips, SyncCannotFetch, SyncConflicts, SyncKeeps, SyncFails, AfterSync, RunEnds,
             localRefs, ContentsOf
<1>4. CASE SyncRebases
  <2>1. ContentsOf(localHead) \subseteq ContentsOf(localHead')
    BY <1>4, RebaseKeeps DEF SyncRebases
  <2>2. cloned' = cloned /\ originFeature' = originFeature /\ place = "sync"
    BY <1>4 DEF SyncRebases
  <2> QED BY <2>1, <2>2 DEF ContentsOf
<1>5. CASE ResolveFetches \/ ResolveFails
  BY <1>5 DEF ResolveFetches, ResolveFails, RunEnds, ContentsOf, localRefs
<1>6. CASE AgentRebases
  <2>1. ContentsOf(localHead) \subseteq ContentsOf(localHead')
    BY <1>6, RebaseKeeps DEF AgentRebases
  <2>2. cloned' = cloned /\ place = "agent" /\ place' = "pushFix"
    BY <1>6 DEF AgentRebases
  <2> QED BY <2>1, <2>2 DEF ContentsOf
<1>7. CASE FixPushes
  BY <1>7 DEF FixPushes, Pushed, ContentsOf
<1>8. CASE Squashes
  <2>1. ContentsOf(localHead) \subseteq ContentsOf(localHead')
    BY <1>8, SquashKeeps DEF Squashes
  <2>2. cloned' = cloned /\ originFeature' = originFeature /\ place = "squash"
    BY <1>8 DEF Squashes
  <2> QED BY <2>1, <2>2 DEF ContentsOf
<1>9. CASE PushesBranch \/ PushFails \/ CiEnds
  BY <1>9 DEF PushesBranch, PushFails, CiEnds, RunEnds
<1> QED BY <1>0, <1>1, <1>2, <1>3, <1>4, <1>5, <1>6, <1>7, <1>8, <1>9 DEF BranchNext

LEMMA NotedKeep == RewriteInv /\ [BranchNext]_rewriteVars => NotedInv'
<1> SUFFICES ASSUME NotedInv, [BranchNext]_rewriteVars PROVE NotedInv'
  BY DEF RewriteInv
<1> USE DEF NotedInv
<1>0. CASE UNCHANGED rewriteVars
  BY <1>0 DEF rewriteVars, localRefs, contextBag
<1>1. CASE BaseMoves \/ OthersPush \/ Clones
  BY <1>1 DEF BaseMoves, OthersPush, Clones, RunEnds, localRefs, contextBag
<1>2. CASE SyncSkips \/ SyncCannotFetch \/ SyncConflicts \/ SyncKeeps \/ SyncRebases
  BY <1>2 DEF SyncSkips, SyncCannotFetch, SyncConflicts, SyncKeeps, SyncRebases, SyncFails,
             AfterSync, RunEnds, localRefs, contextBag
<1>3. CASE ResolveFetches \/ AgentRebases \/ ResolveFails \/ FixPushes
  BY <1>3 DEF ResolveFetches, AgentRebases, ResolveFails, FixPushes, RunEnds
<1>4. CASE Squashes
  BY <1>4 DEF Squashes, RunEnds
<1>5. CASE PushesBranch \/ PushFails \/ CiEnds
  BY <1>5 DEF PushesBranch, Pushed, PushFails, CiEnds, RunEnds, contextBag
<1> QED BY <1>0, <1>1, <1>2, <1>3, <1>4, <1>5 DEF BranchNext

LEMMA WaitKeep == RewriteInv /\ [BranchNext]_rewriteVars => WaitInv'
<1> SUFFICES ASSUME RewriteFlags, WaitInv, [BranchNext]_rewriteVars PROVE WaitInv'
  BY DEF RewriteInv
<1> USE DEF RewriteFlags, WaitInv, WaitsForCi, Resolving
<1>0. CASE UNCHANGED rewriteVars
  BY <1>0 DEF rewriteVars, localRefs, contextBag
<1>1. CASE BaseMoves \/ OthersPush
  BY <1>1 DEF BaseMoves, OthersPush, localRefs, contextBag
<1>2. CASE Clones
  BY <1>2 DEF Clones, RunEnds, localRefs
<1>3. CASE SyncSkips
  BY <1>3 DEF SyncSkips, AfterSync, RunEnds, localRefs
<1>4. CASE SyncCannotFetch
  BY <1>4 DEF SyncCannotFetch, SyncFails, RunEnds, localRefs, contextBag
<1>5. CASE SyncKeeps
  BY <1>5 DEF SyncKeeps, AfterSync, RunEnds
<1>6. CASE SyncRebases
  BY <1>6 DEF SyncRebases, AfterSync, RunEnds
<1>7. CASE SyncConflicts
  BY <1>7 DEF SyncConflicts, SyncFails, RunEnds
<1>8. CASE ResolveFetches \/ AgentRebases \/ ResolveFails
  BY <1>8 DEF ResolveFetches, AgentRebases, ResolveFails, RunEnds, contextBag
<1>9. CASE FixPushes
  BY <1>9 DEF FixPushes, Pushed
<1>10. CASE Squashes
  BY <1>10 DEF Squashes, RunEnds
<1>11. CASE PushesBranch \/ PushFails \/ CiEnds
  BY <1>11 DEF PushesBranch, Pushed, PushFails, CiEnds, RunEnds, localRefs, contextBag
<1> QED BY <1>0, <1>1, <1>2, <1>3, <1>4, <1>5, <1>6, <1>7, <1>8, <1>9, <1>10, <1>11
        DEF BranchNext

LEMMA RewriteKeeps == RewriteInv /\ [BranchNext]_rewriteVars => RewriteInv'
<1>1. RewriteInv /\ [BranchNext]_rewriteVars
        => RewriteFlags' /\ ContentsInv' /\ NotedInv' /\ WaitInv'
  BY RewriteFlagsKeep, ContentsKeep, NotedKeep, WaitKeep
<1> QED BY <1>1 DEF RewriteInv

\* The invariant of a rewriting run holds, always.
THEOREM RewriteInductive == BranchSpec => []RewriteInv
  BY RewriteInit, RewriteKeeps, PTL DEF BranchSpec

\* wait_ci looks at what was pushed, and a rewritten branch is not left without
\* its CI (branch-sync.yml, ready-for-merge.yml and the nodes they name).
THEOREM SeesPush == BranchSpec => []CiSeesPush
<1>1. RewriteInv => CiSeesPush
  BY DEF RewriteInv, NotedInv, WaitInv, CiSeesPush
<1> QED BY <1>1, RewriteInductive, PTL

\* A push takes away only what came between the clone and the fallback's fetch
\* (push.ts, resolve-rebase-conflicts.ts).
THEOREM KeepsChanges == BranchSpec => PushesKeepChanges
<1> DEFINE Lost == LostByPush \subseteq
                     IF place = "pushFix" THEN ContentsOf(lease) \ ContentsOf(cloned) ELSE {}
<1>1. RewriteInv /\ [BranchNext]_rewriteVars => [others' = others => Lost]_rewriteVars
  <2> SUFFICES ASSUME RewriteInv, BranchNext, others' = others PROVE Lost
    OBVIOUS
  <2> USE DEF LostByPush
  <2>1. CASE PushesBranch
    <3>1. ContentsOf(feature) \subseteq ContentsOf(localHead)
      BY <2>1, ContentsGrow DEF PushesBranch, RewriteInv, ContentsInv
    <3> QED BY <2>1, <3>1 DEF PushesBranch, Pushed
  <2>2. CASE FixPushes
    <3>1. ContentsOf(cloned) \subseteq ContentsOf(localHead)
      BY <2>2 DEF FixPushes, RewriteInv, ContentsInv, Resolving
    <3>2. feature = lease /\ feature' = localHead /\ place = "pushFix"
      BY <2>2 DEF FixPushes, Pushed
    <3> QED BY <3>1, <3>2 DEF ContentsOf
  <2>3. CASE OthersPush
    BY <2>3 DEF OthersPush, RewriteInv, RewriteFlags
  <2>4. CASE ~(PushesBranch \/ FixPushes \/ OthersPush)
    <3>1. feature' = feature
      BY <2>4 DEF BranchNext, BaseMoves, Clones, SyncSkips, SyncCannotFetch, SyncKeeps, SyncRebases,
                 SyncConflicts, ResolveFetches, AgentRebases, ResolveFails, Squashes, PushFails,
                 CiEnds, remotes
    <3> QED BY <3>1 DEF ContentsOf
  <2> QED BY <2>1, <2>2, <2>3, <2>4
<1> QED BY <1>1, RewriteInductive, PTL DEF BranchSpec, PushesKeepChanges

-----------------------------------------------------------------------------
(* The types of a rewriting run: histories are finite, and so a squash has *)
(* a newest generation to go beyond.                                       *)

CommitRecords == [changes : SUBSET ({"base", "own", "other"} \X Nat), gen : Nat]
IsHistory(history) == IsFiniteSet(history) /\ history \subseteq CommitRecords

HistoryTypes ==
    /\ IsHistory(base) /\ IsHistory(feature) /\ IsHistory(originBase) /\ IsHistory(originFeature)
    /\ IsHistory(localHead) /\ IsHistory(cloned) /\ IsHistory(lease) /\ IsHistory(headSha)

BranchPlaces ==
    /\ job \in [pipeline : {"branch-sync", "ready-for-merge"}, reviewed : BOOLEAN]
    /\ others \in 0 .. PushLimit
    /\ place \in {"clone", "sync", "resolve", "agent", "pushFix", "squash", "push", "ci", "end"}
    /\ loopRounds \in 0 .. 1 /\ runResult \in {"none", "success", "failure"}

\* A finite set of numbers has a greatest: one without it, of the smallest size,
\* would lose a number and keep the lack.
LEMMA GreatestExists ==
    ASSUME NEW S \in SUBSET Nat, IsFiniteSet(S), S # {}
    PROVE  \E m \in S : \A n \in S : n <= m
<1> DEFINE Lacks(U) == U # {} /\ ~\E m \in U : \A n \in U : n <= m
           T == {Cardinality(U) : U \in {V \in SUBSET S : Lacks(V)}}
<1> SUFFICES ASSUME Lacks(S) PROVE FALSE
  OBVIOUS
<1>1. \A U \in SUBSET S : IsFiniteSet(U) /\ Cardinality(U) \in Nat
  BY FS_Subset, FS_CardinalityType
<1>2. T \subseteq Nat /\ T # {}
  BY <1>1
<1>3. PICK x \in T : \A y \in T : ~(<<y, x>> \in OpToRel(<, Nat))
  BY <1>2, WFMin, NatLessThanWellFounded, Zenon
<1>4. PICK U \in SUBSET S : Lacks(U) /\ x = Cardinality(U)
  OBVIOUS
<1>5. PICK e \in U : TRUE
  BY <1>4
<1> DEFINE V == U \ {e}
<1>6. Cardinality(V) = Cardinality(U) - 1
  BY <1>1, <1>4, <1>5, FS_RemoveElement
<1>7. ~Lacks(V)
  <2> SUFFICES ASSUME Lacks(V) PROVE FALSE
    OBVIOUS
  <2>1. Cardinality(V) \in T
    OBVIOUS
  <2>2. Cardinality(V) \in Nat /\ Cardinality(U) \in Nat
    BY <1>1
  <2>3. ~(Cardinality(V) < Cardinality(U))
    BY <1>3, <1>4, <2>1, <2>2 DEF OpToRel
  <2> QED BY <1>6, <2>2, <2>3
<1>8. CASE V = {}
  <2>1. \A n \in U : n <= e
    BY <1>8
  <2> QED BY <1>4, <1>5, <2>1
<1>9. CASE V # {}
  <2>1. PICK m \in V : \A n \in V : n <= m
    BY <1>7, <1>9
  <2>2. m \in Nat /\ e \in Nat
    OBVIOUS
  <2>3. (\A n \in U : n <= m) \/ (\A n \in U : n <= e)
    <3>1. CASE e <= m
      BY <2>1, <3>1
    <3>2. CASE m < e
      BY <2>1, <2>2, <3>2
    <3> QED BY <2>2, <3>1, <3>2
  <2> QED BY <1>4, <1>5, <2>1, <2>3
<1> QED BY <1>8, <1>9

LEMMA OneMore ==
    ASSUME NEW history, IsHistory(history), NEW commit \in CommitRecords
    PROVE  IsHistory(history \cup {commit})
  BY FS_AddElement DEF IsHistory

LEMMA PartOfHistory ==
    ASSUME NEW history, IsHistory(history), NEW part \in SUBSET history PROVE IsHistory(part)
  BY FS_Subset DEF IsHistory

LEMMA EmptyHistory == IsHistory({})
  BY FS_EmptySet DEF IsHistory

LEMMA ContentsTyped ==
    ASSUME NEW history, IsHistory(history)
    PROVE  ContentsOf(history) \in SUBSET ({"base", "own", "other"} \X Nat)
  BY DEF ContentsOf, IsHistory, CommitRecords

LEMMA FirstHistories == IsHistory(FirstBase) /\ IsHistory(FirstFeature)
<1>1. /\ CommitOf({<<"base", 0>>}, 0) \in CommitRecords
      /\ CommitOf({<<"own", 1>>}, 0) \in CommitRecords
      /\ CommitOf({<<"own", 2>>}, 0) \in CommitRecords
  BY DEF CommitOf, CommitRecords
<1>2. FirstBase = {} \cup {CommitOf({<<"base", 0>>}, 0)}
  BY DEF FirstBase
<1>3. IsHistory(FirstBase)
  BY <1>1, <1>2, EmptyHistory, OneMore
<1>4. FirstFeature = (FirstBase \cup {CommitOf({<<"own", 1>>}, 0)}) \cup {CommitOf({<<"own", 2>>}, 0)}
  BY DEF FirstFeature
<1> QED BY <1>1, <1>3, <1>4, OneMore

\* The image of a finite set is finite.
LEMMA FiniteImage ==
    ASSUME NEW S, IsFiniteSet(S), NEW f, DOMAIN f = S PROVE IsFiniteSet({f[x] : x \in S})
<1> DEFINE T == {f[x] : x \in S}
           g == [x \in S |-> f[x]]
<1>1. g \in Surjection(S, T)
  BY DEF Surjection
<1> QED BY <1>1, FS_Surjection

LEMMA RebasedHistory ==
    ASSUME NEW history, NEW onto, IsHistory(history), IsHistory(onto)
    PROVE  IsHistory(Rebase(history, onto))
<1> DEFINE own == history \ onto
           Again(c) == CommitOf(c.changes, c.gen + 1)
<1>1. IsHistory(own)
  BY PartOfHistory
<1>2. IsFiniteSet({Again(c) : c \in own})
  <2> DEFINE f == [c \in own |-> Again(c)]
  <2>1. IsFiniteSet({f[c] : c \in own})
    BY <1>1, FiniteImage DEF IsHistory
  <2>2. {f[c] : c \in own} = {Again(c) : c \in own}
    OBVIOUS
  <2> QED BY <2>1, <2>2
<1>3. \A c \in own : Again(c) \in CommitRecords
  BY <1>1 DEF IsHistory, CommitRecords, CommitOf
<1>4. Rebase(history, onto) = onto \cup {Again(c) : c \in own}
  BY DEF Rebase, Rewritten
<1>5. IsFiniteSet(onto \cup {Again(c) : c \in own})
  BY <1>2, FS_Union DEF IsHistory
<1> QED BY <1>3, <1>4, <1>5 DEF IsHistory

LEMMA SquashedHistory ==
    ASSUME NEW history, NEW onto, IsHistory(history), Cardinality(history \ onto) > 1
    PROVE  LET own == history \ onto IN
           IsHistory((history \cap onto)
             \cup {CommitOf(ContentsOf(own), 1 + CHOOSE g \in {c.gen : c \in own} :
                                                  \A c \in own : c.gen <= g)})
<1> DEFINE own == history \ onto
           gens == {c.gen : c \in own}
           newest == CHOOSE g \in gens : \A c \in own : c.gen <= g
<1>1. IsHistory(own) /\ IsHistory(history \cap onto)
  BY PartOfHistory
<1>2. own # {}
  BY FS_EmptySet
<1>3. IsFiniteSet(gens)
  <2> DEFINE f == [c \in own |-> c.gen]
  <2>1. IsFiniteSet({f[c] : c \in own})
    BY <1>1, FiniteImage DEF IsHistory
  <2>2. {f[c] : c \in own} = gens
    OBVIOUS
  <2> QED BY <2>1, <2>2
<1>4. gens \in SUBSET Nat /\ gens # {}
  BY <1>1, <1>2 DEF IsHistory, CommitRecords
<1>5. \E g \in gens : \A n \in gens : n <= g
  BY <1>3, <1>4, GreatestExists
<1>6. newest \in gens
  BY <1>5
<1>7. CommitOf(ContentsOf(own), 1 + newest) \in CommitRecords
  <2>1. newest \in Nat
    BY <1>4, <1>6
  <2> HIDE DEF newest
  <2>2. 1 + newest \in Nat
    BY <2>1
  <2>3. ContentsOf(own) \in SUBSET ({"base", "own", "other"} \X Nat)
    BY <1>1, ContentsTyped
  <2> QED BY <2>2, <2>3 DEF CommitOf, CommitRecords
<1> QED BY <1>1, <1>7, OneMore

LEMMA HistoriesStay == ASSUME HistoryTypes, UNCHANGED <<base, feature, localRefs, lease, headSha>>
                       PROVE  HistoryTypes'
  BY DEF HistoryTypes, localRefs

LEMMA OthersPushTyped == ASSUME HistoryTypes, BranchPlaces, OthersPush PROVE IsHistory(feature')
<1> DEFINE change == <<"other", others + 1>>
<1>1. others \in Nat /\ change \in {"base", "own", "other"} \X Nat
  BY RewriteAssumption DEF BranchPlaces
<1> HIDE DEF change
<1>2. CASE feature' = feature \cup {CommitOf({change}, 0)}
  <2>1. CommitOf({change}, 0) \in CommitRecords
    BY <1>1 DEF CommitOf, CommitRecords
  <2> QED BY <1>2, <2>1, OneMore DEF HistoryTypes
<1>3. ASSUME NEW commit \in feature \ base,
             feature' = (feature \ {commit}) \cup {CommitOf(commit.changes \cup {change}, commit.gen + 1)}
      PROVE  IsHistory(feature')
  <2>1. commit \in CommitRecords
    BY DEF HistoryTypes, IsHistory
  <2>2. CommitOf(commit.changes \cup {change}, commit.gen + 1) \in CommitRecords
    BY <1>1, <2>1 DEF CommitOf, CommitRecords
  <2>3. IsHistory(feature \ {commit})
    BY PartOfHistory DEF HistoryTypes
  <2> QED BY <1>3, <2>2, <2>3, OneMore
<1> QED BY <1>2, <1>3 DEF OthersPush, change

LEMMA HistoriesKeep == ASSUME HistoryTypes, BranchPlaces, [BranchNext]_rewriteVars PROVE HistoryTypes'
<1> USE DEF remotes, localRefs, contextBag
<1>1. CASE UNCHANGED rewriteVars
  BY <1>1 DEF rewriteVars, HistoryTypes
<1>2. CASE BaseMoves
  <2>1. CommitOf({<<"base", Cardinality(base)>>}, 0) \in CommitRecords
    BY FS_CardinalityType DEF HistoryTypes, IsHistory, CommitOf, CommitRecords
  <2>2. IsHistory(base')
    BY <1>2, <2>1, OneMore DEF BaseMoves, HistoryTypes
  <2> QED BY <1>2, <2>2 DEF BaseMoves, HistoryTypes
<1>3. CASE OthersPush
  BY <1>3, OthersPushTyped DEF OthersPush, HistoryTypes
<1>4. CASE Clones \/ ResolveFetches
  BY <1>4 DEF Clones, ResolveFetches, HistoryTypes
<1>5. CASE SyncSkips \/ SyncCannotFetch \/ SyncKeeps \/ SyncConflicts
  BY <1>5 DEF SyncSkips, SyncCannotFetch, SyncKeeps, SyncConflicts, HistoryTypes
<1>6. CASE SyncRebases \/ AgentRebases
  <2>1. IsHistory(Rebase(localHead, base)) /\ IsHistory(Rebase(localHead, originBase))
    BY RebasedHistory DEF HistoryTypes
  <2> QED BY <1>6, <2>1 DEF SyncRebases, AgentRebases, HistoryTypes
<1>7. CASE FixPushes \/ PushesBranch
  BY <1>7 DEF FixPushes, PushesBranch, Pushed, HistoryTypes
<1>8. CASE Squashes
  <2>1. CASE UNCHANGED <<originBase, localHead, headSha>>
    BY <1>8, <2>1 DEF Squashes, HistoryTypes
  <2>2. CASE originBase' = base /\ UNCHANGED <<localHead, headSha>>
    BY <1>8, <2>2 DEF Squashes, HistoryTypes
  <2>3. CASE /\ originBase' = base /\ headSha' = localHead' /\ ~(Cardinality(localHead \ base) <= 1)
             /\ localHead' = (localHead \cap base) \cup
                  {CommitOf(ContentsOf(localHead \ base),
                            1 + CHOOSE g \in {c.gen : c \in localHead \ base} :
                                  \A c \in localHead \ base : c.gen <= g)}
    <3>1. IsHistory(localHead \ base)
      BY PartOfHistory DEF HistoryTypes
    <3>2. Cardinality(localHead \ base) > 1
      BY <2>3, <3>1, FS_CardinalityType DEF IsHistory
    <3>3. IsHistory(localHead')
      BY <2>3, <3>2, SquashedHistory DEF HistoryTypes
    <3> QED BY <1>8, <2>3, <3>3 DEF Squashes, HistoryTypes
  <2> QED BY <1>8, <2>1, <2>2, <2>3 DEF Squashes
<1>9. CASE ResolveFails \/ PushFails \/ CiEnds
  BY <1>9, HistoriesStay DEF ResolveFails, PushFails, CiEnds
<1> QED BY <1>1, <1>2, <1>3, <1>4, <1>5, <1>6, <1>7, <1>8, <1>9 DEF BranchNext

LEMMA PlacesKeep == ASSUME BranchPlaces, [BranchNext]_rewriteVars PROVE BranchPlaces'
<1> USE DEF BranchPlaces, RunEnds
<1>1. CASE UNCHANGED rewriteVars
  BY <1>1 DEF rewriteVars, remotes
<1>2. CASE BaseMoves
  BY <1>2 DEF BaseMoves
<1>3. CASE OthersPush
  <2>1. others' \in 0 .. PushLimit
    BY <1>3, RewriteAssumption DEF OthersPush
  <2> QED BY <1>3, <2>1 DEF OthersPush
<1>4. CASE Clones \/ ResolveFetches \/ AgentRebases \/ ResolveFails \/ FixPushes
  BY <1>4 DEF Clones, ResolveFetches, AgentRebases, ResolveFails, FixPushes, remotes
<1>5. CASE SyncSkips \/ SyncKeeps \/ SyncRebases
  BY <1>5 DEF SyncSkips, SyncKeeps, SyncRebases, AfterSync, remotes
<1>6. CASE SyncCannotFetch \/ SyncConflicts
  BY <1>6 DEF SyncCannotFetch, SyncConflicts, SyncFails, remotes
<1>7. CASE Squashes
  BY <1>7 DEF Squashes, remotes
<1>8. CASE PushesBranch \/ PushFails \/ CiEnds
  BY <1>8 DEF PushesBranch, PushFails, CiEnds, remotes
<1> QED BY <1>1, <1>2, <1>3, <1>4, <1>5, <1>6, <1>7, <1>8 DEF BranchNext

LEMMA BranchStarts == BranchInit => HistoryTypes /\ BranchPlaces
<1> SUFFICES ASSUME BranchInit PROVE HistoryTypes /\ BranchPlaces
  OBVIOUS
<1>1. HistoryTypes
  BY FirstHistories, EmptyHistory DEF BranchInit, HistoryTypes
<1>2. BranchPlaces
  BY RewriteAssumption DEF BranchInit, BranchPlaces
<1> QED BY <1>1, <1>2

LEMMA BranchTyped == RewriteFlags /\ HistoryTypes /\ BranchPlaces => BranchTypeOK
<1> SUFFICES ASSUME RewriteFlags, HistoryTypes, BranchPlaces PROVE BranchTypeOK
  OBVIOUS
<1>1. ASSUME NEW history \in {base, feature, originBase, originFeature, localHead, cloned, lease, headSha},
             NEW commit \in history
      PROVE  commit.gen \in Nat /\ commit.changes \subseteq {"base", "own", "other"} \X Nat
  <2>1. IsHistory(history)
    BY DEF HistoryTypes
  <2> QED BY <2>1 DEF IsHistory, CommitRecords
<1> QED BY <1>1 DEF RewriteFlags, BranchPlaces, BranchTypeOK

\* Every history holds commits of the pull request and its base, and every place
\* is a node of the two pipelines (branch-sync.yml, ready-for-merge.yml).
THEOREM BranchTypesHold == BranchSpec => []BranchTypeOK
<1>1. HistoryTypes /\ BranchPlaces /\ [BranchNext]_rewriteVars => (HistoryTypes /\ BranchPlaces)'
  BY HistoriesKeep, PlacesKeep
<1>2. RewriteInv => RewriteFlags
  BY DEF RewriteInv
<1> QED BY <1>1, <1>2, BranchStarts, BranchTyped, RewriteInductive, PTL DEF BranchSpec
=============================================================================
