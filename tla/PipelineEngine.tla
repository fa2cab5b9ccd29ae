--------------------------- MODULE PipelineEngine ---------------------------
(***************************************************************************)
(* One execution of a pipeline: the walk over its nodes with skips, jumps, *)
(* failure loops and warnings, the sandbox container that a setup_sandbox  *)
(* node creates (or the engine, when the pipeline has none), and an abort  *)
(* that arrives at any time.                                               *)
(*                                                                         *)
(* A pipeline is a sequence of records: the action where it matters, loop  *)
(* and warn for on_failure and its on_exhausted, fatal for on_soft_fail:   *)
(* fail_run, and optional for a node with an `if` condition.  A handler    *)
(* returns any outcome; an exception of it is a failure.  What a decision  *)
(* node outputs is a model's answer, so any skip and any jump.             *)
(***************************************************************************)
EXTENDS Naturals, Sequences

CONSTANTS
    Pipelines,      \* the pipelines considered
    MaxGotos,       \* maxGotos
    MaxRounds,      \* max_rounds of every loop
    DockerFaults    \* bound: calls of docker that fail after they took effect

VARIABLES
    pipeline,
    engine,         \* where executePipeline is
    node,           \* i
    skipIds,        \* skipNodeIds, and the disabled nodes that are not enabled
    inSandbox,      \* the walk is the nested one
    gotos, jumps,   \* gotoCount of this walk, and the jumps made by both
    loopRound,      \* attempt
    aborted, lateNodes,   \* the abort signal, and handlers started after it
    failing,        \* a node failed and nothing made up for it
    warned,         \* warnings is not empty
    outcome,
    handle,         \* sandbox ?? sandboxRef.handle is set
    container,      \* the run's container exists
    dockerFaults

walk    == <<pipeline, node, skipIds, inSandbox, gotos, jumps, loopRound>>
results == <<failing, warned, outcome>>
sandbox == <<handle, container, dockerFaults>>
engineVars == <<walk, results, sandbox, engine, aborted, lateNodes>>

NodeIds == DOMAIN pipeline

ASSUME PipelineAssumption ==
    /\ MaxGotos \in Nat /\ MaxRounds \in Nat \ {0} /\ DockerFaults \in Nat
    /\ \A p \in Pipelines :
          p \in Seq([action : {"work", "decide", "browser", "setup"}, loop : BOOLEAN,
                     warn : BOOLEAN, fatal : BOOLEAN, optional : BOOLEAN])

EngineTypeOK ==
    /\ pipeline \in Pipelines
    /\ engine \in {"idle", "next", "starting", "handler", "loop", "fixing", "retrying",
                   "cleanup", "done"}
    /\ node \in 1 .. Len(pipeline) + 1
    /\ skipIds \subseteq NodeIds
    /\ gotos \in 0 .. MaxGotos /\ jumps \in Nat /\ loopRound \in 0 .. MaxRounds
    /\ lateNodes \in Nat /\ dockerFaults \in 0 .. DockerFaults
    /\ inSandbox \in BOOLEAN /\ aborted \in BOOLEAN /\ failing \in BOOLEAN
    /\ warned \in BOOLEAN /\ handle \in BOOLEAN /\ container \in BOOLEAN
    /\ outcome \in {"none", "success", "completed_with_warnings", "failure"}

EngineInit ==
    /\ pipeline \in Pipelines /\ engine = "idle" /\ node = 1 /\ skipIds = {}
    /\ inSandbox = FALSE /\ gotos = 0 /\ jumps = 0 /\ loopRound = 0
    /\ aborted = FALSE /\ lateNodes = 0
    /\ failing = FALSE /\ warned = FALSE /\ outcome = "none"
    /\ handle = FALSE /\ container = FALSE /\ dockerFaults = 0

-----------------------------------------------------------------------------
(* The sandbox                                                             *)

HasSetup == \E n \in NodeIds : pipeline[n].action = "setup"

\* buildAndCreateSandbox; ok says whether it returned.  The name is the run's,
\* so a second container is refused; one whose inspection fails stays.
CreateSandbox(ok) ==
    \/ ok /\ ~container /\ container' = TRUE /\ handle' = TRUE /\ UNCHANGED dockerFaults
    \/ ~ok /\ UNCHANGED sandbox
    \/ /\ ~ok /\ ~container /\ dockerFaults < DockerFaults
       /\ container' = TRUE /\ dockerFaults' = dockerFaults + 1 /\ UNCHANGED handle

\* (Mutant: only the sandbox made upfront is cleaned up.)
DestroysUpfront ==
    container' = (container /\ HasSetup) /\ UNCHANGED <<handle, dockerFaults>>

\* destroySandbox, which swallows its errors.
Destroys ==
    /\ UNCHANGED handle
    /\ \/ container' = (container /\ ~handle) /\ UNCHANGED dockerFaults
       \/ /\ container /\ dockerFaults < DockerFaults
          /\ dockerFaults' = dockerFaults + 1 /\ UNCHANGED container

\* The finally of execute.
CleanUp ==
    /\ engine = "cleanup"
    /\ Destroys
    /\ engine' = "done"
    /\ UNCHANGED <<walk, results, aborted, lateNodes>>

-----------------------------------------------------------------------------
(* executePipeline                                                         *)

Returns(o) ==
    /\ engine' = "cleanup" /\ outcome' = o
    /\ loopRound' = 0

\* execute: the explicit skips; a pipeline without a setup node gets its
\* container now, or fails.
Begin ==
    /\ engine = "idle"
    /\ skipIds' \in SUBSET NodeIds
    /\ \/ HasSetup /\ engine' = "next" /\ UNCHANGED <<sandbox, outcome>>
       \/ ~HasSetup /\ CreateSandbox(TRUE) /\ engine' = "next" /\ UNCHANGED outcome
       \/ ~HasSetup /\ CreateSandbox(FALSE) /\ engine' = "cleanup" /\ outcome' = "failure"
    /\ UNCHANGED <<pipeline, node, inSandbox, gotos, jumps, loopRound, failing, warned,
                   aborted, lateNodes>>

Abort ==
    /\ engine \notin {"idle", "cleanup", "done"} /\ ~aborted
    /\ aborted' = TRUE
    /\ UNCHANGED <<walk, results, sandbox, engine, lateNodes>>

Finish ==
    /\ engine = "next" /\ node > Len(pipeline)
    /\ Returns(IF warned THEN "completed_with_warnings" ELSE "success")
    /\ UNCHANGED <<pipeline, node, skipIds, inSandbox, gotos, jumps, failing, warned,
                   sandbox, aborted, lateNodes>>

SeesAbort ==
    /\ engine = "next" /\ node <= Len(pipeline) /\ aborted
    /\ Returns("failure")
    /\ UNCHANGED <<pipeline, node, skipIds, inSandbox, gotos, jumps, failing, warned,
                   sandbox, aborted, lateNodes>>

Skips ==
    /\ engine = "next" /\ node <= Len(pipeline) /\ ~aborted
    /\ node \in skipIds \/ pipeline[node].optional
    /\ node' = node + 1
    /\ UNCHANGED <<pipeline, skipIds, inSandbox, gotos, jumps, loopRound, results, sandbox,
                   engine, aborted, lateNodes>>

Chooses ==
    /\ engine = "next" /\ node <= Len(pipeline) /\ ~aborted /\ node \notin skipIds
    /\ engine' = "starting"
    /\ UNCHANGED <<walk, results, sandbox, aborted, lateNodes>>

Late == lateNodes' = IF aborted THEN lateNodes + 1 ELSE lateNodes

StartsHandler ==
    /\ engine = "starting"
    /\ engine' = "handler" /\ Late
    /\ UNCHANGED <<walk, results, sandbox, aborted>>

-----------------------------------------------------------------------------
(* What follows a handler's result.                                        *)

Advances == node' = node + 1 /\ engine' = "next" /\ UNCHANGED outcome

\* The node's own outcome decides: a loop, the run's end, a warning, the next node
\* or, after the sandbox was made, the nested walk with counters of its own.
Proceeds(o) ==
    \/ /\ o = "failure" /\ pipeline[node].loop
       /\ engine' = "loop" /\ failing' = TRUE
       /\ UNCHANGED <<node, outcome, warned, inSandbox, loopRound>>
    \/ /\ o = "failure" /\ ~pipeline[node].loop
       /\ failing' = TRUE /\ Returns("failure") /\ UNCHANGED <<node, warned, inSandbox>>
    \/ /\ o = "soft_fail" /\ pipeline[node].fatal
       /\ failing' = TRUE /\ Returns("failure") /\ UNCHANGED <<node, warned, inSandbox>>
    \/ /\ o = "soft_fail" /\ ~pipeline[node].fatal
       /\ Advances /\ warned' = TRUE /\ UNCHANGED <<failing, inSandbox, loopRound>>
    \/ /\ o = "success"
       /\ Advances /\ UNCHANGED <<failing, warned, loopRound>>
       /\ inSandbox' = (inSandbox \/ (pipeline[node].action = "setup" /\ handle'))

NodeEnds(o) ==
    /\ engine = "handler" /\ pipeline[node].action \in {"work", "browser"}
    /\ Proceeds(o)
    /\ UNCHANGED <<pipeline, skipIds, gotos, jumps, sandbox, aborted, lateNodes>>

\* The nested walk's goto counter starts at zero.
SetupEnds ==
    /\ engine = "handler" /\ pipeline[node].action = "setup"
    /\ \/ CreateSandbox(TRUE) /\ Proceeds("success")
       \/ CreateSandbox(FALSE) /\ Proceeds("failure")
    /\ gotos' = IF inSandbox' = inSandbox THEN gotos ELSE 0
    /\ UNCHANGED <<pipeline, skipIds, jumps, aborted, lateNodes>>

\* (Mutants: a failed node may jump, too; one jump too many; jumps back are free.)
JumpsAnyhow(target, o) ==
    /\ node' = target /\ engine' = "next" /\ gotos < MaxGotos
    /\ gotos' = gotos + 1 /\ jumps' = jumps + 1
    /\ failing' = (failing \/ o = "failure")
    /\ UNCHANGED <<outcome, warned, inSandbox, loopRound>>

JumpsOnceMore(target, o) ==
    /\ o # "failure" /\ gotos <= MaxGotos
    /\ node' = target /\ engine' = "next"
    /\ gotos' = gotos + 1 /\ jumps' = jumps + 1
    /\ UNCHANGED <<outcome, failing, warned, inSandbox, loopRound>>

JumpsUncounted(target, o) ==
    /\ o # "failure" /\ gotos < MaxGotos
    /\ node' = target /\ engine' = "next"
    /\ IF target > node THEN gotos' = gotos + 1 /\ jumps' = jumps + 1
                        ELSE UNCHANGED <<gotos, jumps>>
    /\ UNCHANGED <<outcome, failing, warned, inSandbox, loopRound>>

\* `_goto`: the step is recorded and the walk goes on at the target.
Jumps(target, o) ==
    /\ o # "failure" /\ gotos < MaxGotos
    /\ node' = target /\ engine' = "next"
    /\ gotos' = gotos + 1 /\ jumps' = jumps + 1
    /\ UNCHANGED <<outcome, failing, warned, inSandbox, loopRound>>

\* A jump beyond the limit, or to an unknown node, is ignored.
DecisionEnds(o) ==
    /\ engine = "handler" /\ pipeline[node].action = "decide"
    /\ \E s \in SUBSET NodeIds : skipIds' = skipIds \cup s
    /\ \/ \E target \in NodeIds : Jumps(target, o)
       \/ Proceeds(o) /\ UNCHANGED <<gotos, jumps>>
    /\ UNCHANGED <<pipeline, sandbox, aborted, lateNodes>>

-----------------------------------------------------------------------------
(* handleLoopFailure                                                       *)

Recovers(withWarning) ==
    /\ Advances
    /\ failing' = FALSE /\ warned' = (warned \/ withWarning) /\ loopRound' = 0

GivesUp ==
    IF pipeline[node].warn
    THEN Recovers(TRUE)
    ELSE Returns("failure") /\ UNCHANGED <<node, failing, warned>>

\* (Mutant: a round whose fix failed is not counted.)
LoopRoundFree ==
    /\ engine = "loop" /\ loopRound < MaxRounds
    /\ engine' = "fixing" /\ Late
    /\ loopRound' \in {loopRound, loopRound + 1}
    /\ UNCHANGED <<pipeline, node, skipIds, inSandbox, gotos, jumps, results, sandbox, aborted>>

\* The fix agent is started; the abort signal is not looked at.
LoopRound ==
    /\ engine = "loop" /\ loopRound < MaxRounds
    /\ engine' = "fixing" /\ Late
    /\ loopRound' = loopRound + 1
    /\ UNCHANGED <<pipeline, node, skipIds, inSandbox, gotos, jumps, results, sandbox, aborted>>

FixFailed ==
    /\ engine = "fixing"
    /\ engine' = "loop"
    /\ UNCHANGED <<walk, results, sandbox, aborted, lateNodes>>

\* The fix succeeded: the node itself is tried again.
Retries ==
    /\ engine = "fixing"
    /\ engine' = "retrying" /\ Late
    /\ UNCHANGED <<walk, results, sandbox, aborted>>

\* The lint command between them is the only handler whose exception is not caught.
LintThrows ==
    /\ engine = "fixing"
    /\ Returns("failure")
    /\ UNCHANGED <<pipeline, node, skipIds, inSandbox, gotos, jumps, failing, warned,
                   sandbox, aborted, lateNodes>>

RetrySucceeds ==
    /\ engine = "retrying"
    /\ Recovers(FALSE)
    /\ UNCHANGED <<pipeline, skipIds, inSandbox, gotos, jumps, sandbox, aborted, lateNodes>>

RetryFails ==
    /\ engine = "retrying"
    /\ engine' = "loop"
    /\ UNCHANGED <<walk, results, sandbox, aborted, lateNodes>>

\* All rounds are used, or code cannot fix what browser_verify found.
LoopEnds ==
    /\ engine = "loop"
    /\ loopRound = MaxRounds \/ (loopRound = 0 /\ pipeline[node].action = "browser")
    /\ GivesUp
    /\ UNCHANGED <<pipeline, skipIds, inSandbox, gotos, jumps, sandbox, aborted, lateNodes>>

-----------------------------------------------------------------------------
HandlerEnds ==
    \/ SetupEnds
    \/ \E o \in {"success", "soft_fail", "failure"} : NodeEnds(o) \/ DecisionEnds(o)

EngineSteps ==
    \/ Finish \/ SeesAbort \/ Skips \/ Chooses \/ StartsHandler \/ HandlerEnds
    \/ LoopRound \/ FixFailed \/ Retries \/ LintThrows \/ RetrySucceeds \/ RetryFails
    \/ LoopEnds \/ CleanUp

EngineNext == Begin \/ Abort \/ EngineSteps

EngineSpec == EngineInit /\ [][EngineNext]_engineVars

\* Every handler ends: agents and commands have time-outs.
EngineFairness == WF_engineVars(EngineSteps)

EngineLiveSpec == EngineSpec /\ EngineFairness

-----------------------------------------------------------------------------
\* However the decisions jump, the walk makes at most MaxGotos jumps before and
\* MaxGotos inside the sandbox (pipeline-engine.ts, maxGotos).
JumpsBounded == jumps <= 2 * MaxGotos

\* After a cancel, no more is started than the node that was chosen just before
\* and the rounds of one failure loop, which do not look at the signal.
LateBound == lateNodes <= 1 + 2 * MaxRounds

\* A run reported as successful has no failed node that nothing made up for, even
\* when a failed node asked for a jump ("never let a failed node bypass failure
\* handling", pipeline-engine.ts).
FailureReported ==
    outcome \in {"success", "completed_with_warnings"} => ~failing

\* An ended execution leaves its container behind only when docker failed after
\* the call had taken effect (pipeline-engine.ts, container-manager.ts).
NoStrayContainer == engine = "done" /\ container => dockerFaults > 0

\* Whatever the handlers answer, the execution ends.
EngineEnds == engine # "idle" ~> engine = "done"
=============================================================================
