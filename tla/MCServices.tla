----------------------------- MODULE MCServices -----------------------------
(***************************************************************************)
(* Instances of the services that surround a run: the pool of database     *)
(* slots, the supervisor, the observer, the poller of failed workflows,    *)
(* the CI loop, the pipeline engine, the rewriting of a branch and the     *)
(* review of a discovery item.  They share no state, so a behaviour here   *)
(* is one of a single part, and the others keep still.                     *)
(***************************************************************************)
EXTENDS RunnerSlots, Supervisor, Observer, FailurePoller, CiLoop, PipelineEngine,
        BranchRewrite, Discovery

CONSTANTS s1, q1, q2, q3, k1, k2, b1, b2, a1, a2

VARIABLE part

Parts == {"slots", "supervisor", "observer", "poller", "ci", "engine",
          "branch", "discovery"}

Plain == [action |-> "work", loop |-> FALSE, warn |-> FALSE, fatal |-> FALSE,
          optional |-> FALSE]
Decision == [Plain EXCEPT !.action = "decide"]

\* A pipeline with a setup_sandbox node and one without.
MCPipelines ==
    {<<Decision, [Plain EXCEPT !.action = "setup", !.optional = TRUE],
       [Plain EXCEPT !.action = "browser", !.loop = TRUE, !.warn = TRUE], Decision>>,
     <<[Plain EXCEPT !.loop = TRUE], Decision, [Plain EXCEPT !.fatal = TRUE]>>}

Init ==
    /\ part \in Parts
    /\ SlotInit /\ SupervisorInit /\ ObserverInit /\ PollerInit /\ CiInit /\ EngineInit
    /\ BranchInit /\ DiscoveryInit
    /\ part # "engine" => Len(pipeline) = 3
    /\ part # "branch" => job = [pipeline |-> "branch-sync", reviewed |-> TRUE]

SlotStep ==
    /\ part = "slots" /\ SlotNext
    /\ UNCHANGED <<part, supVars, observerVars, pollerVars, ciVars, engineVars,
                   rewriteVars, discoveryVars>>

SupervisorStep ==
    /\ part = "supervisor" /\ SupervisorNext
    /\ UNCHANGED <<part, slotVars, observerVars, pollerVars, ciVars, engineVars,
                   rewriteVars, discoveryVars>>

ObserverStep ==
    /\ part = "observer" /\ ObserverNext
    /\ UNCHANGED <<part, slotVars, supVars, pollerVars, ciVars, engineVars,
                   rewriteVars, discoveryVars>>

PollerStep ==
    /\ part = "poller" /\ PollerNext
    /\ UNCHANGED <<part, slotVars, supVars, observerVars, ciVars, engineVars,
                   rewriteVars, discoveryVars>>

CiStep ==
    /\ part = "ci" /\ CiNext
    /\ UNCHANGED <<part, slotVars, supVars, observerVars, pollerVars, engineVars,
                   rewriteVars, discoveryVars>>

EngineStep ==
    /\ part = "engine" /\ EngineNext
    /\ UNCHANGED <<part, slotVars, supVars, observerVars, pollerVars, ciVars,
                   rewriteVars, discoveryVars>>

BranchStep ==
    /\ part = "branch" /\ BranchNext
    /\ UNCHANGED <<part, slotVars, supVars, observerVars, pollerVars, ciVars,
                   engineVars, discoveryVars>>

DiscoveryStep ==
    /\ part = "discovery" /\ DiscoveryNext
    /\ UNCHANGED <<part, slotVars, supVars, observerVars, pollerVars, ciVars,
                   engineVars, rewriteVars>>

Next ==
    SlotStep \/ SupervisorStep \/ ObserverStep \/ PollerStep \/ CiStep \/ EngineStep
      \/ BranchStep \/ DiscoveryStep

vars == <<part, slotVars, supVars, observerVars, pollerVars, ciVars, engineVars,
          rewriteVars, discoveryVars>>

\* What is fair in a part is disabled in its initial states.
Spec == Init /\ [][Next]_vars /\ SlotFairness /\ CiFairness /\ EngineFairness

\* Every part keeps its types.
ServicesTypeOK ==
    /\ SlotsTypeOK /\ SupervisorTypeOK /\ ObserverTypeOK /\ PollerTypeOK
    /\ CiTypeOK /\ EngineTypeOK /\ BranchTypeOK /\ DiscoveryTypeOK
=============================================================================
