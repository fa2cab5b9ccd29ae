----------------------------- MODULE RunVerdict -----------------------------
(***************************************************************************)
(* What a Kubernetes run promises to the one who reads its row: the        *)
(* runner's completion is decided at most once, and the row says           *)
(* "completed" only for a run whose completion is a recorded success.      *)
(* Everything else about the row is left open: its other statuses may      *)
(* follow each other in any order.                                         *)
(***************************************************************************)
CONSTANTS Rows, NoDecision

VARIABLES
    row,       \* the status column
    decision   \* the completion recorded for the run

vars == <<row, decision>>

Init ==
    /\ row \in Rows \ {"completed"}
    /\ decision = NoDecision

Decide ==
    /\ decision = NoDecision
    /\ decision' \in {"success", "failed"}
    /\ UNCHANGED row

Progress ==
    /\ row' \in Rows \ {"completed"}
    /\ UNCHANGED decision

Complete ==
    /\ decision = "success"
    /\ row' = "completed"
    /\ UNCHANGED decision

Next == Decide \/ Progress \/ Complete

Spec == Init /\ [][Next]_vars
=============================================================================
