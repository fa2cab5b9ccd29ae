---------------------------- MODULE RunContract -----------------------------
(***************************************************************************)
(* What the run manager promises about the status of a run, without        *)
(* queues, workers or callbacks: a run is executed by at most one attempt  *)
(* at a time, only its attempt moves it forward, the attempt writes one    *)
(* verdict and is then over, and only a request that was answered by a     *)
(* cancelling attempt ends as "cancelled".  A restart drops the attempts   *)
(* and puts every interrupted run back in the queue.                       *)
(***************************************************************************)
CONSTANT Runs

VARIABLES status, attempts

Active   == {"running", "validating", "pushing"}
Finished == {"completed", "failed", "cancelled"}

Init ==
    /\ status = [r \in Runs |-> "absent"]
    /\ attempts = {}

Open(r) ==
    /\ status[r] = "absent"
    /\ \E s \in {"queued", "conversation"} : status' = [status EXCEPT ![r] = s]
    /\ UNCHANGED attempts

Promote(r) ==
    /\ status[r] = "conversation"
    /\ status' = [status EXCEPT ![r] = "queued"]
    /\ UNCHANGED attempts

Begin(r) ==
    /\ status[r] = "queued" /\ r \notin attempts
    /\ status' = [status EXCEPT ![r] = "running"]
    /\ attempts' = attempts \cup {r}

\* A progress report may cover up a request for cancellation.
Progress(r) ==
    /\ r \in attempts /\ status[r] \in Active \cup {"cancel_requested"}
    /\ \E s \in Active : status' = [status EXCEPT ![r] = s]
    /\ UNCHANGED attempts

\* A request may also arrive when the attempt is already over.
RequestCancel(r) ==
    /\ status[r] \in Active \cup Finished
    /\ status' = [status EXCEPT ![r] = "cancel_requested"]
    /\ UNCHANGED attempts

Finish(r) ==
    /\ r \in attempts /\ status[r] \in Active \cup {"cancel_requested"}
    /\ \E s \in Finished :
          /\ s = "cancelled" => status[r] = "cancel_requested"
          /\ status' = [status EXCEPT ![r] = s]
    /\ attempts' = attempts \ {r}

Stop == attempts' = {} /\ UNCHANGED status

Recover ==
    /\ attempts = {}
    /\ status' = [r \in Runs |-> IF status[r] \in Active THEN "queued" ELSE status[r]]
    /\ UNCHANGED attempts

Next ==
    \/ \E r \in Runs : \/ Open(r) \/ Promote(r) \/ Begin(r) \/ Progress(r)
                       \/ RequestCancel(r) \/ Finish(r)
    \/ Stop \/ Recover

Spec == Init /\ [][Next]_<<status, attempts>>
=============================================================================
