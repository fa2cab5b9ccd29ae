----------------------------- MODULE Discovery -----------------------------
(***************************************************************************)
(* The review rounds of a product_discovery item: the service's calls, as  *)
(* Slack buttons and the dashboard make them, each a sequence of           *)
(* statements of its own on work_items and review_requests.  Only          *)
(* updateState locks the row; it checks the transition against the state   *)
(* it finds, and what it writes was decided on rows read before.           *)
(*                                                                         *)
(* Who may call is left out: it only lets a call fail.  Every outcome but  *)
(* changes_requested counts as an approval, as in the round's evaluation.  *)
(***************************************************************************)
EXTENDS Naturals, Sequences, FiniteSets

CONSTANTS
    Calls,           \* bound: calls under way at a time
    MaxRows,         \* bound: review requests
    MaxAsked         \* bound: review requests of one round

ASSUME DiscoveryAssumption == IsFiniteSet(Calls) /\ MaxRows \in Nat /\ MaxAsked \in Nat \ {0}

VARIABLES
    item,            \* the state in the item's row
    rows,            \* review_requests in the order of their creation
    call,            \* what a call has read and decided so far
    deliveries,      \* feature_delivery items created from this one
    calm,            \* no overlap, no lost call, no override into a review state so far
    late             \* an answer was given to a request of an earlier round

discoveryVars == <<item, rows, call, deliveries, calm, late>>

ItemStates == {"backlog", "in_progress", "waiting_for_review",
               "waiting_for_pm_confirmation", "done", "cancelled"}

\* ALLOWED_STATE_TRANSITIONS.product_discovery; staying is allowed.
Successors == [s \in ItemStates |->
    CASE s = "backlog" -> {"in_progress", "cancelled"}
      [] s = "in_progress" -> {"waiting_for_review", "cancelled"}
      [] s = "waiting_for_review" -> {"in_progress", "waiting_for_pm_confirmation", "cancelled"}
      [] s = "waiting_for_pm_confirmation" -> {"in_progress", "done", "cancelled"}
      [] OTHER -> {}]

TransitionAllowed(from, to) == to = from \/ to \in Successors[from]

NoCall == [pc |-> "idle", row |-> 0, round |-> 0, next |-> "backlog", left |-> {}]

\* Rows are created with the numbers 1, 2, ...; a round's rows are alike.
Latest == IF rows = <<>> THEN 0
          ELSE CHOOSE n \in {rows[i].round : i \in DOMAIN rows} :
                 \A i \in DOMAIN rows : rows[i].round <= n

DiscoveryTypeOK ==
    /\ item \in ItemStates
    /\ DOMAIN rows = 1 .. Len(rows) /\ Len(rows) <= MaxRows
    /\ \A i \in DOMAIN rows :
         /\ rows[i].round \in 1 .. MaxRows
         /\ rows[i].status \in {"pending", "approved", "changes_requested", "superseded"}
    /\ call \in [Calls -> [pc : {"idle", "list", "insert", "complete", "judge", "supersede",
                                 "check", "commit", "write"},
                           row : 0 .. MaxRows, round : 0 .. MaxRows, next : ItemStates,
                           left : SUBSET (1 .. MaxRows)]]
    /\ deliveries \in Nat /\ calm \in BOOLEAN /\ late \in BOOLEAN

DiscoveryInit ==
    /\ item = "backlog" /\ rows = <<>> /\ deliveries = 0
    /\ call = [c \in Calls |-> NoCall]
    /\ calm = TRUE /\ late = FALSE

CallBegins(c, record) ==
    /\ call[c].pc = "idle"
    /\ call' = [call EXCEPT ![c] = record]
    /\ calm' = (calm /\ \A d \in Calls : call[d].pc = "idle")

CallMoves(c, record) == call' = [call EXCEPT ![c] = record] /\ UNCHANGED calm

CallReturns(c) == CallMoves(c, NoCall)

-----------------------------------------------------------------------------
(* requestReview                                                           *)

RequestsReview(c) ==
    /\ item = "in_progress"
    /\ CallBegins(c, [NoCall EXCEPT !.pc = "list"])
    /\ UNCHANGED <<item, rows, deliveries, late>>

\* The next round's number; a request asks at least one reviewer.
ListsRounds(c) ==
    /\ call[c].pc = "list"
    /\ \E asked \in 1 .. MaxAsked :
         /\ Len(rows) + asked <= MaxRows
         /\ CallMoves(c, [call[c] EXCEPT !.pc = "insert", !.round = Latest + 1,
                                      !.left = 1 .. asked])
    /\ UNCHANGED <<item, rows, deliveries, late>>

InsertsRow(c) ==
    /\ call[c].pc = "insert" /\ Len(rows) < MaxRows
    /\ rows' = Append(rows, [round |-> call[c].round, status |-> "pending"])
    /\ \E i \in call[c].left :
         /\ \A j \in call[c].left : i <= j
         /\ CallMoves(c, IF call[c].left = {i}
                         THEN [NoCall EXCEPT !.pc = "write", !.next = "waiting_for_review"]
                         ELSE [call[c] EXCEPT !.left = @ \ {i}])
    /\ UNCHANGED <<item, deliveries, late>>

-----------------------------------------------------------------------------
(* recordReviewOutcome                                                     *)

\* The request's round and status are not looked at.
RecordsOutcome(c, i) ==
    /\ item = "waiting_for_review"
    /\ CallBegins(c, [NoCall EXCEPT !.pc = "complete", !.row = i])
    /\ late' = (late \/ rows[i].round # Latest)
    /\ UNCHANGED <<item, rows, deliveries>>

CompletesRequest(c) ==
    /\ call[c].pc = "complete"
    /\ \E outcome \in {"approved", "changes_requested"} :
         rows' = [rows EXCEPT ![call[c].row].status = outcome]
    /\ CallMoves(c, [call[c] EXCEPT !.pc = "judge"])
    /\ UNCHANGED <<item, deliveries, late>>

SameRound(i) == {j \in DOMAIN rows : rows[j].round = rows[i].round}

\* (Mutant: any completed answer decides the round, as if nobody were pending.)
VerdictOnRoundEager(i) ==
    IF \E j \in SameRound(i) : rows[j].status = "changes_requested"
    THEN "in_progress"
    ELSE IF \E j \in SameRound(i) : rows[j].status = "approved"
    THEN "waiting_for_pm_confirmation"
    ELSE "waiting_for_review"

\* evaluateDiscoveryReviewRound
VerdictOnRound(i) ==
    IF \E j \in SameRound(i) : rows[j].status = "changes_requested"
    THEN "in_progress"
    ELSE IF \E j \in SameRound(i) : rows[j].status = "pending"
    THEN "waiting_for_review"
    ELSE "waiting_for_pm_confirmation"

\* (Mutant: a changes request leaves the state to the pending reviewers.)
JudgesRoundWaiting(c) ==
    /\ call[c].pc = "judge"
    /\ LET verdict == VerdictOnRound(call[c].row)
           pending == {j \in SameRound(call[c].row) : rows[j].status = "pending"} IN
       CallMoves(c, [call[c] EXCEPT !.next = IF pending # {} THEN "waiting_for_review"
                                             ELSE verdict,
                                    !.left = IF verdict = "in_progress" THEN pending ELSE {},
                                    !.pc = IF verdict = "in_progress" /\ pending # {}
                                           THEN "supersede" ELSE "write"])
    /\ UNCHANGED <<item, rows, deliveries, late>>

JudgesRound(c) ==
    /\ call[c].pc = "judge"
    /\ LET verdict == VerdictOnRound(call[c].row)
           pending == {j \in SameRound(call[c].row) : rows[j].status = "pending"} IN
       CallMoves(c, [call[c] EXCEPT !.next = verdict,
                                    !.left = IF verdict = "in_progress" THEN pending ELSE {},
                                    !.pc = IF verdict = "in_progress" /\ pending # {}
                                           THEN "supersede" ELSE "write"])
    /\ UNCHANGED <<item, rows, deliveries, late>>

SupersedesRequest(c) ==
    /\ call[c].pc = "supersede"
    /\ \E i \in call[c].left :
         /\ rows' = [rows EXCEPT ![i].status = "superseded"]
         /\ CallMoves(c, [call[c] EXCEPT !.left = @ \ {i},
                                         !.pc = IF call[c].left = {i} THEN "write" ELSE @])
    /\ UNCHANGED <<item, deliveries, late>>

-----------------------------------------------------------------------------
(* confirmDiscovery, guardedOverrideState                                  *)

Rejects(c) ==
    /\ item = "waiting_for_pm_confirmation"
    /\ CallBegins(c, [NoCall EXCEPT !.pc = "write", !.next = "in_progress"])
    /\ UNCHANGED <<item, rows, deliveries, late>>

Approves(c) ==
    /\ item = "waiting_for_pm_confirmation"
    /\ CallBegins(c, [NoCall EXCEPT !.pc = "check"])
    /\ UNCHANGED <<item, rows, deliveries, late>>

\* The transaction's reads, which lock nothing.
ChecksDelivery(c) ==
    /\ call[c].pc = "check"
    /\ IF item = "waiting_for_pm_confirmation" /\ deliveries = 0
       THEN CallMoves(c, [NoCall EXCEPT !.pc = "commit"])
       ELSE CallReturns(c)
    /\ UNCHANGED <<item, rows, deliveries, late>>

\* Its insert and updateState commit together, or not at all.
CommitsDelivery(c) ==
    /\ call[c].pc = "commit"
    /\ IF TransitionAllowed(item, "done")
       THEN item' = "done" /\ deliveries' = deliveries + 1
       ELSE UNCHANGED <<item, deliveries>>
    /\ CallReturns(c)
    /\ UNCHANGED <<rows, late>>

\* No run of a discovery item is ever processing.
Overrides(c, state) ==
    /\ call[c].pc = "idle" /\ TransitionAllowed(item, state)
    /\ call' = [call EXCEPT ![c] = [NoCall EXCEPT !.pc = "write", !.next = state]]
    /\ calm' = /\ calm /\ \A d \in Calls : call[d].pc = "idle"
               /\ state \notin {"waiting_for_review", "waiting_for_pm_confirmation"}
    /\ UNCHANGED <<item, rows, deliveries, late>>

-----------------------------------------------------------------------------
\* (Mutant: the transition was checked when the call began.)
WritesStateUnchecked(c) ==
    /\ call[c].pc = "write"
    /\ item' = call[c].next
    /\ CallReturns(c)
    /\ UNCHANGED <<rows, deliveries, late>>

\* updateState: it throws on a transition that the table does not list.
WritesState(c) ==
    /\ call[c].pc = "write"
    /\ item' = IF TransitionAllowed(item, call[c].next) THEN call[c].next ELSE item
    /\ CallReturns(c)
    /\ UNCHANGED <<rows, deliveries, late>>

\* A statement fails, or the server dies: what was written before stays.
CallFails(c) ==
    /\ call[c].pc # "idle"
    /\ call' = [call EXCEPT ![c] = NoCall]
    /\ calm' = FALSE
    /\ UNCHANGED <<item, rows, deliveries, late>>

DiscoveryNext ==
    \E c \in Calls :
      \/ RequestsReview(c) \/ ListsRounds(c) \/ InsertsRow(c)
      \/ \E i \in DOMAIN rows : RecordsOutcome(c, i)
      \/ CompletesRequest(c) \/ JudgesRound(c) \/ SupersedesRequest(c)
      \/ Rejects(c) \/ Approves(c) \/ ChecksDelivery(c) \/ CommitsDelivery(c)
      \/ \E state \in ItemStates : Overrides(c, state)
      \/ WritesState(c) \/ CallFails(c)

DiscoverySpec == DiscoveryInit /\ [][DiscoveryNext]_discoveryVars

-----------------------------------------------------------------------------
(* Properties                                                              *)

\* While calls came one after the other, an item that waits for review waits
\* for somebody: a request of its latest round is pending.
WaitsForSomebody ==
    calm /\ item = "waiting_for_review" /\ (\A c \in Calls : call[c].pc = "idle")
      => \E i \in DOMAIN rows : rows[i].round = Latest /\ rows[i].status = "pending"

\* Whatever calls overlap: an item with a delivery stays done, against verdicts,
\* rejections and overrides that were decided before; and there are at most as
\* many deliveries as confirmations that were under way together.
DeliveryIsFinal ==
    /\ deliveries > 0 => item = "done"
    /\ deliveries <= Cardinality(Calls)

\* "all required requests in the current review round are completed without
\* changes_requested" (work-items-design.md:313): so far as calls came one
\* after the other and nobody answered a request of an earlier round.
CurrentRoundReviewed ==
    [][item # "waiting_for_pm_confirmation" /\ item' = "waiting_for_pm_confirmation"
         /\ calm /\ ~late
       => \A i \in DOMAIN rows :
            rows[i].round = Latest => rows[i].status = "approved"]_discoveryVars
=============================================================================
