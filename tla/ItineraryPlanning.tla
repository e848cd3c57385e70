-------------------------- MODULE ItineraryPlanning --------------------------
(***************************************************************************)
(* The Itinerary Planning agent: ItineraryPlanningAgentExecutor on the     *)
(* runtime of one task.  One call of execute() takes the task from         *)
(* SUBMITTED to a terminal state; it never asks, so a request with details *)
(* missing is completed with an explanation.                               *)
(***************************************************************************)
EXTENDS A2ARuntime

vars == runtimeVars

\* parse_itinerary_request: what the model may return.
ItineraryRequest == [destination : BOOLEAN, num_days : BOOLEAN, missing_info : BOOLEAN]

\* The model's own questions, or the backstop's.
Missing(parsed) == parsed.missing_info \/ ~parsed.destination \/ ~parsed.num_days

\* The artifact, without its text: a reply of the model without content (None)
\* is published like any other, as an artifact whose only part is blank.
Itinerary == [id |-> "itinerary"]

-----------------------------------------------------------------------------
Init == RuntimeInit

Step(from, event, next) ==
  /\ pc = from
  /\ Enqueue(event)
  /\ pc' = next
  /\ UNCHANGED <<sent, served, cancelled, task>>

Send(m) == SendMessage(m)

Store == Consume

\* execute(): the task is announced with every call, not only with the first.
Execute ==
  /\ CanServe
  /\ served' = served + 1
  /\ Enqueue(TaskEvent)
  /\ pc' = "begin"
  /\ UNCHANGED <<sent, cancelled, task>>

\* Mutant: start_work() is left out.
StartSilently ==
  /\ pc = "begin"
  /\ pc' = "parse"
  /\ UNCHANGED <<sent, served, events, cancelled, task>>

StartWork == Step("begin", StatusEvent("WORKING", "none"), "parse")

FailRequest == Step("parse", StatusEvent("FAILED", "error"), "idle")

\* Mutant: the return after complete(message=...) is left out.
ReportMissingAndPlan ==
  /\ \E parsed \in ItineraryRequest : Missing(parsed)
  /\ Step("parse", StatusEvent("COMPLETED", "missing"), "draft")

ReportMissing ==
  /\ \E parsed \in ItineraryRequest : Missing(parsed)
  /\ Step("parse", StatusEvent("COMPLETED", "missing"), "idle")

\* The planning delay: nothing is announced.
StartPlanning ==
  /\ \E parsed \in ItineraryRequest : ~Missing(parsed)
  /\ pc = "parse"
  /\ pc' = "draft"
  /\ UNCHANGED <<sent, served, events, cancelled, task>>

\* Mutant: the exception is swallowed and nothing is reported.
DraftGivesUp ==
  /\ pc = "draft"
  /\ pc' = "idle"
  /\ UNCHANGED <<sent, served, events, cancelled, task>>

\* draft_itinerary is not guarded: what it raises leaves execute(), and the
\* runtime fails the task without a text.
DraftRaises == Step("draft", StatusEvent("FAILED", "none"), "idle")

\* Mutant: the task is completed before its artifact is added.
CompleteFirst == Step("draft", StatusEvent("COMPLETED", "none"), "complete")

PublishItinerary == Step("draft", ArtifactEvent(Itinerary), "complete")

Complete == Step("complete", StatusEvent("COMPLETED", "none"), "idle")

Cancel == AcceptCancel /\ Enqueue(StatusEvent("CANCELED", "none"))

ExecutorStep ==
  \/ Execute
  \/ StartWork
  \/ FailRequest
  \/ ReportMissing
  \/ StartPlanning
  \/ DraftRaises
  \/ PublishItinerary
  \/ Complete
=============================================================================
