-------------------------- MODULE VisaRequirements --------------------------
(***************************************************************************)
(* The Visa Requirements agent: VisaRequirementsAgentExecutor on the       *)
(* runtime of one task, and the push sender its server adds.  The consumer *)
(* stores an event, posts it to the registered webhook and takes the next  *)
(* one when the post has been answered or has failed; a failed post is     *)
(* logged and never repeated.                                              *)
(***************************************************************************)
EXTENDS A2ARuntime

VARIABLE posting   \* the event being posted to the webhook, or Nothing

vars == <<runtimeVars, posting>>

Nothing == [kind |-> "nothing"]

\* parse_visa_query: which fields the model fills, and whether it asks.
VisaQuery == [nationality : BOOLEAN, destination : BOOLEAN, missing_info : BOOLEAN]

\* The model's own questions, or the backstop's.
Missing(parsed) ==
  parsed.missing_info \/ ~parsed.nationality \/ ~parsed.destination

Requirements == [id |-> "visa-requirements"]

-----------------------------------------------------------------------------
Init == RuntimeInit /\ posting = Nothing

Step(from, event, next) ==
  /\ pc = from
  /\ Enqueue(event)
  /\ pc' = next
  /\ UNCHANGED <<sent, served, cancelled, task, posting>>

Send(m) == SendMessage(m) /\ UNCHANGED posting

Store ==
  /\ posting = Nothing
  /\ Consume
  /\ posting' = Head(events)

Execute ==
  /\ CanServe
  /\ served' = served + 1
  /\ Enqueue(TaskEvent)
  /\ pc' = "begin"
  /\ UNCHANGED <<sent, cancelled, task, posting>>

\* Mutant: start_work() is left out.
StartSilently ==
  /\ pc = "begin"
  /\ pc' = "parse"
  /\ UNCHANGED <<sent, served, events, cancelled, task, posting>>

StartWork == Step("begin", StatusEvent("WORKING", "none"), "parse")

FailRequest == Step("parse", StatusEvent("FAILED", "error"), "idle")

ReportMissing ==
  /\ \E parsed \in VisaQuery : Missing(parsed)
  /\ Step("parse", StatusEvent("COMPLETED", "missing"), "idle")

\* Announced, and then the review delay.
AnnounceCheck ==
  /\ \E parsed \in VisaQuery : ~Missing(parsed)
  /\ Step("parse", StatusEvent("WORKING", "checking"), "draft")

FailDraft == Step("draft", StatusEvent("FAILED", "error"), "idle")

\* A reply of the model without content cannot be joined to the disclaimer:
\* outside of the try, so that the runtime fails the task without a text.
DraftIsEmpty == Step("draft", StatusEvent("FAILED", "none"), "idle")

PublishRequirements == Step("draft", ArtifactEvent(Requirements), "complete")

Complete == Step("complete", StatusEvent("COMPLETED", "none"), "idle")

Cancel ==
  /\ AcceptCancel
  /\ Enqueue(StatusEvent("CANCELED", "none"))
  /\ UNCHANGED posting

ExecutorStep ==
  \/ Execute
  \/ StartWork
  \/ FailRequest
  \/ ReportMissing
  \/ AnnounceCheck
  \/ FailDraft
  \/ DraftIsEmpty
  \/ PublishRequirements
  \/ Complete
=============================================================================
