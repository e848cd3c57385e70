------------------------ MODULE RestaurantReservation ------------------------
(***************************************************************************)
(* The Restaurant Reservation agent: RestaurantReservationAgentExecutor on *)
(* the runtime of one task.  Every call parses the whole conversation and  *)
(* either asks for what is still missing or confirms and completes.  Only  *)
(* a later turn says that it is working: the first one goes from SUBMITTED *)
(* straight to its question or its confirmation.                           *)
(***************************************************************************)
EXTENDS A2ARuntime

VARIABLE conversation   \* conversation_so_far of the running call

vars == <<sent, served, pc, events, cancelled, task, conversation>>

\* parse_reservation_request: which fields the model fills.
ReservationRequest == [restaurant : BOOLEAN, date : BOOLEAN, time : BOOLEAN,
                       party_size : BOOLEAN, missing_info : BOOLEAN]

\* The model's own questions, or the backstop's.
Missing(parsed) ==
  \/ parsed.missing_info
  \/ ~(parsed.restaurant /\ parsed.date /\ parsed.time /\ parsed.party_size)

\* A confirmation, with the messages it was drawn from.
Confirmation(messages) == [id |-> "reservation-confirmation", from |-> messages]

-----------------------------------------------------------------------------
Init == RuntimeInit /\ conversation = <<>>

Step(from, event, next) ==
  /\ pc = from
  /\ Enqueue(event)
  /\ pc' = next
  /\ UNCHANGED <<sent, served, cancelled, task, conversation>>

Send(m) == SendMessage(m) /\ UNCHANGED conversation

Store == Consume /\ UNCHANGED conversation

\* Mutant: the latest message is not appended to the history.
ExecuteOnHistory ==
  /\ CanServe
  /\ served' = served + 1
  /\ conversation' = task.history
  /\ IF Exists THEN pc' = "begin" /\ UNCHANGED events
               ELSE pc' = "parse" /\ Enqueue(TaskEvent)
  /\ UNCHANGED <<sent, cancelled, task>>

\* execute(): the first turn announces the task, a later one that it works.
Execute ==
  /\ CanServe
  /\ served' = served + 1
  /\ conversation' = Append(task.history, sent[served'].text)
  /\ IF Exists THEN pc' = "begin" /\ UNCHANGED events
               ELSE pc' = "parse" /\ Enqueue(TaskEvent)
  /\ UNCHANGED <<sent, cancelled, task>>

\* Mutant: a later turn does not say that it is working.
ResumeSilently ==
  /\ pc = "begin"
  /\ pc' = "parse"
  /\ UNCHANGED <<sent, served, events, cancelled, task, conversation>>

ResumeWork == Step("begin", StatusEvent("WORKING", "none"), "parse")

FailParse == Step("parse", StatusEvent("FAILED", "error"), "idle")

\* Mutant: the turn ends without a question.
AskNothing ==
  /\ pc = "parse"
  /\ pc' = "idle"
  /\ UNCHANGED <<sent, served, events, cancelled, task, conversation>>

AskForMissing ==
  /\ \E parsed \in ReservationRequest : Missing(parsed)
  /\ Step("parse", StatusEvent("INPUT_REQUIRED", "missing"), "idle")

PublishConfirmation ==
  /\ \E parsed \in ReservationRequest : ~Missing(parsed)
  /\ Step("parse", ArtifactEvent(Confirmation(conversation)), "complete")

Complete == Step("complete", StatusEvent("COMPLETED", "none"), "idle")

Cancel ==
  /\ AcceptCancel
  /\ Enqueue(StatusEvent("CANCELED", "none"))
  /\ UNCHANGED conversation

ExecutorStep ==
  \/ Execute
  \/ ResumeWork
  \/ FailParse
  \/ AskForMissing
  \/ PublishConfirmation
  \/ Complete
=============================================================================
