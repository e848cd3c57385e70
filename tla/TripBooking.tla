----------------------------- MODULE TripBooking -----------------------------
(***************************************************************************)
(* The Trip Booking agent: TripBookingAgentExecutor on the runtime of one  *)
(* task.  execute() searches for flights and pauses to ask which one to    *)
(* book; the call that answers the pause books a hotel and completes.  Two *)
(* awaits of execute() are two steps, because everything else may run in   *)
(* between: the consumer, other clients' messages, a cancel.               *)
(***************************************************************************)
EXTENDS A2ARuntime, Integers, FiniteSets

CONSTANTS
  Destinations,   \* the places the parser may find in a conversation
  NoDestination,  \* null: the conversation names none
  Choices         \* the integers the model may return for "option 1 or 2"

ASSUME TripAssumption ==
  /\ NoDestination \notin Destinations
  /\ Choices \subseteq Int

VARIABLES
  conversation,   \* conversation_so_far of the running call
  destination,    \* parsed.destination of the running call
  chosen          \* chosen_number of the running call

vars == <<sent, served, pc, events, cancelled, task,
          conversation, destination, chosen>>

-----------------------------------------------------------------------------
\* parse_trip_details: which fields the model fills, and whether it lists
\* questions of its own.  A budget of 0 is as good as none.
TripDetails == [destination : Destinations \union {NoDestination},
                budget_usd : BOOLEAN,
                missing_info : BOOLEAN]

\* The agent must ask again: the model did, or the backstop does.
Missing(parsed) ==
  \/ parsed.missing_info
  \/ parsed.destination = NoDestination
  \/ ~parsed.budget_usd

FlightOptions(d) == [id |-> "flight-options", destination |-> d]
BookingConfirmation(flight, d) ==
  [id |-> "booking-confirmation", flight |-> flight, destination |-> d]

\* Mutant: the index is taken as it comes.
IndexUnchecked(n) == TRUE

\* options_text.splitlines()[n - 1] on the two lines: Python counts a negative
\* index from the end, and raises IndexError outside -2..1.
IndexInRange(n) == n - 1 \in -2..1
LineAt(n) == IF n - 1 >= 0 THEN n ELSE n + 2

\* Mutants: the stage is read off the existence of the task, or not at all.
TaskExists == Exists
StageForgotten == FALSE

\* current_task carries a flight-options artifact.
HasFlightOptions == \E a \in task.artifacts : a.id = "flight-options"

-----------------------------------------------------------------------------
Init ==
  /\ RuntimeInit
  /\ conversation = <<>>
  /\ destination = NoDestination
  /\ chosen = 0

\* One await of execute() enqueues an event and moves on to step `next`.
Step(from, event, next) ==
  /\ pc = from
  /\ Enqueue(event)
  /\ pc' = next
  /\ UNCHANGED <<sent, served, cancelled, task>>

\* Mutant: the return after updater.failed() is missing.
FailAndGoOn(from) ==
  /\ Step(from, StatusEvent("FAILED", "error"),
          CASE from = "parse" -> "search"
            [] from = "search" -> "ask"
            [] from = "choose" -> "book"
            [] OTHER -> "complete")
  /\ UNCHANGED <<conversation, destination, chosen>>

\* updater.failed(...); return
Fail(from) ==
  /\ Step(from, StatusEvent("FAILED", "error"), "idle")
  /\ UNCHANGED <<conversation, destination, chosen>>

Send(m) == SendMessage(m) /\ UNCHANGED <<conversation, destination, chosen>>

Store == Consume /\ UNCHANGED <<conversation, destination, chosen>>

\* Mutant: only the latest message is given to the model.
ExecuteOnLatest ==
  /\ CanServe
  /\ served' = served + 1
  /\ conversation' = <<sent[served'].text>>
  /\ pc' = IF HasFlightOptions THEN "resume" ELSE "begin"
  /\ IF Exists THEN UNCHANGED events ELSE Enqueue(TaskEvent)
  /\ UNCHANGED <<sent, cancelled, task, destination, chosen>>

\* execute(): the first turn creates the task; the stage is read off the task.
Execute ==
  /\ CanServe
  /\ served' = served + 1
  /\ conversation' = Append(task.history, sent[served'].text)
  /\ pc' = IF HasFlightOptions THEN "resume" ELSE "begin"
  /\ IF Exists THEN UNCHANGED events ELSE Enqueue(TaskEvent)
  /\ UNCHANGED <<sent, cancelled, task, destination, chosen>>

\* Mutant: start_work() is left out.
StartSearchSilently ==
  /\ pc = "begin"
  /\ pc' = "parse"
  /\ UNCHANGED <<sent, served, events, cancelled, task>>
  /\ UNCHANGED <<conversation, destination, chosen>>

\* _search_flights_and_pause
StartSearch ==
  /\ Step("begin", StatusEvent("WORKING", "none"), "parse")
  /\ UNCHANGED <<conversation, destination, chosen>>

\* Mutant: it returns without asking.
ReturnWithoutAsking ==
  /\ pc = "parse"
  /\ pc' = "idle"
  /\ UNCHANGED <<sent, served, events, cancelled, task>>
  /\ UNCHANGED <<conversation, destination, chosen>>

AskForDetails ==
  /\ \E parsed \in TripDetails : Missing(parsed)
  /\ Step("parse", StatusEvent("INPUT_REQUIRED", "missing"), "idle")
  /\ UNCHANGED <<conversation, destination, chosen>>

AnnounceSearch ==
  \E parsed \in TripDetails :
    /\ ~Missing(parsed)
    /\ Step("parse", StatusEvent("WORKING", "searching"), "search")
    /\ destination' = parsed.destination
    /\ UNCHANGED <<conversation, chosen>>

\* Mutant: the question is asked before its artifact is there.
AskBeforePublishing ==
  /\ Step("search", StatusEvent("INPUT_REQUIRED", "choose"), "ask")
  /\ UNCHANGED <<conversation, destination, chosen>>

PublishOptions ==
  /\ Step("search", ArtifactEvent(FlightOptions(destination)), "ask")
  /\ UNCHANGED <<conversation, destination, chosen>>

AskForChoice ==
  /\ Step("ask", StatusEvent("INPUT_REQUIRED", "choose"), "idle")
  /\ UNCHANGED <<conversation, destination, chosen>>

\* _resume_after_flight_choice
StartBooking ==
  /\ Step("resume", StatusEvent("WORKING", "none"), "choose")
  /\ UNCHANGED <<conversation, destination, chosen>>

AnnounceBooking ==
  \E parsed \in TripDetails, n \in Choices :
    /\ Step("choose", StatusEvent("WORKING", "finalizing"), "book")
    /\ destination' = parsed.destination
    /\ chosen' = n
    /\ UNCHANGED conversation

PublishConfirmation ==
  /\ IndexInRange(chosen)
  /\ Step("book",
          ArtifactEvent(BookingConfirmation(LineAt(chosen), destination)),
          "complete")
  /\ UNCHANGED <<conversation, destination, chosen>>

\* The IndexError leaves execute(); the runtime fails the task without a text.
ChoiceOutOfRange ==
  /\ ~IndexInRange(chosen)
  /\ Step("book", StatusEvent("FAILED", "none"), "idle")
  /\ UNCHANGED <<conversation, destination, chosen>>

CompleteBooking ==
  /\ Step("complete", StatusEvent("COMPLETED", "none"), "idle")
  /\ UNCHANGED <<conversation, destination, chosen>>

\* Mutant: cancel() is `pass`, as in the agents that do not support it.
CancelWithoutEvent ==
  /\ AcceptCancel
  /\ UNCHANGED events
  /\ UNCHANGED <<conversation, destination, chosen>>

Cancel ==
  /\ AcceptCancel
  /\ Enqueue(StatusEvent("CANCELED", "none"))
  /\ UNCHANGED <<conversation, destination, chosen>>

\* The steps of execute() itself.
ExecutorStep ==
  \/ Execute
  \/ StartSearch
  \/ AskForDetails
  \/ AnnounceSearch
  \/ PublishOptions
  \/ AskForChoice
  \/ StartBooking
  \/ AnnounceBooking
  \/ PublishConfirmation
  \/ ChoiceOutOfRange
  \/ CompleteBooking
  \/ \E from \in {"parse", "search", "choose", "book"} : Fail(from)

Next ==
  \/ \E m \in Messages : Send(m)
  \/ ExecutorStep
  \/ Store
  \/ Cancel

Spec == Init /\ [][Next]_vars

\* The event loop runs the executor and the consumer whenever they can move;
\* every awaited model call and sleep returns or raises.  Nothing makes a
\* client send or cancel.
FairSpec == Spec /\ WF_vars(ExecutorStep) /\ WF_vars(Store)

-----------------------------------------------------------------------------
Artifacts ==
  [id : {"flight-options"}, destination : Destinations \union {NoDestination}]
    \union [id : {"booking-confirmation"}, flight : 1..2,
            destination : Destinations \union {NoDestination}]

Notes == {"none", "missing", "searching", "choose", "finalizing", "error"}

Events ==
  [kind : {"task"}]
    \union [kind : {"status"}, state : States, note : Notes]
    \union [kind : {"artifact"}, artifact : Artifacts]

TaskRecords == [state : States, note : Notes, history : Seq(Messages),
                artifacts : SUBSET Artifacts]

PCs == {"idle", "begin", "parse", "search", "ask",
        "resume", "choose", "book", "complete"}

\* The type invariant.
TypeOK ==
  /\ sent \in Seq([text : Messages, shown : Notes])
  /\ served \in 0..Len(sent)
  /\ pc \in PCs
  /\ events \in Seq(Events)
  /\ cancelled \in BOOLEAN
  /\ task \in TaskRecords
  /\ conversation \in Seq(Messages)
  /\ destination \in Destinations \union {NoDestination}
  /\ chosen \in Choices \union {0}

\* A completed task carries both artifacts, the options of the first phase and
\* the confirmation of the second (client.py:122-127 picks the second out of
\* the two), however many turns, messages and interrupted calls led there.
BookingComplete ==
  task.state = "COMPLETED" =>
    {"flight-options", "booking-confirmation"} \subseteq {a.id : a \in task.artifacts}

\* Whoever sees the question "1 or 2?" can read the options it is about, and
\* the next call will find them: the pause is recognised by the artifact, so
\* the artifact must reach the store before the question does.
Options == {a \in task.artifacts : a.id = "flight-options"}
QuestionShowsOptions == task.note = "choose" => Options # {}

\* The options a traveller was shown are the ones the choice is applied to: a
\* stored flight-options artifact is never replaced, by a second search or
\* by anything else.
OptionsStable == [][Options # {} => Options' = Options]_vars

\* Every call works on the whole conversation: what the model is given is all
\* messages up to the one being served, once each and in the order sent,
\* although the earlier ones are read from the store and the last is not.
ConversationComplete == pc # "idle" => conversation = Texts(served)

\* execute() says nothing after its outcome: once it has enqueued FAILED or
\* COMPLETED it returns; only the cancel() of another request can follow.
IsOutcome(event) == event.kind = "status" /\ event.state \in {"FAILED", "COMPLETED"}
NothingAfterOutcome ==
  \A i, j \in 1..Len(events) :
    i < j /\ IsOutcome(events[i]) => events[j] = StatusEvent("CANCELED", "none")

\* The agent pauses for the choice at most once: after the options are known
\* no later turn asks for trip details again.
NoQuestionAfterOptions == Options # {} => task.note # "missing"

\* A task that is being worked on comes to a state the client can act on.
Settles == task.state \in {"SUBMITTED", "WORKING"} ~> task.state \in ActionableStates

\* Every accepted message gets its own call of execute(), unless the task ends
\* first.
EveryMessageServed ==
  \A i \in 1..Cardinality(Messages) : Len(sent) >= i ~> served >= i \/ Finished

\* What the task promises to whoever polls it.
Lifecycle == INSTANCE TaskLifecycle WITH
  state <- task.state, note <- task.note, artifacts <- task.artifacts,
  Explanations <- {}, Busy <- {"WORKING"}, Restarts <- FALSE,
  Result <- {BookingConfirmation(n, d) :
               n \in 1..2, d \in Destinations \union {NoDestination}}
RefinesLifecycle == Lifecycle!Spec

\* agent_executor.py:11-13: a call on a task that has flight-options "is
\* answering that pause", so the message it serves was sent to the question.
AnswerAfterQuestion ==
  pc \in {"resume", "choose", "book", "complete"} => sent[served].shown = "choose"

\* options_generator.py:113: the reply is mapped "onto option 1 or 2"; a
\* booking is made for an option the model named.
BookedAsChosen == pc = "complete" => chosen \in 1..2

-----------------------------------------------------------------------------
(***************************************************************************)
(* The inductive invariant.  What the store shows is decided by what is in *)
(* the queue, so each part speaks of the store and of the queue at once.   *)
(***************************************************************************)

\* Artifacts travel ahead of the statuses that speak of them.
OrderInv ==
  /\ Finished => events = <<>>
  /\ pc \in {"resume", "choose", "book", "complete"} => Delivered("flight-options")
  /\ pc = "ask" => Finished \/ Coming("flight-options", Len(events) + 1)
  /\ pc = "complete" => Finished \/ Coming("booking-confirmation", Len(events) + 1)
  /\ \A i \in 1..Len(events) : events[i].kind = "status" =>
       /\ events[i].note = "choose" => Coming("flight-options", i)
       /\ events[i].state = "COMPLETED" =>
            Delivered("flight-options") /\ Coming("booking-confirmation", i)
  /\ QuestionShowsOptions
  /\ BookingComplete

\* At most one flight-options artifact is ever on its way, and only to a task
\* that has none.
OptionsInv ==
  /\ pc \in {"begin", "parse", "search"} =>
       /\ ~Delivered("flight-options")
       /\ \A i \in 1..Len(events) : ~Publishes(i, "flight-options")
  /\ \A i \in 1..Len(events) : Publishes(i, "flight-options") =>
       /\ ~Delivered("flight-options")
       /\ \A j \in 1..Len(events) : Publishes(j, "flight-options") => j = i

\* execute() has returned by the time its outcome is in the queue.
OutcomeInv ==
  /\ NothingAfterOutcome
  /\ \A i \in 1..Len(events) : IsOutcome(events[i]) => pc = "idle"

\* The store's history catches up with a call no later than its first event.
HistoryInv ==
  /\ ConversationComplete
  /\ (pc = "idle" /\ events = <<>>) \/ Finished => task.history = Texts(served)
=============================================================================
