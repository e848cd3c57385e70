------------------------- MODULE TripBooking_proofs -------------------------
(***************************************************************************)
(* Theorems about TripBooking, for every set of messages, destinations and *)
(* integers the model may answer with, and about TripSession, its script   *)
(* and its agent together, for every number of restarts of the server.     *)
(***************************************************************************)
EXTENDS TripSession, A2ARuntime_proofs

\* Every accepted message carries a text.
LEMMA SentText ==
  ASSUME TypeOK, NEW i \in 1..Len(sent)
  PROVE  sent[i].text \in Messages
<1>1. sent[i] \in [text : Messages, shown : Notes]
  <2> DEFINE Requests == [text : Messages, shown : Notes]
  <2>1. sent \in Seq(Requests)
    BY DEF TypeOK
  <2> HIDE DEF Requests
  <2>2. sent[i] \in Requests
    BY <2>1, ElementOfSeq
  <2> QED
    BY <2>2 DEF Requests
<1> QED
  BY <1>1

\* The history the store writes is a sequence of messages.
LEMMA TextsType ==
  ASSUME TypeOK
  PROVE  Texts(served) \in Seq(Messages)
<1>1. served \in 0..Len(sent) /\ Len(sent) \in Nat
  BY DEF TypeOK
<1>2. \A i \in 1..served : sent[i].text \in Messages
  BY <1>1, SentText
<1>3. Texts(served) \in [1..served -> Messages]
  BY <1>2 DEF Texts
<1> QED
  BY <1>1, <1>3

\* What Store does to a record of the right type is of the right type again.
LEMMA StoredType ==
  ASSUME TypeOK, NEW event \in Events
  PROVE  Stored(event) \in TaskRecords
<1>1. Texts(served) \in Seq(Messages)
  BY TextsType
<1>2. CASE event.kind = "task"
  BY <1>1, <1>2 DEF Stored, TypeOK, TaskRecords, States, ActionableStates, TerminalStates
<1>3. CASE event.kind = "status"
  BY <1>1, <1>3 DEF Stored, TypeOK, TaskRecords, Events
<1>4. CASE event.kind = "artifact"
  BY <1>1, <1>4 DEF Stored, TypeOK, TaskRecords, Events
<1> QED
  BY <1>2, <1>3, <1>4 DEF Events

\* Enqueueing an event keeps the queue a queue of events.
LEMMA EnqueueType ==
  ASSUME TypeOK, NEW event \in Events, Enqueue(event)
  PROVE  events' \in Seq(Events)
BY DEF TypeOK, Enqueue

\* The events of this executor are events.
LEMMA EventTypes ==
  /\ TaskEvent \in Events
  /\ \A s \in States, n \in Notes : StatusEvent(s, n) \in Events
  /\ \A a \in Artifacts : ArtifactEvent(a) \in Events
BY DEF TaskEvent, StatusEvent, ArtifactEvent, Events

\* A step of execute() that enqueues one event and moves to a known place.
LEMMA StepType ==
  ASSUME TypeOK, NEW from, NEW event \in Events, NEW next \in PCs,
         Step(from, event, next),
         UNCHANGED conversation,
         destination' \in Destinations \union {NoDestination},
         chosen' \in Choices \union {0}
  PROVE  TypeOK'
<1>1. events' \in Seq(Events)
  BY EnqueueType DEF Step
<1> QED
  BY <1>1 DEF TypeOK, Step

\* Every step of execute() keeps the types.
LEMMA ExecutorStepType ==
  ASSUME TypeOK, ExecutorStep
  PROVE  TypeOK'
<1> USE EventTypes DEF Notes, States, ActionableStates, TerminalStates, PCs
<1>1. CASE Execute
  <2>1. served' \in 1..Len(sent)
    BY <1>1 DEF Execute, CanServe, TypeOK
  <2>2. sent[served'].text \in Messages
    BY <2>1, SentText
  <2>3. conversation' \in Seq(Messages)
    BY <1>1, <2>2 DEF Execute, TypeOK, TaskRecords
  <2>4. events' \in Seq(Events)
    BY <1>1, EnqueueType DEF Execute, TypeOK
  <2> QED
    BY <1>1, <2>1, <2>3, <2>4 DEF Execute, TypeOK
<1>2. CASE StartSearch
  BY <1>2, StepType DEF StartSearch, TypeOK
<1>3. CASE AskForDetails
  BY <1>3, StepType DEF AskForDetails, TypeOK
<1>4. CASE AnnounceSearch
  BY <1>4, StepType DEF AnnounceSearch, TypeOK, TripDetails
<1>5. CASE PublishOptions
  <2>1. FlightOptions(destination) \in Artifacts
    BY DEF FlightOptions, Artifacts, TypeOK
  <2> QED
    BY <1>5, <2>1, StepType DEF PublishOptions, TypeOK
<1>6. CASE AskForChoice
  BY <1>6, StepType DEF AskForChoice, TypeOK
<1>7. CASE StartBooking
  BY <1>7, StepType DEF StartBooking, TypeOK
<1>8. CASE AnnounceBooking
  BY <1>8, StepType DEF AnnounceBooking, TypeOK, TripDetails
<1>9. CASE PublishConfirmation
  <2>1. chosen \in Int
    BY TripAssumption DEF TypeOK
  <2>2. LineAt(chosen) \in 1..2
    BY <1>9, <2>1 DEF PublishConfirmation, IndexInRange, LineAt
  <2>3. BookingConfirmation(LineAt(chosen), destination) \in Artifacts
    BY <2>2 DEF BookingConfirmation, Artifacts, TypeOK
  <2> QED
    BY <1>9, <2>3, StepType DEF PublishConfirmation, TypeOK
<1>10. CASE ChoiceOutOfRange
  BY <1>10, StepType DEF ChoiceOutOfRange, TypeOK
<1>11. CASE CompleteBooking
  BY <1>11, StepType DEF CompleteBooking, TypeOK
<1>12. CASE \E from \in {"parse", "search", "choose", "book"} : Fail(from)
  BY <1>12, StepType DEF Fail, TypeOK
<1> QED
  BY <1>1, <1>2, <1>3, <1>4, <1>5, <1>6, <1>7, <1>8, <1>9, <1>10, <1>11, <1>12
     DEF ExecutorStep

\* The types hold before the first message.
LEMMA TypeInit ==
  ASSUME Init
  PROVE  TypeOK
<1>1. sent = <<>> /\ events = <<>> /\ conversation = <<>> /\ served = 0
  BY DEF Init, RuntimeInit
<1>2. /\ sent \in Seq([text : Messages, shown : Notes])
      /\ events \in Seq(Events)
      /\ conversation \in Seq(Messages)
      /\ served \in 0..Len(sent)
  BY <1>1
<1>3. NoTask \in TaskRecords
  BY DEF NoTask, TaskRecords, States, ActionableStates, TerminalStates, Notes
<1>4. task \in TaskRecords
  BY <1>3 DEF Init, RuntimeInit
<1> QED
  BY <1>2, <1>4 DEF Init, RuntimeInit, TypeOK, PCs

\* Every step keeps the types.
LEMMA TypeStep ==
  ASSUME TypeOK, [Next]_vars
  PROVE  TypeOK'
<1>1. ASSUME NEW m \in Messages, Send(m) PROVE TypeOK'
  <2>1. [text |-> m, shown |-> task.note] \in [text : Messages, shown : Notes]
    BY DEF TypeOK, TaskRecords
  <2>2. sent' \in Seq([text : Messages, shown : Notes]) /\ Len(sent') = Len(sent) + 1
    BY <1>1, <2>1 DEF Send, SendMessage, TypeOK
  <2> QED
    BY <1>1, <2>2 DEF Send, SendMessage, TypeOK
<1>2. CASE ExecutorStep
  BY <1>2, ExecutorStepType
<1>3. CASE Store
  <2>1. Head(events) \in Events
    BY <1>3 DEF Store, Consume, TypeOK
  <2>2. task' \in TaskRecords
    BY <1>3, <2>1, StoredType DEF Store, Consume
  <2>3. events' \in Seq(Events)
    BY <1>3 DEF Store, Consume, TypeOK
  <2> QED
    BY <1>3, <2>2, <2>3 DEF Store, Consume, TypeOK
<1>4. CASE Cancel
  <2>1. events' \in Seq(Events)
    BY <1>4, EventTypes, EnqueueType
       DEF Cancel, States, ActionableStates, TerminalStates, Notes
  <2> QED
    BY <1>4, <2>1 DEF Cancel, AcceptCancel, TypeOK, PCs
<1>5. CASE UNCHANGED vars
  BY <1>5 DEF vars, TypeOK
<1> QED
  BY <1>1, <1>2, <1>3, <1>4, <1>5 DEF Next

\* Every variable keeps its type: in particular a confirmation always names
\* one of the two flights, whatever integer the model answered.
THEOREM TypeCorrect == Spec => []TypeOK
<1>1. Init => TypeOK
  BY TypeInit
<1>2. TypeOK /\ [Next]_vars => TypeOK'
  BY TypeStep
<1> QED
  BY <1>1, <1>2, PTL DEF Spec

-----------------------------------------------------------------------------
(***************************************************************************)
(* The queue: what enqueueing and storing do to positions.                 *)
(***************************************************************************)

\* Enqueueing adds one event behind the others, or nothing to an ended task.
LEMMA Appending ==
  ASSUME TypeOK, NEW event \in Events, Enqueue(event)
  PROVE  \/ Finished /\ events' = events
         \/ /\ ~Finished
            /\ Len(events') = Len(events) + 1
            /\ \A i \in 1..Len(events) : events'[i] = events[i]
            /\ events'[Len(events) + 1] = event
BY DEF TypeOK, Enqueue

\* Storing takes the first event off, or all of them with a terminal one.
LEMMA Storing ==
  ASSUME TypeOK, Store
  PROVE  /\ Len(events) \in Nat \ {0}
         /\ events[1] \in Events
         /\ task' = Stored(events[1])
         /\ \/ Finished' /\ events' = <<>>
            \/ /\ ~Finished'
               /\ Len(events') = Len(events) - 1
               /\ \A i \in 1..Len(events') : events'[i] = events[i + 1]
BY DEF Store, Consume, TypeOK, Finished

\* The store never loses an artifact id.
LEMMA StoringKeeps ==
  ASSUME TypeOK, Store, NEW id
  PROVE  /\ Delivered(id) => Delivered(id)'
         /\ Publishes(1, id) => Delivered(id)'
         /\ Delivered(id)' => Delivered(id) \/ Publishes(1, id)
<1>1. events[1] \in Events /\ task' = Stored(events[1])
  BY Storing
<1>2. CASE events[1].kind = "artifact"
  <2>1. task'.artifacts =
          {a \in task.artifacts : a.id # events[1].artifact.id} \union {events[1].artifact}
    BY <1>1, <1>2 DEF Stored, TypeOK, TaskRecords
  <2> QED
    BY <1>2, <2>1 DEF Delivered, Publishes
<1>3. CASE events[1].kind # "artifact"
  <2>1. task'.artifacts = task.artifacts
    BY <1>1, <1>3 DEF Stored, TypeOK, TaskRecords, Events
  <2> QED
    BY <1>3, <2>1 DEF Delivered, Publishes
<1> QED
  BY <1>2, <1>3

\* What is on its way stays so while the queue grows.
LEMMA ComingGrows ==
  ASSUME TypeOK, NEW event \in Events, Enqueue(event), UNCHANGED task,
         NEW id, NEW i \in 1..Len(events) + 1, Coming(id, i)
  PROVE  Coming(id, i)'
BY Appending DEF Coming, Delivered, Publishes, TypeOK

\* What is on its way has arrived, or is one place closer, after a store.
LEMMA ComingArrives ==
  ASSUME TypeOK, Store, ~Finished', NEW id, NEW i \in 1..Len(events), Coming(id, i + 1)
  PROVE  Coming(id, i)'
<1>1. CASE Delivered(id)
  BY <1>1, StoringKeeps DEF Coming
<1>2. CASE \E j \in 1..Len(events) : j < i + 1 /\ Publishes(j, id)
  <2>1. PICK j \in 1..Len(events) : j < i + 1 /\ Publishes(j, id)
    BY <1>2
  <2>2. CASE j = 1
    BY <2>1, <2>2, StoringKeeps DEF Coming
  <2>3. CASE j # 1
    <3>1. j - 1 \in 1..Len(events') /\ j - 1 < i /\ events'[j - 1] = events[j]
      BY <2>1, <2>3, Storing
    <3>2. Publishes(j - 1, id)'
      BY <2>1, <3>1 DEF Publishes
    <3> QED
      BY <3>1, <3>2 DEF Coming
  <2> QED
    BY <2>2, <2>3
<1> QED
  BY <1>1, <1>2 DEF Coming

-----------------------------------------------------------------------------
(***************************************************************************)
(* Artifacts travel ahead of the statuses that speak of them.              *)
(***************************************************************************)

\* Enqueueing keeps OrderInv when the event and the place reached next have
\* the artifacts they need ahead of them.
LEMMA EnqueueOrder ==
  ASSUME TypeOK, OrderInv, NEW event \in Events, Enqueue(event), UNCHANGED task,
         pc' \in {"resume", "choose", "book", "complete"} => Delivered("flight-options"),
         pc' = "ask" => pc = "ask" \/ (event.kind = "artifact" /\ event.artifact.id = "flight-options"),
         pc' = "complete" =>
           pc = "complete" \/ (event.kind = "artifact" /\ event.artifact.id = "booking-confirmation"),
         event.kind = "status" =>
           /\ event.note = "choose" => Finished \/ Coming("flight-options", Len(events) + 1)
           /\ event.state = "COMPLETED" =>
                /\ Delivered("flight-options")
                /\ Finished \/ Coming("booking-confirmation", Len(events) + 1)
  PROVE  OrderInv'
<1>1. CASE Finished
  <2>1. Finished' /\ events = <<>> /\ events' = <<>>
    BY <1>1, Appending DEF Finished, OrderInv
  <2> QED
    BY <2>1 DEF OrderInv, Delivered, QuestionShowsOptions, Options, BookingComplete
<1>2. CASE ~Finished
  <2>0. PICK n \in Nat : n = Len(events)
    BY DEF TypeOK
  <2>1. /\ Len(events') = n + 1
        /\ \A i \in 1..n : events'[i] = events[i]
        /\ events'[n + 1] = event
    BY <1>2, <2>0, Appending DEF TypeOK
  <2>2. ASSUME NEW id, NEW i \in 1..(n + 1), Coming(id, i) PROVE Coming(id, i)'
    BY <2>0, <2>2, ComingGrows
  <2>3. ASSUME NEW id, event.kind = "artifact", event.artifact.id = id
        PROVE  Coming(id, n + 2)'
    <3>1. n + 1 \in 1..Len(events') /\ n + 1 < n + 2 /\ Publishes(n + 1, id)'
      BY <2>1, <2>3 DEF Publishes
    <3> QED
      BY <3>1 DEF Coming
  <2>4. ASSUME NEW id, Coming(id, n + 1) PROVE Coming(id, n + 2)'
    <3>1. Coming(id, n + 1)'
      BY <2>2, <2>4
    <3>2. \A j \in 1..Len(events') : j < n + 1 => j < n + 2
      BY <2>1
    <3> QED
      BY <3>1, <3>2 DEF Coming
  <2>5. ~Finished' /\ \A id : Delivered(id)' <=> Delivered(id)
    BY <1>2 DEF Finished, Delivered
  <2>6. pc' = "ask" => Coming("flight-options", n + 2)'
    BY <1>2, <2>0, <2>3, <2>4 DEF OrderInv
  <2>7. pc' = "complete" => Coming("booking-confirmation", n + 2)'
    BY <1>2, <2>0, <2>3, <2>4 DEF OrderInv
  <2>8. ASSUME NEW i \in 1..(n + 1), events'[i].kind = "status"
        PROVE  /\ events'[i].note = "choose" => Coming("flight-options", i)'
               /\ events'[i].state = "COMPLETED" =>
                    Delivered("flight-options")' /\ Coming("booking-confirmation", i)'
    <3>1. CASE i = n + 1
      BY <1>2, <2>0, <2>1, <2>2, <2>5, <2>8, <3>1
    <3>2. CASE i \in 1..n
      BY <2>0, <2>1, <2>2, <2>5, <2>8, <3>2 DEF OrderInv
    <3> QED
      BY <2>1, <3>1, <3>2
  <2>9. QuestionShowsOptions' /\ BookingComplete'
    BY DEF OrderInv, QuestionShowsOptions, Options, BookingComplete
  <2>10. Len(events') + 1 = n + 2 /\ 1..Len(events') = 1..(n + 1)
    BY <2>1
  <2> QED
    BY <2>1, <2>5, <2>6, <2>7, <2>8, <2>9, <2>10 DEF OrderInv
<1> QED
  BY <1>1, <1>2

\* Storing keeps OrderInv: every promise of the queue moves one place closer.
LEMMA StoreOrder ==
  ASSUME TypeOK, OrderInv, Store
  PROVE  OrderInv'
<1>0. PICK n \in Nat \ {0} : n = Len(events)
  BY Storing
<1>1. /\ events[1] \in Events
      /\ task' = Stored(events[1])
      /\ pc' = pc
  BY <1>0, Storing DEF Store, Consume
<1>2. ~Finished
  BY DEF OrderInv, Store, Consume
<1>3. ASSUME NEW id, Delivered(id) PROVE Delivered(id)'
  BY <1>3, StoringKeeps
<1>4. QuestionShowsOptions'
  <2> SUFFICES ASSUME task'.note = "choose" PROVE Delivered("flight-options")'
    BY DEF QuestionShowsOptions, Options, Delivered
  <2>1. CASE events[1].kind = "status"
    <3>1. events[1].note = "choose"
      BY <1>1, <2>1 DEF Stored, TypeOK, TaskRecords
    <3>2. Coming("flight-options", 1)
      BY <1>0, <2>1, <3>1 DEF OrderInv
    <3> QED
      BY <1>3, <3>2 DEF Coming
  <2>2. CASE events[1].kind # "status"
    <3>1. task.note = "choose"
      BY <1>1, <2>2 DEF Stored, TypeOK, TaskRecords
    <3> QED
      BY <1>3, <3>1 DEF OrderInv, QuestionShowsOptions, Options, Delivered
  <2> QED
    BY <2>1, <2>2
<1>5. BookingComplete'
  <2> SUFFICES ASSUME task'.state = "COMPLETED"
               PROVE  Delivered("flight-options")' /\ Delivered("booking-confirmation")'
    BY DEF BookingComplete, Delivered
  <2>1. task.state # "COMPLETED"
    BY <1>2 DEF Finished, TerminalStates
  <2>2. events[1].kind = "status" /\ events[1].state = "COMPLETED"
    BY <1>1, <2>1 DEF Stored, TypeOK, TaskRecords
  <2>3. Delivered("flight-options") /\ Coming("booking-confirmation", 1)
    BY <1>0, <2>2 DEF OrderInv
  <2> QED
    BY <1>3, <2>3 DEF Coming
<1>6. CASE Finished'
  <2>1. events' = <<>>
    BY <1>6, Storing
  <2> QED
    BY <1>1, <1>3, <1>4, <1>5, <1>6, <2>1 DEF OrderInv
<1>7. CASE ~Finished'
  <2>1. Len(events') = n - 1 /\ \A i \in 1..(n - 1) : events'[i] = events[i + 1]
    BY <1>0, <1>7, Storing
  <2>2. ASSUME NEW id, NEW i \in 1..n, Coming(id, i + 1) PROVE Coming(id, i)'
    BY <1>0, <1>7, <2>2, ComingArrives
  <2>3. pc' = "ask" => Coming("flight-options", n)'
    BY <1>0, <1>1, <1>2, <2>2 DEF OrderInv
  <2>4. pc' = "complete" => Coming("booking-confirmation", n)'
    BY <1>0, <1>1, <1>2, <2>2 DEF OrderInv
  <2>5. ASSUME NEW i \in 1..(n - 1), events'[i].kind = "status"
        PROVE  /\ events'[i].note = "choose" => Coming("flight-options", i)'
               /\ events'[i].state = "COMPLETED" =>
                    Delivered("flight-options")' /\ Coming("booking-confirmation", i)'
    <3>1. i \in 1..n /\ i + 1 \in 1..n /\ events'[i] = events[i + 1]
      BY <1>0, <2>1
    <3>2. /\ events[i + 1].note = "choose" => Coming("flight-options", i + 1)
          /\ events[i + 1].state = "COMPLETED" =>
               Delivered("flight-options") /\ Coming("booking-confirmation", i + 1)
      BY <1>0, <2>5, <3>1 DEF OrderInv
    <3> QED
      BY <1>3, <2>2, <3>1, <3>2
  <2>6. Len(events') + 1 = n /\ 1..Len(events') = 1..(n - 1)
    BY <2>1
  <2> QED
    BY <1>1, <1>3, <1>4, <1>5, <1>7, <2>3, <2>4, <2>5, <2>6 DEF OrderInv
<1> QED
  BY <1>6, <1>7

\* Every step of execute() has the artifacts it speaks of ahead of it.
LEMMA ExecutorOrder ==
  ASSUME TypeOK, OrderInv, ExecutorStep
  PROVE  OrderInv'
<1> USE EventTypes DEF Notes, States, ActionableStates, TerminalStates
<1>1. CASE Execute
  <2>1. /\ ~Finished /\ UNCHANGED task
        /\ pc' \in {"begin", "resume"}
        /\ pc' = "resume" => Delivered("flight-options")
    BY <1>1 DEF Execute, CanServe, HasFlightOptions, Delivered
  <2>2. CASE Exists
    BY <1>1, <2>1, <2>2 DEF Execute, OrderInv, Coming, Delivered, Publishes, Finished,
       QuestionShowsOptions, Options, BookingComplete
  <2>3. CASE ~Exists
    <3>1. Enqueue(TaskEvent)
      BY <1>1, <2>3 DEF Execute
    <3>2. TaskEvent.kind # "status"
      BY DEF TaskEvent
    <3> QED
      BY <2>1, <3>1, <3>2, EnqueueOrder
  <2> QED
    BY <2>2, <2>3
<1>2. CASE StartSearch
  BY <1>2, EnqueueOrder DEF StartSearch, Step, StatusEvent
<1>3. CASE AskForDetails
  BY <1>3, EnqueueOrder DEF AskForDetails, Step, StatusEvent
<1>4. CASE AnnounceSearch
  BY <1>4, EnqueueOrder DEF AnnounceSearch, Step, StatusEvent
<1>5. CASE PublishOptions
  <2>1. FlightOptions(destination) \in Artifacts
    BY DEF FlightOptions, Artifacts, TypeOK
  <2> QED
    BY <1>5, <2>1, EnqueueOrder DEF PublishOptions, Step, ArtifactEvent, FlightOptions
<1>6. CASE AskForChoice
  <2>1. Finished \/ Coming("flight-options", Len(events) + 1)
    BY <1>6 DEF AskForChoice, Step, OrderInv
  <2> QED
    BY <1>6, <2>1, EnqueueOrder DEF AskForChoice, Step, StatusEvent
<1>7. CASE StartBooking
  <2>1. Delivered("flight-options")
    BY <1>7 DEF StartBooking, Step, OrderInv
  <2> QED
    BY <1>7, <2>1, EnqueueOrder DEF StartBooking, Step, StatusEvent
<1>8. CASE AnnounceBooking
  <2>1. Delivered("flight-options")
    BY <1>8 DEF AnnounceBooking, Step, OrderInv
  <2> QED
    BY <1>8, <2>1, EnqueueOrder DEF AnnounceBooking, Step, StatusEvent
<1>9. CASE PublishConfirmation
  <2>1. Delivered("flight-options")
    BY <1>9 DEF PublishConfirmation, Step, OrderInv
  <2>2. chosen \in Int
    BY TripAssumption DEF TypeOK
  <2>3. LineAt(chosen) \in 1..2
    BY <1>9, <2>2 DEF PublishConfirmation, IndexInRange, LineAt
  <2>4. BookingConfirmation(LineAt(chosen), destination) \in Artifacts
    BY <2>3 DEF BookingConfirmation, Artifacts, TypeOK
  <2> QED
    BY <1>9, <2>1, <2>4, EnqueueOrder
       DEF PublishConfirmation, Step, ArtifactEvent, BookingConfirmation
<1>10. CASE ChoiceOutOfRange
  BY <1>10, EnqueueOrder DEF ChoiceOutOfRange, Step, StatusEvent
<1>11. CASE CompleteBooking
  <2>1. /\ Delivered("flight-options")
        /\ Finished \/ Coming("booking-confirmation", Len(events) + 1)
    BY <1>11 DEF CompleteBooking, Step, OrderInv
  <2> QED
    BY <1>11, <2>1, EnqueueOrder DEF CompleteBooking, Step, StatusEvent
<1>12. CASE \E from \in {"parse", "search", "choose", "book"} : Fail(from)
  BY <1>12, EnqueueOrder DEF Fail, Step, StatusEvent
<1> QED
  BY <1>1, <1>2, <1>3, <1>4, <1>5, <1>6, <1>7, <1>8, <1>9, <1>10, <1>11, <1>12
     DEF ExecutorStep

\* Every step keeps the order of the queue.
LEMMA OrderStep ==
  ASSUME TypeOK, OrderInv, [Next]_vars
  PROVE  OrderInv'
<1>1. CASE UNCHANGED <<pc, events, task>>
  BY <1>1 DEF OrderInv, Coming, Delivered, Publishes, Finished,
     QuestionShowsOptions, Options, BookingComplete
<1>2. ASSUME NEW m \in Messages, Send(m) PROVE OrderInv'
  BY <1>1, <1>2 DEF Send, SendMessage
<1>3. CASE ExecutorStep
  BY <1>3, ExecutorOrder
<1>4. CASE Store
  BY <1>4, StoreOrder
<1>5. CASE Cancel
  <2>1. StatusEvent("CANCELED", "none") \in Events
    BY EventTypes DEF Notes, States, ActionableStates, TerminalStates
  <2>2. PICK event \in Events : event = StatusEvent("CANCELED", "none")
    BY <2>1
  <2>3. pc' \in {pc, "idle"} /\ UNCHANGED task /\ Enqueue(event)
    BY <1>5, <2>2 DEF Cancel, AcceptCancel
  <2>4. pc' \in {"resume", "choose", "book", "complete"} => Delivered("flight-options")
    BY <2>3 DEF OrderInv
  <2>5. /\ pc' = "ask" => pc = "ask"
        /\ pc' = "complete" => pc = "complete"
    BY <2>3
  <2>6. /\ event.note # "choose"
        /\ event.state # "COMPLETED"
    BY <2>2 DEF StatusEvent
  <2> QED
    BY <2>3, <2>4, <2>5, <2>6, EnqueueOrder
<1> QED
  BY <1>1, <1>2, <1>3, <1>4, <1>5 DEF Next, vars

\* What speaks of an artifact stays behind it.
THEOREM OrderKept == Spec => []OrderInv
<1>1. Init => OrderInv
  <2> SUFFICES ASSUME Init PROVE OrderInv
    OBVIOUS
  <2>1. events = <<>> /\ pc = "idle" /\ task = NoTask
    BY DEF Init, RuntimeInit
  <2> QED
    BY <2>1 DEF OrderInv, NoTask, QuestionShowsOptions, BookingComplete
<1>2. TypeOK /\ OrderInv /\ [Next]_vars => OrderInv'
  BY OrderStep
<1> QED
  BY <1>1, <1>2, TypeCorrect, PTL DEF Spec

\* The question is never ahead of the options it is about.
THEOREM QuestionsAnswerable == Spec => []QuestionShowsOptions
<1>1. OrderInv => QuestionShowsOptions
  BY DEF OrderInv
<1> QED
  BY <1>1, OrderKept, PTL

\* A completed booking carries the options and the confirmation.
THEOREM BookingsComplete == Spec => []BookingComplete
<1>1. OrderInv => BookingComplete
  BY DEF OrderInv
<1> QED
  BY <1>1, OrderKept, PTL

-----------------------------------------------------------------------------
(***************************************************************************)
(* The options a traveller was shown are never replaced.                   *)
(***************************************************************************)

\* Enqueueing keeps OptionsInv when only the search publishes options, and
\* leaves the search by doing so.
LEMMA EnqueueOptions ==
  ASSUME TypeOK, OptionsInv, NEW event \in Events, Enqueue(event), UNCHANGED task,
         pc' \in {"begin", "parse", "search"} => pc \in {"begin", "parse", "search"},
         (event.kind = "artifact" /\ event.artifact.id = "flight-options") =>
           pc = "search" /\ pc' \notin {"begin", "parse", "search"}
  PROVE  OptionsInv'
<1>1. CASE events' = events
  BY <1>1 DEF OptionsInv, Publishes, Delivered
<1>2. CASE events' # events
  <2>0. PICK n \in Nat : n = Len(events)
    BY DEF TypeOK
  <2>1. /\ Len(events') = n + 1
        /\ \A i \in 1..n : events'[i] = events[i]
        /\ events'[n + 1] = event
    BY <1>2, <2>0, Appending
  <2>2. \A i \in 1..n : Publishes(i, "flight-options")' <=> Publishes(i, "flight-options")
    BY <2>1 DEF Publishes
  <2>3. Delivered("flight-options")' <=> Delivered("flight-options")
    BY DEF Delivered
  <2>4. CASE event.kind = "artifact" /\ event.artifact.id = "flight-options"
    <3>1. /\ ~Delivered("flight-options")
          /\ \A i \in 1..n : ~Publishes(i, "flight-options")
      BY <2>0, <2>4 DEF OptionsInv
    <3> QED
      BY <2>1, <2>2, <2>3, <2>4, <3>1 DEF OptionsInv
  <2>5. CASE ~(event.kind = "artifact" /\ event.artifact.id = "flight-options")
    <3>1. ~Publishes(n + 1, "flight-options")'
      BY <2>1, <2>5 DEF Publishes
    <3> QED
      BY <2>0, <2>1, <2>2, <2>3, <3>1 DEF OptionsInv
  <2> QED
    BY <2>4, <2>5
<1> QED
  BY <1>1, <1>2

\* Storing keeps OptionsInv, and does not touch options already stored.
LEMMA StoreOptions ==
  ASSUME TypeOK, OptionsInv, Store
  PROVE  OptionsInv' /\ (Options # {} => Options' = Options)
<1>0. PICK n \in Nat \ {0} : n = Len(events)
  BY Storing
<1>1. /\ events[1] \in Events
      /\ task' = Stored(events[1])
      /\ pc' = pc
  BY Storing DEF Store, Consume
<1>2. Options # {} => Options' = Options
  <2> SUFFICES ASSUME Options # {} PROVE Options' = Options
    OBVIOUS
  <2>1. ~Publishes(1, "flight-options")
    BY <1>0 DEF OptionsInv, Options, Delivered
  <2>2. CASE events[1].kind = "artifact"
    <3>1. task'.artifacts =
            {a \in task.artifacts : a.id # events[1].artifact.id} \union {events[1].artifact}
      BY <1>1, <2>2 DEF Stored, TypeOK, TaskRecords
    <3> QED
      BY <2>1, <2>2, <3>1 DEF Options, Publishes
  <2>3. CASE events[1].kind # "artifact"
    BY <1>1, <2>3 DEF Stored, TypeOK, TaskRecords, Events, Options
  <2> QED
    BY <2>2, <2>3
<1>3. CASE Finished'
  <2>1. events' = <<>>
    BY <1>3, Storing
  <2>2. pc \in {"begin", "parse", "search"} => ~Delivered("flight-options")'
    BY <1>0, StoringKeeps DEF OptionsInv
  <2> QED
    BY <1>1, <1>2, <2>1, <2>2 DEF OptionsInv
<1>4. CASE ~Finished'
  <2>1. Len(events') = n - 1 /\ \A i \in 1..(n - 1) : events'[i] = events[i + 1]
    BY <1>0, <1>4, Storing
  <2>2. \A i \in 1..(n - 1) : Publishes(i, "flight-options")' <=> Publishes(i + 1, "flight-options")
    BY <2>1 DEF Publishes
  <2>3. pc \in {"begin", "parse", "search"} =>
          /\ ~Delivered("flight-options")'
          /\ \A i \in 1..(n - 1) : ~Publishes(i, "flight-options")'
    BY <1>0, <2>2, StoringKeeps DEF OptionsInv
  <2>4. ASSUME NEW i \in 1..(n - 1), Publishes(i, "flight-options")'
        PROVE  /\ ~Delivered("flight-options")'
               /\ \A j \in 1..(n - 1) : Publishes(j, "flight-options")' => j = i
    <3>1. i + 1 \in 1..n /\ Publishes(i + 1, "flight-options") /\ i + 1 # 1
      BY <2>2, <2>4
    <3>2. ~Delivered("flight-options") /\ ~Publishes(1, "flight-options")
      BY <1>0, <3>1 DEF OptionsInv
    <3>3. \A j \in 1..(n - 1) : Publishes(j, "flight-options")' => j + 1 = i + 1
      BY <1>0, <2>2, <3>1 DEF OptionsInv
    <3> QED
      BY <3>2, <3>3, StoringKeeps
  <2> QED
    BY <1>1, <1>2, <2>1, <2>3, <2>4 DEF OptionsInv
<1> QED
  BY <1>2, <1>3, <1>4

\* Only the search publishes options.
LEMMA ExecutorOptions ==
  ASSUME TypeOK, OptionsInv, ExecutorStep
  PROVE  OptionsInv'
<1> USE EventTypes DEF Notes, States, ActionableStates, TerminalStates
<1>1. CASE Execute
  <2>1. /\ events = <<>> /\ UNCHANGED task
        /\ pc' = "begin" => ~Delivered("flight-options")
        /\ pc' \in {"begin", "resume"}
        /\ events' \in {<<>>, <<TaskEvent>>}
    BY <1>1 DEF Execute, CanServe, HasFlightOptions, Delivered, Enqueue
  <2>2. \A i \in 1..Len(events') : events'[i].kind = "task"
    BY <2>1 DEF TaskEvent
  <2> QED
    BY <2>1, <2>2 DEF OptionsInv, Publishes, Delivered
<1>2. CASE StartSearch
  BY <1>2, EnqueueOptions DEF StartSearch, Step, StatusEvent
<1>3. CASE AskForDetails
  BY <1>3, EnqueueOptions DEF AskForDetails, Step, StatusEvent
<1>4. CASE AnnounceSearch
  BY <1>4, EnqueueOptions DEF AnnounceSearch, Step, StatusEvent
<1>5. CASE PublishOptions
  <2>1. FlightOptions(destination) \in Artifacts
    BY DEF FlightOptions, Artifacts, TypeOK
  <2> QED
    BY <1>5, <2>1, EnqueueOptions DEF PublishOptions, Step, ArtifactEvent
<1>6. CASE AskForChoice
  BY <1>6, EnqueueOptions DEF AskForChoice, Step, StatusEvent
<1>7. CASE StartBooking
  BY <1>7, EnqueueOptions DEF StartBooking, Step, StatusEvent
<1>8. CASE AnnounceBooking
  BY <1>8, EnqueueOptions DEF AnnounceBooking, Step, StatusEvent
<1>9. CASE PublishConfirmation
  <2>1. chosen \in Int
    BY TripAssumption DEF TypeOK
  <2>2. LineAt(chosen) \in 1..2
    BY <1>9, <2>1 DEF PublishConfirmation, IndexInRange, LineAt
  <2>3. BookingConfirmation(LineAt(chosen), destination) \in Artifacts
    BY <2>2 DEF BookingConfirmation, Artifacts, TypeOK
  <2> QED
    BY <1>9, <2>3, EnqueueOptions
       DEF PublishConfirmation, Step, ArtifactEvent, BookingConfirmation
<1>10. CASE ChoiceOutOfRange
  BY <1>10, EnqueueOptions DEF ChoiceOutOfRange, Step, StatusEvent
<1>11. CASE CompleteBooking
  BY <1>11, EnqueueOptions DEF CompleteBooking, Step, StatusEvent
<1>12. CASE \E from \in {"parse", "search", "choose", "book"} : Fail(from)
  BY <1>12, EnqueueOptions DEF Fail, Step, StatusEvent
<1> QED
  BY <1>1, <1>2, <1>3, <1>4, <1>5, <1>6, <1>7, <1>8, <1>9, <1>10, <1>11, <1>12
     DEF ExecutorStep

\* Every step keeps OptionsInv, and leaves options already stored as they are.
LEMMA OptionsStep ==
  ASSUME TypeOK, OptionsInv, [Next]_vars
  PROVE  OptionsInv' /\ (Options # {} => Options' = Options)
<1>1. CASE UNCHANGED <<pc, events, task>>
  BY <1>1 DEF OptionsInv, Publishes, Delivered, Options
<1>2. ASSUME NEW m \in Messages, Send(m)
      PROVE  OptionsInv' /\ (Options # {} => Options' = Options)
  BY <1>1, <1>2 DEF Send, SendMessage
<1>3. CASE ExecutorStep
  <2>1. UNCHANGED task
    BY <1>3 DEF ExecutorStep, Execute, StartSearch, AskForDetails, AnnounceSearch,
       PublishOptions, AskForChoice, StartBooking, AnnounceBooking, PublishConfirmation,
       ChoiceOutOfRange, CompleteBooking, Fail, Step
  <2> QED
    BY <1>3, <2>1, ExecutorOptions DEF Options
<1>4. CASE Store
  BY <1>4, StoreOptions
<1>5. CASE Cancel
  <2>1. PICK event \in Events : event = StatusEvent("CANCELED", "none")
    BY EventTypes DEF Notes, States, ActionableStates, TerminalStates
  <2>2. pc' \in {pc, "idle"} /\ UNCHANGED task /\ Enqueue(event)
    BY <1>5, <2>1 DEF Cancel, AcceptCancel
  <2>3. event.kind # "artifact"
    BY <2>1 DEF StatusEvent
  <2>4. pc' \in {"begin", "parse", "search"} => pc \in {"begin", "parse", "search"}
    BY <2>2
  <2> QED
    BY <2>2, <2>3, <2>4, EnqueueOptions DEF Options
<1> QED
  BY <1>1, <1>2, <1>3, <1>4, <1>5 DEF Next, vars

\* Only a task without options ever has some on their way, one artifact at most.
THEOREM OptionsOnce == Spec => []OptionsInv
<1>1. Init => OptionsInv
  BY DEF Init, RuntimeInit, OptionsInv
<1>2. TypeOK /\ OptionsInv /\ [Next]_vars => OptionsInv'
  BY OptionsStep
<1> QED
  BY <1>1, <1>2, TypeCorrect, PTL DEF Spec

\* The options a traveller was shown are never replaced.
THEOREM OptionsNeverReplaced == Spec => OptionsStable
<1>1. TypeOK /\ OptionsInv /\ [Next]_vars => [Options # {} => Options' = Options]_vars
  BY OptionsStep
<1> QED
  BY <1>1, OptionsOnce, TypeCorrect, PTL DEF Spec, OptionsStable

-----------------------------------------------------------------------------
(***************************************************************************)
(* execute() says nothing after its outcome.                               *)
(***************************************************************************)

\* While execute() runs no outcome is in the queue, so whatever it enqueues
\* keeps OutcomeInv, if it returns with an outcome.
LEMMA EnqueueOutcome ==
  ASSUME TypeOK, OutcomeInv, NEW event \in Events, Enqueue(event), pc # "idle",
         IsOutcome(event) => pc' = "idle"
  PROVE  OutcomeInv'
<1>1. \A i \in 1..Len(events) : ~IsOutcome(events[i])
  BY DEF OutcomeInv
<1>2. CASE events' = events
  BY <1>1, <1>2 DEF OutcomeInv, NothingAfterOutcome
<1>3. CASE events' # events
  <2>0. PICK n \in Nat : n = Len(events)
    BY DEF TypeOK
  <2>1. /\ Len(events') = n + 1
        /\ \A i \in 1..n : ~IsOutcome(events'[i])
        /\ events'[n + 1] = event
    BY <1>1, <1>3, <2>0, Appending
  <2>2. \A i \in 1..(n + 1) : IsOutcome(events'[i]) => i = n + 1
    BY <2>1
  <2> QED
    BY <2>1, <2>2 DEF OutcomeInv, NothingAfterOutcome, IsOutcome
<1> QED
  BY <1>2, <1>3

\* Every place where execute() enqueues an outcome is followed by its return.
LEMMA ExecutorOutcome ==
  ASSUME TypeOK, OutcomeInv, ExecutorStep
  PROVE  OutcomeInv'
<1> USE EventTypes DEF Notes, States, ActionableStates, TerminalStates
<1>1. CASE Execute
  <2>1. events' \in {<<>>, <<TaskEvent>>}
    BY <1>1 DEF Execute, CanServe, Enqueue
  <2>2. \A i \in 1..Len(events') : ~IsOutcome(events'[i])
    BY <2>1 DEF TaskEvent, IsOutcome
  <2> QED
    BY <2>2 DEF OutcomeInv, NothingAfterOutcome, IsOutcome
<1>2. CASE StartSearch
  BY <1>2, EnqueueOutcome DEF StartSearch, Step, StatusEvent, IsOutcome
<1>3. CASE AskForDetails
  BY <1>3, EnqueueOutcome DEF AskForDetails, Step, StatusEvent, IsOutcome
<1>4. CASE AnnounceSearch
  BY <1>4, EnqueueOutcome DEF AnnounceSearch, Step, StatusEvent, IsOutcome
<1>5. CASE PublishOptions
  <2>1. FlightOptions(destination) \in Artifacts
    BY DEF FlightOptions, Artifacts, TypeOK
  <2> QED
    BY <1>5, <2>1, EnqueueOutcome DEF PublishOptions, Step, ArtifactEvent, IsOutcome
<1>6. CASE AskForChoice
  BY <1>6, EnqueueOutcome DEF AskForChoice, Step, StatusEvent, IsOutcome
<1>7. CASE StartBooking
  BY <1>7, EnqueueOutcome DEF StartBooking, Step, StatusEvent, IsOutcome
<1>8. CASE AnnounceBooking
  BY <1>8, EnqueueOutcome DEF AnnounceBooking, Step, StatusEvent, IsOutcome
<1>9. CASE PublishConfirmation
  <2>1. chosen \in Int
    BY TripAssumption DEF TypeOK
  <2>2. LineAt(chosen) \in 1..2
    BY <1>9, <2>1 DEF PublishConfirmation, IndexInRange, LineAt
  <2>3. BookingConfirmation(LineAt(chosen), destination) \in Artifacts
    BY <2>2 DEF BookingConfirmation, Artifacts, TypeOK
  <2> QED
    BY <1>9, <2>3, EnqueueOutcome DEF PublishConfirmation, Step, ArtifactEvent, IsOutcome
<1>10. CASE ChoiceOutOfRange
  BY <1>10, EnqueueOutcome DEF ChoiceOutOfRange, Step
<1>11. CASE CompleteBooking
  BY <1>11, EnqueueOutcome DEF CompleteBooking, Step
<1>12. CASE \E from \in {"parse", "search", "choose", "book"} : Fail(from)
  BY <1>12, EnqueueOutcome DEF Fail, Step
<1> QED
  BY <1>1, <1>2, <1>3, <1>4, <1>5, <1>6, <1>7, <1>8, <1>9, <1>10, <1>11, <1>12
     DEF ExecutorStep

\* Storing an event takes the first place off the queue and nothing else.
LEMMA StoreOutcome ==
  ASSUME TypeOK, OutcomeInv, Store
  PROVE  OutcomeInv'
<1>0. PICK n \in Nat \ {0} : n = Len(events)
  BY Storing
<1>1. CASE Finished'
  BY <1>1, Storing DEF OutcomeInv, NothingAfterOutcome
<1>2. CASE ~Finished'
  <2>1. /\ Len(events') = n - 1
        /\ \A i \in 1..(n - 1) : i + 1 \in 1..n /\ events'[i] = events[i + 1]
        /\ pc' = pc
    BY <1>0, <1>2, Storing DEF Store, Consume
  <2>2. NothingAfterOutcome'
    BY <1>0, <2>1 DEF OutcomeInv, NothingAfterOutcome, StatusEvent, IsOutcome
  <2>3. \A i \in 1..(n - 1) : IsOutcome(events'[i]) => pc = "idle"
    BY <1>0, <2>1 DEF OutcomeInv
  <2> QED
    BY <2>1, <2>2, <2>3 DEF OutcomeInv, IsOutcome
<1> QED
  BY <1>1, <1>2

\* execute() says nothing after its outcome.
THEOREM OutcomeIsLast == Spec => []NothingAfterOutcome
<1>1. Init => OutcomeInv
  BY DEF Init, RuntimeInit, OutcomeInv, NothingAfterOutcome
<1>2. TypeOK /\ OutcomeInv /\ [Next]_vars => OutcomeInv'
  <2> SUFFICES ASSUME TypeOK, OutcomeInv, [Next]_vars PROVE OutcomeInv'
    OBVIOUS
  <2>1. CASE UNCHANGED <<pc, events>>
    BY <2>1 DEF OutcomeInv, NothingAfterOutcome
  <2>2. ASSUME NEW m \in Messages, Send(m) PROVE OutcomeInv'
    BY <2>1, <2>2 DEF Send, SendMessage
  <2>3. CASE ExecutorStep
    BY <2>3, ExecutorOutcome
  <2>4. CASE Store
    BY <2>4, StoreOutcome
  <2>5. CASE Cancel
    <3>0. PICK n \in Nat : n = Len(events)
      BY DEF TypeOK
    <3>1. /\ pc' \in {pc, "idle"}
          /\ events' = Append(events, StatusEvent("CANCELED", "none"))
      BY <2>5 DEF Cancel, AcceptCancel, Enqueue
    <3>2. /\ Len(events') = n + 1
          /\ \A i \in 1..n : events'[i] = events[i]
          /\ events'[n + 1] = StatusEvent("CANCELED", "none")
      BY <3>0, <3>1 DEF TypeOK
    <3>3. ~IsOutcome(StatusEvent("CANCELED", "none"))
      BY DEF IsOutcome, StatusEvent
    <3>4. \A i \in 1..(n + 1) : IsOutcome(events'[i]) =>
            i \in 1..n /\ IsOutcome(events[i])
      BY <3>2, <3>3
    <3>5. NothingAfterOutcome'
      <4> SUFFICES ASSUME NEW i \in 1..(n + 1), NEW j \in 1..(n + 1),
                          i < j, IsOutcome(events'[i])
                   PROVE  events'[j] = StatusEvent("CANCELED", "none")
        BY <3>2 DEF NothingAfterOutcome, IsOutcome, StatusEvent
      <4>1. CASE j = n + 1
        BY <3>2, <4>1
      <4>2. CASE j \in 1..n
        BY <3>0, <3>2, <3>4, <4>2 DEF OutcomeInv, NothingAfterOutcome
      <4> QED
        BY <4>1, <4>2
    <3>6. \A i \in 1..(n + 1) : IsOutcome(events'[i]) => pc' = "idle"
      BY <3>0, <3>1, <3>4 DEF OutcomeInv
    <3> QED
      BY <3>2, <3>5, <3>6 DEF OutcomeInv, IsOutcome
  <2> QED
    BY <2>1, <2>2, <2>3, <2>4, <2>5 DEF Next, vars
<1>3. OutcomeInv => NothingAfterOutcome
  BY DEF OutcomeInv
<1> QED
  BY <1>1, <1>2, <1>3, TypeCorrect, PTL DEF Spec

-----------------------------------------------------------------------------
(***************************************************************************)
(* Every call works on the whole conversation.                             *)
(***************************************************************************)

\* The texts already served do not change when another message is accepted.
LEMMA SendTexts ==
  ASSUME TypeOK, NEW m \in Messages, Send(m)
  PROVE  Texts(served)' = Texts(served)
<1>1. /\ served' = served /\ served \in 0..Len(sent)
      /\ \A i \in 1..Len(sent) : sent'[i] = sent[i]
  BY DEF TypeOK, Send, SendMessage
<1>2. \A i \in 1..served : sent'[i].text = sent[i].text
  BY <1>1
<1> QED
  BY <1>1, <1>2 DEF Texts

\* The texts of one more message are the texts so far and its own.
LEMMA NextText ==
  ASSUME TypeOK, served + 1 \in 1..Len(sent)
  PROVE  Append(Texts(served), sent[served + 1].text) = Texts(served + 1)
<1>1. served \in Nat
  BY DEF TypeOK
<1>2. \A i \in 1..(served + 1) : sent[i].text \in Messages
  BY SentText, <1>1
<1>3. Texts(served) \in Seq(Messages) /\ Len(Texts(served)) = served
  BY <1>1, TextsType DEF Texts
<1>4. Texts(served + 1) \in [1..(served + 1) -> Messages]
  BY <1>2 DEF Texts
<1>5. Texts(served + 1) \in Seq(Messages) /\ Len(Texts(served + 1)) = served + 1
  BY <1>1, <1>4
<1> DEFINE longer == Append(Texts(served), sent[served + 1].text)
<1>6. longer \in Seq(Messages) /\ Len(longer) = served + 1
  BY <1>1, <1>2, <1>3
<1>7. ASSUME NEW i \in 1..(served + 1) PROVE longer[i] = Texts(served + 1)[i]
  <2>0. Texts(served + 1)[i] = sent[i].text
    BY DEF Texts
  <2>1. CASE i = served + 1
    <3>1. longer[served + 1] = sent[served + 1].text
      BY <1>1, <1>3
    <3> QED
      BY <2>0, <2>1, <3>1
  <2>2. CASE i \in 1..served
    <3>1. longer[i] = Texts(served)[i]
      BY <1>1, <1>2, <1>3, <2>2
    <3>2. Texts(served)[i] = sent[i].text
      BY <2>2 DEF Texts
    <3> QED
      BY <2>0, <3>1, <3>2
  <2>3. i = served + 1 \/ i \in 1..served
    BY <1>1
  <2> QED
    BY <2>1, <2>2, <2>3
<1> HIDE DEF longer
<1>8. longer = Texts(served + 1)
  BY <1>1, <1>5, <1>6, <1>7, SeqEqual
<1> QED
  BY <1>8 DEF longer

\* A running call keeps HistoryInv when it enqueues something.
LEMMA EnqueueHistory ==
  ASSUME TypeOK, HistoryInv, NEW event \in Events, Enqueue(event),
         UNCHANGED <<sent, served, task, conversation>>,
         pc' # "idle" => pc # "idle"
  PROVE  HistoryInv'
<1>1. Texts(served)' = Texts(served) /\ Finished' = Finished
  BY DEF Texts, Finished
<1>2. events' = <<>> => Finished
  BY Appending DEF TypeOK
<1> QED
  BY <1>1, <1>2 DEF HistoryInv, ConversationComplete

\* Every step of execute() keeps HistoryInv; the call starts from a history
\* that has caught up.
LEMMA ExecutorHistory ==
  ASSUME TypeOK, HistoryInv, ExecutorStep
  PROVE  HistoryInv'
<1> USE EventTypes DEF Notes, States, ActionableStates, TerminalStates
<1>1. CASE Execute
  <2>1. /\ pc = "idle" /\ events = <<>> /\ ~Finished
        /\ served' = served + 1 /\ served + 1 \in 1..Len(sent)
        /\ UNCHANGED <<sent, task>>
        /\ conversation' = Append(task.history, sent[served + 1].text)
        /\ pc' # "idle"
    BY <1>1 DEF Execute, CanServe, TypeOK
  <2>2. conversation' = Texts(served + 1)
    BY <2>1, NextText DEF HistoryInv
  <2>3. Texts(served)' = Texts(served + 1) /\ ~Finished'
    BY <2>1 DEF Texts, Finished
  <2> QED
    BY <2>1, <2>2, <2>3 DEF HistoryInv, ConversationComplete
<1>2. CASE StartSearch
  BY <1>2, EnqueueHistory DEF StartSearch, Step
<1>3. CASE AskForDetails
  BY <1>3, EnqueueHistory DEF AskForDetails, Step
<1>4. CASE AnnounceSearch
  BY <1>4, EnqueueHistory DEF AnnounceSearch, Step
<1>5. CASE PublishOptions
  <2>1. FlightOptions(destination) \in Artifacts
    BY DEF FlightOptions, Artifacts, TypeOK
  <2> QED
    BY <1>5, <2>1, EnqueueHistory DEF PublishOptions, Step
<1>6. CASE AskForChoice
  BY <1>6, EnqueueHistory DEF AskForChoice, Step
<1>7. CASE StartBooking
  BY <1>7, EnqueueHistory DEF StartBooking, Step
<1>8. CASE AnnounceBooking
  BY <1>8, EnqueueHistory DEF AnnounceBooking, Step
<1>9. CASE PublishConfirmation
  <2>1. chosen \in Int
    BY TripAssumption DEF TypeOK
  <2>2. LineAt(chosen) \in 1..2
    BY <1>9, <2>1 DEF PublishConfirmation, IndexInRange, LineAt
  <2>3. BookingConfirmation(LineAt(chosen), destination) \in Artifacts
    BY <2>2 DEF BookingConfirmation, Artifacts, TypeOK
  <2> QED
    BY <1>9, <2>3, EnqueueHistory DEF PublishConfirmation, Step
<1>10. CASE ChoiceOutOfRange
  BY <1>10, EnqueueHistory DEF ChoiceOutOfRange, Step
<1>11. CASE CompleteBooking
  BY <1>11, EnqueueHistory DEF CompleteBooking, Step
<1>12. CASE \E from \in {"parse", "search", "choose", "book"} : Fail(from)
  BY <1>12, EnqueueHistory DEF Fail, Step
<1> QED
  BY <1>1, <1>2, <1>3, <1>4, <1>5, <1>6, <1>7, <1>8, <1>9, <1>10, <1>11, <1>12
     DEF ExecutorStep

\* Whatever event is stored, the history is then that of the running call.
LEMMA StoreHistory ==
  ASSUME TypeOK, HistoryInv, Store
  PROVE  HistoryInv'
<1>1. /\ events[1] \in Events
      /\ task' = Stored(events[1])
      /\ UNCHANGED <<sent, served, pc, conversation>>
  BY Storing DEF Store, Consume
<1>2. task'.history = Texts(served)
  BY <1>1 DEF Stored, TypeOK, TaskRecords, Events
<1>3. Texts(served)' = Texts(served)
  BY <1>1 DEF Texts
<1> QED
  BY <1>1, <1>2, <1>3 DEF HistoryInv, ConversationComplete

\* Every call works on the whole conversation.
THEOREM ConversationsComplete == Spec => []ConversationComplete
<1>1. Init => HistoryInv
  <2> SUFFICES ASSUME Init PROVE HistoryInv
    OBVIOUS
  <2>1. served = 0 /\ pc = "idle" /\ task.history = <<>>
    BY DEF Init, RuntimeInit, NoTask
  <2>2. Texts(served) = <<>>
    BY <2>1 DEF Texts
  <2> QED
    BY <2>1, <2>2 DEF HistoryInv, ConversationComplete
<1>2. TypeOK /\ HistoryInv /\ [Next]_vars => HistoryInv'
  <2> SUFFICES ASSUME TypeOK, HistoryInv, [Next]_vars PROVE HistoryInv'
    OBVIOUS
  <2>1. ASSUME NEW m \in Messages, Send(m) PROVE HistoryInv'
    <3>1. Texts(served)' = Texts(served)
      BY <2>1, SendTexts
    <3> QED
      BY <2>1, <3>1 DEF Send, SendMessage, HistoryInv, ConversationComplete, Finished
  <2>2. CASE ExecutorStep
    BY <2>2, ExecutorHistory
  <2>3. CASE Store
    BY <2>3, StoreHistory
  <2>4. CASE Cancel
    <3>1. PICK event \in Events : event = StatusEvent("CANCELED", "none")
      BY EventTypes DEF Notes, States, ActionableStates, TerminalStates
    <3>2. /\ pc' \in {pc, "idle"} /\ Enqueue(event)
          /\ UNCHANGED <<sent, served, task, conversation>>
      BY <2>4, <3>1 DEF Cancel, AcceptCancel
    <3> QED
      BY <3>2, EnqueueHistory
  <2>5. CASE UNCHANGED vars
    BY <2>5 DEF vars, HistoryInv, ConversationComplete, Texts, Finished
  <2> QED
    BY <2>1, <2>2, <2>3, <2>4, <2>5 DEF Next
<1>3. HistoryInv => ConversationComplete
  BY DEF HistoryInv
<1> QED
  BY <1>1, <1>2, <1>3, TypeCorrect, PTL DEF Spec
-----------------------------------------------------------------------------
(***************************************************************************)
(* What execute() says in one step, and where it stands before and after.  *)
(***************************************************************************)
Utters(event) ==
  /\ Enqueue(event)
  /\ UNCHANGED <<sent, served, cancelled, task>>
  /\ \/ /\ event.kind = "status" /\ event.state = "WORKING" /\ event.note # "missing"
        /\ \/ pc = "begin" /\ pc' = "parse"
           \/ pc = "parse" /\ pc' = "search"
           \/ pc = "resume" /\ pc' = "choose"
           \/ pc = "choose" /\ pc' = "book"
     \/ /\ event.kind = "status" /\ event.state = "INPUT_REQUIRED" /\ pc' = "idle"
        /\ \/ pc = "parse" /\ event.note = "missing"
           \/ pc = "ask" /\ event.note = "choose"
     \/ /\ event.kind = "artifact" /\ event.artifact.id = "flight-options"
        /\ pc = "search" /\ pc' = "ask"
     \/ /\ event.kind = "artifact" /\ event.artifact.id = "booking-confirmation"
        /\ pc = "book" /\ pc' = "complete"
     \/ /\ event.kind = "status" /\ event.state = "FAILED" /\ event.note # "missing"
        /\ pc \in {"parse", "search", "choose", "book"} /\ pc' = "idle"
     \/ /\ event.kind = "status" /\ event.state = "COMPLETED" /\ event.note # "missing"
        /\ pc = "complete" /\ pc' = "idle"

\* Every step of execute() but its start says something.
LEMMA ExecutorUtters ==
  ASSUME TypeOK, ExecutorStep, ~Execute
  PROVE  \E event \in Events : Utters(event)
<1>0. ASSUME NEW from, NEW state \in States, NEW note \in Notes, NEW next,
             Step(from, StatusEvent(state, note), next),
             \/ /\ state = "WORKING" /\ note # "missing"
                /\ \/ from = "begin" /\ next = "parse"
                   \/ from = "parse" /\ next = "search"
                   \/ from = "resume" /\ next = "choose"
                   \/ from = "choose" /\ next = "book"
             \/ /\ state = "INPUT_REQUIRED" /\ next = "idle"
                /\ \/ from = "parse" /\ note = "missing"
                   \/ from = "ask" /\ note = "choose"
             \/ /\ state = "FAILED" /\ note # "missing"
                /\ from \in {"parse", "search", "choose", "book"} /\ next = "idle"
             \/ /\ state = "COMPLETED" /\ note # "missing"
                /\ from = "complete" /\ next = "idle"
      PROVE  \E event \in Events : Utters(event)
  <2>1. PICK event \in Events : event = StatusEvent(state, note)
    BY EventTypes
  <2>2. event.kind = "status" /\ event.state = state /\ event.note = note
    BY <2>1 DEF StatusEvent
  <2>3. Utters(event)
    BY <1>0, <2>1, <2>2 DEF Step, Utters
  <2> QED
    BY <2>3
<1>1. CASE StartSearch \/ AskForDetails \/ AskForChoice \/ StartBooking
  BY <1>0, <1>1
     DEF StartSearch, AskForDetails, AskForChoice, StartBooking, Notes, States,
         ActionableStates, TerminalStates
<1>2. CASE AnnounceSearch \/ AnnounceBooking
  BY <1>0, <1>2
     DEF AnnounceSearch, AnnounceBooking, Notes, States, ActionableStates, TerminalStates
<1>3. CASE ChoiceOutOfRange \/ CompleteBooking
  BY <1>0, <1>3
     DEF ChoiceOutOfRange, CompleteBooking, Notes, States, ActionableStates, TerminalStates
<1>4. CASE \E from \in {"parse", "search", "choose", "book"} : Fail(from)
  BY <1>0, <1>4 DEF Fail, Notes, States, ActionableStates, TerminalStates
<1>5. CASE PublishOptions
  <2>1. FlightOptions(destination) \in Artifacts
    BY DEF FlightOptions, Artifacts, TypeOK
  <2>2. PICK event \in Events : event = ArtifactEvent(FlightOptions(destination))
    BY <2>1, EventTypes
  <2>3. event.kind = "artifact" /\ event.artifact.id = "flight-options"
    BY <2>2 DEF ArtifactEvent, FlightOptions
  <2>4. Utters(event)
    BY <1>5, <2>2, <2>3 DEF PublishOptions, Step, Utters
  <2> QED
    BY <2>4
<1>6. CASE PublishConfirmation
  <2>1. chosen \in Int
    BY TripAssumption DEF TypeOK
  <2>2. LineAt(chosen) \in 1..2
    BY <1>6, <2>1 DEF PublishConfirmation, IndexInRange, LineAt
  <2>3. BookingConfirmation(LineAt(chosen), destination) \in Artifacts
    BY <2>2 DEF BookingConfirmation, Artifacts, TypeOK
  <2>4. PICK event \in Events :
          event = ArtifactEvent(BookingConfirmation(LineAt(chosen), destination))
    BY <2>3, EventTypes
  <2>5. event.kind = "artifact" /\ event.artifact.id = "booking-confirmation"
    BY <2>4 DEF ArtifactEvent, BookingConfirmation
  <2>6. Utters(event)
    BY <1>6, <2>4, <2>5 DEF PublishConfirmation, Step, Utters
  <2> QED
    BY <2>6
<1> QED
  BY <1>1, <1>2, <1>3, <1>4, <1>5, <1>6 DEF ExecutorStep

\* The types of the runtime are among the types of the agent.
LEMMA RuntimeTypes ==
  ASSUME TypeOK
  PROVE  RuntimeTypeOK(Notes, Artifacts) /\ events \in Seq(Events)
BY DEF TypeOK, RuntimeTypeOK, RecordsWith, TaskRecords, EventsWith, Events

\* What is published in a queue that has grown was there, or is the new event.
LEMMA PublishesGrown ==
  ASSUME TypeOK, NEW event \in Events, Enqueue(event), UNCHANGED task,
         NEW i \in 1..Len(events'), NEW id, Publishes(i, id)'
  PROVE  \/ i \in 1..Len(events) /\ Publishes(i, id)
         \/ i = Len(events) + 1 /\ event.kind = "artifact" /\ event.artifact.id = id
BY AppendedAt, RuntimeTypes DEF Publishes

\* What is published in a queue that was taken from was one place further back.
LEMMA PublishesTaken ==
  ASSUME TypeOK, Store, NEW i \in 1..Len(events'), NEW id, Publishes(i, id)'
  PROVE  i + 1 \in 1..Len(events) /\ Publishes(i + 1, id)
BY TakenAt, ConsumeTyped, RuntimeTypes DEF Publishes, Store

-----------------------------------------------------------------------------
(***************************************************************************)
(* Wherever execute() stands, the task will be ready for what it says next.*)
(***************************************************************************)
JourneyInv ==
  /\ QueueInv({"WORKING"})
  /\ pc \in {"begin", "resume"} => Ready(Len(events) + 1, OpenStates)
  /\ pc \in {"parse", "search", "ask", "choose", "book", "complete"} =>
       Ready(Len(events) + 1, {"WORKING"})

\* Every step keeps that up.
LEMMA JourneyKept ==
  ASSUME TypeOK, JourneyInv, [Next]_vars
  PROVE  JourneyInv'
<1>0. events \in Seq(Events) /\ RuntimeTypeOK(Notes, Artifacts)
  BY RuntimeTypes
<1>1. CASE UNCHANGED <<pc, events, task>>
  BY <1>1, NothingMoved DEF JourneyInv
<1>2. CASE Execute
  <2>1. events = <<>> /\ ~Finished /\ task' = task /\ pc' \in {"begin", "resume"}
    BY <1>2 DEF Execute, CanServe
  <2>2. CASE Exists
    <3>1. events' = events
      BY <1>2, <2>2 DEF Execute
    <3>2. task.state \in OpenStates
      BY <2>1, <2>2
         DEF Exists, Finished, OpenStates, TypeOK, TaskRecords, States, ActionableStates
    <3>3. Ready(Len(events) + 1, OpenStates)
      BY <1>0, <2>1, <3>2, ReadyFirst
    <3> QED
      BY <2>1, <3>1, <3>3, NothingMoved DEF JourneyInv
  <2>3. CASE ~Exists
    <3>1. PICK event \in Events : event = TaskEvent
      BY EventTypes
    <3>2. Enqueue(event) /\ event.kind = "task" /\ Needs(event, {"WORKING"}) = {"NONE"}
      BY <1>2, <2>3, <3>1 DEF Execute, TaskEvent, Needs
    <3>3. Ready(Len(events) + 1, Needs(event, {"WORKING"}))
      BY <1>0, <2>1, <2>3, <3>2, ReadyFirst DEF Exists
    <3>4. QueueInv({"WORKING"})'
      BY <1>0, <2>1, <3>2, <3>3, QueueEnqueued DEF JourneyInv, OpenStates
    <3>5. ChangesState(event) /\ StateOf(event) \in OpenStates \union TerminalStates
      BY <3>2 DEF ChangesState, StateOf, OpenStates
    <3>6. Ready(Len(events) + 1, OpenStates)'
      BY <1>0, <2>1, <3>2, <3>5, ReadyBehind
    <3> QED
      BY <2>1, <3>4, <3>6 DEF JourneyInv
  <2> QED
    BY <2>2, <2>3
<1>3. ASSUME NEW event \in Events, Utters(event) PROVE JourneyInv'
  <2>1. Enqueue(event) /\ task' = task
    BY <1>3 DEF Utters
  <2>2. Ready(Len(events) + 1, Needs(event, {"WORKING"}))
    <3>1. CASE event.kind = "status" /\ event.state = "WORKING"
      <4>1. Needs(event, {"WORKING"}) = OpenStates /\ {"WORKING"} \subseteq OpenStates
        BY <3>1 DEF Needs, OpenStates
      <4>2. Ready(Len(events) + 1, OpenStates)
        BY <1>3, <3>1, <4>1, ReadyWeaker DEF Utters, JourneyInv
      <4> QED
        BY <4>1, <4>2
    <3>2. CASE ~(event.kind = "status" /\ event.state = "WORKING")
      <4>1. Needs(event, {"WORKING"}) = {"WORKING"}
        BY <1>3, <3>2 DEF Utters, Needs
      <4>2. pc \in {"parse", "search", "ask", "choose", "book", "complete"}
        BY <1>3, <3>2 DEF Utters
      <4> QED
        BY <4>1, <4>2 DEF JourneyInv
    <3> QED
      BY <3>1, <3>2
  <2>3. event.kind = "status" => event.state \in {"WORKING"} \union ActionableStates
    BY <1>3 DEF Utters, ActionableStates, TerminalStates
  <2>4. QueueInv({"WORKING"})'
    BY <1>0, <2>1, <2>2, <2>3, QueueEnqueued DEF JourneyInv, OpenStates
  <2>5. pc' \notin {"begin", "resume"}
    BY <1>3 DEF Utters
  <2>6. pc' # "idle" => Ready(Len(events) + 1, {"WORKING"})'
    <3>1. SUFFICES ASSUME pc' # "idle" PROVE Ready(Len(events) + 1, {"WORKING"})'
      OBVIOUS
    <3>2. CASE event.kind = "status"
      <4>1. ChangesState(event) /\ StateOf(event) \in {"WORKING"} \union TerminalStates
        BY <1>3, <3>1, <3>2 DEF Utters, ChangesState, StateOf
      <4> QED
        BY <1>0, <2>1, <4>1, ReadyBehind
    <3>3. CASE event.kind = "artifact"
      <4>1. ~ChangesState(event) /\ Needs(event, {"WORKING"}) = {"WORKING"}
        BY <3>3 DEF ChangesState, Needs
      <4> QED
        BY <1>0, <2>1, <2>2, <4>1, ReadyBehind
    <3> QED
      BY <1>3, <3>2, <3>3 DEF Utters
  <2> QED
    BY <2>4, <2>5, <2>6 DEF JourneyInv
<1>4. CASE Store
  <2>1. Takes /\ pc' = pc
    BY <1>0, <1>4, ConsumeTyped DEF Store, Consume
  <2>2. QueueInv({"WORKING"})' /\ ~Finished
    BY <1>0, <2>1, QueueTaken, TakenInState DEF JourneyInv
  <2>3. \A S : Ready(Len(events) + 1, S) => Ready(Len(events) + 1, S)'
    BY <1>0, <2>1, <2>2, ReadyStays
  <2>4. pc' \in {"begin", "resume"} => Ready(Len(events) + 1, OpenStates)'
    BY <2>1, <2>3 DEF JourneyInv
  <2>5. pc' \in {"parse", "search", "ask", "choose", "book", "complete"} =>
          Ready(Len(events) + 1, {"WORKING"})'
    BY <2>1, <2>3 DEF JourneyInv
  <2> QED
    BY <2>2, <2>4, <2>5 DEF JourneyInv
<1>5. CASE Cancel
  <2>1. /\ Exists /\ task' = task /\ Enqueue(StatusEvent("CANCELED", "none"))
        /\ StatusEvent("CANCELED", "none") \in Events
    BY <1>5, EventTypes
       DEF Cancel, AcceptCancel, Notes, States, ActionableStates, TerminalStates
  <2>2. QueueInv({"WORKING"})' /\ \A S : Ready(Len(events) + 1, S)'
    BY <1>0, <2>1, CancelQueued DEF JourneyInv, OpenStates
  <2>3. Ready(Len(events) + 1, OpenStates)' /\ Ready(Len(events) + 1, {"WORKING"})'
    BY <2>2
  <2> QED
    BY <2>2, <2>3 DEF JourneyInv
<1> QED
  BY <1>1, <1>2, <1>3, <1>4, <1>5, ExecutorUtters DEF Next, vars, Send, SendMessage

-----------------------------------------------------------------------------
(***************************************************************************)
(* One confirmation: the call that publishes it ends the task, so that no  *)
(* later call publishes another.                                           *)
(***************************************************************************)
ConfirmInv ==
  /\ pc \notin {"idle", "complete"} =>
       /\ ~Delivered("booking-confirmation")
       /\ \A i \in 1..Len(events) : ~Publishes(i, "booking-confirmation")
  /\ pc = "idle" /\ Coming("booking-confirmation", Len(events) + 1) =>
       Ready(Len(events) + 1, {})
  /\ \A i \in 1..Len(events) : Publishes(i, "booking-confirmation") =>
       /\ ~Delivered("booking-confirmation")
       /\ \A j \in 1..Len(events) : Publishes(j, "booking-confirmation") => j = i

\* On its way to everything behind the queue: stored, or anywhere in the queue.
LEMMA ComingAnywhere ==
  ASSUME events \in Seq(Events), NEW id
  PROVE  Coming(id, Len(events) + 1) <=>
           Delivered(id) \/ \E i \in 1..Len(events) : Publishes(i, id)
BY DEF Coming

\* Every step keeps that up.
LEMMA ConfirmKept ==
  ASSUME TypeOK, JourneyInv, ConfirmInv, [Next]_vars
  PROVE  ConfirmInv'
<1> DEFINE Ours == "booking-confirmation"
<1>0. /\ events \in Seq(Events)
      /\ RuntimeTypeOK(Notes, Artifacts)
      /\ Finished => events = <<>>
  BY RuntimeTypes DEF JourneyInv, QueueInv
<1>1. CASE UNCHANGED <<pc, events, task>>
  BY <1>1, NothingMoved DEF ConfirmInv, Publishes
<1>2. CASE Execute
  <2>1. /\ events = <<>> /\ ~Finished /\ task' = task /\ pc = "idle" /\ pc' # "idle"
        /\ events' \in {<<>>, <<TaskEvent>>}
    BY <1>2 DEF Execute, CanServe, Enqueue
  <2>2. ~Ready(Len(events) + 1, {})
    BY <1>0, <2>1, ReadyFirst
  <2>3. ~Delivered(Ours)
    BY <2>1, <2>2 DEF ConfirmInv, Coming
  <2>4. \A i \in 1..Len(events') : ~Publishes(i, Ours)'
    BY <2>1 DEF Publishes, TaskEvent
  <2> QED
    BY <2>1, <2>3, <2>4 DEF ConfirmInv, Delivered
<1>3. ASSUME NEW event \in Events, Utters(event) PROVE ConfirmInv'
  <2>1. Enqueue(event) /\ task' = task /\ pc # "idle"
        /\ (pc = "complete" => pc' = "idle")
    BY <1>3 DEF Utters
  <2>2. Delivered(Ours)' <=> Delivered(Ours)
    BY <2>1 DEF Delivered
  <2>3. ASSUME NEW i \in 1..Len(events'), Publishes(i, Ours)'
        PROVE  \/ i \in 1..Len(events) /\ Publishes(i, Ours) /\ pc = "complete"
               \/ i = Len(events) + 1 /\ pc = "book" /\ pc' = "complete"
    BY <1>3, <2>1, <2>3, PublishesGrown DEF Utters, ConfirmInv
  <2>4. pc' \notin {"idle", "complete"} =>
          ~Delivered(Ours)' /\ \A i \in 1..Len(events') : ~Publishes(i, Ours)'
    BY <2>1, <2>2, <2>3 DEF ConfirmInv
  <2>5. pc' = "idle" /\ Coming(Ours, Len(events) + 1)' => Ready(Len(events) + 1, {})'
    <3>1. SUFFICES ASSUME pc' = "idle", Coming(Ours, Len(events) + 1)'
                   PROVE  Ready(Len(events) + 1, {})'
      OBVIOUS
    <3>2. pc = "complete"
      <4>1. Delivered(Ours)' \/ \E i \in 1..Len(events') : Publishes(i, Ours)'
        BY <3>1 DEF Coming
      <4> QED
        BY <2>1, <2>2, <2>3, <3>1, <4>1 DEF ConfirmInv
    <3>3. ChangesState(event) /\ StateOf(event) \in {} \union TerminalStates
      BY <1>3, <3>2 DEF Utters, ChangesState, StateOf, TerminalStates
    <3> QED
      BY <1>0, <2>1, <3>3, ReadyBehind
  <2>6. ASSUME NEW i \in 1..Len(events'), Publishes(i, Ours)'
        PROVE  /\ ~Delivered(Ours)'
               /\ \A j \in 1..Len(events') : Publishes(j, Ours)' => j = i
    <3>1. CASE pc = "book"
      BY <2>2, <2>3, <2>6, <3>1 DEF ConfirmInv
    <3>2. CASE pc # "book"
      BY <2>2, <2>3, <2>6, <3>2 DEF ConfirmInv
    <3> QED
      BY <3>1, <3>2
  <2> QED
    BY <2>4, <2>5, <2>6 DEF ConfirmInv
<1>4. CASE Store
  <2>1. Takes /\ pc' = pc /\ events # <<>> /\ ~Finished
    BY <1>0, <1>4, ConsumeTyped DEF Store, Consume
  <2>2. Len(events) \in Nat \ {0}
    BY <1>0, <2>1
  <2>3. ASSUME NEW i \in 1..Len(events'), Publishes(i, Ours)'
        PROVE  i + 1 \in 1..Len(events) /\ Publishes(i + 1, Ours)
    BY <1>4, <2>3, PublishesTaken
  <2>4. Delivered(Ours)' => Delivered(Ours) \/ Publishes(1, Ours)
    BY <1>4, StoringKeeps
  <2>5. pc' \notin {"idle", "complete"} =>
          ~Delivered(Ours)' /\ \A i \in 1..Len(events') : ~Publishes(i, Ours)'
    BY <2>1, <2>2, <2>3, <2>4 DEF ConfirmInv
  <2>6. pc' = "idle" /\ Coming(Ours, Len(events) + 1)' => Ready(Len(events) + 1, {})'
    <3>1. Coming(Ours, Len(events) + 1)' => Coming(Ours, Len(events) + 1)
      <4>1. SUFFICES ASSUME Coming(Ours, Len(events) + 1)'
                     PROVE  Delivered(Ours) \/ \E i \in 1..Len(events) : Publishes(i, Ours)
        BY <1>0, ComingAnywhere
      <4>2. Delivered(Ours)' \/ \E i \in 1..Len(events') : Publishes(i, Ours)'
        BY <4>1 DEF Coming
      <4>3. 1 \in 1..Len(events)
        BY <2>2
      <4> QED
        BY <2>3, <2>4, <4>2, <4>3
    <3>2. Ready(Len(events) + 1, {}) => Ready(Len(events) + 1, {})'
      BY <1>0, <2>1, ReadyStays
    <3> QED
      BY <2>1, <3>1, <3>2 DEF ConfirmInv
  <2>7. ASSUME NEW i \in 1..Len(events'), Publishes(i, Ours)'
        PROVE  /\ ~Delivered(Ours)'
               /\ \A j \in 1..Len(events') : Publishes(j, Ours)' => j = i
    <3>1. i + 1 \in 1..Len(events) /\ Publishes(i + 1, Ours) /\ i \in Nat \ {0}
      BY <2>3, <2>7
    <3>2. ~Delivered(Ours)
          /\ \A j \in 1..Len(events) : Publishes(j, Ours) => j = i + 1
      BY <3>1 DEF ConfirmInv
    <3>3. ~Publishes(1, Ours)
      BY <2>2, <3>1, <3>2
    <3>4. \A j \in 1..Len(events') : Publishes(j, Ours)' => j + 1 = i + 1
      BY <2>3, <3>2
    <3> QED
      BY <2>4, <3>1, <3>2, <3>3, <3>4
  <2> QED
    BY <2>5, <2>6, <2>7 DEF ConfirmInv
<1>5. CASE Cancel
  <2>1. PICK event \in Events : event = StatusEvent("CANCELED", "none")
    BY EventTypes DEF Notes, States, ActionableStates, TerminalStates
  <2>2. Exists /\ task' = task /\ Enqueue(event) /\ pc' \in {pc, "idle"}
    BY <1>5, <2>1 DEF Cancel, AcceptCancel
  <2>3. Ready(Len(events) + 1, {})'
    BY <1>0, <2>1, <2>2, CancelQueued DEF JourneyInv, OpenStates
  <2>4. event.kind # "artifact"
    BY <2>1 DEF StatusEvent
  <2>5. ASSUME NEW i \in 1..Len(events'), Publishes(i, Ours)'
        PROVE  i \in 1..Len(events) /\ Publishes(i, Ours)
    BY <2>2, <2>4, <2>5, PublishesGrown
  <2>6. Delivered(Ours)' <=> Delivered(Ours)
    BY <2>2 DEF Delivered
  <2> QED
    BY <2>2, <2>3, <2>5, <2>6 DEF ConfirmInv
<1> QED
  BY <1>1, <1>2, <1>3, <1>4, <1>5, ExecutorUtters DEF Next, vars, Send, SendMessage

-----------------------------------------------------------------------------
(***************************************************************************)
(* The question for details is a status the next one replaces: no options  *)
(* reach the store while it is shown, because whoever publishes them has   *)
(* said before that it is searching.                                       *)
(***************************************************************************)
StatusUnderWay(i) == \E k \in 1..Len(events) : k < i /\ events[k].kind = "status"

NoteInv ==
  /\ \A i \in 1..Len(events) : events[i].kind = "status" /\ events[i].note = "missing" =>
       /\ pc = "idle"
       /\ ~Delivered("flight-options")
       /\ \A j \in 1..Len(events) : ~Publishes(j, "flight-options")
  /\ task.note = "missing" /\ pc \in {"parse", "search"} =>
       Finished \/ StatusUnderWay(Len(events) + 1)
  /\ task.note = "missing" =>
       \A i \in 1..Len(events) : Publishes(i, "flight-options") => StatusUnderWay(i)
  /\ NoQuestionAfterOptions

\* A status stays where it is while the queue grows.
LEMMA StatusGrown ==
  ASSUME TypeOK, NEW event \in Events, Enqueue(event), UNCHANGED task
  PROVE  /\ \A i \in 1..Len(events) + 1 : StatusUnderWay(i) => StatusUnderWay(i)'
         /\ StatusUnderWay(Len(events) + 1) => StatusUnderWay(Len(events) + 1)'
         /\ event.kind = "status" => Finished' \/ StatusUnderWay(Len(events) + 1)'
<1>0. PICK n \in Nat : n = Len(events)
  BY DEF TypeOK
<1>1. CASE Finished /\ events' = events
  BY <1>1 DEF Finished, StatusUnderWay
<1>2. CASE /\ Len(events') = n + 1
           /\ \A i \in 1..n : events'[i] = events[i]
           /\ events'[n + 1] = event
  <2>1. ASSUME NEW i \in 1..n + 1, StatusUnderWay(i) PROVE StatusUnderWay(i)'
    BY <1>0, <1>2, <2>1 DEF StatusUnderWay
  <2>2. StatusUnderWay(n + 1) => StatusUnderWay(n + 2)'
    BY <1>0, <1>2 DEF StatusUnderWay
  <2>3. event.kind = "status" => StatusUnderWay(n + 2)'
    BY <1>0, <1>2 DEF StatusUnderWay
  <2>4. (Len(events) + 1)' = n + 2 /\ Len(events) + 1 = n + 1
    BY <1>0, <1>2
  <2>5. StatusUnderWay(Len(events) + 1)' <=> StatusUnderWay(n + 2)'
    BY <2>4 DEF StatusUnderWay
  <2> QED
    BY <1>0, <2>1, <2>2, <2>3, <2>4, <2>5
<1> QED
  BY <1>0, <1>1, <1>2, Appending

\* A status that is not the one being stored is one place closer afterwards.
LEMMA StatusTaken ==
  ASSUME TypeOK, Store, ~Finished', events[1].kind # "status"
  PROVE  /\ \A i \in 1..Len(events) : StatusUnderWay(i + 1) => StatusUnderWay(i)'
         /\ StatusUnderWay(Len(events) + 1) => StatusUnderWay(Len(events) + 1)'
<1>0. PICK n \in Nat \ {0} : n = Len(events)
  BY Storing
<1>1. Len(events') = n - 1 /\ \A i \in 1..n - 1 : events'[i] = events[i + 1]
  BY <1>0, Storing
<1>2. ASSUME NEW i \in 1..n, StatusUnderWay(i + 1) PROVE StatusUnderWay(i)'
  <2>1. PICK k \in 1..n : k < i + 1 /\ events[k].kind = "status"
    BY <1>0, <1>2 DEF StatusUnderWay
  <2>2. k # 1
    BY <2>1
  <2>3. k - 1 \in 1..n - 1 /\ k - 1 < i /\ events'[k - 1] = events[k]
    BY <1>1, <2>1, <2>2
  <2> QED
    BY <1>1, <2>1, <2>3 DEF StatusUnderWay
<1>3. (Len(events) + 1)' = n
  BY <1>1
<1>4. StatusUnderWay(Len(events) + 1)' <=> StatusUnderWay(n)'
  BY <1>3 DEF StatusUnderWay
<1>5. n \in 1..n
  OBVIOUS
<1> QED
  BY <1>0, <1>2, <1>4, <1>5

\* Storing an event keeps NoteInv.
LEMMA NoteStored ==
  ASSUME TypeOK, JourneyInv, NoteInv, Store
  PROVE  NoteInv'
<1> DEFINE Options1 == "flight-options"
<1>1. /\ task'.note = IF events[1].kind = "status" THEN events[1].note ELSE task.note
      /\ pc' = pc /\ ~Finished /\ Len(events) \in Nat \ {0} /\ 1 \in 1..Len(events)
  <2>1. Len(events) \in Nat \ {0} /\ 1 \in 1..Len(events)
    BY Storing
  <2>2. pc' = pc /\ ~Finished
    BY DEF Store, Consume, JourneyInv, QueueInv
  <2> QED
    BY <2>1, <2>2, RuntimeTypes, ConsumeTyped DEF Store
<1>2. ASSUME NEW i \in 1..Len(events')
      PROVE  /\ ~Finished' /\ i + 1 \in 1..Len(events) /\ events'[i] = events[i + 1]
             /\ Publishes(i, Options1)' => Publishes(i + 1, Options1)
  BY <1>2, Storing DEF Publishes
<1>3. Delivered(Options1)' => Delivered(Options1) \/ Publishes(1, Options1)
  BY StoringKeeps
<1>4. ASSUME NEW i \in 1..Len(events'), events'[i].kind = "status", events'[i].note = "missing"
      PROVE  /\ pc' = "idle" /\ ~Delivered(Options1)'
             /\ \A j \in 1..Len(events') : ~Publishes(j, Options1)'
  <2>1. i + 1 \in 1..Len(events) /\ events[i + 1].kind = "status" /\ events[i + 1].note = "missing"
    BY <1>2, <1>4
  <2>2. pc = "idle" /\ ~Delivered(Options1) /\ \A j \in 1..Len(events) : ~Publishes(j, Options1)
    BY <2>1 DEF NoteInv
  <2> QED
    BY <1>1, <1>2, <1>3, <2>2
<1>5. CASE events[1].kind = "status"
  <2>1. SUFFICES ASSUME task'.note = "missing"
                 PROVE  /\ pc # "parse" /\ pc # "search"
                        /\ \A i \in 1..Len(events') : ~Publishes(i, Options1)'
                        /\ ~Delivered(Options1)'
    BY <1>1, <1>4 DEF NoteInv, NoQuestionAfterOptions, Options, Delivered
  <2>2. pc = "idle" /\ ~Delivered(Options1) /\ \A j \in 1..Len(events) : ~Publishes(j, Options1)
    BY <1>1, <1>5, <2>1 DEF NoteInv
  <2> QED
    BY <1>1, <1>2, <1>3, <2>2
<1>6. CASE events[1].kind # "status"
  <2>1. SUFFICES ASSUME task'.note = "missing", task.note = "missing"
                 PROVE  /\ pc \in {"parse", "search"} =>
                             Finished' \/ StatusUnderWay(Len(events) + 1)'
                        /\ \A i \in 1..Len(events') : Publishes(i, Options1)' => StatusUnderWay(i)'
                        /\ ~Delivered(Options1)'
    BY <1>1, <1>4, <1>6 DEF NoteInv, NoQuestionAfterOptions, Options, Delivered
  <2>2. pc \in {"parse", "search"} => Finished' \/ StatusUnderWay(Len(events) + 1)'
    BY <1>1, <1>6, <2>1, StatusTaken DEF NoteInv
  <2>3. ASSUME NEW i \in 1..Len(events'), Publishes(i, Options1)'
        PROVE  StatusUnderWay(i)'
    <3>1. i \in 1..Len(events) /\ i + 1 \in 1..Len(events) /\ Publishes(i + 1, Options1)
      BY <1>1, <1>2, <2>3
    <3>2. StatusUnderWay(i + 1)
      BY <2>1, <3>1 DEF NoteInv
    <3> QED
      BY <1>2, <1>6, <3>1, <3>2, StatusTaken
  <2>4. ~Delivered(Options1)'
    <3>1. ~Delivered(Options1)
      BY <2>1 DEF NoteInv, NoQuestionAfterOptions, Options, Delivered
    <3>2. Publishes(1, Options1) => StatusUnderWay(1)
      BY <1>1, <2>1 DEF NoteInv
    <3>3. ~StatusUnderWay(1)
      BY DEF StatusUnderWay
    <3> QED
      BY <1>3, <3>1, <3>2, <3>3
  <2> QED
    BY <2>2, <2>3, <2>4
<1> QED
  BY <1>5, <1>6

\* Every step keeps it.
LEMMA NoteKept ==
  ASSUME TypeOK, OptionsInv, JourneyInv, NoteInv, [Next]_vars
  PROVE  NoteInv'
<1> DEFINE Options1 == "flight-options"
<1>0. /\ events \in Seq(Events)
      /\ Finished => events = <<>>
  BY RuntimeTypes DEF JourneyInv, QueueInv
<1>1. CASE UNCHANGED <<pc, events, task>>
  BY <1>1
     DEF NoteInv, StatusUnderWay, NoQuestionAfterOptions, Options, Delivered, Publishes, Finished
<1>2. CASE Execute
  <2>1. /\ task' = task /\ pc' \in {"begin", "resume"}
        /\ events' \in {<<>>, <<TaskEvent>>}
    BY <1>2 DEF Execute, CanServe, Enqueue
  <2>2. \A i \in 1..Len(events') : events'[i].kind = "task"
    BY <2>1 DEF TaskEvent
  <2>3. NoQuestionAfterOptions'
    BY <2>1 DEF NoteInv, NoQuestionAfterOptions, Options
  <2> QED
    BY <2>1, <2>2, <2>3 DEF NoteInv, Publishes
<1>3. ASSUME NEW event \in Events, Enqueue(event), UNCHANGED task,
             pc = "idle" => pc' = "idle",
             pc' \in {"parse", "search"} => event.kind = "status" \/ pc' = pc,
             event.kind = "status" /\ event.note = "missing" => pc = "parse" /\ pc' = "idle",
             event.kind = "artifact" /\ event.artifact.id = Options1 => pc = "search"
      PROVE  NoteInv'
  <2>1. ASSUME NEW i \in 1..Len(events')
        PROVE  \/ i \in 1..Len(events) /\ events'[i] = events[i]
               \/ ~Finished /\ i = Len(events) + 1 /\ events'[i] = event
    BY <1>0, <1>3, <2>1, AppendedAt
  <2>2. ASSUME NEW i \in 1..Len(events'), Publishes(i, Options1)'
        PROVE  \/ i \in 1..Len(events) /\ Publishes(i, Options1)
               \/ ~Finished /\ i = Len(events) + 1 /\ pc = "search"
    BY <1>3, <2>1, <2>2 DEF Publishes
  <2>3. (Delivered(Options1)' <=> Delivered(Options1)) /\ (Finished' <=> Finished)
    BY <1>3 DEF Delivered, Finished
  <2>4. ASSUME NEW i \in 1..Len(events'), events'[i].kind = "status", events'[i].note = "missing"
        PROVE  /\ pc' = "idle" /\ ~Delivered(Options1)'
               /\ \A j \in 1..Len(events') : ~Publishes(j, Options1)'
    <3>1. CASE i \in 1..Len(events) /\ events'[i] = events[i]
      <4>1. pc = "idle" /\ ~Delivered(Options1)
            /\ \A j \in 1..Len(events) : ~Publishes(j, Options1)
        BY <2>4, <3>1 DEF NoteInv
      <4> QED
        BY <1>3, <2>2, <2>3, <4>1
    <3>2. CASE events'[i] = event
      <4>1. pc = "parse" /\ pc' = "idle"
        BY <1>3, <2>4, <3>2
      <4>2. ~Delivered(Options1) /\ \A j \in 1..Len(events) : ~Publishes(j, Options1)
        BY <4>1 DEF OptionsInv
      <4> QED
        BY <2>2, <2>3, <4>1, <4>2
    <3> QED
      BY <2>1, <2>4, <3>1, <3>2
  <2>5. task'.note = "missing" /\ pc' \in {"parse", "search"} =>
          Finished' \/ StatusUnderWay(Len(events) + 1)'
    BY <1>3, <2>3, StatusGrown DEF NoteInv
  <2>6. ASSUME task'.note = "missing", NEW i \in 1..Len(events'), Publishes(i, Options1)'
        PROVE  StatusUnderWay(i)'
    <3>1. CASE i \in 1..Len(events) /\ Publishes(i, Options1)
      <4>1. i \in 1..Len(events) + 1 /\ StatusUnderWay(i)
        BY <1>0, <1>3, <2>6, <3>1 DEF NoteInv
      <4> QED
        BY <1>3, <4>1, StatusGrown
    <3>2. CASE ~Finished /\ i = Len(events) + 1 /\ pc = "search"
      <4>1. i \in 1..Len(events) + 1 /\ StatusUnderWay(i)
        BY <1>0, <1>3, <2>6, <3>2 DEF NoteInv
      <4> QED
        BY <1>3, <4>1, StatusGrown
    <3> QED
      BY <2>2, <2>6, <3>1, <3>2
  <2>7. NoQuestionAfterOptions'
    BY <1>3 DEF NoteInv, NoQuestionAfterOptions, Options
  <2> QED
    BY <2>4, <2>5, <2>6, <2>7 DEF NoteInv
<1>4. ASSUME NEW event \in Events, Utters(event) PROVE NoteInv'
  BY <1>3, <1>4 DEF Utters
<1>5. CASE Store
  BY <1>5, NoteStored
<1>6. CASE Cancel
  <2>1. PICK event \in Events : event = StatusEvent("CANCELED", "none")
    BY EventTypes DEF Notes, States, ActionableStates, TerminalStates
  <2>2. Enqueue(event) /\ UNCHANGED task /\ pc' \in {pc, "idle"}
        /\ event.kind = "status" /\ event.note = "none"
    BY <1>6, <2>1 DEF Cancel, AcceptCancel, StatusEvent
  <2> QED
    BY <1>3, <2>2
<1> QED
  BY <1>1, <1>2, <1>4, <1>5, <1>6, ExecutorUtters DEF Next, vars, Send, SendMessage

-----------------------------------------------------------------------------
(***************************************************************************)
(* Together: what every reachable state of the booking has.                *)
(***************************************************************************)
TripInv ==
  /\ TypeOK
  /\ OrderInv
  /\ OptionsInv
  /\ JourneyInv
  /\ ConfirmInv
  /\ NoteInv

\* Before the first message there is nothing to be out of order.
LEMMA TripInit ==
  ASSUME Init
  PROVE  TripInv
<1>1. /\ events = <<>> /\ pc = "idle" /\ task.state = "NONE" /\ task.note = "none"
      /\ task.artifacts = {}
  BY DEF Init, RuntimeInit, NoTask
<1>2. ~Delivered("flight-options") /\ ~Delivered("booking-confirmation")
  BY <1>1 DEF Delivered
<1>3. TypeOK
  BY TypeInit
<1>4. OrderInv
  BY <1>1 DEF OrderInv, QuestionShowsOptions, BookingComplete
<1>5. OptionsInv
  BY <1>1 DEF OptionsInv
<1>6. JourneyInv
  BY <1>1, EmptyQueue DEF JourneyInv, States
<1>7. ConfirmInv
  BY <1>1, <1>2 DEF ConfirmInv, Coming
<1>8. NoteInv
  BY <1>1 DEF NoteInv, NoQuestionAfterOptions
<1> QED
  BY <1>3, <1>4, <1>5, <1>6, <1>7, <1>8 DEF TripInv

\* Every step keeps it.
LEMMA TripKept ==
  ASSUME TripInv, [Next]_vars
  PROVE  TripInv'
BY TypeStep, OrderStep, OptionsStep, JourneyKept, ConfirmKept, NoteKept DEF TripInv

\* Wherever execute() stands the task will be ready for what it says next, it
\* confirms once, and it asks for details only before it has options.
THEOREM TripConsistent == Spec => []TripInv
<1>1. Init => TripInv
  BY TripInit
<1>2. TripInv /\ [Next]_vars => TripInv'
  BY TripKept
<1> QED
  BY <1>1, <1>2, PTL DEF Spec

\* The agent pauses for the choice at most once: after the options are stored
\* no later turn shows the question for trip details again.
THEOREM NoSecondQuestion == Spec => []NoQuestionAfterOptions
<1>1. TripInv => NoQuestionAfterOptions
  BY DEF TripInv, NoteInv
<1> QED
  BY <1>1, TripConsistent, PTL

\* Storing the first event is a step TaskLifecycle allows: the options and the
\* confirmation are stored once each, and the completion behind them.
LEMMA StoreRefines ==
  ASSUME TripInv, Store
  PROVE  Lifecycle!Next
<1> DEFINE Result1 == {BookingConfirmation(n, d) :
                         n \in 1..2, d \in Destinations \union {NoDestination}}
<1>1. /\ RuntimeTypeOK(Notes, Artifacts) /\ Consume
      /\ events[1] \in Events /\ Len(events) \in Nat \ {0}
      /\ QueueInv({"WORKING"})
  BY RuntimeTypes, Storing DEF TripInv, Store, JourneyInv
<1>2. events[1].kind = "artifact" =>
        \A a \in task.artifacts : a.id # events[1].artifact.id
  <2>1. SUFFICES ASSUME events[1].kind = "artifact"
                 PROVE  ~Delivered(events[1].artifact.id)
    BY DEF Delivered
  <2>2. events[1].artifact.id \in {"flight-options", "booking-confirmation"}
    BY <1>1, <2>1 DEF Events, Artifacts
  <2>3. 1 \in 1..Len(events) /\ Publishes(1, events[1].artifact.id)
    BY <1>1, <2>1 DEF Publishes
  <2> QED
    BY <2>2, <2>3 DEF TripInv, OptionsInv, ConfirmInv
<1>3. events[1].kind = "status" /\ events[1].state = "COMPLETED" =>
        task.artifacts \intersect Result1 # {}
  <2>1. SUFFICES ASSUME events[1].kind = "status", events[1].state = "COMPLETED"
                 PROVE  task.artifacts \intersect Result1 # {}
    OBVIOUS
  <2>2. Coming("booking-confirmation", 1)
    BY <1>1, <2>1 DEF TripInv, OrderInv
  <2>3. PICK a \in task.artifacts : a.id = "booking-confirmation"
    BY <1>1, <2>2 DEF Coming, Delivered
  <2>4. a \in Artifacts
    BY DEF TripInv, TypeOK, TaskRecords
  <2>5. a \in [id : {"booking-confirmation"}, flight : 1..2,
               destination : Destinations \union {NoDestination}]
    BY <2>3, <2>4 DEF Artifacts
  <2>6. a = BookingConfirmation(a.flight, a.destination)
    BY <2>5 DEF BookingConfirmation
  <2> QED
    BY <2>5, <2>6
<1>4. {"WORKING"} \subseteq OpenStates
  BY DEF OpenStates
<1>5. Promise(Result1, {}, {"WORKING"}, FALSE)!Next
  <2> HIDE DEF Result1
  <2> QED
    BY <1>1, <1>2, <1>3, <1>4, StoreKeepsPromise
<1> QED
  BY <1>5
     DEF Promise!Next, Promise!Submit, Promise!Work, Promise!Deliver, Promise!Pause,
         Promise!Complete, Promise!Fail, Promise!Cancel, Promise!Forget, Promise!Open,
         Promise!Init,
         Lifecycle!Next, Lifecycle!Submit, Lifecycle!Work, Lifecycle!Deliver, Lifecycle!Pause,
         Lifecycle!Complete, Lifecycle!Fail, Lifecycle!Cancel, Lifecycle!Forget,
         Lifecycle!Open, Lifecycle!Init

\* The Trip Booking agent keeps the promise of TaskLifecycle to everyone who
\* polls: every step of the model is a step of the promise on what the store
\* shows, or leaves it as it is.
THEOREM TripRefinesLifecycle == Spec => RefinesLifecycle
<1>1. Init => Lifecycle!Init
  BY DEF Init, RuntimeInit, NoTask, Lifecycle!Init
<1>2. TripInv /\ [Next]_vars => [Lifecycle!Next]_<<task.state, task.note, task.artifacts>>
  <2> SUFFICES ASSUME TripInv, [Next]_vars
               PROVE  Lifecycle!Next \/ UNCHANGED <<task.state, task.note, task.artifacts>>
    OBVIOUS
  <2>1. CASE Store
    BY <2>1, StoreRefines
  <2>2. CASE task' = task
    BY <2>2
  <2> QED
    BY <2>1, <2>2
       DEF Next, Send, SendMessage, ExecutorStep, Execute, StartSearch, AskForDetails,
           AnnounceSearch, PublishOptions, AskForChoice, StartBooking, AnnounceBooking,
           PublishConfirmation, ChoiceOutOfRange, CompleteBooking, Fail, Step, Cancel,
           AcceptCancel, vars
<1> QED
  BY <1>1, <1>2, TripConsistent, PTL DEF Spec, RefinesLifecycle, Lifecycle!Spec,
                                         Lifecycle!lifecycleVars

-----------------------------------------------------------------------------
(***************************************************************************)
(* The script and the agent together (TripSession).                        *)
(***************************************************************************)

\* A call that has said this has returned.
IsEnd(event) == event.kind = "status" /\ event.state \in ActionableStates

\* The agent has nothing left to do.
Settled == pc = "idle" /\ events = <<>> /\ served = Len(sent)

\* The script sends a message only to an agent that is settled, so that no call
\* runs while a message waits.
TurnInv ==
  /\ Len(sent) <= 2 /\ Len(sent) <= served + 1
  /\ client = "start" <=> sent = <<>>
  /\ served = 0 => task = NoTask /\ events = <<>> /\ pc = "idle"
  /\ events # <<>> \/ pc # "idle" => served = Len(sent)
  /\ Len(task.history) <= served

\* A pause or an outcome is the last word of its call, in the queue as in the
\* store.
EndInv ==
  /\ \A i \in 1..Len(events) : IsEnd(events[i]) =>
       /\ pc = "idle" /\ i = Len(events)
       /\ events[i].state = "INPUT_REQUIRED" => events[i].note \in {"missing", "choose"}
  /\ task.state = "INPUT_REQUIRED" => task.note \in {"missing", "choose"}
  /\ task.state \in ActionableStates /\ Len(task.history) = Len(sent) => Settled
  /\ Finished => Len(task.history) = Len(sent)

\* The reply was sent to the pause that its call finds.
ReplyInv ==
  /\ served = 1 /\ Len(sent) = 2 =>
       task.state = "INPUT_REQUIRED" /\ sent[2].shown = task.note
  /\ pc \in {"resume", "choose", "book", "complete"} => served = 2
  /\ ReplyReachesItsQuestion

\* What is actionable stays as the script has seen it, until it is forgotten.
Known == Settled /\ (task = seen \/ (restarts > 0 /\ ~Exists))

\* A script that is not waiting has seen what its last message led to.
SeenInv ==
  /\ client = "polling" /\ Exists => Len(task.history) = Len(sent)
  /\ client = "polling" /\ seen.state \in ActionableStates => Known
  /\ client = "done" => Known

\* The types of the script's own state.
ScriptTypeOK ==
  /\ client \in {"start", "waiting", "polling", "done", "crashed"}
  /\ seen \in TaskRecords
  /\ restarts \in 0..MaxRestarts

SessionInv ==
  /\ TripInv
  /\ ScriptTypeOK
  /\ TurnInv
  /\ EndInv
  /\ ReplyInv
  /\ SeenInv

\* A restart of the server keeps TripInv: it leaves an idle agent and no task.
LEMMA TripRestarted ==
  ASSUME TripInv, Restart
  PROVE  TripInv'
<1>1. /\ pc' = "idle" /\ events' = <<>> /\ task' = NoTask /\ cancelled' = FALSE
      /\ served' = Len(sent) /\ UNCHANGED <<sent, conversation, destination, chosen>>
  BY DEF Restart, RestartServer
<1>2. /\ task'.state = "NONE" /\ task'.note = "none" /\ task'.artifacts = {}
      /\ task'.state \in States
  BY <1>1 DEF NoTask, States
<1>3. TypeOK'
  <2>1. NoTask \in TaskRecords
    BY DEF NoTask, TaskRecords, States, ActionableStates, TerminalStates, Notes
  <2>2. <<>> \in Seq(Events) /\ Len(sent) \in 0..Len(sent)
    BY DEF TripInv, TypeOK
  <2>3. sent' \in Seq([text : Messages, shown : Notes]) /\ served' \in 0..Len(sent')
    BY <1>1, <2>2 DEF TripInv, TypeOK
  <2> QED
    BY <1>1, <2>1, <2>2, <2>3 DEF TripInv, TypeOK, PCs
<1>4. \A id : ~Delivered(id)'
  BY <1>2 DEF Delivered
<1>5. OrderInv'
  BY <1>1, <1>2 DEF OrderInv, QuestionShowsOptions, BookingComplete, Finished, TerminalStates
<1>6. OptionsInv'
  BY <1>1 DEF OptionsInv
<1>7. JourneyInv'
  BY <1>1, <1>2, QueueEmptied DEF JourneyInv
<1>8. ConfirmInv'
  BY <1>1, <1>4 DEF ConfirmInv, Coming
<1>9. NoteInv'
  BY <1>1, <1>2 DEF NoteInv, NoQuestionAfterOptions
<1> QED
  BY <1>3, <1>5, <1>6, <1>7, <1>8, <1>9 DEF TripInv

\* What the proofs of the steps use of the types.
LEMMA SessionTypes ==
  ASSUME SessionInv
  PROVE  /\ TypeOK /\ events \in Seq(Events) /\ Len(events) \in Nat
         /\ Len(sent) \in Nat /\ served \in 0..Len(sent)
         /\ task \in TaskRecords /\ Len(task.history) \in Nat
         /\ restarts \in Nat
<1>1. TypeOK
  BY DEF SessionInv, TripInv
<1>2. Len(sent) \in Nat /\ events \in Seq(Events) /\ Len(events) \in Nat
  BY <1>1 DEF TypeOK
<1>3. task.history \in Seq(Messages)
  BY <1>1 DEF TypeOK, TaskRecords
<1>4. Len(task.history) \in Nat
  BY <1>3
<1>5. restarts \in Nat
  BY SessionAssumption DEF SessionInv, ScriptTypeOK
<1> QED
  BY <1>1, <1>2, <1>4, <1>5 DEF TypeOK

\* The trip request finds an agent that has no task.
LEMMA SubmitKeeps ==
  ASSUME SessionInv, Submit
  PROVE  ScriptTypeOK' /\ TurnInv' /\ EndInv' /\ ReplyInv' /\ SeenInv'
<1>1. /\ sent = <<>> /\ client' = "waiting"
      /\ UNCHANGED <<served, pc, events, task, seen, restarts>>
  BY DEF Submit, Send, SendMessage, SessionInv, TurnInv
<1>2. served = 0 /\ task = NoTask /\ pc = "idle" /\ events = <<>>
  BY <1>1, SessionTypes DEF SessionInv, TurnInv
<1>3. /\ Len(sent') = 1 /\ sent' # <<>>
  BY <1>1 DEF Submit, Send, SendMessage
<1>4. task'.state = "NONE" /\ Len(task'.history) = 0 /\ ~Finished'
  BY <1>1, <1>2 DEF NoTask, Finished, TerminalStates
<1>5. ScriptTypeOK'
  BY <1>1 DEF SessionInv, ScriptTypeOK
<1>6. TurnInv'
  BY <1>1, <1>2, <1>3, <1>4 DEF TurnInv
<1>7. EndInv'
  BY <1>1, <1>2, <1>4 DEF EndInv, ActionableStates, TerminalStates
<1>8. ReplyInv' /\ SeenInv'
  BY <1>1, <1>2, <1>3 DEF ReplyInv, ReplyReachesItsQuestion, SeenInv
<1> QED
  BY <1>5, <1>6, <1>7, <1>8

\* The reply is sent to the pause that the script has seen, on a settled agent.
LEMMA ReplyKeeps ==
  ASSUME SessionInv, Reply
  PROVE  ScriptTypeOK' /\ TurnInv' /\ EndInv' /\ ReplyInv' /\ SeenInv'
<1>1. /\ Len(sent) = 1 /\ client' = "waiting"
      /\ UNCHANGED <<served, pc, events, task, seen, restarts>>
  BY DEF Reply, Send, SendMessage
<1>2. Settled /\ task.state = "INPUT_REQUIRED" /\ ~Finished
  <2>1. sent # <<>>
    BY <1>1
  <2>2. Exists /\ ~Finished
    BY <2>1 DEF Reply, Send, SendMessage
  <2>3. Known
    BY DEF SessionInv, SeenInv, Reply, ActionableStates
  <2> QED
    BY <2>2, <2>3 DEF Known, Reply
<1>3. Len(sent') = 2 /\ sent' # <<>> /\ sent'[2].shown = task.note
  <2>1. RuntimeTypeOK(Notes, Artifacts)
    BY SessionTypes, RuntimeTypes
  <2>2. Answer \in Messages /\ SendMessage(Answer)
    BY SessionAssumption DEF Reply, Send
  <2>3. Len(sent') = Len(sent) + 1 /\ sent'[Len(sent) + 1] = [text |-> Answer, shown |-> task.note]
    BY <2>1, <2>2, SendTyped
  <2>4. Len(sent') = 2 /\ sent'[2] = [text |-> Answer, shown |-> task.note]
    BY <1>1, <2>3
  <2> QED
    BY <2>4
<1>4. /\ served = 1 /\ pc = "idle" /\ events = <<>> /\ Len(task.history) \in 0..1
  <2>1. PICK h \in Nat : h = Len(task.history)
    BY SessionTypes
  <2>2. served = 1 /\ h <= served
    BY <1>1, <1>2, <2>1 DEF Settled, SessionInv, TurnInv
  <2>3. h \in 0..1
    BY <2>2
  <2>4. Len(task.history) \in 0..1
    BY <2>1, <2>3
  <2> QED
    BY <1>2, <2>2, <2>4 DEF Settled
<1>5. ScriptTypeOK'
  BY <1>1 DEF SessionInv, ScriptTypeOK
<1>6. TurnInv'
  <2>1. task'.history = task.history /\ served' = 1
    BY <1>1, <1>4
  <2>2. PICK h \in 0..1 : h = Len(task'.history)
    BY <1>4, <2>1
  <2>3. Len(sent') <= 2 /\ Len(sent') <= served' + 1
    BY <1>3, <2>1
  <2>4. Len(task'.history) <= served'
    <3>1. h <= 1
      OBVIOUS
    <3> QED
      BY <2>1, <2>2, <3>1
  <2> QED
    BY <1>1, <1>3, <1>4, <2>3, <2>4 DEF TurnInv
<1>7. EndInv'
  <2>1. ~Finished' /\ Len(task'.history) # Len(sent')
    BY <1>1, <1>2, <1>3, <1>4 DEF Finished
  <2> QED
    BY <1>1, <1>4, <2>1 DEF EndInv, SessionInv
<1>8. ReplyInv' /\ SeenInv'
  BY <1>1, <1>2, <1>3, <1>4 DEF ReplyInv, ReplyReachesItsQuestion, SeenInv
<1> QED
  BY <1>5, <1>6, <1>7, <1>8

\* The script's other steps leave the agent alone.
LEMMA ScriptKeeps ==
  ASSUME SessionInv, Receive \/ Poll \/ ReplyRefused \/ Report \/ UNCHANGED sessionVars
  PROVE  ScriptTypeOK' /\ TurnInv' /\ EndInv' /\ ReplyInv' /\ SeenInv'
<1>1. /\ UNCHANGED <<sent, served, pc, events, cancelled, task, restarts>>
      /\ client' = client \/ (client \notin {"start", "crashed"} /\ client' # "start")
  BY DEF Receive, Poll, ReplyRefused, Report, vars, sessionVars
<1>2. TurnInv' /\ EndInv' /\ ReplyInv'
  <2>1. Settled' <=> Settled
    BY <1>1 DEF Settled
  <2> QED
    BY <1>1, <2>1
       DEF SessionInv, TurnInv, EndInv, IsEnd, Finished, ReplyInv, ReplyReachesItsQuestion
<1>3. task.state \in ActionableStates /\ Len(task.history) = Len(sent) => Settled
  BY DEF SessionInv, EndInv
<1>4. ~Exists => task.state \notin ActionableStates
  BY DEF Exists, ActionableStates, TerminalStates
<1>5. CASE Receive
  <2>1. Len(task.history) = Len(sent) /\ Exists /\ seen' = task /\ client' = "polling"
    BY <1>5 DEF Receive, SessionInv, EndInv, Exists, Finished, TerminalStates
  <2>2. ScriptTypeOK'
    BY <1>1, <2>1, SessionTypes DEF SessionInv, ScriptTypeOK
  <2>3. SeenInv'
    BY <1>1, <1>3, <2>1 DEF SeenInv, Known, Settled
  <2> QED
    BY <1>2, <2>2, <2>3
<1>6. CASE Poll
  <2>1. CASE Exists
    <3>1. Len(task.history) = Len(sent) /\ seen' = task /\ client' = "polling"
      BY <1>6, <2>1 DEF Poll, SessionInv, SeenInv
    <3>2. ScriptTypeOK'
      BY <1>1, <3>1, SessionTypes DEF SessionInv, ScriptTypeOK
    <3>3. SeenInv'
      BY <1>1, <1>3, <3>1 DEF SeenInv, Known, Settled
    <3> QED
      BY <1>2, <3>2, <3>3
  <2>2. CASE ~Exists
    <3>1. client' = "crashed" /\ seen' = seen
      BY <1>6, <2>2 DEF Poll
    <3> QED
      BY <1>1, <1>2, <3>1 DEF SessionInv, ScriptTypeOK, SeenInv
  <2> QED
    BY <2>1, <2>2
<1>7. CASE ReplyRefused
  <2>1. client' = "crashed" /\ seen' = seen
    BY <1>7 DEF ReplyRefused
  <2> QED
    BY <1>1, <1>2, <2>1 DEF SessionInv, ScriptTypeOK, SeenInv
<1>8. CASE Report
  <2>1. client' = "done" /\ seen' = seen /\ Known
    BY <1>8 DEF Report, SessionInv, SeenInv, ActionableStates
  <2>2. Known'
    BY <1>1, <2>1 DEF Known, Settled, Exists
  <2> QED
    BY <1>1, <1>2, <2>1, <2>2 DEF SessionInv, ScriptTypeOK, SeenInv
<1>9. CASE UNCHANGED sessionVars
  <2>1. UNCHANGED <<client, seen>>
    BY <1>9 DEF sessionVars
  <2>2. Known' <=> Known
    BY <1>1, <2>1 DEF Known, Settled, Exists
  <2> QED
    BY <1>1, <1>2, <2>1, <2>2 DEF SessionInv, ScriptTypeOK, SeenInv, Exists
<1> QED
  BY <1>5, <1>6, <1>7, <1>8, <1>9

\* A script that knows what it will report leaves nothing to serve, to say or
\* to store; so while there is something, it does not know yet.
LEMMA BusyKeepsSeen ==
  ASSUME SessionInv, ~Settled, UNCHANGED <<client, seen, restarts, sent>>,
         client' = "polling" /\ Exists' => Len(task'.history) = Len(sent')
  PROVE  ScriptTypeOK' /\ SeenInv'
<1>1. ~(client = "polling" /\ seen.state \in ActionableStates) /\ client # "done"
  BY DEF SessionInv, SeenInv, Known
<1> QED
  BY <1>1 DEF SessionInv, ScriptTypeOK, SeenInv

\* A call begins with the one message that waits; it books when the question
\* the reply was sent to was "1 or 2?".
LEMMA ExecuteKeeps ==
  ASSUME SessionInv, Execute, UNCHANGED <<client, seen, restarts>>
  PROVE  ScriptTypeOK' /\ TurnInv' /\ EndInv' /\ ReplyInv' /\ SeenInv'
<1>1. /\ served < Len(sent) /\ served' = served + 1 /\ ~Finished
      /\ pc' = IF HasFlightOptions THEN "resume" ELSE "begin"
      /\ events' \in {<<>>, <<TaskEvent>>}
      /\ UNCHANGED <<sent, task>>
  BY DEF Execute, CanServe, Enqueue
<1>2. /\ served' = Len(sent) /\ Len(sent) \in 1..2
      /\ Len(task.history) < Len(sent)
  <2>1. PICK n \in Nat, h \in Nat : n = Len(sent) /\ h = Len(task.history)
    BY SessionTypes
  <2>2. served \in Nat /\ served < n /\ n <= served + 1 /\ n <= 2 /\ h <= served
    BY <1>1, <2>1, SessionTypes DEF SessionInv, TurnInv
  <2>3. served' = n /\ n \in 1..2 /\ h < n
    BY <1>1, <2>2
  <2> QED
    BY <2>1, <2>3
<1>3. ~Settled
  BY <1>1, SessionTypes DEF Settled
<1>4. ScriptTypeOK' /\ SeenInv'
  <2>1. client' = "polling" /\ Exists' => Len(task'.history) = Len(sent')
    BY <1>1 DEF SessionInv, SeenInv, Exists
  <2> QED
    BY <1>1, <1>3, <2>1, BusyKeepsSeen
<1>5. TurnInv'
  BY <1>1, <1>2, SessionTypes DEF SessionInv, TurnInv
<1>6. EndInv'
  <2>1. \A i \in 1..Len(events') : events'[i].kind = "task"
    BY <1>1 DEF TaskEvent
  <2>2. Len(task'.history) # Len(sent') /\ ~Finished'
    BY <1>1, <1>2, SessionTypes DEF Finished
  <2>3. task'.state = "INPUT_REQUIRED" => task'.note \in {"missing", "choose"}
    BY <1>1 DEF SessionInv, EndInv
  <2> QED
    BY <2>1, <2>2, <2>3 DEF EndInv, IsEnd
<1>7. ReplyInv'
  <2>1. HasFlightOptions <=> Options # {}
    BY DEF HasFlightOptions, Options
  <2>2. HasFlightOptions => served # 0
    BY DEF HasFlightOptions, SessionInv, TurnInv, NoTask
  <2>3. served = 1 =>
          /\ sent[2].shown \in {"missing", "choose"} /\ sent[2].shown = task.note
    BY <1>1, <1>2 DEF SessionInv, ReplyInv, EndInv
  <2>4. /\ task.note = "choose" => HasFlightOptions
        /\ HasFlightOptions => task.note # "missing"
    BY <2>1 DEF SessionInv, TripInv, OrderInv, QuestionShowsOptions, NoteInv,
                NoQuestionAfterOptions
  <2>5. served \in {0, 1}
    BY <1>1, <1>2, SessionTypes
  <2>6. CASE HasFlightOptions
    <3>1. served = 1 /\ served' = 2 /\ pc' = "resume" /\ sent'[served'].shown = "choose"
      BY <1>1, <2>2, <2>3, <2>4, <2>5, <2>6
    <3> QED
      BY <3>1 DEF ReplyInv, ReplyReachesItsQuestion
  <2>7. CASE ~HasFlightOptions
    <3>1. pc' = "begin" /\ (served' = 2 => sent'[2].shown = "missing")
      BY <1>1, <2>3, <2>4, <2>5, <2>7
    <3>2. ~(served' = 1 /\ Len(sent') = 2)
      BY <1>1, <1>2
    <3> QED
      BY <3>1, <3>2 DEF ReplyInv, ReplyReachesItsQuestion
  <2> QED
    BY <2>6, <2>7
<1> QED
  BY <1>4, <1>5, <1>6, <1>7

\* What execute() says keeps it up: a pause or an outcome is what it says last.
LEMMA UtteranceKeeps ==
  ASSUME SessionInv, NEW event \in Events, Utters(event), UNCHANGED <<client, seen, restarts>>
  PROVE  ScriptTypeOK' /\ TurnInv' /\ EndInv' /\ ReplyInv' /\ SeenInv'
<1>1. /\ pc # "idle" /\ Enqueue(event) /\ UNCHANGED <<sent, served, task>>
      /\ events \in Seq(Events)
  BY SessionTypes DEF Utters
<1>2. served = Len(sent) /\ served # 0
  BY <1>1 DEF SessionInv, TurnInv
<1>3. ~Settled
  BY <1>1 DEF Settled
<1>4. ScriptTypeOK' /\ SeenInv'
  <2>1. client' = "polling" /\ Exists' => Len(task'.history) = Len(sent')
    BY <1>1 DEF SessionInv, SeenInv, Exists
  <2> QED
    BY <1>1, <1>3, <2>1, BusyKeepsSeen
<1>5. TurnInv'
  BY <1>1, <1>2 DEF SessionInv, TurnInv
<1>6. EndInv'
  <2>1. IsEnd(event) =>
          /\ pc' = "idle"
          /\ event.state = "INPUT_REQUIRED" => event.note \in {"missing", "choose"}
    BY DEF Utters, IsEnd, ActionableStates, TerminalStates
  <2>2. ASSUME NEW i \in 1..Len(events'), IsEnd(events'[i])
        PROVE  /\ pc' = "idle" /\ i = Len(events')
               /\ events'[i].state = "INPUT_REQUIRED" =>
                    events'[i].note \in {"missing", "choose"}
    <3>1. CASE i \in 1..Len(events) /\ events'[i] = events[i]
      BY <1>1, <2>2, <3>1 DEF SessionInv, EndInv
    <3>2. CASE ~Finished /\ i = Len(events) + 1 /\ events'[i] = event
      <4>1. Len(events') = Len(events) + 1
        BY <1>1, <3>2, EnqueueAppends
      <4> QED
        BY <2>1, <2>2, <3>2, <4>1
    <3> QED
      BY <1>1, <3>1, <3>2, AppendedAt
  <2>3. ~(task'.state \in ActionableStates /\ Len(task'.history) = Len(sent'))
    BY <1>1, <1>3 DEF SessionInv, EndInv
  <2> QED
    BY <1>1, <2>2, <2>3 DEF SessionInv, EndInv, IsEnd, Finished
<1>7. ReplyInv'
  <2>1. /\ pc' \in {"resume", "choose", "book", "complete"} =>
             pc \in {"resume", "choose", "book", "complete"}
        /\ pc' \in {"begin", "parse", "search", "ask"} =>
             pc \in {"begin", "parse", "search", "ask"}
    BY DEF Utters
  <2> QED
    BY <1>1, <1>2, <2>1 DEF SessionInv, ReplyInv, ReplyReachesItsQuestion
<1> QED
  BY <1>4, <1>5, <1>6, <1>7

\* Storing keeps it up: an artifact is stored while the task is being worked
\* on, and behind a pause or an outcome nothing is to come.
LEMMA StoreKeeps ==
  ASSUME SessionInv, Store, UNCHANGED <<client, seen, restarts>>
  PROVE  ScriptTypeOK' /\ TurnInv' /\ EndInv' /\ ReplyInv' /\ SeenInv'
<1>1. /\ events # <<>> /\ UNCHANGED <<sent, served, pc>> /\ Consume
      /\ RuntimeTypeOK(Notes, Artifacts)
  BY SessionTypes, RuntimeTypes DEF Store, Consume
<1>2. /\ Takes /\ events[1] \in Events /\ events \in Seq(Events)
      /\ task'.note = IF events[1].kind = "status" THEN events[1].note ELSE task.note
      /\ task'.history = Texts(served)
      /\ Len(events) \in Nat \ {0}
  BY <1>1, ConsumeTyped, SessionTypes, Storing
<1>3. served = Len(sent) /\ served # 0
  BY <1>1 DEF SessionInv, TurnInv
<1>4. Len(task'.history) = Len(sent')
  BY <1>1, <1>2, <1>3, TextsTyped, SessionTypes
<1>5. ~Settled
  BY <1>1 DEF Settled
<1>6. ScriptTypeOK' /\ SeenInv'
  BY <1>1, <1>4, <1>5, BusyKeepsSeen
<1>7. TurnInv'
  BY <1>1, <1>3, <1>4, SessionTypes DEF SessionInv, TurnInv
<1>8. EndInv'
  <2>1. ASSUME NEW i \in 1..Len(events'), IsEnd(events'[i])
        PROVE  /\ pc' = "idle" /\ i = Len(events')
               /\ events'[i].state = "INPUT_REQUIRED" =>
                    events'[i].note \in {"missing", "choose"}
    <3>1. ~Finished' /\ i + 1 \in 1..Len(events) /\ events'[i] = events[i + 1]
      BY <1>2, TakenAt
    <3>2. /\ pc = "idle" /\ i + 1 = Len(events)
          /\ events[i + 1].state = "INPUT_REQUIRED" =>
               events[i + 1].note \in {"missing", "choose"}
      BY <2>1, <3>1 DEF SessionInv, EndInv
    <3>3. Len(events') = Len(events) - 1
      BY <1>2, <3>1, TakesFirst
    <3> QED
      BY <1>1, <1>2, <3>1, <3>2, <3>3
  <2>2. CASE events[1].kind = "status"
    <3>1. task'.state = events[1].state /\ task'.note = events[1].note
      BY <1>2, <2>2 DEF Takes, ChangesState, StateOf
    <3>2. ASSUME task'.state \in ActionableStates
          PROVE  /\ pc = "idle" /\ Len(events) = 1
                 /\ task'.state = "INPUT_REQUIRED" => task'.note \in {"missing", "choose"}
      <4>1. 1 \in 1..Len(events) /\ IsEnd(events[1])
        BY <1>2, <2>2, <3>1, <3>2 DEF IsEnd
      <4>2. /\ pc = "idle" /\ 1 = Len(events)
            /\ events[1].state = "INPUT_REQUIRED" => events[1].note \in {"missing", "choose"}
        BY <4>1 DEF SessionInv, EndInv
      <4> QED
        BY <3>1, <4>2
    <3>3. Len(events) = 1 => events' = <<>>
      BY <1>2 DEF Takes
    <3>4. task'.state \in ActionableStates => Settled'
      BY <1>1, <1>3, <3>2, <3>3 DEF Settled
    <3> QED
      BY <1>4, <2>1, <3>2, <3>4 DEF EndInv, ActionableStates
  <2>3. CASE events[1].kind # "status"
    <3>1. task'.state \in {"SUBMITTED", "WORKING"}
      <4>1. CASE events[1].kind = "task"
        BY <1>2, <4>1 DEF Takes, ChangesState, StateOf
      <4>2. CASE events[1].kind = "artifact"
        <5>1. task.state \in Needs(events[1], {"WORKING"})
          BY <1>2, TakenInState DEF SessionInv, TripInv, JourneyInv
        <5> QED
          BY <1>2, <4>2, <5>1 DEF Needs, Takes, ChangesState
      <4> QED
        BY <1>2, <2>3, <4>1, <4>2 DEF Events
    <3> QED
      BY <1>4, <2>1, <3>1 DEF EndInv, ActionableStates, TerminalStates
  <2> QED
    BY <2>2, <2>3
<1>9. ReplyInv'
  BY <1>1, <1>3 DEF SessionInv, ReplyInv, ReplyReachesItsQuestion
<1> QED
  BY <1>6, <1>7, <1>8, <1>9

\* A restart leaves nothing to do; a request under way fails with it.
LEMMA RestartKeeps ==
  ASSUME SessionInv, Restart
  PROVE  ScriptTypeOK' /\ TurnInv' /\ EndInv' /\ ReplyInv' /\ SeenInv'
<1>1. /\ pc' = "idle" /\ events' = <<>> /\ task' = NoTask
      /\ served' = Len(sent) /\ UNCHANGED <<sent, seen>>
      /\ client' = IF client = "waiting" THEN "crashed" ELSE client
      /\ restarts' = restarts + 1 /\ restarts < MaxRestarts
  BY DEF Restart, RestartServer
<1>2. task'.state = "NONE" /\ Len(task'.history) = 0 /\ ~Exists' /\ ~Finished'
  BY <1>1 DEF NoTask, Exists, Finished, TerminalStates
<1>3. Len(sent) \in Nat /\ restarts \in Nat /\ MaxRestarts \in Nat
  BY SessionTypes, SessionAssumption
<1>4. ScriptTypeOK'
  BY <1>1, <1>3 DEF SessionInv, ScriptTypeOK
<1>5. TurnInv'
  BY <1>1, <1>2, <1>3 DEF SessionInv, TurnInv
<1>6. EndInv'
  BY <1>1, <1>2 DEF EndInv, ActionableStates, TerminalStates
<1>7. ReplyInv'
  BY <1>1, <1>3 DEF ReplyInv, ReplyReachesItsQuestion
<1>8. SeenInv'
  <2>1. Known'
    BY <1>1, <1>2, <1>3 DEF Known, Settled
  <2> QED
    BY <1>2, <2>1 DEF SeenInv
<1> QED
  BY <1>4, <1>5, <1>6, <1>7, <1>8

\* The script and the agent keep in step, through restarts of the server.
THEOREM SessionConsistent == SessionSpec => []SessionInv
<1>1. SessionInit => SessionInv
  <2> SUFFICES ASSUME SessionInit PROVE SessionInv
    OBVIOUS
  <2>1. /\ sent = <<>> /\ served = 0 /\ pc = "idle" /\ events = <<>> /\ task = NoTask
        /\ client = "start" /\ seen = NoTask /\ restarts = 0
    BY DEF SessionInit, Init, RuntimeInit
  <2>2. task.state = "NONE" /\ Len(task.history) = 0 /\ ~Finished
    BY <2>1 DEF NoTask, Finished, TerminalStates
  <2>3. TripInv
    BY TripInit DEF SessionInit
  <2>4. ScriptTypeOK
    BY <2>1, <2>3, SessionAssumption DEF ScriptTypeOK, TripInv, TypeOK
  <2>5. TurnInv
    BY <2>1, <2>2 DEF TurnInv
  <2>6. EndInv
    BY <2>1, <2>2 DEF EndInv, ActionableStates, TerminalStates
  <2>7. ReplyInv /\ SeenInv
    BY <2>1 DEF ReplyInv, ReplyReachesItsQuestion, SeenInv
  <2> QED
    BY <2>3, <2>4, <2>5, <2>6, <2>7 DEF SessionInv
<1>2. SessionInv /\ [SessionNext]_sessionVars => SessionInv'
  <2> SUFFICES ASSUME SessionInv, [SessionNext]_sessionVars PROVE SessionInv'
    OBVIOUS
  <2>1. TripInv /\ {Opener, Answer} \subseteq Messages
    BY SessionAssumption DEF SessionInv
  <2>2. CASE Submit
    BY <2>1, <2>2, TripKept, SubmitKeeps DEF Submit, Next, SessionInv
  <2>3. CASE Reply
    BY <2>1, <2>3, TripKept, ReplyKeeps DEF Reply, Next, SessionInv
  <2>4. CASE Receive \/ Poll \/ ReplyRefused \/ Report \/ UNCHANGED sessionVars
    <3>1. UNCHANGED vars
      BY <2>4 DEF Receive, Poll, ReplyRefused, Report, sessionVars
    <3> QED
      BY <2>1, <2>4, <3>1, TripKept, ScriptKeeps DEF SessionInv
  <2>5. CASE ExecutorStep /\ UNCHANGED <<client, seen, restarts>>
    <3>1. TripInv'
      BY <2>1, <2>5, TripKept DEF Next
    <3>2. CASE Execute
      BY <2>5, <3>1, <3>2, ExecuteKeeps DEF SessionInv
    <3>3. CASE ~Execute
      <4>1. PICK event \in Events : Utters(event)
        BY <2>5, <3>3, SessionTypes, ExecutorUtters
      <4> QED
        BY <2>5, <3>1, <4>1, UtteranceKeeps DEF SessionInv
    <3> QED
      BY <3>2, <3>3
  <2>6. CASE Store /\ UNCHANGED <<client, seen, restarts>>
    BY <2>1, <2>6, TripKept, StoreKeeps DEF Next, SessionInv
  <2>7. CASE Restart
    BY <2>1, <2>7, TripRestarted, RestartKeeps DEF SessionInv
  <2> QED
    BY <2>2, <2>3, <2>4, <2>5, <2>6, <2>7 DEF SessionNext, ClientStep, ServerStep
<1> QED
  BY <1>1, <1>2, PTL DEF SessionSpec

\* When the script closes, the agent has nothing left to do for it: the state
\* reported is the state the task keeps until it is forgotten.
THEOREM NothingIsLeftBehind == SessionSpec => []NothingLeftBehind
<1>1. SessionInv => NothingLeftBehind
  BY DEF SessionInv, SeenInv, Known, Settled, NothingLeftBehind
<1> QED
  BY <1>1, SessionConsistent, PTL

\* A reply is served as the answer to the pause the script was looking at:
\* "1 or 2?" leads to a booking, a question about details to a second search.
THEOREM RepliesReachTheirQuestion == SessionSpec => []ReplyReachesItsQuestion
<1>1. SessionInv => ReplyReachesItsQuestion
  BY DEF SessionInv, ReplyInv
<1> QED
  BY <1>1, SessionConsistent, PTL
=============================================================================
