---------------------- MODULE ReservationSession_proofs ----------------------
(***************************************************************************)
(* Theorems about ReservationSession, for every script of distinct turns   *)
(* and every number of restarts.                                           *)
(***************************************************************************)
EXTENDS ReservationSession, A2ARuntime_proofs

Notes == {"none", "missing", "error"}

Confirmations == [id : {"reservation-confirmation"}, from : Seq(Messages)]

Events == EventsWith(Notes, Confirmations)

Records == RecordsWith(Notes, Confirmations)

\* The states in which this agent pauses, delivers and ends.
Busy == {"SUBMITTED", "WORKING"}

\* The confirmation of everything the client has said so far.
Current == Confirmation(SubSeq(Script, 1, turn))

IsCancel(event) == event.kind = "status" /\ event.state = "CANCELED"
IsCompletion(event) == event.kind = "status" /\ event.state = "COMPLETED"
IsQuestion(event) == event.kind = "status" /\ event.state = "INPUT_REQUIRED"

\* The type invariant.
TypeOK ==
  /\ RuntimeTypeOK(Notes, Confirmations)
  /\ pc \in {"idle", "begin", "parse", "complete"}
  /\ conversation \in Seq(Messages)
  /\ client \in {"ready", "waiting", "crashed", "done"}
  /\ turn \in 0..Len(Script)
  /\ seen \in Records
  /\ restarts \in 0..MaxRestarts

\* What was sent is the script so far, and the agent is at most one turn behind.
TurnInv ==
  /\ Len(sent) = turn
  /\ \A i \in 1..turn : sent[i].text = Script[i]
  /\ turn <= served + 1
  /\ pc # "idle" => served = turn

\* execute() stands where the task will be ready for its next event.  A task
\* nobody has announced has nothing to show, and one that was forgotten is not
\* served any more.
PlaceInv ==
  /\ pc = "begin" => Ready(Len(events) + 1, OpenStates)
  /\ pc \in {"parse", "complete"} => Ready(Len(events) + 1, Busy)
  /\ task.state = "NONE" => task.note = "none" /\ task.artifacts = {}
  /\ served = 0 => task = NoTask /\ events = <<>> /\ pc = "idle"
  /\ task.state = "NONE" /\ events = <<>> => pc = "idle" /\ served \in {0, Len(sent)}

\* The store's history catches up with a call no later than its first event,
\* and the running call works on the whole conversation.
HistoryInv ==
  /\ Len(task.history) <= served
  /\ Finished => task.history = Texts(served)
  /\ pc = "idle" /\ events = <<>> /\ ~cancelled /\ Exists => task.history = Texts(served)
  /\ pc # "idle" => conversation = Texts(served)

\* execute() has returned by the time its question is in the queue or in the
\* store, and only a cancel comes behind it.
QuestionInv ==
  /\ \A i \in 1..Len(events) : IsQuestion(events[i]) =>
       /\ pc = "idle"
       /\ \A j \in 1..Len(events) : i < j => IsCancel(events[j])
  /\ task.state = "INPUT_REQUIRED" /\ Len(task.history) = served =>
       /\ pc = "idle"
       /\ \A j \in 1..Len(events) : IsCancel(events[j])
  /\ \A i \in 1..Len(events) : IsCancel(events[i]) => cancelled

\* The confirmation is the current one wherever it is, and the call that
\* publishes it is the last one.
ConfirmInv ==
  /\ \A a \in task.artifacts : a = Current
  /\ \A i \in 1..Len(events) : events[i].kind = "artifact" =>
       /\ events[i].artifact = Current
       /\ \A j \in 1..Len(events) : i < j => IsCompletion(events[j]) \/ IsCancel(events[j])
  /\ task.artifacts # {} =>
       /\ task.state # "INPUT_REQUIRED"
       /\ \A j \in 1..Len(events) : IsCompletion(events[j]) \/ IsCancel(events[j])
  /\ task.artifacts # {} \/ (\E i \in 1..Len(events) : events[i].kind = "artifact") =>
       \/ Finished
       \/ pc = "complete"
       \/ pc = "idle" /\ cancelled
       \/ pc = "idle" /\ \E i \in 1..Len(events) : IsCompletion(events[i])
  /\ pc = "complete" => Finished \/ Coming("reservation-confirmation", Len(events) + 1)
  /\ CompletesWith("reservation-confirmation", {})

\* When the client is ready for its next turn nothing but a cancel is under way.
ReadyInv ==
  client = "ready" =>
    /\ served = turn /\ pc = "idle" /\ task.artifacts = {}
    /\ \A j \in 1..Len(events) : IsCancel(events[j])

\* The inductive invariant.
IInv ==
  /\ TypeOK
  /\ QueueInv(Busy)
  /\ TurnInv
  /\ PlaceInv
  /\ HistoryInv
  /\ QuestionInv
  /\ ConfirmInv
  /\ ReadyInv

-----------------------------------------------------------------------------
\* The texts of the turns served are the script so far.
LEMMA TextsAreScript ==
  ASSUME TypeOK, TurnInv, served = turn
  PROVE  Confirmation(Texts(served)) = Current
<1>1. turn \in Nat /\ turn \in 0..Len(Script) /\ Len(sent) = turn /\ Script \in Seq(Messages)
  BY ScriptAssumption DEF TypeOK, TurnInv
<1>2. /\ Texts(turn) \in Seq(Messages) /\ Len(Texts(turn)) = turn
      /\ \A i \in 1..turn : Texts(turn)[i] = sent[i].text
  BY <1>1, TextsTyped DEF TypeOK
<1>3. \A i \in 1..turn : Script[i] \in Messages
  BY <1>1, ElementOfSeq
<1>4. /\ SubSeq(Script, 1, turn) \in Seq(Messages)
      /\ Len(SubSeq(Script, 1, turn)) = turn
      /\ \A i \in 1..turn : SubSeq(Script, 1, turn)[i] = Script[i]
  BY <1>1, <1>3, SubSeqProperties
<1>5. Texts(turn) = SubSeq(Script, 1, turn)
  BY <1>1, <1>2, <1>4, SeqEqual DEF TurnInv
<1> QED
  BY <1>5 DEF Current

\* A step of the running call that enqueues one event and moves on: what the
\* agent may say, from where, and where that leads.
Says(from, event, next) ==
  \/ from = "begin" /\ event = StatusEvent("WORKING", "none") /\ next = "parse"
  \/ from = "parse" /\ event = StatusEvent("FAILED", "error") /\ next = "idle"
  \/ from = "parse" /\ event = StatusEvent("INPUT_REQUIRED", "missing") /\ next = "idle"
  \/ from = "parse" /\ event = ArtifactEvent(Current) /\ next = "complete"
  \/ from = "complete" /\ event = StatusEvent("COMPLETED", "none") /\ next = "idle"

\* Apart from its first step, execute() takes no other ones.
LEMMA ExecutorSays ==
  ASSUME IInv, ExecutorStep, ~Execute
  PROVE  \E from, next : \E event \in Events : Says(from, event, next) /\ Step(from, event, next)
<1>0. /\ \A state \in {"WORKING"} \union ActionableStates, note \in Notes :
           StatusEvent(state, note) \in Events
      /\ \A a \in Confirmations : ArtifactEvent(a) \in Events
  BY EventsTyped DEF Events, States
<1>1. CASE PublishConfirmation
  <2>1. pc = "parse" /\ Step("parse", ArtifactEvent(Confirmation(conversation)), "complete")
    BY <1>1 DEF PublishConfirmation, Step
  <2>2. Confirmation(conversation) = Current
    BY <2>1, TextsAreScript DEF IInv, TurnInv, HistoryInv
  <2>3. Confirmation(conversation) \in Confirmations
    BY DEF Confirmation, Confirmations, IInv, TypeOK
  <2> QED
    BY <1>0, <2>1, <2>2, <2>3 DEF Says
<1>2. CASE ResumeWork
  BY <1>0, <1>2 DEF ResumeWork, Says, Notes
<1>3. CASE FailParse
  BY <1>0, <1>3 DEF FailParse, Says, Notes, ActionableStates, TerminalStates
<1>4. CASE AskForMissing
  BY <1>0, <1>4 DEF AskForMissing, Says, Notes, ActionableStates, TerminalStates
<1>5. CASE Complete
  BY <1>0, <1>5 DEF Complete, Says, Notes, ActionableStates, TerminalStates
<1> QED
  BY <1>1, <1>2, <1>3, <1>4, <1>5 DEF ExecutorStep

\* Such a step keeps the invariant.
LEMMA StepKept ==
  ASSUME IInv, NEW from, NEW next, NEW event \in Events,
         Says(from, event, next), Step(from, event, next),
         UNCHANGED <<client, turn, seen, restarts>>
  PROVE  IInv'
<1>0. PICK n \in Nat : n = Len(events)
  BY DEF IInv, TypeOK, RuntimeTypeOK
<1>1. /\ events \in Seq(Events) /\ Enqueue(event) /\ pc = from /\ pc' = next
      /\ UNCHANGED <<sent, served, cancelled, task, conversation>>
      /\ from \in {"begin", "parse", "complete"} /\ next \in {"idle", "parse", "complete"}
      /\ Finished' = Finished /\ Current' = Current /\ Texts(served)' = Texts(served)
      /\ Finished => events = <<>>
  BY DEF Step, Says, IInv, TypeOK, RuntimeTypeOK, Events, Finished, Current, Texts, QueueInv
<1>2. /\ event.kind \in {"status", "artifact"} /\ ~IsCancel(event)
      /\ event.kind = "status" => event.state \in {"WORKING"} \union ActionableStates
      /\ IsQuestion(event) => next = "idle"
      /\ IsCompletion(event) => from = "complete"
      /\ from = "complete" => IsCompletion(event) /\ next = "idle"
      /\ event.kind = "artifact" => event.artifact = Current /\ next = "complete"
      /\ next = "complete" =>
           event.kind = "artifact" /\ event.artifact.id = "reservation-confirmation"
      /\ next = "parse" => ChangesState(event) /\ StateOf(event) \in Busy
      /\ Needs(event, Busy) = IF from = "begin" THEN OpenStates ELSE Busy
  <2>0. Current.id = "reservation-confirmation"
    BY DEF Current, Confirmation
  <2> USE DEF StatusEvent, ArtifactEvent, IsCancel, IsQuestion, IsCompletion,
              ActionableStates, TerminalStates, ChangesState, StateOf, Needs, Busy
  <2>1. CASE from = "begin" /\ event = StatusEvent("WORKING", "none") /\ next = "parse"
    BY <2>1
  <2>2. CASE from = "parse" /\ event = StatusEvent("FAILED", "error") /\ next = "idle"
    BY <2>2
  <2>3. CASE from = "parse" /\ event = StatusEvent("INPUT_REQUIRED", "missing") /\ next = "idle"
    BY <2>3
  <2>4. CASE from = "parse" /\ event = ArtifactEvent(Current) /\ next = "complete"
    BY <2>0, <2>4
  <2>5. CASE from = "complete" /\ event = StatusEvent("COMPLETED", "none") /\ next = "idle"
    BY <2>5
  <2> QED
    BY <2>1, <2>2, <2>3, <2>4, <2>5 DEF Says
<1>3. Ready(Len(events) + 1, Needs(event, Busy))
  BY <1>1, <1>2 DEF IInv, PlaceInv
<1>4. /\ \A i \in 1..Len(events') :
           \/ i \in 1..n /\ events'[i] = events[i]
           \/ ~Finished /\ i = n + 1 /\ events'[i] = event
      /\ ~Finished => /\ Len(events') = n + 1 /\ events'[n + 1] = event
                      /\ \A i \in 1..n : events'[i] = events[i]
      /\ events' = <<>> => Finished
  <2>1. \A i \in 1..Len(events') :
           \/ i \in 1..n /\ events'[i] = events[i]
           \/ ~Finished /\ i = n + 1 /\ events'[i] = event
    BY <1>0, <1>1, AppendedAt
  <2> QED
    BY <1>0, <1>1, <2>1, EnqueueAppends
<1>5. TypeOK'
  BY <1>1, EnqueueTyped DEF IInv, TypeOK, RuntimeTypeOK, Events
<1>6. QueueInv(Busy)'
  BY <1>1, <1>2, <1>3, QueueEnqueued DEF IInv, Busy, OpenStates
<1>7. TurnInv'
  BY <1>1 DEF IInv, TurnInv
<1>8. PlaceInv'
  <2>1. pc' \in {"parse", "complete"} => Ready(Len(events) + 1, Busy)'
    <3>1. CASE next = "parse"
      BY <1>1, <1>2, <3>1, ReadyBehind
    <3>2. CASE next = "complete"
      <4>1. ~ChangesState(event) /\ Ready(Len(events) + 1, Busy)
        BY <1>2, <1>3, <3>2, <1>1 DEF ChangesState, IInv, PlaceInv, Says
      <4> QED
        BY <1>1, <4>1, ReadyBehind
    <3> QED
      BY <1>1, <3>1, <3>2
  <2>2. task'.state = "NONE" => events' # <<>>
    BY <1>1, <1>4 DEF Finished, TerminalStates
  <2> QED
    BY <1>1, <2>1, <2>2 DEF IInv, PlaceInv
<1>9. HistoryInv'
  BY <1>1, <1>4 DEF IInv, HistoryInv
<1>10. QuestionInv'
  <2>1. \A i \in 1..n : ~IsQuestion(events[i])
    BY <1>0, <1>1 DEF IInv, QuestionInv
  <2>2. ASSUME NEW i \in 1..Len(events'), IsQuestion(events'[i])
        PROVE  pc' = "idle" /\ \A j \in 1..Len(events') : i < j => IsCancel(events'[j])
    <3>1. i = n + 1 /\ events'[i] = event /\ Len(events') = n + 1
      BY <1>4, <2>1, <2>2
    <3> QED
      BY <1>0, <1>1, <1>2, <2>2, <3>1
  <2>3. ~(task'.state = "INPUT_REQUIRED" /\ Len(task'.history) = served')
    BY <1>1 DEF IInv, QuestionInv
  <2>4. \A i \in 1..Len(events') : IsCancel(events'[i]) => cancelled'
    BY <1>0, <1>1, <1>2, <1>4 DEF IInv, QuestionInv
  <2> QED
    BY <2>2, <2>3, <2>4 DEF QuestionInv
<1>11. ConfirmInv'
  <2>1. \A a \in task'.artifacts : a = Current'
    BY <1>1 DEF IInv, ConfirmInv
  <2>2. ~Finished /\ (task.artifacts # {} \/ \E i \in 1..n : events[i].kind = "artifact") =>
          from = "complete"
    BY <1>0, <1>1 DEF IInv, ConfirmInv
  <2>3. ASSUME NEW i \in 1..Len(events'), events'[i].kind = "artifact"
        PROVE  /\ events'[i].artifact = Current'
               /\ \A j \in 1..Len(events') : i < j =>
                    IsCompletion(events'[j]) \/ IsCancel(events'[j])
    <3>1. CASE i \in 1..n /\ events'[i] = events[i]
      <4>1. ~Finished
        BY <1>0, <1>1, <3>1
      <4>2. IsCompletion(event)
        BY <1>2, <2>2, <2>3, <3>1, <4>1
      <4> QED
        BY <1>0, <1>1, <1>4, <2>3, <3>1, <4>2 DEF IInv, ConfirmInv
    <3>2. CASE ~Finished /\ i = n + 1 /\ events'[i] = event
      BY <1>0, <1>1, <1>2, <1>4, <2>3, <3>2
    <3> QED
      BY <1>4, <3>1, <3>2
  <2>4. task'.artifacts # {} =>
          /\ task'.state # "INPUT_REQUIRED"
          /\ \A j \in 1..Len(events') : IsCompletion(events'[j]) \/ IsCancel(events'[j])
    BY <1>0, <1>1, <1>2, <1>4, <2>2 DEF IInv, ConfirmInv
  <2>5. task'.artifacts # {} \/ (\E i \in 1..Len(events') : events'[i].kind = "artifact") =>
          \/ Finished'
          \/ pc' = "complete"
          \/ pc' = "idle" /\ cancelled'
          \/ pc' = "idle" /\ \E i \in 1..Len(events') : IsCompletion(events'[i])
    <3>1. SUFFICES ASSUME ~Finished,
                          task'.artifacts # {} \/ \E i \in 1..Len(events') : events'[i].kind = "artifact"
                   PROVE  \/ pc' = "complete"
                          \/ pc' = "idle" /\ \E i \in 1..Len(events') : IsCompletion(events'[i])
      BY <1>1
    <3>2. from = "complete" \/ event.kind = "artifact"
      BY <1>1, <1>4, <2>2, <3>1
    <3>3. n + 1 \in 1..Len(events')
      BY <1>4, <3>1
    <3> QED
      BY <1>1, <1>2, <1>4, <3>1, <3>2, <3>3
  <2>6. pc' = "complete" => Finished' \/ Coming("reservation-confirmation", Len(events) + 1)'
    BY <1>1, <1>2, ComingBehind
  <2>7. CompletesWith("reservation-confirmation", {})'
    <3>1. IsCompletion(event) => Finished \/ Coming("reservation-confirmation", Len(events) + 1)
      BY <1>1, <1>2 DEF IInv, ConfirmInv
    <3> QED
      BY <1>1, <3>1, CompletionEnqueued DEF IInv, ConfirmInv, IsCompletion
  <2> QED
    BY <2>1, <2>3, <2>4, <2>5, <2>6, <2>7 DEF ConfirmInv
<1>12. ReadyInv'
  BY <1>1 DEF IInv, ReadyInv
<1> QED
  BY <1>5, <1>6, <1>7, <1>8, <1>9, <1>10, <1>11, <1>12 DEF IInv

\* A call of execute() starts from a history that has caught up; only the first
\* one announces the task.
LEMMA ExecuteKept ==
  ASSUME IInv, Execute, UNCHANGED <<client, turn, seen, restarts>>
  PROVE  IInv'
<1>1. /\ pc = "idle" /\ events = <<>> /\ ~cancelled /\ ~Finished /\ served < Len(sent)
      /\ served' = served + 1
      /\ conversation' = Append(task.history, sent[served + 1].text)
      /\ UNCHANGED <<sent, cancelled, task>>
      /\ \/ Exists /\ pc' = "begin" /\ events' = events
         \/ ~Exists /\ pc' = "parse" /\ Enqueue(TaskEvent)
  BY DEF Execute, CanServe
<1>2. /\ served \in Nat /\ Len(sent) \in Nat /\ turn \in Nat /\ served \in 0..Len(sent)
      /\ Len(sent) = turn /\ turn <= served + 1
  BY DEF IInv, TypeOK, RuntimeTypeOK, TurnInv
<1>3. served' = turn /\ served' \in 0..Len(sent) /\ served # turn
  BY <1>1, <1>2
<1>4. /\ TaskEvent \in Events /\ TaskEvent.kind = "task" /\ ~IsQuestion(TaskEvent)
      /\ ~IsCancel(TaskEvent) /\ Needs(TaskEvent, Busy) = {"NONE"}
      /\ ChangesState(TaskEvent) /\ StateOf(TaskEvent) \in Busy
  BY EventsTyped
     DEF TaskEvent, Events, IsQuestion, IsCancel, Needs, ChangesState, StateOf, Busy
<1>5. ~Exists => served = 0 /\ task = NoTask
  BY <1>1 DEF IInv, PlaceInv, Exists
<1>6. task.history = Texts(served)
  <2>1. CASE Exists
    BY <1>1, <2>1 DEF IInv, HistoryInv
  <2>2. CASE ~Exists
    BY <1>5, <2>2 DEF NoTask, Texts
  <2> QED
    BY <2>1, <2>2
<1>7. conversation' = Texts(served)' /\ conversation' \in Seq(Messages)
  <2>1. conversation' = Texts(served + 1)
    BY <1>1, <1>6, TextsNext DEF IInv, TypeOK
  <2>2. Texts(served + 1) \in Seq(Messages)
    BY <1>1, <1>3, TextsTyped DEF IInv, TypeOK
  <2>3. Texts(served)' = Texts(served + 1)
    BY <1>1 DEF Texts
  <2> QED
    BY <2>1, <2>2, <2>3
<1>8. events \in Seq(Events) /\ Len(events) = 0 /\ Finished' = Finished
  BY <1>1 DEF Finished, IInv, TypeOK, RuntimeTypeOK, Events
<1>9. /\ events' \in Seq(Events)
      /\ \A i \in 1..Len(events') : events'[i] = TaskEvent
      /\ events' = <<>> => Exists /\ pc' = "begin"
  <2>1. CASE Exists /\ pc' = "begin" /\ events' = events
    BY <1>8, <2>1
  <2>2. CASE ~Exists /\ pc' = "parse" /\ Enqueue(TaskEvent)
    <3>1. events' \in Seq(Events) /\ Len(events') = 1 /\ events'[1] = TaskEvent
      BY <1>1, <1>4, <1>8, <2>2, EnqueueAppends
    <3> QED
      BY <3>1
  <2> QED
    BY <1>1, <2>1, <2>2
<1>10. TypeOK'
  BY <1>1, <1>3, <1>7, <1>9 DEF IInv, TypeOK, RuntimeTypeOK, Events
<1>11. QueueInv(Busy)' /\ (pc' = "begin" => Ready(Len(events) + 1, OpenStates)')
         /\ (pc' = "parse" => Ready(Len(events) + 1, Busy)')
  <2>1. CASE Exists /\ pc' = "begin" /\ events' = events
    <3>1. task.state \in OpenStates
      BY <1>1, <2>1
         DEF Exists, Finished, OpenStates, States, ActionableStates, TerminalStates,
             IInv, TypeOK, RuntimeTypeOK, RecordsWith
    <3>2. Ready(Len(events) + 1, OpenStates)
      BY <1>8, <3>1, ReadyFirst
    <3> QED
      BY <1>1, <2>1, <3>2, NothingMoved DEF IInv
  <2>2. CASE ~Exists /\ pc' = "parse" /\ Enqueue(TaskEvent)
    <3>1. Ready(Len(events) + 1, {"NONE"})
      BY <1>8, <2>2, ReadyFirst DEF Exists
    <3>2. QueueInv(Busy)'
      BY <1>1, <1>4, <1>8, <2>2, <3>1, QueueEnqueued DEF IInv, Busy, OpenStates
    <3>3. Ready(Len(events) + 1, Busy)'
      BY <1>1, <1>4, <1>8, <2>2, ReadyBehind
    <3> QED
      BY <2>2, <3>2, <3>3
  <2> QED
    BY <1>1, <2>1, <2>2
<1>12. TurnInv'
  BY <1>1, <1>2, <1>3 DEF IInv, TurnInv
<1>13. PlaceInv'
  BY <1>1, <1>2, <1>3, <1>9, <1>11 DEF IInv, PlaceInv, Exists
<1>14. HistoryInv'
  <2>1. Len(task'.history) <= served'
    <3>1. Len(Texts(served)) = served
      BY <1>2, TextsTyped DEF IInv, TypeOK
    <3> QED
      BY <1>1, <1>2, <1>6, <3>1
  <2> QED
    BY <1>1, <1>7, <1>8, <2>1 DEF IInv, HistoryInv
<1>15. QuestionInv'
  <2>1. ~(Len(task'.history) = served')
    <3>1. Len(Texts(served)) = served
      BY <1>2, TextsTyped DEF IInv, TypeOK
    <3> QED
      BY <1>1, <1>2, <1>6, <3>1
  <2> QED
    BY <1>4, <1>9, <2>1 DEF QuestionInv
<1>16. ConfirmInv'
  <2>1. task.artifacts = {}
    BY <1>1, <1>8 DEF IInv, ConfirmInv
  <2>2. task'.artifacts = {} /\ \A i \in 1..Len(events') : events'[i].kind = "task"
    BY <1>1, <1>4, <1>9, <2>1
  <2>3. task'.state # "COMPLETED"
    BY <1>1 DEF Finished, TerminalStates
  <2> QED
    BY <1>1, <2>2, <2>3 DEF ConfirmInv, CompletesWith
<1>17. ReadyInv'
  BY <1>1, <1>3 DEF IInv, ReadyInv
<1> QED
  BY <1>10, <1>11, <1>12, <1>13, <1>14, <1>15, <1>16, <1>17 DEF IInv

\* Storing an event keeps the invariant.
LEMMA StoreKept ==
  ASSUME IInv, Store, UNCHANGED <<client, turn, seen, restarts>>
  PROVE  IInv'
<1>1. /\ RuntimeTypeOK(Notes, Confirmations)'
      /\ Takes
      /\ events \in Seq(Events) /\ events[1] \in Events
      /\ task'.artifacts =
           IF events[1].kind = "artifact"
           THEN {a \in task.artifacts : a.id # events[1].artifact.id} \union {events[1].artifact}
           ELSE task.artifacts
      /\ task'.history = Texts(served)
      /\ UNCHANGED <<sent, served, pc, cancelled, conversation>>
  BY ConsumeTyped DEF Store, Consume, IInv, TypeOK, RuntimeTypeOK, Events
<1>2. PICK n \in Nat \ {0} : n = Len(events)
  BY <1>1, TakesFirst
<1>3. /\ ~Finished /\ task.state \in Needs(events[1], Busy)
      /\ events[1].kind = "status" => events[1].state \in {"WORKING"} \union ActionableStates
      /\ task'.state = IF ChangesState(events[1]) THEN StateOf(events[1]) ELSE task.state
  BY <1>1, TakenInState DEF IInv, Takes
<1>4. \A i \in 1..Len(events') : ~Finished' /\ i + 1 \in 1..n /\ events'[i] = events[i + 1]
  BY <1>1, <1>2, TakenAt
<1>5. Texts(served)' = Texts(served) /\ Len(Texts(served)) = served /\ Current' = Current
  BY <1>1, TextsTyped DEF Texts, Current, IInv, TypeOK, RuntimeTypeOK
<1>6. events[1].kind \in {"task", "status", "artifact"}
  BY <1>1 DEF Events, EventsWith
<1>7. TypeOK'
  BY <1>1 DEF IInv, TypeOK
<1>8. QueueInv(Busy)'
  BY <1>1, QueueTaken DEF IInv
<1>9. TurnInv'
  BY <1>1 DEF IInv, TurnInv
<1>10. PlaceInv'
  <2>1. \A S : Ready(Len(events) + 1, S) => Ready(Len(events) + 1, S)'
    BY <1>1, <1>3, ReadyStays
  <2>2. pc' = "begin" => Ready(Len(events) + 1, OpenStates)'
    BY <1>1, <2>1 DEF IInv, PlaceInv
  <2>3. pc' \in {"parse", "complete"} => Ready(Len(events) + 1, Busy)'
    BY <1>1, <2>1 DEF IInv, PlaceInv
  <2>4. task'.state # "NONE"
    BY <1>3, <1>6
       DEF ChangesState, StateOf, Needs, Busy, ActionableStates, TerminalStates
  <2>5. served' # 0
    BY <1>1, <1>2 DEF IInv, PlaceInv
  <2> QED
    BY <2>2, <2>3, <2>4, <2>5 DEF PlaceInv
<1>11. HistoryInv'
  <2>1. served \in Nat
    BY DEF IInv, TypeOK, RuntimeTypeOK
  <2> QED
    BY <1>1, <1>5, <2>1 DEF IInv, HistoryInv
<1>12. QuestionInv'
  <2>1. ASSUME NEW i \in 1..Len(events'), IsQuestion(events'[i])
        PROVE  pc' = "idle" /\ \A j \in 1..Len(events') : i < j => IsCancel(events'[j])
    <3>1. i + 1 \in 1..n /\ IsQuestion(events[i + 1])
      BY <1>4, <2>1
    <3>2. pc = "idle" /\ \A j \in 1..n : i + 1 < j => IsCancel(events[j])
      BY <1>2, <3>1 DEF IInv, QuestionInv
    <3> QED
      BY <1>1, <1>4, <3>2
  <2>2. ASSUME task'.state = "INPUT_REQUIRED"
        PROVE  pc' = "idle" /\ \A j \in 1..Len(events') : IsCancel(events'[j])
    <3>1. IsQuestion(events[1])
      BY <1>3, <1>6, <2>2 DEF ChangesState, StateOf, Needs, Busy, IsQuestion
    <3>2. pc = "idle" /\ \A j \in 1..n : 1 < j => IsCancel(events[j])
      BY <1>2, <3>1 DEF IInv, QuestionInv
    <3> QED
      BY <1>1, <1>4, <3>2
  <2>3. \A i \in 1..Len(events') : IsCancel(events'[i]) => cancelled'
    BY <1>1, <1>2, <1>4 DEF IInv, QuestionInv
  <2> QED
    BY <2>1, <2>2, <2>3 DEF QuestionInv
<1>13. ConfirmInv'
  <2>0. 1 \in 1..n
    BY <1>2
  <2>1. \A a \in task'.artifacts : a = Current'
    BY <1>1, <1>2, <1>5, <2>0 DEF IInv, ConfirmInv
  <2>2. ASSUME NEW i \in 1..Len(events'), events'[i].kind = "artifact"
        PROVE  /\ events'[i].artifact = Current'
               /\ \A j \in 1..Len(events') : i < j =>
                    IsCompletion(events'[j]) \/ IsCancel(events'[j])
    <3>1. i + 1 \in 1..n /\ events[i + 1].kind = "artifact" /\ events'[i] = events[i + 1]
      BY <1>4, <2>2
    <3>2. /\ events[i + 1].artifact = Current
          /\ \A j \in 1..n : i + 1 < j => IsCompletion(events[j]) \/ IsCancel(events[j])
      BY <1>2, <3>1 DEF IInv, ConfirmInv
    <3>3. \A j \in 1..Len(events') : i < j => IsCompletion(events'[j]) \/ IsCancel(events'[j])
      BY <1>4, <3>2
    <3> QED
      BY <1>5, <3>1, <3>2, <3>3
  <2>3. ASSUME task'.artifacts # {}
        PROVE  /\ task'.state # "INPUT_REQUIRED"
               /\ \A j \in 1..Len(events') : IsCompletion(events'[j]) \/ IsCancel(events'[j])
    <3>1. CASE task.artifacts # {}
      <4>1. \A j \in 1..n : IsCompletion(events[j]) \/ IsCancel(events[j])
        BY <1>2, <3>1 DEF IInv, ConfirmInv
      <4>2. task'.state \in TerminalStates
        BY <1>3, <2>0, <4>1
           DEF IsCompletion, IsCancel, ChangesState, StateOf, TerminalStates
      <4> QED
        BY <1>4, <4>1, <4>2 DEF TerminalStates
    <3>2. CASE events[1].kind = "artifact"
      <4>1. \A j \in 1..n : 1 < j => IsCompletion(events[j]) \/ IsCancel(events[j])
        BY <1>2, <2>0, <3>2 DEF IInv, ConfirmInv
      <4>2. task'.state \in Busy
        BY <1>3, <3>2 DEF ChangesState, Needs
      <4> QED
        BY <1>4, <4>1, <4>2 DEF Busy
    <3> QED
      BY <1>1, <2>3, <3>1, <3>2
  <2>4. ASSUME ~Finished',
               task'.artifacts # {} \/ \E i \in 1..Len(events') : events'[i].kind = "artifact"
        PROVE  \/ pc' = "complete"
               \/ pc' = "idle" /\ cancelled'
               \/ pc' = "idle" /\ \E i \in 1..Len(events') : IsCompletion(events'[i])
    <3>1. task.artifacts # {} \/ \E i \in 1..n : events[i].kind = "artifact"
      BY <1>1, <1>4, <2>0, <2>4
    <3>2. \/ pc = "complete"
          \/ pc = "idle" /\ cancelled
          \/ pc = "idle" /\ \E i \in 1..n : IsCompletion(events[i])
      BY <1>2, <1>3, <3>1 DEF IInv, ConfirmInv
    <3>3. ASSUME NEW i \in 1..n, IsCompletion(events[i])
          PROVE  \E j \in 1..Len(events') : IsCompletion(events'[j])
      <4>1. i # 1
        BY <1>3, <2>4, <3>3
           DEF IsCompletion, ChangesState, StateOf, Finished, TerminalStates
      <4>2. Len(events') = n - 1 /\ \A k \in 1..Len(events') : events'[k] = events[k + 1]
        BY <1>1, <1>2, <2>4, TakesFirst
      <4>3. i - 1 \in 1..Len(events') /\ events'[i - 1] = events[i]
        BY <1>2, <4>1, <4>2
      <4> QED
        BY <3>3, <4>3
    <3> QED
      BY <1>1, <3>2, <3>3
  <2>5. pc' = "complete" => Finished' \/ Coming("reservation-confirmation", Len(events) + 1)'
    BY <1>1, ComingKeepsUp DEF Store, IInv, TypeOK, ConfirmInv, QueueInv
  <2>6. CompletesWith("reservation-confirmation", {})'
    BY <1>3, CompletionTaken DEF Store, IInv, TypeOK, ConfirmInv
  <2> QED
    BY <2>1, <2>2, <2>3, <2>4, <2>5, <2>6 DEF ConfirmInv
<1>14. ReadyInv'
  <2>1. SUFFICES ASSUME client = "ready" PROVE ReadyInv'
    BY DEF ReadyInv
  <2>2. /\ served = turn /\ pc = "idle" /\ task.artifacts = {}
        /\ \A j \in 1..n : IsCancel(events[j])
    BY <1>2, <2>1 DEF IInv, ReadyInv
  <2>3. task'.artifacts = {}
    BY <1>1, <1>2, <2>2 DEF IsCancel
  <2> QED
    BY <1>1, <1>4, <2>2, <2>3 DEF ReadyInv
<1> QED
  BY <1>7, <1>8, <1>9, <1>10, <1>11, <1>12, <1>13, <1>14 DEF IInv

\* A cancel keeps the invariant, wherever execute() is interrupted.
LEMMA CancelKept ==
  ASSUME IInv, Cancel, UNCHANGED <<client, turn, seen, restarts>>
  PROVE  IInv'
<1>0. PICK n \in Nat : n = Len(events)
  BY DEF IInv, TypeOK, RuntimeTypeOK
<1>1. PICK event \in Events : event = StatusEvent("CANCELED", "none")
  BY EventsTyped DEF Events, Notes, States, ActionableStates, TerminalStates
<1>2. /\ events \in Seq(Events) /\ Enqueue(event) /\ Exists /\ ~Finished /\ ~Finished'
      /\ pc' \in {pc, "idle"} /\ cancelled' = TRUE
      /\ UNCHANGED <<sent, served, task, conversation>>
      /\ Current' = Current /\ Texts(served)' = Texts(served)
  BY <1>1 DEF Cancel, AcceptCancel, IInv, TypeOK, RuntimeTypeOK, Events, Current, Texts, Finished
<1>3. /\ IsCancel(event) /\ event.kind = "status" /\ ~IsQuestion(event)
      /\ event.state # "COMPLETED"
  BY <1>1 DEF StatusEvent, IsCancel, IsQuestion
<1>4. /\ \A i \in 1..Len(events') :
           (i \in 1..n /\ events'[i] = events[i]) \/ (i = n + 1 /\ events'[i] = event)
      /\ Len(events') = n + 1
      /\ \A i \in 1..n : events'[i] = events[i]
  BY <1>0, <1>2, AppendedAt, EnqueueAppends
<1>5. TypeOK'
  BY <1>2, EnqueueTyped DEF IInv, TypeOK, RuntimeTypeOK, Events
<1>6. QueueInv(Busy)' /\ \A S : Ready(Len(events) + 1, S)'
  BY <1>1, <1>2, CancelQueued DEF IInv, Busy, OpenStates
<1>7. TurnInv'
  BY <1>2 DEF IInv, TurnInv
<1>8. PlaceInv'
  <2>1. Ready(Len(events) + 1, OpenStates)' /\ Ready(Len(events) + 1, Busy)'
    BY <1>6
  <2>2. task'.state # "NONE" /\ served' # 0
    BY <1>2 DEF IInv, PlaceInv, Exists, NoTask
  <2> QED
    BY <2>1, <2>2 DEF PlaceInv
<1>9. HistoryInv'
  BY <1>2 DEF IInv, HistoryInv
<1>10. QuestionInv'
  BY <1>0, <1>2, <1>3, <1>4 DEF IInv, QuestionInv
<1>11. ConfirmInv'
  <2>1. \A i \in 1..Len(events') : events'[i].kind = "artifact" =>
          i \in 1..n /\ events'[i] = events[i]
    BY <1>3, <1>4
  <2>2. ASSUME NEW i \in 1..Len(events'), events'[i].kind = "artifact"
        PROVE  /\ events'[i].artifact = Current'
               /\ \A j \in 1..Len(events') : i < j =>
                    IsCompletion(events'[j]) \/ IsCancel(events'[j])
    BY <1>0, <1>2, <1>3, <1>4, <2>1, <2>2 DEF IInv, ConfirmInv
  <2>3. task'.artifacts # {} =>
          /\ task'.state # "INPUT_REQUIRED"
          /\ \A j \in 1..Len(events') : IsCompletion(events'[j]) \/ IsCancel(events'[j])
    BY <1>0, <1>2, <1>3, <1>4 DEF IInv, ConfirmInv
  <2>4. task'.artifacts # {} \/ (\E i \in 1..Len(events') : events'[i].kind = "artifact") =>
          pc' = "complete" \/ (pc' = "idle" /\ cancelled')
    BY <1>0, <1>2, <2>1 DEF IInv, ConfirmInv
  <2>5. pc' = "complete" => Finished' \/ Coming("reservation-confirmation", Len(events) + 1)'
    BY <1>2, ComingBehind DEF IInv, ConfirmInv
  <2>6. CompletesWith("reservation-confirmation", {})'
    BY <1>2, <1>3, CompletionEnqueued DEF IInv, ConfirmInv
  <2> QED
    BY <1>2, <2>2, <2>3, <2>4, <2>5, <2>6 DEF IInv, ConfirmInv
<1>12. ReadyInv'
  BY <1>0, <1>2, <1>3, <1>4 DEF IInv, ReadyInv
<1> QED
  BY <1>5, <1>6, <1>7, <1>8, <1>9, <1>10, <1>11, <1>12 DEF IInv

\* The client sends its next turn only when nothing has been confirmed.
LEMMA TurnKept ==
  ASSUME IInv, SendTurn
  PROVE  IInv'
<1>1. /\ client = "ready" /\ client' = "waiting" /\ turn < Len(Script) /\ turn' = turn + 1
      /\ SendMessage(Script[turn + 1])
      /\ UNCHANGED <<served, pc, events, cancelled, task, conversation, seen, restarts>>
  BY DEF SendTurn, Send, SendMessage
<1>2. /\ turn \in Nat /\ turn' \in 0..Len(Script) /\ Script[turn + 1] \in Messages
      /\ Len(sent) = turn
  <2>1. Script \in Seq(Messages) /\ Len(Script) \in Nat /\ turn \in Nat
    BY ScriptAssumption DEF IInv, TypeOK
  <2>2. turn + 1 \in 1..Len(Script)
    BY <1>1, <2>1
  <2> QED
    BY <1>1, <2>1, <2>2, ElementOfSeq DEF IInv, TurnInv
<1>3. /\ RuntimeTypeOK(Notes, Confirmations)'
      /\ Len(sent') = turn + 1
      /\ \A i \in 1..turn : sent'[i] = sent[i]
      /\ sent'[turn + 1].text = Script[turn + 1]
      /\ Texts(served)' = Texts(served)
  <2>1. PICK m \in Messages : m = Script[turn + 1]
    BY <1>2
  <2>2. SendMessage(m) /\ RuntimeTypeOK(Notes, Confirmations)
    BY <1>1, <2>1 DEF IInv, TypeOK
  <2>3. /\ RuntimeTypeOK(Notes, Confirmations)'
        /\ Len(sent') = Len(sent) + 1
        /\ \A i \in 1..Len(sent) : sent'[i] = sent[i]
        /\ sent'[Len(sent) + 1] = [text |-> m, shown |-> task.note]
    BY <2>2, SendTyped
  <2>4. Texts(served)' = Texts(served)
    BY <2>2, TextsStay
  <2> QED
    BY <1>2, <2>1, <2>3, <2>4
<1>4. /\ served = turn /\ pc = "idle" /\ task.artifacts = {}
      /\ \A j \in 1..Len(events) : IsCancel(events[j])
  BY <1>1 DEF IInv, ReadyInv
<1>5. TypeOK'
  BY <1>1, <1>2, <1>3 DEF IInv, TypeOK
<1>6. TurnInv'
  <2>1. \A i \in 1..(turn + 1) : sent'[i].text = Script[i]
    BY <1>2, <1>3 DEF IInv, TurnInv
  <2> QED
    BY <1>1, <1>2, <1>3, <1>4, <2>1 DEF TurnInv
<1>7. /\ QueueInv(Busy)' /\ Finished' = Finished
      /\ CompletesWith("reservation-confirmation", {})'
  BY <1>1, NothingMoved DEF IInv, ConfirmInv
<1>8. PlaceInv'
  <2>1. task.state = "NONE" => served = 0
    <3>1. task.state = "NONE" => sent = <<>>
      BY <1>1 DEF SendMessage, Exists
    <3> QED
      BY <1>2, <1>4, <3>1
  <2> QED
    BY <1>1, <1>4, <2>1 DEF IInv, PlaceInv
<1>9. HistoryInv'
  BY <1>1, <1>3, <1>4, <1>7 DEF IInv, HistoryInv, Exists
<1>10. QuestionInv'
  BY <1>1 DEF IInv, QuestionInv
<1>11. ConfirmInv'
  <2>1. \A i \in 1..Len(events') : events'[i].kind # "artifact"
    BY <1>1, <1>4 DEF IsCancel
  <2> QED
    BY <1>1, <1>4, <1>7, <2>1 DEF ConfirmInv
<1>12. ReadyInv'
  BY <1>1 DEF ReadyInv
<1> QED
  BY <1>5, <1>6, <1>7, <1>8, <1>9, <1>10, <1>11, <1>12 DEF IInv

\* A restart forgets the task, and the requests with it.
LEMMA RestartKept ==
  ASSUME IInv, Restart
  PROVE  IInv'
<1>1. /\ served' = Len(sent) /\ pc' = "idle" /\ events' = <<>> /\ cancelled' = FALSE
      /\ task' = NoTask
      /\ UNCHANGED <<sent, conversation, turn, seen>>
      /\ client' = IF client = "waiting" THEN "crashed" ELSE client
      /\ restarts < MaxRestarts /\ restarts' = restarts + 1
  BY DEF Restart, RestartServer
<1>2. RuntimeTypeOK(Notes, Confirmations)'
  <2>1. RestartServer
    BY DEF Restart
  <2>2. "none" \in Notes /\ RuntimeTypeOK(Notes, Confirmations)
    BY DEF IInv, TypeOK, Notes
  <2> QED
    BY <2>1, <2>2, RestartTyped
<1>3. /\ task'.state = "NONE" /\ task'.note = "none" /\ task'.artifacts = {}
      /\ task'.history = <<>> /\ Len(events') = 0 /\ ~Finished'
  BY <1>1 DEF NoTask, Finished, TerminalStates
<1>4. TypeOK'
  BY <1>1, <1>2, ScriptAssumption DEF IInv, TypeOK
<1>5. QueueInv(Busy)'
  BY <1>1, <1>3, QueueEmptied DEF States
<1>6. TurnInv'
  BY <1>1 DEF IInv, TurnInv, TypeOK
<1>7. PlaceInv'
  BY <1>1, <1>3 DEF PlaceInv
<1>8. HistoryInv'
  <2>1. Len(task'.history) = 0 /\ served' \in Nat
    BY <1>1, <1>3 DEF IInv, TypeOK, RuntimeTypeOK
  <2> QED
    BY <1>1, <1>3, <2>1 DEF HistoryInv, Exists
<1>9. QuestionInv'
  BY <1>1, <1>3 DEF QuestionInv
<1>10. ConfirmInv'
  BY <1>1, <1>3 DEF ConfirmInv, CompletesWith
<1>11. ReadyInv'
  BY <1>1, <1>3 DEF IInv, ReadyInv, TurnInv
<1> QED
  BY <1>4, <1>5, <1>6, <1>7, <1>8, <1>9, <1>10, <1>11 DEF IInv

\* The steps in which only the client moves keep the invariant: a question is
\* received when the call that asked it has returned.
LEMMA ClientKept ==
  ASSUME IInv, TurnRefused \/ Receive \/ OutOfTurns \/ TurnTimesOut \/ UNCHANGED sessionVars
  PROVE  IInv'
<1>1. UNCHANGED <<vars, turn, restarts>> /\ seen' \in {seen, task}
  BY DEF TurnRefused, Receive, OutOfTurns, TurnTimesOut, sessionVars
<1>2. UNCHANGED <<sent, served, pc, events, cancelled, task, conversation, turn, restarts>>
  BY <1>1 DEF vars
<1>3. /\ QueueInv(Busy)' /\ Finished' = Finished /\ Texts(served)' = Texts(served)
      /\ Current' = Current
      /\ \A i, S : Ready(i, S)' <=> Ready(i, S)
      /\ \A i, id : Coming(id, i)' <=> Coming(id, i)
      /\ CompletesWith("reservation-confirmation", {})'
  BY <1>2, NothingMoved DEF IInv, ConfirmInv, Texts, Current
<1>4. TypeOK'
  <2>1. client' \in {"ready", "waiting", "crashed", "done"}
    BY DEF TurnRefused, Receive, OutOfTurns, TurnTimesOut, sessionVars, IInv, TypeOK
  <2>2. seen' \in Records
    BY <1>1 DEF IInv, TypeOK, RuntimeTypeOK, Records
  <2> QED
    BY <1>2, <2>1, <2>2 DEF IInv, TypeOK, RuntimeTypeOK
<1>5. TurnInv'
  BY <1>2 DEF IInv, TurnInv
<1>6. PlaceInv'
  BY <1>2, <1>3 DEF IInv, PlaceInv
<1>7. HistoryInv'
  BY <1>2, <1>3 DEF IInv, HistoryInv, Exists
<1>8. QuestionInv'
  BY <1>2 DEF IInv, QuestionInv
<1>9. ConfirmInv'
  BY <1>2, <1>3 DEF IInv, ConfirmInv
<1>10. ReadyInv'
  <2>1. CASE Receive /\ client' = "ready"
    <3>1. task.state = "INPUT_REQUIRED" /\ Len(task.history) = turn
      BY <2>1 DEF Receive, Finished, TerminalStates
    <3>2. served = turn
      <4>1. PICK n \in Nat : n = Len(sent)
        BY DEF IInv, TypeOK, RuntimeTypeOK
      <4>2. served \in 0..n /\ n = turn /\ turn <= served
        BY <3>1, <4>1 DEF IInv, TypeOK, RuntimeTypeOK, TurnInv, HistoryInv
      <4> QED
        BY <4>2
    <3>3. pc = "idle" /\ \A j \in 1..Len(events) : IsCancel(events[j])
      BY <3>1, <3>2 DEF IInv, QuestionInv
    <3>4. task.artifacts = {}
      BY <3>1 DEF IInv, ConfirmInv
    <3> QED
      BY <1>2, <3>2, <3>3, <3>4 DEF ReadyInv
  <2>2. CASE client' \in {client, "crashed", "done"}
    BY <1>2, <2>2 DEF IInv, ReadyInv
  <2> QED
    BY <2>1, <2>2 DEF TurnRefused, Receive, OutOfTurns, TurnTimesOut, sessionVars
<1> QED
  BY <1>3, <1>4, <1>5, <1>6, <1>7, <1>8, <1>9, <1>10 DEF IInv

\* Script, agent and store are consistent, whoever cancels, restarts or times
\* out.
THEOREM ReservationConsistent == SessionSpec => []IInv
<1>1. SessionInit => IInv
  <2> SUFFICES ASSUME SessionInit PROVE IInv
    OBVIOUS
  <2>1. /\ sent = <<>> /\ served = 0 /\ pc = "idle" /\ events = <<>> /\ task = NoTask
        /\ cancelled = FALSE /\ conversation = <<>>
        /\ client = "ready" /\ turn = 0 /\ seen = NoTask /\ restarts = 0
    BY DEF SessionInit, Init, RuntimeInit
  <2>2. /\ task.state = "NONE" /\ task.note = "none" /\ task.artifacts = {}
        /\ task.history = <<>> /\ Len(events) = 0 /\ Len(sent) = 0 /\ ~Finished
        /\ Len(task.history) = 0
    BY <2>1 DEF NoTask, Finished, TerminalStates
  <2>3. RuntimeTypeOK(Notes, Confirmations)
    BY InitTyped DEF SessionInit, Init, Notes
  <2>4. TypeOK
    BY <2>1, <2>3, ScriptAssumption DEF TypeOK, RuntimeTypeOK, Records
  <2>5. QueueInv(Busy)
    BY <2>1, <2>2, EmptyQueue DEF States
  <2>6. TurnInv /\ PlaceInv /\ HistoryInv
    BY <2>1, <2>2 DEF TurnInv, PlaceInv, HistoryInv, Exists
  <2>7. QuestionInv /\ ConfirmInv /\ ReadyInv
    BY <2>1, <2>2 DEF QuestionInv, ConfirmInv, CompletesWith, ReadyInv
  <2> QED
    BY <2>4, <2>5, <2>6, <2>7 DEF IInv
<1>2. IInv /\ [SessionNext]_sessionVars => IInv'
  <2> SUFFICES ASSUME IInv, [SessionNext]_sessionVars PROVE IInv'
    OBVIOUS
  <2>1. CASE OtherStep(ExecutorStep)
    <3>1. CASE Execute
      BY <2>1, <3>1, ExecuteKept DEF OtherStep
    <3>2. CASE ~Execute
      BY <2>1, <3>2, ExecutorSays, StepKept DEF OtherStep
    <3> QED
      BY <3>1, <3>2
  <2>2. CASE OtherStep(Store)
    BY <2>2, StoreKept DEF OtherStep
  <2>3. CASE OtherStep(Cancel)
    BY <2>3, CancelKept DEF OtherStep
  <2>4. CASE SendTurn
    BY <2>4, TurnKept
  <2>5. CASE Restart
    BY <2>5, RestartKept
  <2>6. CASE TurnRefused \/ Receive \/ OutOfTurns \/ TurnTimesOut \/ UNCHANGED sessionVars
    BY <2>6, ClientKept
  <2> QED
    BY <2>1, <2>2, <2>3, <2>4, <2>5, <2>6 DEF SessionNext, ClientStep
<1> QED
  BY <1>1, <1>2, PTL DEF SessionSpec

\* A confirmation takes everything into account that the client has said.
THEOREM WholeConversationConfirmed == SessionSpec => []ConfirmsWholeConversation
<1>1. IInv => ConfirmsWholeConversation
  BY DEF IInv, ConfirmInv, Current, Confirmation, ConfirmsWholeConversation
<1> QED
  BY <1>1, ReservationConsistent, PTL

\* A client that is ready for its next turn has the answer to its last one.
THEOREM QuestionsFresh == SessionSpec => []QuestionIsFresh
<1>1. IInv => QuestionIsFresh
  <2> SUFFICES ASSUME IInv, client = "ready"
               PROVE  served = turn /\ (cancelled \/ (pc = "idle" /\ events = <<>>))
    BY DEF QuestionIsFresh
  <2>1. /\ served = turn /\ pc = "idle"
        /\ \A j \in 1..Len(events) : IsCancel(events[j])
    BY DEF IInv, ReadyInv
  <2>2. events # <<>> => 1 \in 1..Len(events)
    BY DEF IInv, TypeOK, RuntimeTypeOK
  <2> QED
    BY <2>1, <2>2 DEF IInv, QuestionInv
<1> QED
  BY <1>1, ReservationConsistent, PTL

\* The first event of the queue is one the task is ready for, and a completion
\* has its confirmation.
LEMMA StoreRefines ==
  ASSUME IInv, Store
  PROVE  Lifecycle!Next
<1> DEFINE result == {Confirmation(SubSeq(Script, 1, n)) : n \in 1..Len(Script)}
<1>1. Len(events) \in Nat \ {0} /\ events[1] \in Events
  BY ConsumeTyped, TakesFirst DEF Store, IInv, TypeOK, RuntimeTypeOK, Events
<1>2. events[1].kind = "artifact" =>
        \A a \in task.artifacts : a.id = events[1].artifact.id => a = events[1].artifact
  BY <1>1 DEF IInv, ConfirmInv
<1>3. IsCompletion(events[1]) => task.artifacts \intersect result # {}
  <2>1. SUFFICES ASSUME IsCompletion(events[1]) PROVE task.artifacts \intersect result # {}
    OBVIOUS
  <2>2. Coming("reservation-confirmation", 1)
    BY <1>1, <2>1 DEF IInv, ConfirmInv, CompletesWith, IsCompletion
  <2>3. Current \in task.artifacts
    BY <1>1, <2>2 DEF Coming, Delivered, IInv, ConfirmInv
  <2>4. turn \in 1..Len(Script)
    <3>1. turn # 0
      BY <1>1 DEF IInv, PlaceInv, TurnInv, TypeOK, RuntimeTypeOK
    <3> QED
      BY <3>1, ScriptAssumption DEF IInv, TypeOK
  <2> QED
    BY <2>3, <2>4 DEF Current
<1> HIDE DEF result
<1>4. Promise(result, {}, Busy, TRUE)!Next
  BY <1>2, <1>3, StoreKeepsPromise
     DEF Store, IInv, TypeOK, Busy, OpenStates, IsCompletion
<1> QED
  BY <1>4
     DEF Promise!Next, Promise!Submit, Promise!Work, Promise!Deliver, Promise!Pause,
         Promise!Complete, Promise!Fail, Promise!Cancel, Promise!Forget, Promise!Open,
         Promise!Init,
         Lifecycle!Next, Lifecycle!Submit, Lifecycle!Work, Lifecycle!Deliver, Lifecycle!Pause,
         Lifecycle!Complete, Lifecycle!Fail, Lifecycle!Cancel, Lifecycle!Forget,
         Lifecycle!Open, Lifecycle!Init, result, Busy

\* The Restaurant Reservation agent keeps the promise of TaskLifecycle to
\* everyone who looks at the task.
THEOREM ReservationRefinesLifecycle == SessionSpec => RefinesLifecycle
<1>1. SessionInit => Lifecycle!Init
  BY DEF SessionInit, Init, RuntimeInit, NoTask, Lifecycle!Init
<1>2. IInv /\ [SessionNext]_sessionVars =>
        [Lifecycle!Next]_<<task.state, task.note, task.artifacts>>
  <2> SUFFICES ASSUME IInv, [SessionNext]_sessionVars
               PROVE  Lifecycle!Next \/ UNCHANGED <<task.state, task.note, task.artifacts>>
    OBVIOUS
  <2>1. CASE Restart
    <3>1. task' = NoTask
      BY <2>1 DEF Restart, RestartServer
    <3>2. CASE task.state # "NONE"
      <4>1. Lifecycle!Forget
        BY <3>1, <3>2 DEF NoTask, Lifecycle!Forget, Lifecycle!Init
      <4> QED
        BY <4>1 DEF Lifecycle!Next
    <3>3. CASE task.state = "NONE"
      BY <3>1, <3>3 DEF NoTask, IInv, PlaceInv
    <3> QED
      BY <3>2, <3>3
  <2>2. CASE OtherStep(Store)
    BY <2>2, StoreRefines DEF OtherStep
  <2>3. CASE task' = task
    BY <2>3
  <2> QED
    BY <2>1, <2>2, <2>3
       DEF SessionNext, ClientStep, SendTurn, Send, SendMessage, TurnRefused, Receive,
           OutOfTurns, TurnTimesOut, OtherStep, Cancel, AcceptCancel, ExecutorStep, Execute,
           ResumeWork, FailParse, AskForMissing, PublishConfirmation, Complete, Step,
           sessionVars, vars
<1> QED
  BY <1>1, <1>2, ReservationConsistent, PTL DEF SessionSpec, RefinesLifecycle, Lifecycle!Spec,
                                               Lifecycle!lifecycleVars
=============================================================================
