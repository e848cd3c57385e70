---------------------- MODULE ItineraryClients_proofs ----------------------
(***************************************************************************)
(* Theorems about ItineraryClients, for every polling budget and every     *)
(* number of restarts.                                                     *)
(***************************************************************************)
EXTENDS ItineraryClients, A2ARuntime_proofs

Notes == {"none", "missing", "error"}

Events == EventsWith(Notes, {Itinerary})

Records == RecordsWith(Notes, {Itinerary})

Working == {"parse", "draft", "complete"}

\* The type invariant.
TypeOK ==
  /\ RuntimeTypeOK(Notes, {Itinerary})
  /\ pc \in {"idle", "begin"} \union Working
  /\ script \in Scripts
  /\ submitter \in {"start", "waiting", "polling", "cancelling", "again"} \union Ended
  /\ seen \in Records
  /\ elapsed \in 0..Budget
  /\ checker \in {"off", "polling", "done", "crashed"}
  /\ found \in Records
  /\ restarts \in 0..MaxRestarts

\* The agent serves its one call, and publishes the itinerary ahead of the
\* completion.
AgentInv == PublisherInv(Working, Itinerary)

-----------------------------------------------------------------------------
\* Every step of execute() keeps the agent's invariant and types.
LEMMA ExecutorKept ==
  ASSUME TypeOK, AgentInv, ExecutorStep
  PROVE  /\ AgentInv'
         /\ RuntimeTypeOK(Notes, {Itinerary})'
         /\ pc' \in {"idle", "begin"} \union Working
<1>0. /\ Working \intersect {"idle", "begin"} = {}
      /\ RuntimeTypeOK(Notes, {Itinerary}) /\ PublisherInv(Working, Itinerary)
  BY DEF Working, TypeOK, AgentInv
<1>1. CASE Execute
  BY <1>0, <1>1, PublisherServed DEF Execute, AgentInv
<1>2. ASSUME NEW from \in {"begin"} \union Working, NEW next \in {"idle"} \union Working,
             NEW state \in {"WORKING", "FAILED", "COMPLETED"}, NEW note \in Notes,
             Step(from, StatusEvent(state, note), next),
             CASE state = "WORKING" -> next # "complete"
               [] state = "FAILED" -> from # "begin" /\ next = "idle"
               [] OTHER -> from # "begin" /\ next = "idle" /\ (from = "complete" \/ note = "missing")
      PROVE  /\ AgentInv'
             /\ RuntimeTypeOK(Notes, {Itinerary})'
             /\ pc' \in {"idle", "begin"} \union Working
  <2>1. PICK event \in EventsWith(Notes, {Itinerary}) : event = StatusEvent(state, note)
    BY EventsTyped DEF States, ActionableStates, TerminalStates
  <2>2. event.kind = "status" /\ event.state = state /\ event.note = note
    BY <2>1 DEF StatusEvent
  <2>3. /\ Enqueue(event) /\ UNCHANGED <<sent, served, cancelled, task>>
        /\ pc = from /\ pc' = next
    BY <1>2, <2>1 DEF Step
  <2>4. PublisherInv(Working, Itinerary)' /\ RuntimeTypeOK(Notes, {Itinerary})'
    BY <1>0, <1>2, <2>2, <2>3, PublisherStepped
  <2> QED
    BY <1>2, <2>3, <2>4 DEF AgentInv
<1>3. CASE StartWork \/ FailRequest \/ ReportMissing \/ DraftRaises \/ Complete
  BY <1>2, <1>3
     DEF StartWork, FailRequest, ReportMissing, DraftRaises, Complete,
         Working, Notes
<1>4. CASE StartPlanning
  <2>1. pc = "parse" /\ pc' = "draft" /\ UNCHANGED <<sent, served, events, cancelled, task>>
    BY <1>4 DEF StartPlanning
  <2> QED
    BY <2>1, NothingMoved
       DEF AgentInv, PublisherInv, OneCallInv, ResultInv, TypeOK, RuntimeTypeOK, Working
<1>5. CASE PublishItinerary
  <2>1. PICK event \in EventsWith(Notes, {Itinerary}) : event = ArtifactEvent(Itinerary)
    BY EventsTyped
  <2>2. event.kind = "artifact"
    BY <2>1 DEF ArtifactEvent
  <2>3. /\ Enqueue(event) /\ UNCHANGED <<sent, served, cancelled, task>>
        /\ pc = "draft" /\ pc' = "complete"
    BY <1>5, <2>1 DEF PublishItinerary, Step
  <2>4. PublisherInv(Working, Itinerary)' /\ RuntimeTypeOK(Notes, {Itinerary})'
    BY <1>0, <2>2, <2>3, PublisherStepped DEF Working
  <2> QED
    BY <2>3, <2>4 DEF AgentInv, Working
<1> QED
  BY <1>1, <1>3, <1>4, <1>5 DEF ExecutorStep

-----------------------------------------------------------------------------
Reported == {"COMPLETED", "FAILED"}

\* The call has returned by the time COMPLETED or FAILED is in the queue, and
\* so by the time it is stored.
OutcomeInv ==
  /\ \A i \in 1..Len(events) :
       events[i].kind = "status" /\ events[i].state \in Reported => pc = "idle"
  /\ task.state \in Reported => pc = "idle"

\* The task a script has seen COMPLETED or FAILED is still so, or forgotten, and
\* no request is left that could start another call.
OverInv ==
  \A snapshot \in {seen, found} :
    snapshot.state \in Reported =>
      /\ pc = "idle" /\ events = <<>>
      /\ sent # <<>> /\ served = Len(sent)
      /\ Finished \/ ~Exists

\* The inductive invariant.
IInv == TypeOK /\ AgentInv /\ ReportComplete /\ OutcomeInv /\ OverInv

\* The agent's part of the invariant survives every step of the system.
LEMMA AgentKept ==
  ASSUME TypeOK, AgentInv, [ClientsNext]_clientsVars
  PROVE  /\ AgentInv'
         /\ RuntimeTypeOK(Notes, {Itinerary})'
         /\ pc' \in {"idle", "begin"} \union Working
<1>0. /\ "idle" \notin Working /\ "none" \in Notes
      /\ RuntimeTypeOK(Notes, {Itinerary}) /\ PublisherInv(Working, Itinerary)
      /\ pc \in {"idle", "begin"} \union Working
  BY DEF Working, Notes, TypeOK, AgentInv
<1>1. CASE UNCHANGED vars
  BY <1>1, NothingMoved
     DEF vars, runtimeVars, AgentInv, PublisherInv, OneCallInv, ResultInv, TypeOK, RuntimeTypeOK
<1>2. CASE Submit
  BY <1>0, <1>2, PublisherAsked, ClientsAssumption DEF Submit, Send, SendMessage, AgentInv
<1>3. CASE CancelAccepted
  BY <1>0, <1>3, PublisherCancelled DEF CancelAccepted, Cancel, AgentInv
<1>4. CASE ServerStep
  <2>1. CASE Store
    BY <1>0, <2>1, PublisherStored DEF Store, Consume, AgentInv
  <2> QED
    BY <1>4, <2>1, ExecutorKept DEF ServerStep
<1>5. CASE Restart
  BY <1>0, <1>5, PublisherRestarted DEF Restart, RestartServer, AgentInv
<1> QED
  BY <1>1, <1>2, <1>3, <1>4, <1>5
     DEF ClientsNext, SubmitterStep, CheckerStep, Receive, Poll, Report, CancelRefused,
         CancelAnswered, CancelAgain, CheckLater, ReportLater, clientsVars

\* The scripts keep the types of their own variables.
LEMMA ScriptsTyped ==
  ASSUME TypeOK, AgentInv, [ClientsNext]_clientsVars
  PROVE  TypeOK'
<1>1. /\ RuntimeTypeOK(Notes, {Itinerary})'
      /\ pc' \in {"idle", "begin"} \union Working
  BY AgentKept
<1>2. task \in Records
  BY DEF TypeOK, RuntimeTypeOK, Records
<1>3. Budget \in Nat /\ MaxRestarts \in Nat /\ elapsed \in 0..Budget /\ restarts \in 0..MaxRestarts
  BY ClientsAssumption DEF TypeOK
<1>4. CASE Poll
  <2>1. elapsed' \in 0..Budget
    BY <1>3, <1>4 DEF Poll
  <2> QED
    BY <1>1, <1>2, <1>4, <2>1 DEF Poll, TypeOK, Ended, checkerVars
<1>5. CASE Restart
  <2>1. restarts' \in 0..MaxRestarts
    BY <1>3, <1>5 DEF Restart
  <2> QED
    BY <1>1, <1>5, <2>1 DEF Restart, TypeOK, Ended, checkerVars
<1>6. CASE Submit \/ Receive \/ Report
  BY <1>1, <1>2, <1>6 DEF Submit, Receive, Report, TypeOK, Ended, checkerVars
<1>7. CASE CancelAccepted \/ CancelRefused \/ CancelAnswered \/ CancelAgain
  BY <1>1, <1>2, <1>7
     DEF CancelAccepted, CancelRefused, CancelAnswered, CancelAgain, TypeOK, Ended, checkerVars
<1>8. CASE CheckerStep
  BY <1>1, <1>2, <1>8 DEF CheckerStep, CheckLater, ReportLater, TypeOK, submitterVars
<1>9. CASE ServerStep \/ UNCHANGED clientsVars
  BY <1>1, <1>9 DEF ServerStep, TypeOK, submitterVars, checkerVars, clientsVars
<1> QED
  BY <1>4, <1>5, <1>6, <1>7, <1>8, <1>9 DEF ClientsNext, SubmitterStep

\* A script that looks at a completed task takes a complete report with it.
LEMMA ReportKept ==
  ASSUME TypeOK, AgentInv, ReportComplete, [ClientsNext]_clientsVars
  PROVE  ReportComplete'
<1>1. task.state = "COMPLETED" => task.note = "missing" \/ Itinerary \in task.artifacts
  BY DEF AgentInv, PublisherInv, ResultInv, CompletesWith, Delivered, TypeOK, RuntimeTypeOK,
         RecordsWith, Itinerary
<1>2. seen' \in {seen, task} /\ found' \in {found, task}
  BY DEF ClientsNext, SubmitterStep, Submit, Receive, Poll, Report, CancelAccepted,
         CancelRefused, CancelAnswered, CancelAgain, CheckerStep, CheckLater, ReportLater,
         ServerStep, Restart, clientsVars, submitterVars, checkerVars
<1> QED
  BY <1>1, <1>2 DEF ReportComplete

\* COMPLETED and FAILED are the last thing a call enqueues.
LEMMA OutcomeKept ==
  ASSUME TypeOK, AgentInv, OutcomeInv, [ClientsNext]_clientsVars
  PROVE  OutcomeInv'
<1>1. /\ events \in Seq(Events) /\ "none" \in Notes
      /\ task.state \in Reported => Finished
  BY DEF TypeOK, RuntimeTypeOK, Events, Notes, Reported, Finished, TerminalStates
<1>2. ASSUME NEW from \in {"begin"} \union Working, NEW event \in Events, NEW next,
             Step(from, event, next),
             event.kind = "status" /\ event.state \in Reported => next = "idle"
      PROVE  OutcomeInv'
  <2>1. Enqueue(event) /\ pc = from /\ pc' = next /\ task' = task /\ from # "idle"
    BY <1>2 DEF Step, Working
  <2>2. \A i \in 1..Len(events') :
          events'[i].kind = "status" /\ events'[i].state \in Reported => pc' = "idle"
    <3> SUFFICES ASSUME NEW i \in 1..Len(events'),
                        events'[i].kind = "status", events'[i].state \in Reported
                 PROVE  pc' = "idle"
      OBVIOUS
    <3>1. \/ i \in 1..Len(events) /\ events'[i] = events[i]
          \/ ~Finished /\ i = Len(events) + 1 /\ events'[i] = event
      BY <1>1, <2>1, AppendedAt
    <3> QED
      BY <1>2, <2>1, <3>1 DEF OutcomeInv
  <2> QED
    BY <2>1, <2>2 DEF OutcomeInv
<1>3. CASE ServerStep /\ ExecutorStep
  <2>1. CASE Execute
    <3>1. Enqueue(TaskEvent) /\ events = <<>> /\ ~Finished /\ task' = task
      BY <2>1 DEF Execute, CanServe
    <3>2. events' = <<TaskEvent>>
      BY <3>1 DEF Enqueue
    <3> QED
      BY <1>1, <3>1, <3>2 DEF OutcomeInv, TaskEvent
  <2>2. CASE StartPlanning
    BY <2>2 DEF StartPlanning, OutcomeInv
  <2>3. CASE PublishItinerary
    <3>1. PICK event \in Events : event = ArtifactEvent(Itinerary)
      BY EventsTyped DEF Events
    <3>2. event.kind = "artifact"
      BY <3>1 DEF ArtifactEvent
    <3> QED
      BY <1>2, <2>3, <3>1, <3>2 DEF PublishItinerary, Working
  <2>4. ASSUME NEW from \in {"begin"} \union Working, NEW next,
               NEW state \in {"WORKING", "FAILED", "COMPLETED"}, NEW note \in Notes,
               Step(from, StatusEvent(state, note), next),
               state \in Reported => next = "idle"
        PROVE  OutcomeInv'
    <3>1. PICK event \in Events : event = StatusEvent(state, note)
      BY EventsTyped DEF Events, States, ActionableStates, TerminalStates
    <3>2. event.kind = "status" /\ event.state = state
      BY <3>1 DEF StatusEvent
    <3> QED
      BY <1>2, <2>4, <3>1, <3>2
  <2>5. CASE StartWork \/ FailRequest \/ ReportMissing \/ DraftRaises \/ Complete
    BY <2>4, <2>5
       DEF StartWork, FailRequest, ReportMissing, DraftRaises, Complete, Working, Notes, Reported
  <2> QED
    BY <1>3, <2>1, <2>2, <2>3, <2>5 DEF ExecutorStep
<1>4. CASE ServerStep /\ Store
  <2>1. Takes /\ pc' = pc
    BY <1>4, ConsumeTyped DEF Store, Consume, TypeOK
  <2>2. events # <<>> /\ Len(events) \in Nat \ {0}
    BY <1>1, <2>1, TakesFirst
  <2>3. task'.state \in Reported => pc' = "idle"
    <3>1. CASE ~ChangesState(events[1])
      BY <2>1, <3>1 DEF Takes, OutcomeInv
    <3>2. CASE ChangesState(events[1])
      BY <2>1, <2>2, <3>2 DEF Takes, OutcomeInv, ChangesState, StateOf, Reported
    <3> QED
      BY <3>1, <3>2
  <2>4. \A i \in 1..Len(events') : i + 1 \in 1..Len(events) /\ events'[i] = events[i + 1]
    BY <1>1, <2>1, TakenAt
  <2> QED
    BY <2>1, <2>3, <2>4 DEF OutcomeInv
<1>5. CASE CancelAccepted
  <2>1. PICK event \in Events : event = StatusEvent("CANCELED", "none")
    BY <1>1, EventsTyped DEF Events, States, ActionableStates, TerminalStates
  <2>2. event.state = "CANCELED"
    BY <2>1 DEF StatusEvent
  <2>3. Enqueue(event) /\ pc' \in {pc, "idle"} /\ task' = task
    BY <1>5, <2>1 DEF CancelAccepted, Cancel, AcceptCancel
  <2>4. \A i \in 1..Len(events') :
          \/ i \in 1..Len(events) /\ events'[i] = events[i]
          \/ events'[i] = event
    BY <1>1, <2>3, AppendedAt
  <2> QED
    BY <2>2, <2>3, <2>4 DEF OutcomeInv, Reported
<1>6. CASE Restart
  <2>1. events' = <<>> /\ pc' = "idle"
    BY <1>6 DEF Restart, RestartServer
  <2> QED
    BY <2>1 DEF OutcomeInv
<1>7. CASE UNCHANGED <<pc, events, task>>
  BY <1>7 DEF OutcomeInv
<1> QED
  BY <1>3, <1>4, <1>5, <1>6, <1>7
     DEF ClientsNext, SubmitterStep, Submit, Send, SendMessage, Receive, Poll, Report,
         CancelRefused, CancelAnswered, CancelAgain, CheckerStep, CheckLater, ReportLater,
         ServerStep, clientsVars, vars, runtimeVars

\* Nothing happens to a request whose outcome a script has seen, unless the
\* server restarts, and then nothing is left of it.
LEMMA OverKept ==
  ASSUME TypeOK, AgentInv, OutcomeInv, OverInv, [ClientsNext]_clientsVars
  PROVE  OverInv'
<1>1. /\ Finished => events = <<>>
      /\ Len(sent) <= 1 /\ served \in 0..Len(sent) /\ Len(sent) \in Nat
      /\ task.state # "NONE" => served # 0
      /\ Len(sent) # 0 => sent # <<>>
  BY DEF AgentInv, PublisherInv, OneCallInv, QueueInv, TypeOK, RuntimeTypeOK
<1>2. task.state \in Reported =>
        pc = "idle" /\ events = <<>> /\ sent # <<>> /\ served = Len(sent) /\ Finished
  BY <1>1 DEF OutcomeInv, Reported, Finished, TerminalStates
<1>3. ASSUME UNCHANGED <<pc, events, sent, served, task>>,
             seen' \in {seen, task}, found' \in {found, task}
      PROVE  OverInv'
  BY <1>2, <1>3 DEF OverInv, Finished, Exists
<1>4. CASE Restart
  <2>1. /\ pc' = "idle" /\ events' = <<>> /\ served' = Len(sent) /\ ~Exists'
        /\ UNCHANGED <<sent, seen, found>>
    BY <1>4 DEF Restart, RestartServer, checkerVars, Exists, NoTask
  <2> QED
    BY <2>1 DEF OverInv
<1>5. CASE Submit \/ CancelAccepted \/ ServerStep
  <2>1. UNCHANGED <<seen, found>>
    BY <1>5 DEF Submit, CancelAccepted, ServerStep, submitterVars, checkerVars
  <2>2. CASE ~ \E snapshot \in {seen, found} : snapshot.state \in Reported
    BY <2>1, <2>2 DEF OverInv
  <2>3. CASE \E snapshot \in {seen, found} : snapshot.state \in Reported
    <3>1. /\ pc = "idle" /\ events = <<>>
          /\ sent # <<>> /\ served = Len(sent)
          /\ Finished \/ ~Exists
      BY <2>3 DEF OverInv
    <3>2. ~Submit /\ ~CancelAccepted
      BY <3>1 DEF Submit, Send, SendMessage, CancelAccepted, Cancel, AcceptCancel
    <3>3. ~Store
      BY <3>1 DEF Store, Consume
    <3>4. ~ExecutorStep
      BY <1>1, <3>1
         DEF ExecutorStep, Execute, CanServe, StartWork, FailRequest, ReportMissing,
             StartPlanning, DraftRaises, PublishItinerary, Complete, Step
    <3> QED
      BY <1>5, <3>2, <3>3, <3>4 DEF ServerStep
  <2> QED
    BY <2>2, <2>3
<1>6. CASE CheckerStep
  BY <1>3, <1>6
     DEF CheckerStep, CheckLater, ReportLater, submitterVars, vars, runtimeVars
<1>7. CASE Receive \/ Poll \/ Report \/ CancelRefused \/ CancelAnswered \/ CancelAgain
  BY <1>3, <1>7
     DEF Receive, Poll, Report, CancelRefused, CancelAnswered, CancelAgain, checkerVars,
         vars, runtimeVars
<1>8. CASE UNCHANGED clientsVars
  BY <1>3, <1>8 DEF clientsVars, submitterVars, checkerVars, vars, runtimeVars
<1> QED
  BY <1>4, <1>5, <1>6, <1>7, <1>8 DEF ClientsNext, SubmitterStep

\* The queue, the place of execute() and the scripts' copies are consistent,
\* whatever is interrupted, cancelled or restarted.
THEOREM ItineraryConsistent == ClientsSpec => []IInv
<1>1. ClientsInit => IInv
  <2> SUFFICES ASSUME ClientsInit PROVE IInv
    OBVIOUS
  <2>1. RuntimeTypeOK(Notes, {Itinerary})
    BY InitTyped DEF ClientsInit, Init, Notes
  <2>2. NoTask \in Records
    BY <2>1 DEF ClientsInit, Init, RuntimeInit, RuntimeTypeOK, Records
  <2>3. TypeOK
    BY <2>1, <2>2, ClientsAssumption DEF ClientsInit, Init, RuntimeInit, TypeOK
  <2>4. /\ sent = <<>> /\ events = <<>> /\ pc = "idle" /\ served = 0
        /\ task.note = "none" /\ task.artifacts = {}
        /\ task.state = "NONE" /\ seen.state = "NONE" /\ found.state = "NONE"
    BY DEF ClientsInit, Init, RuntimeInit, NoTask
  <2>5. AgentInv
    BY PublisherInit DEF ClientsInit, Init, Working, AgentInv
  <2> QED
    BY <2>3, <2>4, <2>5 DEF IInv, ReportComplete, OutcomeInv, OverInv, Reported
<1>2. IInv /\ [ClientsNext]_clientsVars => IInv'
  BY AgentKept, ScriptsTyped, ReportKept, OutcomeKept, OverKept DEF IInv
<1> QED
  BY <1>1, <1>2, PTL DEF ClientsSpec

\* Whichever script finds the task COMPLETED has the itinerary, or the reason
\* why there is none, in its hands.
THEOREM ReportsComplete == ClientsSpec => []ReportComplete
<1>1. IInv => ReportComplete
  BY DEF IInv
<1> QED
  BY <1>1, ItineraryConsistent, PTL

\* Whoever has seen the task COMPLETED or FAILED has seen the end of its call.
THEOREM ReportedCallsAreOver == ClientsSpec => []ReportedIsOver
<1>1. IInv => ReportedIsOver
  BY DEF IInv, OverInv, Reported, ReportedIsOver
<1> QED
  BY <1>1, ItineraryConsistent, PTL

\* The first event of the queue is one the task is ready for, and a completion
\* has its artifact or its reason.
LEMMA StoreRefines ==
  ASSUME IInv, Store
  PROVE  Lifecycle!Next
<1>1. Promise({Itinerary}, {"missing"}, {"WORKING"}, TRUE)!Next
  BY PublisherKeepsPromise DEF Store, IInv, TypeOK, AgentInv
<1> QED
  BY <1>1
     DEF Promise!Next, Promise!Submit, Promise!Work, Promise!Deliver, Promise!Pause,
         Promise!Complete, Promise!Fail, Promise!Cancel, Promise!Forget, Promise!Open,
         Promise!Init,
         Lifecycle!Next, Lifecycle!Submit, Lifecycle!Work, Lifecycle!Deliver, Lifecycle!Pause,
         Lifecycle!Complete, Lifecycle!Fail, Lifecycle!Cancel, Lifecycle!Forget,
         Lifecycle!Open, Lifecycle!Init

\* The Itinerary Planning agent keeps the promise of TaskLifecycle to everyone
\* who polls, through cancels and through restarts.
THEOREM ItineraryRefinesLifecycle == ClientsSpec => RefinesLifecycle
<1>1. ClientsInit => Lifecycle!Init
  BY DEF ClientsInit, Init, RuntimeInit, NoTask, Lifecycle!Init
<1>2. IInv /\ [ClientsNext]_clientsVars =>
        [Lifecycle!Next]_<<task.state, task.note, task.artifacts>>
  <2> SUFFICES ASSUME IInv, [ClientsNext]_clientsVars
               PROVE  Lifecycle!Next \/ UNCHANGED <<task.state, task.note, task.artifacts>>
    OBVIOUS
  <2>1. CASE Restart
    <3>1. task' = NoTask
      BY <2>1 DEF Restart, RestartServer
    <3>2. CASE task.state # "NONE"
      <4>1. Lifecycle!Forget
        BY <3>1, <3>2 DEF NoTask, Lifecycle!Forget, Lifecycle!Init
      <4> QED
        BY <4>1 DEF Lifecycle!Next
    <3>3. CASE task.state = "NONE"
      BY <3>1, <3>3 DEF NoTask, IInv, AgentInv, PublisherInv, OneCallInv
    <3> QED
      BY <3>2, <3>3
  <2>2. CASE ServerStep /\ Store
    BY <2>2, StoreRefines
  <2>3. CASE task' = task
    BY <2>3
  <2> QED
    BY <2>1, <2>2, <2>3
       DEF ClientsNext, SubmitterStep, Submit, Send, SendMessage, Receive, Poll, Report,
           CancelAccepted, Cancel, AcceptCancel, CancelRefused, CancelAnswered, CancelAgain,
           CheckerStep, CheckLater, ReportLater, ServerStep, ExecutorStep, Execute, StartWork,
           FailRequest, ReportMissing, StartPlanning, DraftRaises, PublishItinerary, Complete,
           Step, clientsVars, vars, runtimeVars
<1> QED
  BY <1>1, <1>2, ItineraryConsistent, PTL DEF ClientsSpec, RefinesLifecycle, Lifecycle!Spec,
                                             Lifecycle!lifecycleVars
=============================================================================
