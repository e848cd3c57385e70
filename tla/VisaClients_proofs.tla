------------------------- MODULE VisaClients_proofs -------------------------
(***************************************************************************)
(* Theorems about VisaClients, for every number of restarts and every way  *)
(* in which posts to the webhook get through or fail.                      *)
(***************************************************************************)
EXTENDS VisaClients, A2ARuntime_proofs

Notes == {"none", "missing", "error", "checking"}

Events == EventsWith(Notes, {Requirements})

Records == RecordsWith(Notes, {Requirements})

Working == {"parse", "draft", "complete"}

ClientStates ==
  {"start", "sending", "waiting", "notified", "timed out", "sleeping", "polling"} \union Ended

\* The type invariant.
TypeOK ==
  /\ RuntimeTypeOK(Notes, {Requirements})
  /\ pc \in {"idle", "begin"} \union Working
  /\ posting \in Events \union {Nothing}
  /\ script \in Scripts
  /\ client \in ClientStates
  /\ seen \in Records
  /\ heard \in Seq(Events)
  /\ completion_event \in BOOLEAN
  /\ lost \in BOOLEAN
  /\ restarts \in 0..MaxRestarts

\* The agent serves its one call, and publishes the requirements ahead of the
\* completion.
AgentInv == PublisherInv(Working, Requirements)

HeardArtifacts ==
  {heard[i].artifact : i \in {j \in 1..Len(heard) : heard[j].kind = "artifact"}}

\* The artifact of the post that is under way.
PostedArtifact == IF posting.kind = "artifact" THEN {posting.artifact} ELSE {}

\* Store and notifications: a terminal status is posted as it is stored, so the
\* event is set exactly by a terminal notification, and unless a restart has
\* wiped the task that was the last one.  What was delivered has been heard or
\* is being posted, unless a post has failed.
NotifyInv ==
  /\ IsTerminal(posting) => Finished /\ posting = StatusEvent(task.state, task.note)
  /\ completion_event <=> \E i \in 1..Len(heard) : IsTerminal(heard[i])
  /\ restarts = 0 /\ completion_event =>
       /\ Finished
       /\ posting = Nothing
       /\ heard[Len(heard)] = StatusEvent(task.state, task.note)
  /\ restarts = 0 /\ ~lost => HeardArtifacts \union PostedArtifact = task.artifacts
  /\ client = "notified" => completion_event

\* What a script has seen of a task that has ended is all there is to see.
SeenInv ==
  /\ restarts = 0 /\ seen.state \in TerminalStates => seen = task
  /\ seen.state = "COMPLETED" => Requirements \in seen.artifacts \/ seen.note = "missing"
  /\ script = "webhook_fallback_demo" =>
       /\ client \notin {"waiting", "notified", "timed out"}
       /\ client = "done" => seen.state \in TerminalStates

\* The inductive invariant.
IInv == TypeOK /\ AgentInv /\ NotifyInv /\ SeenInv

-----------------------------------------------------------------------------
\* Every step of execute() keeps the agent's invariant and types.
LEMMA ExecutorKept ==
  ASSUME TypeOK, AgentInv, ExecutorStep
  PROVE  /\ AgentInv'
         /\ RuntimeTypeOK(Notes, {Requirements})'
         /\ pc' \in {"idle", "begin"} \union Working
<1>0. /\ Working \intersect {"idle", "begin"} = {}
      /\ RuntimeTypeOK(Notes, {Requirements}) /\ PublisherInv(Working, Requirements)
  BY DEF Working, TypeOK, AgentInv
<1>1. CASE Execute
  BY <1>0, <1>1, PublisherServed DEF Execute, AgentInv
<1>2. ASSUME NEW from \in {"begin"} \union Working, NEW next \in {"idle"} \union Working,
             NEW state \in {"WORKING", "FAILED", "COMPLETED"}, NEW note \in Notes,
             Step(from, StatusEvent(state, note), next),
             CASE state = "WORKING" -> next # "complete"
               [] state = "FAILED" -> from # "begin" /\ next = "idle"
               [] OTHER -> from # "begin" /\ next = "idle" /\ (from = "complete" \/ note = "missing")
      PROVE  /\ AgentInv'
             /\ RuntimeTypeOK(Notes, {Requirements})'
             /\ pc' \in {"idle", "begin"} \union Working
  <2>1. PICK event \in EventsWith(Notes, {Requirements}) : event = StatusEvent(state, note)
    BY EventsTyped DEF States, ActionableStates, TerminalStates
  <2>2. event.kind = "status" /\ event.state = state /\ event.note = note
    BY <2>1 DEF StatusEvent
  <2>3. /\ Enqueue(event) /\ UNCHANGED <<sent, served, cancelled, task>>
        /\ pc = from /\ pc' = next
    BY <1>2, <2>1 DEF Step
  <2>4. PublisherInv(Working, Requirements)' /\ RuntimeTypeOK(Notes, {Requirements})'
    BY <1>0, <1>2, <2>2, <2>3, PublisherStepped
  <2> QED
    BY <1>2, <2>3, <2>4 DEF AgentInv
<1>3. CASE \/ StartWork \/ FailRequest \/ ReportMissing \/ AnnounceCheck
           \/ FailDraft \/ DraftIsEmpty \/ Complete
  BY <1>2, <1>3
     DEF StartWork, FailRequest, ReportMissing, AnnounceCheck, FailDraft, DraftIsEmpty, Complete,
         Working, Notes
<1>4. CASE PublishRequirements
  <2>1. PICK event \in EventsWith(Notes, {Requirements}) : event = ArtifactEvent(Requirements)
    BY EventsTyped
  <2>2. event.kind = "artifact"
    BY <2>1 DEF ArtifactEvent
  <2>3. /\ Enqueue(event) /\ UNCHANGED <<sent, served, cancelled, task>>
        /\ pc = "draft" /\ pc' = "complete"
    BY <1>4, <2>1 DEF PublishRequirements, Step
  <2>4. PublisherInv(Working, Requirements)' /\ RuntimeTypeOK(Notes, {Requirements})'
    BY <1>0, <2>2, <2>3, PublisherStepped DEF Working
  <2> QED
    BY <2>3, <2>4 DEF AgentInv, Working
<1> QED
  BY <1>1, <1>3, <1>4 DEF ExecutorStep

\* The agent's part of the invariant survives every step of the system.
LEMMA AgentKept ==
  ASSUME TypeOK, AgentInv, [ClientsNext]_clientsVars
  PROVE  /\ AgentInv'
         /\ RuntimeTypeOK(Notes, {Requirements})'
         /\ pc' \in {"idle", "begin"} \union Working
<1>0. /\ "idle" \notin Working /\ "none" \in Notes
      /\ RuntimeTypeOK(Notes, {Requirements}) /\ PublisherInv(Working, Requirements)
      /\ pc \in {"idle", "begin"} \union Working
  BY DEF Working, Notes, TypeOK, AgentInv
<1>1. CASE UNCHANGED runtimeVars
  BY <1>1, NothingMoved
     DEF runtimeVars, AgentInv, PublisherInv, OneCallInv, ResultInv, TypeOK, RuntimeTypeOK
<1>2. CASE Submit
  BY <1>0, <1>2, PublisherAsked, ClientsAssumption DEF Submit, Send, SendMessage, AgentInv
<1>3. CASE Cancel
  BY <1>0, <1>3, PublisherCancelled DEF Cancel, AgentInv
<1>4. CASE ServerStep
  <2>1. CASE Store
    BY <1>0, <2>1, PublisherStored DEF Store, Consume, AgentInv
  <2> QED
    BY <1>4, <2>1, ExecutorKept DEF ServerStep
<1>5. CASE Restart
  BY <1>0, <1>5, PublisherRestarted DEF Restart, RestartServer, AgentInv
<1> QED
  BY <1>1, <1>2, <1>3, <1>4, <1>5
     DEF ClientsNext, ClientStep, PushStep, Acknowledge, Notified, TimeOut, StopListening,
         FallBack, Poll, Report, handle_webhook, PostFails, clientsVars, vars

\* What the consumer stores is what it posts, and it is never the empty post.
LEMMA StorePosts ==
  ASSUME TypeOK, AgentInv, Store
  PROVE  /\ events[1] \in Events /\ posting' = events[1] /\ posting' # Nothing
         /\ ~Finished /\ Takes /\ posting = Nothing
         /\ task'.note = IF events[1].kind = "status" THEN events[1].note ELSE task.note
         /\ task'.artifacts =
              IF events[1].kind = "artifact" THEN {Requirements} ELSE task.artifacts
         /\ task.artifacts \subseteq {Requirements}
<1>1. /\ events[1] \in Events /\ Takes /\ ~Finished
      /\ task'.note = IF events[1].kind = "status" THEN events[1].note ELSE task.note
      /\ task'.artifacts =
           IF events[1].kind = "artifact"
           THEN {a \in task.artifacts : a.id # events[1].artifact.id} \union {events[1].artifact}
           ELSE task.artifacts
  BY ConsumeTyped, PublisherStored DEF Store, TypeOK, AgentInv, Events
<1>2. task.artifacts \subseteq {Requirements}
  BY DEF TypeOK, RuntimeTypeOK, RecordsWith
<1>3. events[1].kind = "artifact" => events[1].artifact = Requirements
  BY <1>1 DEF Events, EventsWith
<1>4. events \in Seq(Events) /\ events # <<>> /\ posting = Nothing /\ posting' = Head(events)
  BY DEF TypeOK, RuntimeTypeOK, Events, Store, Consume
<1>5. posting' = events[1]
  BY <1>4
<1>6. events[1] # Nothing
  BY <1>1 DEF Events, EventsWith, Nothing
<1> QED
  BY <1>1, <1>2, <1>3, <1>4, <1>5, <1>6

\* Scripts and consumer keep the types of their own variables.
LEMMA ScriptsTyped ==
  ASSUME TypeOK, AgentInv, [ClientsNext]_clientsVars
  PROVE  TypeOK'
<1>1. /\ RuntimeTypeOK(Notes, {Requirements})'
      /\ pc' \in {"idle", "begin"} \union Working
  BY AgentKept
<1>2. task \in Records
  BY DEF TypeOK, RuntimeTypeOK, Records
<1>3. MaxRestarts \in Nat /\ restarts \in 0..MaxRestarts
  BY ClientsAssumption DEF TypeOK
<1>4. CASE Restart
  <2>1. restarts' \in 0..MaxRestarts
    BY <1>3, <1>4 DEF Restart
  <2> QED
    BY <1>1, <1>4, <2>1 DEF Restart, TypeOK, ClientStates, Ended
<1>5. CASE handle_webhook
  <2>1. posting \in Events /\ heard \in Seq(Events)
    BY <1>5 DEF handle_webhook, TypeOK
  <2>2. heard' \in Seq(Events)
    BY <1>5, <2>1 DEF handle_webhook
  <2> QED
    BY <1>1, <1>5, <2>2 DEF handle_webhook, TypeOK, IsTerminal
<1>6. CASE Submit \/ Acknowledge \/ Notified \/ TimeOut \/ StopListening
  BY <1>1, <1>2, <1>6
     DEF Submit, Send, Acknowledge, Notified, TimeOut, StopListening, TypeOK, ClientStates,
         Ended, vars
<1>7. CASE FallBack \/ Poll \/ Report \/ PostFails
  BY <1>1, <1>2, <1>7
     DEF FallBack, Poll, Report, PostFails, TypeOK, ClientStates, Ended, vars
<1>8. CASE ServerStep /\ Store
  <2>1. events[1] \in Events /\ posting' = events[1]
    BY <1>8, StorePosts
  <2> QED
    BY <1>1, <1>8, <2>1 DEF ServerStep, clientVars, TypeOK
<1>9. CASE ServerStep /\ ExecutorStep
  BY <1>1, <1>9
     DEF ServerStep, ExecutorStep, Execute, StartWork, FailRequest, ReportMissing,
         AnnounceCheck, FailDraft, DraftIsEmpty, PublishRequirements, Complete, Step,
         clientVars, TypeOK
<1>10. CASE (Cancel /\ UNCHANGED clientVars) \/ UNCHANGED clientsVars
  BY <1>1, <1>10 DEF Cancel, clientVars, clientsVars, vars, TypeOK
<1> QED
  BY <1>4, <1>5, <1>6, <1>7, <1>8, <1>9, <1>10
     DEF ClientsNext, ClientStep, PushStep, ServerStep

\* A step that ends in the store, at the webhook or at a script keeps them in
\* step with each other.
LEMMA NotifyKept ==
  ASSUME TypeOK, AgentInv, NotifyInv, [ClientsNext]_clientsVars
  PROVE  NotifyInv'
<1>0. Finished => events = <<>>
  BY DEF AgentInv, PublisherInv, OneCallInv, QueueInv
<1>1. CASE ServerStep /\ Store
  <2>1. /\ events[1] \in Events /\ posting' = events[1] /\ posting' # Nothing
        /\ ~Finished /\ Takes /\ posting = Nothing
        /\ task'.note = IF events[1].kind = "status" THEN events[1].note ELSE task.note
        /\ task'.artifacts =
             IF events[1].kind = "artifact" THEN {Requirements} ELSE task.artifacts
        /\ task.artifacts \subseteq {Requirements}
    BY <1>1, StorePosts
  <2>2. UNCHANGED <<script, client, seen, heard, completion_event, lost, restarts>>
    BY <1>1 DEF ServerStep, clientVars
  <2>3. IsTerminal(posting)' => Finished' /\ posting' = StatusEvent(task'.state, task'.note)
    <3>1. SUFFICES ASSUME events[1].kind = "status", events[1].state \in TerminalStates
                   PROVE  Finished' /\ posting' = StatusEvent(task'.state, task'.note)
      BY <2>1 DEF IsTerminal
    <3>2. task'.state = events[1].state /\ task'.note = events[1].note
      BY <2>1, <3>1 DEF Takes, ChangesState, StateOf
    <3>3. events[1] = StatusEvent(events[1].state, events[1].note)
      BY <2>1, <3>1 DEF Events, EventsWith, StatusEvent
    <3> QED
      BY <2>1, <3>1, <3>2, <3>3 DEF Finished
  <2>4. restarts = 0 => ~completion_event
    BY <2>1 DEF NotifyInv
  <2>5. restarts = 0 /\ ~lost => HeardArtifacts' \union PostedArtifact' = task'.artifacts
    <3>1. SUFFICES ASSUME restarts = 0, ~lost
                   PROVE  HeardArtifacts' \union PostedArtifact' = task'.artifacts
      OBVIOUS
    <3>2. HeardArtifacts = task.artifacts
      BY <2>1, <3>1 DEF NotifyInv, PostedArtifact, Nothing
    <3>3. HeardArtifacts' = HeardArtifacts
      BY <2>2 DEF HeardArtifacts
    <3>4. PostedArtifact' = IF events[1].kind = "artifact" THEN {Requirements} ELSE {}
      BY <2>1 DEF PostedArtifact, Events, EventsWith
    <3> QED
      BY <2>1, <3>2, <3>3, <3>4
  <2> QED
    BY <2>2, <2>3, <2>4, <2>5 DEF NotifyInv
<1>2. CASE handle_webhook
  <2>1. /\ posting \in Events /\ heard \in Seq(Events) /\ heard' = Append(heard, posting)
        /\ completion_event' = (completion_event \/ IsTerminal(posting))
        /\ posting # Nothing /\ posting' = Nothing
        /\ UNCHANGED <<task, client, lost, restarts>>
    BY <1>2 DEF handle_webhook, TypeOK, runtimeVars
  <2>2. PICK n \in Nat : n = Len(heard)
    BY <2>1
  <2>3. PICK post \in Events : post = posting
    BY <2>1
  <2>4. /\ Len(heard') = n + 1 /\ heard'[n + 1] = post
        /\ \A i \in 1..n : heard'[i] = heard[i]
    BY <2>1, <2>2, <2>3
  <2>5. ~IsTerminal(posting)' /\ PostedArtifact' = {}
    BY <2>1 DEF IsTerminal, PostedArtifact, Nothing
  <2>6. completion_event' <=> \E i \in 1..(n + 1) : IsTerminal(heard'[i])
    <3>1. completion_event <=> \E i \in 1..n : IsTerminal(heard[i])
      BY <2>2 DEF NotifyInv
    <3>2. /\ \A i \in 1..(n + 1) : i = n + 1 \/ i \in 1..n
          /\ \A i \in 1..n : i \in 1..(n + 1)
          /\ n + 1 \in 1..(n + 1)
      OBVIOUS
    <3>3. /\ \A i \in 1..n : IsTerminal(heard'[i]) <=> IsTerminal(heard[i])
          /\ IsTerminal(heard'[n + 1]) <=> IsTerminal(posting)
      BY <2>3, <2>4 DEF IsTerminal
    <3>4. completion_event' <=> completion_event \/ IsTerminal(posting)
      BY <2>1
    <3> QED
      BY <3>1, <3>2, <3>3, <3>4, Zenon
  <2>7. restarts = 0 /\ completion_event' =>
          Finished /\ heard'[n + 1] = StatusEvent(task.state, task.note)
    BY <2>1, <2>3, <2>4 DEF NotifyInv
  <2>8. HeardArtifacts' = HeardArtifacts \union PostedArtifact
    <3>1. HeardArtifacts' =
            {heard'[i].artifact : i \in {j \in 1..(n + 1) : heard'[j].kind = "artifact"}}
      BY <2>4 DEF HeardArtifacts
    <3>2. \A i \in 1..(n + 1) : i = n + 1 \/ i \in 1..n
      OBVIOUS
    <3>3. \A i \in 1..n : i \in 1..(n + 1)
      OBVIOUS
    <3> QED
      BY <2>2, <2>3, <2>4, <3>1, <3>2, <3>3 DEF HeardArtifacts, PostedArtifact
  <2>9. Finished' = Finished
    BY <2>1 DEF Finished
  <2> QED
    BY <2>1, <2>4, <2>5, <2>6, <2>7, <2>8, <2>9 DEF NotifyInv
<1>3. CASE PostFails
  <2>1. /\ posting' = Nothing /\ lost' /\ posting # Nothing
        /\ UNCHANGED <<task, client, heard, completion_event, restarts>>
    BY <1>3 DEF PostFails, runtimeVars
  <2> QED
    BY <2>1 DEF NotifyInv, IsTerminal, Nothing
<1>4. CASE Restart
  <2>1. /\ posting' = Nothing /\ restarts' # 0
        /\ client' = "notified" => client = "notified"
        /\ UNCHANGED <<heard, completion_event, lost>>
    BY <1>4 DEF Restart, TypeOK
  <2> QED
    BY <2>1 DEF NotifyInv, IsTerminal, Nothing
<1>5. CASE /\ UNCHANGED <<task, posting, heard, completion_event, lost, restarts>>
           /\ client' = "notified" => client = "notified" \/ completion_event
  BY <1>5 DEF NotifyInv, Finished, HeardArtifacts, PostedArtifact
<1>6. CASE ClientStep
  BY <1>5, <1>6
     DEF ClientStep, Submit, Send, SendMessage, Acknowledge, Notified, TimeOut, StopListening,
         FallBack, Poll, Report, vars, runtimeVars
<1>7. CASE ServerStep /\ ExecutorStep
  BY <1>5, <1>7
     DEF ServerStep, ExecutorStep, Execute, StartWork, FailRequest, ReportMissing,
         AnnounceCheck, FailDraft, DraftIsEmpty, PublishRequirements, Complete, Step, clientVars
<1>8. CASE (Cancel /\ UNCHANGED clientVars) \/ UNCHANGED clientsVars
  BY <1>5, <1>8 DEF Cancel, AcceptCancel, clientVars, clientsVars, vars, runtimeVars
<1> QED
  BY <1>1, <1>2, <1>3, <1>4, <1>6, <1>7, <1>8 DEF ClientsNext, PushStep, ServerStep

\* Nothing is stored any more when a script has seen a task that has ended, and
\* it leaves with no other.
LEMMA SeenKept ==
  ASSUME TypeOK, AgentInv, NotifyInv, SeenInv, [ClientsNext]_clientsVars
  PROVE  SeenInv'
<1>1. task.state = "COMPLETED" => Requirements \in task.artifacts \/ task.note = "missing"
  BY DEF AgentInv, PublisherInv, ResultInv, CompletesWith, Delivered, TypeOK, RuntimeTypeOK,
         RecordsWith, Requirements
<1>2. CASE ServerStep /\ Store
  BY <1>2, StorePosts DEF ServerStep, clientVars, SeenInv, Finished
<1>3. CASE Restart
  <2>1. /\ restarts' # 0 /\ UNCHANGED <<script, seen>>
        /\ client' \in {client, "crashed"}
    BY <1>3 DEF Restart, TypeOK
  <2> QED
    BY <2>1 DEF SeenInv
<1>4. CASE Acknowledge \/ Poll
  <2>1. /\ seen' \in {seen, task} /\ UNCHANGED <<script, task, restarts>>
        /\ client' \in {"waiting", "sleeping", "polling", "crashed"}
        /\ client' = "waiting" => script = "client"
    BY <1>4, ClientsAssumption DEF Acknowledge, Poll, vars, runtimeVars, TypeOK
  <2> QED
    BY <1>1, <2>1 DEF SeenInv
<1>5. CASE /\ UNCHANGED <<script, task, seen, restarts>>
           /\ client' = client \/ client' \in {"sending", "polling"}
  BY <1>5 DEF SeenInv
<1>6. CASE Notified \/ TimeOut \/ StopListening \/ Report
  BY <1>6 DEF Notified, TimeOut, StopListening, Report, vars, runtimeVars, SeenInv
<1>7. CASE Submit \/ FallBack \/ handle_webhook \/ PostFails
  BY <1>5, <1>7
     DEF Submit, Send, SendMessage, FallBack, handle_webhook, PostFails, vars, runtimeVars
<1>8. CASE ServerStep /\ ExecutorStep
  BY <1>5, <1>8
     DEF ServerStep, ExecutorStep, Execute, StartWork, FailRequest, ReportMissing,
         AnnounceCheck, FailDraft, DraftIsEmpty, PublishRequirements, Complete, Step, clientVars
<1>9. CASE (Cancel /\ UNCHANGED clientVars) \/ UNCHANGED clientsVars
  BY <1>5, <1>9 DEF Cancel, AcceptCancel, clientVars, clientsVars, vars, runtimeVars
<1> QED
  BY <1>2, <1>3, <1>4, <1>6, <1>7, <1>8, <1>9 DEF ClientsNext, ClientStep, PushStep, ServerStep

\* Queue, store, notifications and the scripts' copies are consistent, whatever
\* is lost, cancelled or restarted.
THEOREM VisaConsistent == ClientsSpec => []IInv
<1>1. ClientsInit => IInv
  <2> SUFFICES ASSUME ClientsInit PROVE IInv
    OBVIOUS
  <2>1. RuntimeTypeOK(Notes, {Requirements})
    BY InitTyped DEF ClientsInit, Init, Notes
  <2>2. NoTask \in Records
    BY <2>1 DEF ClientsInit, Init, RuntimeInit, RuntimeTypeOK, Records
  <2>3. heard = <<>> /\ heard \in Seq(Events) /\ Len(heard) = 0
    BY DEF ClientsInit
  <2>4. TypeOK
    <3>1. 0 \in 0..MaxRestarts
      BY ClientsAssumption
    <3>2. pc = "idle" /\ posting = Nothing /\ script \in Scripts /\ client = "start"
      BY DEF ClientsInit, Init, RuntimeInit
    <3>3. seen = NoTask /\ completion_event = FALSE /\ lost = FALSE /\ restarts = 0
      BY DEF ClientsInit
    <3> QED
      BY <2>1, <2>2, <2>3, <3>1, <3>2, <3>3 DEF TypeOK, ClientStates
  <2>5. AgentInv
    BY PublisherInit DEF ClientsInit, Init, Working, AgentInv
  <2>6. NotifyInv
    <3>1. /\ posting = Nothing /\ task.artifacts = {} /\ ~completion_event /\ client = "start"
      BY DEF ClientsInit, Init, RuntimeInit, NoTask
    <3>2. ~IsTerminal(posting) /\ PostedArtifact = {}
      BY <3>1 DEF IsTerminal, PostedArtifact, Nothing
    <3>3. HeardArtifacts = {}
      BY <2>3 DEF HeardArtifacts
    <3> QED
      BY <2>3, <3>1, <3>2, <3>3 DEF NotifyInv
  <2>7. SeenInv
    BY DEF ClientsInit, NoTask, TerminalStates, SeenInv
  <2> QED
    BY <2>4, <2>5, <2>6, <2>7 DEF IInv
<1>2. IInv /\ [ClientsNext]_clientsVars => IInv'
  BY AgentKept, ScriptsTyped, NotifyKept, SeenKept DEF IInv
<1> QED
  BY <1>1, <1>2, PTL DEF ClientsSpec

\* When client.py stops listening it has been told the final state, and, if no
\* post has failed, everything that was delivered.
THEOREM NotifiedInFull == ClientsSpec => []NotifiedKnowsAll
<1>1. IInv => NotifiedKnowsAll
  BY DEF IInv, NotifyInv, NotifiedKnowsAll, HeardArtifacts, PostedArtifact, Nothing
<1> QED
  BY <1>1, VisaConsistent, PTL

\* webhook_fallback_demo.py reports the task as it ended, with the requirements
\* or the reason why there are none.
THEOREM FallbackInFull == ClientsSpec => []FallbackReports
<1>1. IInv => FallbackReports
  BY DEF IInv, SeenInv, FallbackReports
<1> QED
  BY <1>1, VisaConsistent, PTL

\* A terminal notification that was handled early is not waited for in vain.
THEOREM WakeupNotMissed == ClientsSpec => NoMissedWakeup
<1>1. IInv /\ [ClientsNext]_clientsVars =>
        [client = "waiting" /\ client' = "timed out" =>
           \A i \in 1..Len(heard) : ~IsTerminal(heard[i])]_clientsVars
  <2> SUFFICES ASSUME IInv, ClientsNext, client = "waiting", client' = "timed out"
               PROVE  \A i \in 1..Len(heard) : ~IsTerminal(heard[i])
    OBVIOUS
  <2>1. TimeOut
    BY DEF ClientsNext, ClientStep, PushStep, ServerStep, Submit, Acknowledge, Notified,
           StopListening, FallBack, Poll, Report, handle_webhook, PostFails, Restart, clientVars
  <2> QED
    BY <2>1 DEF TimeOut, IInv, NotifyInv
<1> QED
  BY <1>1, VisaConsistent, PTL DEF ClientsSpec, NoMissedWakeup

\* Storing an event is a step of the promise.
LEMMA StoreRefines ==
  ASSUME IInv, Store
  PROVE  Lifecycle!Next
<1>1. Promise({Requirements}, {"missing"}, {"WORKING"}, TRUE)!Next
  BY PublisherKeepsPromise DEF Store, IInv, TypeOK, AgentInv
<1> QED
  BY <1>1
     DEF Promise!Next, Promise!Submit, Promise!Work, Promise!Deliver, Promise!Pause,
         Promise!Complete, Promise!Fail, Promise!Cancel, Promise!Forget, Promise!Open,
         Promise!Init,
         Lifecycle!Next, Lifecycle!Submit, Lifecycle!Work, Lifecycle!Deliver, Lifecycle!Pause,
         Lifecycle!Complete, Lifecycle!Fail, Lifecycle!Cancel, Lifecycle!Forget,
         Lifecycle!Open, Lifecycle!Init

\* The Visa Requirements agent keeps the promise of TaskLifecycle to everyone
\* who polls or is notified.
THEOREM VisaRefinesLifecycle == ClientsSpec => RefinesLifecycle
<1>1. ClientsInit => Lifecycle!Init
  BY DEF ClientsInit, Init, RuntimeInit, NoTask, Lifecycle!Init
<1>2. IInv /\ [ClientsNext]_clientsVars =>
        [Lifecycle!Next]_<<task.state, task.note, task.artifacts>>
  <2> SUFFICES ASSUME IInv, [ClientsNext]_clientsVars
               PROVE  Lifecycle!Next \/ UNCHANGED <<task.state, task.note, task.artifacts>>
    OBVIOUS
  <2>1. CASE Restart
    <3>1. task' = NoTask
      BY <2>1 DEF Restart, RestartServer
    <3>2. CASE task.state # "NONE"
      <4>1. Lifecycle!Forget
        BY <3>1, <3>2 DEF NoTask, Lifecycle!Forget, Lifecycle!Init
      <4> QED
        BY <4>1 DEF Lifecycle!Next
    <3>3. CASE task.state = "NONE"
      BY <3>1, <3>3 DEF NoTask, IInv, AgentInv, PublisherInv, OneCallInv
    <3> QED
      BY <3>2, <3>3
  <2>2. CASE ServerStep /\ Store
    BY <2>2, StoreRefines
  <2>3. CASE task' = task
    BY <2>3
  <2> QED
    BY <2>1, <2>2, <2>3
       DEF ClientsNext, ClientStep, PushStep, ServerStep, Submit, Send, SendMessage,
           Acknowledge, Notified, TimeOut, StopListening, FallBack, Poll, Report,
           handle_webhook, PostFails, Cancel, AcceptCancel, ExecutorStep, Execute, StartWork,
           FailRequest, ReportMissing, AnnounceCheck, FailDraft, DraftIsEmpty,
           PublishRequirements, Complete, Step, clientsVars, vars, runtimeVars
<1> QED
  BY <1>1, <1>2, VisaConsistent, PTL DEF ClientsSpec, RefinesLifecycle, Lifecycle!Spec,
                                        Lifecycle!lifecycleVars
=============================================================================
