------------------------ MODULE HotelClients_proofs ------------------------
(***************************************************************************)
(* Theorems about HotelClients, for every set of hotels, every count the   *)
(* model may read, every cap, drop and number of restarts.                 *)
(***************************************************************************)
EXTENDS HotelClients, A2ARuntime_proofs

Notes == {"none", "missing", "searching", "error"}

Events ==
  [kind : {"task"}]
    \union [kind : {"status"}, state : States, note : Notes]
    \union [kind : {"chunk"}, hotel : Hotels, append : BOOLEAN, last : BOOLEAN]

Artifacts == [id : {"hotel-results"}, hotels : Seq(Hotels)]

Snapshots == [kind : {"snapshot"}, state : States, hotels : Seq(Hotels)]

\* The type invariant; the store holds one artifact at most.
TypeOK ==
  /\ sent \in Seq([text : Messages, shown : Notes])
  /\ served \in 0..Len(sent)
  /\ pc \in {"idle", "begin", "parse", "search"}
  /\ events \in Seq(Events)
  /\ cancelled \in BOOLEAN
  /\ task \in [state : States, note : Notes, history : Seq(Messages),
               artifacts : {{}} \union {{a} : a \in Artifacts}]
  /\ num_hotels \in 0..MaxNumHotels
  /\ found_names \in Seq(Hotels)
  /\ script \in Scripts
  /\ client \in {"start", "live", "gap", "fallback", "again", "done", "crashed"}
  /\ stream \in Seq(Events \union Snapshots)
  /\ count \in Nat
  /\ view \in [state : States, hotels : Seq(Hotels), last : BOOLEAN]
  /\ restarts \in 0..MaxRestarts

-----------------------------------------------------------------------------
\* The hotels in the store.
Results == HotelsOf(task)

Ends(event) == event.kind = "status" /\ event.state \in TerminalStates

(***************************************************************************)
(* The queue up to the first event that ends the task: b events that carry *)
(* no hotel, then chunks, then the end.  The chunks go on where the store  *)
(* stops, and the last one is marked.                                      *)
(***************************************************************************)
Number(i, b) == Len(Results) + i - b

QueueAt(i, b) ==
  /\ i <= b => events[i].kind # "chunk" /\ ~Ends(events[i])
  /\ i > b => events[i].kind = "chunk" \/ Ends(events[i])
  /\ events[i].kind = "chunk" =>
       /\ Number(i, b) \in 1..Len(found_names)
       /\ events[i].hotel = found_names[Number(i, b)]
       /\ events[i].append = (Number(i, b) > 1)
       /\ events[i].last = (Number(i, b) = num_hotels)
  /\ events[i].kind = "status" /\ events[i].state = "COMPLETED" =>
       \/ events[i].note = "missing"
       \/ Number(i, b) = num_hotels + 1 /\ num_hotels \in 1..Len(found_names)

QueueShape(b) ==
  /\ b > 0 => Results = <<>>
  /\ \A i \in 1..Len(events) : ~ClosedBefore(i) => QueueAt(i, b)
  /\ ~ClosedBefore(Len(events) + 1) =>
       /\ pc \in {"begin", "parse"} => b = Len(events)
       /\ pc = "search" => Number(Len(events), b) = Len(found_names)

SearchInv ==
  /\ \E b \in 0..Len(events) : QueueShape(b)
  /\ pc \in {"begin", "parse"} => found_names = <<>>
  /\ pc = "search" => num_hotels # 0
  /\ Len(found_names) <= num_hotels
  /\ IsPrefix(Results, found_names)
  /\ SearchComplete

(***************************************************************************)
(* The stream: what the client will know when it has read what leads it.   *)
(* The events under way add to that what the store has beyond it.          *)
(***************************************************************************)
Gone == ~Exists /\ events = <<>> /\ pc = "idle" /\ served = Len(sent) /\ sent # <<>>

Base ==
  IF stream # <<>> /\ stream[1].kind = "snapshot" THEN stream[1].hotels ELSE view.hotels

Place(i, b) == Len(Base) + i - b

StreamAt(i, b) ==
  /\ stream[i].kind = "snapshot" => i = 1 /\ stream[i].state \notin TerminalStates
  /\ i <= b => stream[i].kind # "chunk" /\ ~Ends(stream[i])
  /\ i > b => stream[i].kind = "chunk" \/ Ends(stream[i])
  /\ stream[i].kind = "chunk" =>
       /\ Place(i, b) \in 1..Len(Results)
       /\ stream[i].hotel = Results[Place(i, b)]
       /\ stream[i].last = (Place(i, b) = num_hotels)
  /\ Ends(stream[i]) => Finished /\ i = Len(stream) /\ stream[i].state = task.state

StreamShape(b) ==
  /\ \A i \in 1..Len(stream) : StreamAt(i, b)
  /\ Place(Len(stream), b) = Len(Results) + (IF Finished THEN 1 ELSE 0)
  /\ Finished => stream # <<>> /\ Ends(stream[Len(stream)])

StreamInv ==
  /\ client = "start" => sent = <<>> /\ stream = <<>> /\ view.hotels = <<>>
  /\ client # "start" => sent # <<>>
  /\ client \in {"start", "live", "gap", "again"} => view.state \notin TerminalStates
  /\ client \in {"fallback", "done"} => Finished \/ Gone
  /\ Connected =>
       /\ \E b \in 0..Len(stream) : StreamShape(b)
       /\ IsPrefix(Base, Results)
       /\ Len(view.hotels) <= Len(Base)
  /\ Gone \/ IsPrefix(view.hotels, Results)
  /\ view.last => view.hotels # <<>> /\ Len(view.hotels) = num_hotels
  /\ NothingLost

IInv == TypeOK /\ OneCallInv({"parse", "search"}) /\ SearchInv /\ StreamInv

-----------------------------------------------------------------------------
(***************************************************************************)
(* Types.                                                                  *)
(***************************************************************************)

\* A prefix, element by element.
LEMMA Prefixes1 ==
  ASSUME NEW S, NEW s \in Seq(S), NEW t \in Seq(S)
  PROVE  IsPrefix(s, t) <=> Len(s) <= Len(t) /\ \A i \in 1..Len(s) : s[i] = t[i]
<1>1. CASE Len(s) <= Len(t)
  <2>1. /\ SubSeq(s, 1, Len(s)) = [i \in 1..Len(s) |-> s[i]]
        /\ SubSeq(t, 1, Len(s)) = [i \in 1..Len(s) |-> t[i]]
    BY <1>1
  <2>2. (\A i \in 1..Len(s) : s[i] = t[i]) => SubSeq(s, 1, Len(s)) = SubSeq(t, 1, Len(s))
    BY <2>1
  <2>3. SubSeq(s, 1, Len(s)) = SubSeq(t, 1, Len(s)) => \A i \in 1..Len(s) : s[i] = t[i]
    BY <2>1
  <2> QED
    BY <1>1, <2>2, <2>3 DEF IsPrefix
<1> QED
  BY <1>1 DEF IsPrefix

\* What a store with these artifacts shows.
LEMMA ResultsOf ==
  ASSUME NEW record
  PROVE  /\ record.artifacts = {} => HotelsOf(record) = <<>>
         /\ \A a : record.artifacts = {a} => HotelsOf(record) = a.hotels
<1>1. ASSUME NEW a, record.artifacts = {a} PROVE HotelsOf(record) = a.hotels
  <2>1. (CHOOSE x \in record.artifacts : TRUE) = a
    BY <1>1
  <2> QED
    BY <1>1, <2>1 DEF HotelsOf
<1> QED
  BY <1>1 DEF HotelsOf

\* The hotels in the store are a sequence of hotels.
LEMMA ResultsTyped ==
  ASSUME TypeOK
  PROVE  Results \in Seq(Hotels)
<1>1. CASE task.artifacts = {}
  <2>1. HotelsOf(task) = <<>>
    BY <1>1, ResultsOf
  <2> QED
    BY <2>1 DEF Results
<1>2. ASSUME NEW a \in Artifacts, task.artifacts = {a} PROVE Results \in Seq(Hotels)
  <2>1. HotelsOf(task) = a.hotels
    BY <1>2, ResultsOf
  <2>2. a.hotels \in Seq(Hotels)
    BY DEF Artifacts
  <2> QED
    BY <2>1, <2>2 DEF Results
<1> QED
  BY <1>1, <1>2 DEF TypeOK

\* The number of hotels looked for is within the cap, whatever was read.
LEMMA NumHotelsCapped ==
  ASSUME NEW n \in Counts \union {NoCount}
  PROVE  NumHotels(n) \in 1..MaxNumHotels
<1>1. CASE n = NoCount
  BY <1>1, HotelAssumption DEF NumHotels
<1>2. CASE n # NoCount
  <2>1. n \in Int /\ MaxNumHotels \in Nat /\ DefaultNumHotels \in 1..MaxNumHotels
    BY <1>2, HotelAssumption
  <2> QED
    BY <1>2, <2>1 DEF NumHotels
<1> QED
  BY <1>1, <1>2

\* The events of this executor are events.
LEMMA EventTypes ==
  /\ TaskEvent \in Events
  /\ \A state \in States, note \in Notes : StatusEvent(state, note) \in Events
  /\ \A hotel \in Hotels, append \in BOOLEAN, last \in BOOLEAN :
       Chunk(hotel, append, last) \in Events
BY DEF TaskEvent, StatusEvent, Chunk, Events

\* The history the store writes is a sequence of messages.
LEMMA TextsType ==
  ASSUME TypeOK
  PROVE  Texts(served) \in Seq(Messages)
<1> DEFINE Requests == [text : Messages, shown : Notes]
<1>1. served \in 0..Len(sent) /\ Len(sent) \in Nat /\ sent \in Seq(Requests)
  BY DEF TypeOK
<1>2. ASSUME NEW i \in 1..served PROVE sent[i].text \in Messages
  <2> HIDE DEF Requests
  <2>1. sent[i] \in Requests
    BY <1>1, ElementOfSeq
  <2> QED
    BY <2>1 DEF Requests
<1>3. Texts(served) \in [1..served -> Messages]
  BY <1>2 DEF Texts
<1> QED
  BY <1>1, <1>3

\* What Store does: it takes the first event, and a chunk adds its hotel or
\* starts anew.
LEMMA StoreTakes ==
  ASSUME TypeOK, Store
  PROVE  /\ Takes
         /\ events[1] \in Events
         /\ task' \in [state : States, note : Notes, history : Seq(Messages),
                       artifacts : {{}} \union {{a} : a \in Artifacts}]
         /\ events[1].kind = "status" => task'.note = events[1].note
         /\ events[1].kind # "status" => task'.note = task.note
         /\ events[1].kind # "chunk" => task'.artifacts = task.artifacts
         /\ events[1].kind = "chunk" =>
              Results' = (IF events[1].append THEN Results ELSE <<>>) \o <<events[1].hotel>>
         /\ events[1].kind # "chunk" => Results' = Results
<1> DEFINE Records == [state : States, note : Notes, history : Seq(Messages),
                       artifacts : {{}} \union {{a} : a \in Artifacts}]
<1>1. /\ events \in Seq(Events) /\ events # <<>> /\ Head(events) = events[1]
      /\ task \in Records /\ Texts(served) \in Seq(Messages)
  BY TextsType DEF Store, TypeOK
<1>2. events[1] \in Events
  <2> HIDE DEF Records
  <2> QED
    BY <1>1
<1>3. CASE events[1].kind = "chunk"
  <2> DEFINE found == (IF events[1].append THEN Results ELSE <<>>) \o <<events[1].hotel>>
             a == [id |-> "hotel-results", hotels |-> found]
  <2>1. task' = [task EXCEPT !.history = Texts(served), !.artifacts = {a}]
    BY <1>1, <1>3 DEF Store, StoredChunk, Results
  <2>2. events[1].hotel \in Hotels
    BY <1>2, <1>3 DEF Events
  <2>3. a \in Artifacts
    BY <2>2, ResultsTyped DEF Artifacts
  <2> HIDE DEF a
  <2>4. task' \in Records /\ task'.state = task.state /\ task'.note = task.note
        /\ task'.artifacts = {a}
    BY <1>1, <2>1, <2>3
  <2>5. Results' = found
    <3>1. HotelsOf(task') = a.hotels
      BY <2>4, ResultsOf
    <3>2. a.hotels = found
      BY DEF a
    <3> QED
      BY <3>1, <3>2 DEF Results
  <2>6. Takes
    BY <1>1, <1>3, <2>4 DEF Takes, Store, ChangesState
  <2> QED
    BY <1>2, <1>3, <2>4, <2>5, <2>6
<1>4. CASE events[1].kind # "chunk"
  <2>1. task' = Stored(events[1])
    BY <1>1, <1>4 DEF Store
  <2>2. /\ task' \in Records
        /\ task'.state = IF ChangesState(events[1]) THEN StateOf(events[1]) ELSE task.state
        /\ task'.note = IF events[1].kind = "status" THEN events[1].note ELSE task.note
        /\ task'.artifacts = task.artifacts
    <3>1. CASE events[1].kind = "task"
      BY <1>1, <2>1, <3>1
         DEF Stored, ChangesState, StateOf, States, ActionableStates, TerminalStates
    <3>2. CASE events[1].kind = "status"
      <4>1. events[1].state \in States /\ events[1].note \in Notes
        BY <1>2, <3>2 DEF Events
      <4> QED
        BY <1>1, <2>1, <3>2, <4>1 DEF Stored, ChangesState, StateOf
    <3> QED
      BY <1>2, <1>4, <3>1, <3>2 DEF Events
  <2>3. Results' = Results
    <3>1. CASE task.artifacts = {}
      BY <2>2, <3>1, ResultsOf DEF Results
    <3>2. ASSUME NEW a \in Artifacts, task.artifacts = {a} PROVE Results' = Results
      BY <2>2, <3>2, ResultsOf DEF Results
    <3> QED
      BY <1>1, <3>1, <3>2
  <2>4. Takes
    BY <1>1, <2>2 DEF Takes, Store
  <2> QED
    BY <1>2, <1>4, <2>2, <2>3, <2>4
<1> QED
  BY <1>3, <1>4

\* What the client makes of an event is of the right type.
LEMMA ToldTyped ==
  ASSUME TypeOK, NEW event \in Events \union Snapshots
  PROVE  Told(event) \in [state : States, hotels : Seq(Hotels), last : BOOLEAN]
<1>1. view \in [state : States, hotels : Seq(Hotels), last : BOOLEAN]
  BY DEF TypeOK
<1>2. CASE event.kind = "task"
  BY <1>1, <1>2 DEF Told, States, ActionableStates, TerminalStates
<1>3. CASE event.kind = "status"
  <2>1. event.state \in States
    BY <1>3 DEF Events, Snapshots
  <2> QED
    BY <1>1, <1>3, <2>1 DEF Told
<1>4. CASE event.kind = "chunk"
  <2>1. event.hotel \in Hotels /\ event.last \in BOOLEAN
    BY <1>4 DEF Events, Snapshots
  <2>2. Append(view.hotels, event.hotel) \in Seq(Hotels)
    BY <1>1, <2>1
  <2> QED
    BY <1>1, <1>4, <2>1, <2>2 DEF Told
<1>5. CASE event.kind = "snapshot"
  <2>1. event.state \in States /\ event.hotels \in Seq(Hotels)
    BY <1>5 DEF Events, Snapshots
  <2> QED
    BY <1>1, <1>5, <2>1 DEF Told
<1> QED
  BY <1>2, <1>3, <1>4, <1>5 DEF Events, Snapshots

-----------------------------------------------------------------------------
(***************************************************************************)
(* What execute() says in one step, and where it stands before and after.  *)
(***************************************************************************)
Utters(event) ==
  /\ Enqueue(event)
  /\ UNCHANGED <<sent, served, cancelled, task>>
  /\ \/ /\ event.kind = "status" /\ event.state = "WORKING"
        /\ pc = "begin" /\ pc' = "parse" /\ UNCHANGED <<num_hotels, found_names>>
     \/ /\ event.kind = "status" /\ event.state = "WORKING"
        /\ pc = "parse" /\ pc' = "search" /\ UNCHANGED found_names
        /\ num_hotels' \in 1..MaxNumHotels
     \/ /\ event.kind = "status" /\ event.state = "FAILED"
        /\ pc \in {"parse", "search"} /\ pc' = "idle" /\ UNCHANGED <<num_hotels, found_names>>
     \/ /\ event.kind = "status" /\ event.state = "COMPLETED"
        /\ \/ event.note = "missing" /\ pc = "parse"
           \/ Len(found_names) >= num_hotels /\ pc = "search"
        /\ pc' = "idle" /\ UNCHANGED <<num_hotels, found_names>>
     \/ /\ event.kind = "chunk"
        /\ pc = "search" /\ pc' = "search" /\ UNCHANGED num_hotels
        /\ Len(found_names) < num_hotels
        /\ found_names' = Append(found_names, event.hotel)
        /\ event.append = (found_names # <<>>)
        /\ event.last = (Len(found_names) + 1 = num_hotels)

\* Every step of execute() but its start says something.
LEMMA ExecutorUtters ==
  ASSUME TypeOK, ExecutorStep, ~Execute
  PROVE  \E event \in Events : Utters(event)
<1> USE EventTypes DEF Notes, States, ActionableStates, TerminalStates
<1>1. CASE StartWork
  <2>1. PICK event \in Events : event = StatusEvent("WORKING", "none")
    OBVIOUS
  <2> QED
    BY <1>1, <2>1 DEF StartWork, Step, Utters, StatusEvent
<1>2. CASE FailRequest \/ FailSearch
  <2>1. PICK event \in Events : event = StatusEvent("FAILED", "error")
    OBVIOUS
  <2> QED
    BY <1>2, <2>1 DEF FailRequest, FailSearch, Step, Utters, StatusEvent
<1>3. CASE ReportMissing
  <2>1. PICK event \in Events : event = StatusEvent("COMPLETED", "missing")
    OBVIOUS
  <2> QED
    BY <1>3, <2>1 DEF ReportMissing, Step, Utters, StatusEvent
<1>4. CASE AnnounceSearch
  <2>1. PICK event \in Events : event = StatusEvent("WORKING", "searching")
    OBVIOUS
  <2>2. num_hotels' \in 1..MaxNumHotels
    BY <1>4, NumHotelsCapped DEF AnnounceSearch, HotelQuery
  <2>3. /\ pc = "parse" /\ pc' = "search" /\ Enqueue(event)
        /\ UNCHANGED <<sent, served, cancelled, task, found_names>>
    BY <1>4, <2>1 DEF AnnounceSearch
  <2>4. event.kind = "status" /\ event.state = "WORKING"
    BY <2>1 DEF StatusEvent
  <2> QED
    BY <2>2, <2>3, <2>4 DEF Utters
<1>5. CASE PublishHotel
  <2>1. PICK hotel \in Hotels :
          /\ pc = "search"
          /\ Len(found_names) < num_hotels
          /\ found_names' = Append(found_names, hotel)
          /\ Enqueue(Chunk(hotel, found_names # <<>>, Len(found_names') = num_hotels))
          /\ UNCHANGED <<sent, served, pc, cancelled, task, num_hotels>>
    BY <1>5 DEF PublishHotel
  <2>2. Len(found_names') = Len(found_names) + 1
    BY <2>1 DEF TypeOK
  <2>3. PICK event \in Events :
          event = Chunk(hotel, found_names # <<>>, Len(found_names') = num_hotels)
    OBVIOUS
  <2>4. /\ event.kind = "chunk" /\ event.hotel = hotel
        /\ event.append = (found_names # <<>>)
        /\ event.last = (Len(found_names) + 1 = num_hotels)
    BY <2>2, <2>3 DEF Chunk
  <2> QED
    BY <2>1, <2>3, <2>4 DEF Utters
<1>6. CASE Complete
  <2>1. PICK event \in Events : event = StatusEvent("COMPLETED", "none")
    OBVIOUS
  <2> QED
    BY <1>6, <2>1 DEF Complete, Step, Utters, StatusEvent
<1> QED
  BY <1>1, <1>2, <1>3, <1>4, <1>5, <1>6 DEF ExecutorStep

\* A step of execute() leaves the clients alone and touches neither the store
\* nor what was sent.
LEMMA ServerTypes ==
  ASSUME TypeOK, NEW event \in Events, Enqueue(event), UNCHANGED <<sent, task, clientVars>>,
         served' \in 0..Len(sent), pc' \in {"idle", "begin", "parse", "search"},
         cancelled' \in BOOLEAN, num_hotels' \in 0..MaxNumHotels, found_names' \in Seq(Hotels)
  PROVE  TypeOK'
<1>1. events' \in Seq(Events)
  BY EnqueueAppends DEF TypeOK
<1> QED
  BY <1>1 DEF TypeOK, clientVars

\* Every step keeps the types.
LEMMA TypeKept ==
  ASSUME TypeOK, [ClientsNext]_clientsVars
  PROVE  TypeOK'
<1>1. CASE UNCHANGED clientsVars
  BY <1>1 DEF clientsVars, vars, clientVars, TypeOK
<1>2. CASE Submit
  <2>1. Query \in Messages
    BY ClientsAssumption
  <2>2. [text |-> Query, shown |-> task.note] \in [text : Messages, shown : Notes]
    BY <2>1 DEF TypeOK
  <2>3. sent' \in Seq([text : Messages, shown : Notes]) /\ Len(sent') = Len(sent) + 1
    BY <1>2, <2>2 DEF Submit, Send, SendMessage, TypeOK
  <2> QED
    BY <1>2, <2>3 DEF Submit, Send, SendMessage, TypeOK
<1>3. ASSUME stream # <<>> PROVE /\ Head(stream) \in Events \union Snapshots
                                 /\ Tail(stream) \in Seq(Events \union Snapshots)
  <2> DEFINE E == Events \union Snapshots
  <2>1. stream \in Seq(E)
    BY DEF TypeOK
  <2> HIDE DEF E
  <2>2. Head(stream) \in E /\ Tail(stream) \in Seq(E)
    BY <1>3, <2>1
  <2> QED
    BY <2>2 DEF E
<1>4. CASE ReadToEnd \/ ReadAgain
  <2>1. Told(Head(stream)) \in [state : States, hotels : Seq(Hotels), last : BOOLEAN]
    BY <1>3, <1>4, ToldTyped DEF ReadToEnd, ReadAgain
  <2> QED
    BY <1>3, <1>4, <2>1 DEF ReadToEnd, ReadAgain, vars, TypeOK
<1>5. CASE ReadUntilDrop
  <2>1. Told(Head(stream)) \in [state : States, hotels : Seq(Hotels), last : BOOLEAN]
    BY <1>3, <1>5, ToldTyped DEF ReadUntilDrop
  <2>2. stream' \in Seq(Events \union Snapshots)
    BY <1>3, <1>5 DEF ReadUntilDrop
  <2>3. client' \in {"done", "gap", "live"}
    BY <1>5 DEF ReadUntilDrop
  <2>4. view' = Told(Head(stream)) /\ count' = count + 1 /\ UNCHANGED <<vars, script, restarts>>
    BY <1>5 DEF ReadUntilDrop
  <2> QED
    BY <2>1, <2>2, <2>3, <2>4 DEF vars, TypeOK
<1>6. SnapshotEvent \in Snapshots
  BY ResultsTyped DEF SnapshotEvent, Snapshots, TypeOK, Results
<1>7. CASE Subscribe \/ SubscribeRefused \/ TaskUnknown
  <2>0. <<SnapshotEvent>> \in Seq(Events \union Snapshots)
    BY <1>6
  <2>1. stream' \in Seq(Events \union Snapshots)
    BY <1>7, <2>0 DEF Subscribe, SubscribeRefused, TaskUnknown, TypeOK
  <2> QED
    BY <1>7, <2>1 DEF Subscribe, SubscribeRefused, TaskUnknown, vars, TypeOK
<1>8. CASE GetTask
  <2>1. Told(SnapshotEvent) \in [state : States, hotels : Seq(Hotels), last : BOOLEAN]
    BY <1>6, ToldTyped
  <2> QED
    BY <1>8, <2>1 DEF GetTask, vars, TypeOK
<1>9. CASE AgentStep /\ Execute
  <2>1. PICK event \in Events : event = TaskEvent
    BY EventTypes
  <2>2. /\ Enqueue(event) /\ UNCHANGED <<sent, task, clientVars, cancelled, num_hotels>>
        /\ served' = served + 1 /\ pc' = "begin" /\ served < Len(sent) /\ found_names' = <<>>
    BY <1>9, <2>1 DEF AgentStep, Execute, CanServe
  <2>3. served' \in 0..Len(sent) /\ cancelled' \in BOOLEAN /\ num_hotels' \in 0..MaxNumHotels
        /\ found_names' \in Seq(Hotels)
    BY <2>2 DEF TypeOK
  <2> QED
    BY <2>2, <2>3, ServerTypes
<1>10. CASE AgentStep /\ ~Execute
  <2>1. PICK event \in Events : Utters(event)
    BY <1>10, ExecutorUtters DEF AgentStep
  <2>2. event.kind = "chunk" => event.hotel \in Hotels
    BY DEF Events
  <2>3. found_names' \in Seq(Hotels) /\ num_hotels' \in 0..MaxNumHotels
    <3>1. found_names \in Seq(Hotels) /\ num_hotels \in 0..MaxNumHotels
      BY DEF TypeOK
    <3>2. /\ UNCHANGED found_names \/ (event.kind = "chunk" /\ found_names' = Append(found_names, event.hotel))
          /\ UNCHANGED num_hotels \/ num_hotels' \in 1..MaxNumHotels
      BY <2>1 DEF Utters
    <3> QED
      BY <2>2, <3>1, <3>2, HotelAssumption
  <2>4. /\ Enqueue(event) /\ UNCHANGED <<sent, task, clientVars, cancelled, served>>
        /\ pc' \in {"idle", "parse", "search"}
    BY <1>10, <2>1 DEF AgentStep, Utters
  <2>5. served' \in 0..Len(sent) /\ cancelled' \in BOOLEAN
    BY <2>4 DEF TypeOK
  <2> QED
    BY <2>3, <2>4, <2>5, ServerTypes
<1>11. CASE StoreAndForward
  <2>1. Store /\ UNCHANGED <<sent, served, pc, cancelled, num_hotels, found_names>>
        /\ UNCHANGED <<script, client, count, view, restarts>>
    BY <1>11 DEF StoreAndForward, Store
  <2>2. Head(events) \in Events /\ events # <<>>
    BY <2>1 DEF Store, TypeOK
  <2>3. events' \in Seq(Events)
    BY <2>1, StoreTakes, TakesFirst DEF TypeOK
  <2>4. stream' \in Seq(Events \union Snapshots)
    <3> DEFINE E == Events \union Snapshots
    <3>1. Head(events) \in E /\ stream \in Seq(E)
      BY <2>2 DEF TypeOK
    <3> HIDE DEF E
    <3>2. stream' \in Seq(E)
      BY <1>11, <3>1 DEF StoreAndForward
    <3> QED
      BY <3>2 DEF E
  <2>5. task' \in [state : States, note : Notes, history : Seq(Messages),
                   artifacts : {{}} \union {{a} : a \in Artifacts}]
    BY <2>1, StoreTakes
  <2> QED
    BY <2>1, <2>3, <2>4, <2>5 DEF TypeOK
<1>12. CASE Cancel /\ UNCHANGED clientVars
  <2>1. PICK event \in Events : event = StatusEvent("CANCELED", "none")
    BY EventTypes DEF Notes, States, ActionableStates, TerminalStates
  <2>2. /\ Enqueue(event) /\ UNCHANGED <<sent, task, clientVars, served, num_hotels, found_names>>
        /\ cancelled' = TRUE /\ pc' \in {pc, "idle"}
    BY <1>12, <2>1 DEF Cancel, AcceptCancel
  <2>3. /\ served' \in 0..Len(sent) /\ pc' \in {"idle", "begin", "parse", "search"}
        /\ num_hotels' \in 0..MaxNumHotels /\ found_names' \in Seq(Hotels)
    BY <2>2 DEF TypeOK
  <2> QED
    BY <2>2, <2>3, ServerTypes
<1>13. CASE Restart
  <2>1. task' \in [state : States, note : Notes, history : Seq(Messages),
                   artifacts : {{}} \union {{a} : a \in Artifacts}]
    BY <1>13
       DEF Restart, RestartServer, NoTask, Notes, States, ActionableStates, TerminalStates
  <2>2. /\ served' = Len(sent) /\ pc' = "idle" /\ events' = <<>> /\ cancelled' = FALSE
        /\ stream' = <<>> /\ client' \in {"crashed", client}
        /\ restarts < MaxRestarts /\ restarts' = restarts + 1
        /\ UNCHANGED <<sent, num_hotels, found_names, script, count, view>>
    BY <1>13 DEF Restart, RestartServer
  <2>3. restarts' \in 0..MaxRestarts /\ served' \in 0..Len(sent)
    BY <2>2, ClientsAssumption DEF TypeOK
  <2>4. events' \in Seq(Events) /\ stream' \in Seq(Events \union Snapshots)
    BY <2>2
  <2>5. client' \in {"start", "live", "gap", "fallback", "again", "done", "crashed"}
    BY <2>2 DEF TypeOK
  <2>6. /\ pc' \in {"idle", "begin", "parse", "search"} /\ cancelled' \in BOOLEAN
        /\ UNCHANGED <<sent, num_hotels, found_names, script, count, view>>
    BY <2>2
  <2> QED
    BY <2>1, <2>3, <2>4, <2>5, <2>6 DEF TypeOK
<1> QED
  BY <1>1, <1>2, <1>4, <1>5, <1>7, <1>8, <1>9, <1>10, <1>11, <1>12, <1>13
     DEF ClientsNext, ClientStep

-----------------------------------------------------------------------------
\* execute() is called once, and finds the task ready for all it says.
LEMMA OneCallKept ==
  ASSUME TypeOK, OneCallInv({"parse", "search"}), [ClientsNext]_clientsVars
  PROVE  OneCallInv({"parse", "search"})'
<1> DEFINE Working == {"parse", "search"}
<1>0. /\ events \in Seq(Events) /\ sent \in Seq([text : Messages, shown : Notes])
      /\ served \in 0..Len(sent) /\ task.state \in States /\ task.note \in Notes
      /\ "idle" \notin Working /\ "begin" \notin Working /\ OneCallInv(Working)
  BY DEF TypeOK
<1>1. CASE UNCHANGED <<sent, served, pc, events, task>>
  BY <1>1, NothingMoved DEF OneCallInv
<1>2. CASE Submit
  BY <1>0, <1>2, OneCallSent, ClientsAssumption DEF Submit, Send
<1>3. CASE Execute
  <2>1. TaskEvent \in Events /\ CanServe /\ Enqueue(TaskEvent) /\ pc' = "begin"
        /\ served' = served + 1 /\ UNCHANGED <<sent, task>>
    BY <1>3, EventTypes DEF Execute
  <2> QED
    BY <1>0, <2>1, OneCallServed
<1>4. ASSUME NEW event \in Events, Utters(event) PROVE OneCallInv(Working)'
  <2>1. Enqueue(event) /\ UNCHANGED <<sent, served, task>> /\ pc # "idle" /\ pc' # "begin"
    BY <1>4 DEF Utters
  <2>2. served' # 0
    BY <2>1 DEF OneCallInv
  <2>3. Ready(Len(events) + 1, Needs(event, {"WORKING"}))
    <3>1. CASE event.kind = "status" /\ event.state = "WORKING"
      <4>1. Needs(event, {"WORKING"}) = OpenStates /\ {"WORKING"} \subseteq OpenStates
        BY <3>1 DEF Needs, OpenStates
      <4>2. Ready(Len(events) + 1, OpenStates)
        BY <1>4, <3>1, <4>1, ReadyWeaker DEF Utters, OneCallInv
      <4> QED
        BY <4>1, <4>2
    <3>2. CASE ~(event.kind = "status" /\ event.state = "WORKING")
      <4>1. Needs(event, {"WORKING"}) = {"WORKING"}
        BY <1>4, <3>2 DEF Utters, Needs
      <4>2. pc \in Working
        BY <1>4, <3>2 DEF Utters
      <4> QED
        BY <4>1, <4>2 DEF OneCallInv
    <3> QED
      BY <3>1, <3>2
  <2>4. event.kind = "status" => event.state \in {"WORKING"} \union ActionableStates
    BY <1>4 DEF Utters, ActionableStates, TerminalStates
  <2>5. pc' \in Working =>
          \/ event.kind = "status" /\ event.state \in {"WORKING", "CANCELED"}
          \/ ~ChangesState(event)
    BY <1>4 DEF Utters, ChangesState
  <2> HIDE DEF Working
  <2> QED
    BY <1>0, <2>1, <2>2, <2>3, <2>4, <2>5, OneCallEnqueued
<1>5. CASE Store
  <2>1. Takes /\ UNCHANGED <<sent, served, pc>>
    BY <1>5, StoreTakes DEF Store
  <2> HIDE DEF Working
  <2> QED
    BY <1>0, <2>1, OneCallStored
<1>6. CASE Cancel
  <2>1. StatusEvent("CANCELED", "none") \in Events
    BY EventTypes DEF Notes, States, ActionableStates, TerminalStates
  <2>2. AcceptCancel /\ Enqueue(StatusEvent("CANCELED", "none"))
    BY <1>6 DEF Cancel
  <2> HIDE DEF Working
  <2> QED
    BY <1>0, <2>1, <2>2, OneCallCancelled
<1>7. CASE Restart
  <2>1. RestartServer
    BY <1>7 DEF Restart
  <2> HIDE DEF Working
  <2> QED
    BY <1>0, <2>1, OneCallRestarted
<1> QED
  BY <1>1, <1>2, <1>3, <1>4, <1>5, <1>6, <1>7, ExecutorUtters
     DEF ClientsNext, ClientStep, AgentStep, StoreAndForward, clientsVars, vars, ReadToEnd,
         ReadUntilDrop, Subscribe, SubscribeRefused, TaskUnknown, GetTask, ReadAgain

-----------------------------------------------------------------------------
(***************************************************************************)
(* The queue up to the end of the task.                                    *)
(***************************************************************************)

\* Nothing ends the task before the first event, unless it has ended.
LEMMA ClosedFirst ==
  ASSUME events \in Seq(Events)
  PROVE  ClosedBefore(1) <=> Finished
BY DEF ClosedBefore

\* An end in the queue stays where it is while the queue grows, and closes it
\* for what comes behind.
LEMMA ClosedGrows ==
  ASSUME events \in Seq(Events), NEW event \in Events, Enqueue(event), UNCHANGED task
  PROVE  /\ \A i \in 1..Len(events) + 1 : ClosedBefore(i) => ClosedBefore(i)'
         /\ ClosedBefore(Len(events) + 1) => ClosedBefore(Len(events) + 1)'
         /\ Ends(event) => ClosedBefore(Len(events) + 1)'
<1>0. PICK n \in Nat : n = Len(events)
  OBVIOUS
<1>1. CASE Finished
  BY <1>1 DEF ClosedBefore, Finished
<1>2. CASE ~Finished
  <2>1. /\ Len(events') = n + 1 /\ (Len(events) + 1)' = n + 2
        /\ \A i \in 1..n : events'[i] = events[i]
        /\ events'[n + 1] = event
    BY <1>0, <1>2, EnqueueAppends
  <2>2. ASSUME NEW i \in 1..n + 1, ClosedBefore(i)
        PROVE  \E k \in 1..n : /\ k < i /\ ChangesState(events'[k])
                               /\ StateOf(events'[k]) \in TerminalStates
    BY <1>0, <1>2, <2>1, <2>2 DEF ClosedBefore
  <2>3. \A i \in 1..n + 1 : ClosedBefore(i) => ClosedBefore(i)' /\ ClosedBefore(n + 2)'
    <3>1. SUFFICES ASSUME NEW i \in 1..n + 1, ClosedBefore(i)
                   PROVE  ClosedBefore(i)' /\ ClosedBefore(n + 2)'
      OBVIOUS
    <3>2. PICK k \in 1..n : /\ k < i /\ ChangesState(events'[k])
                            /\ StateOf(events'[k]) \in TerminalStates
      BY <2>2, <3>1
    <3>3. k \in 1..Len(events') /\ k < n + 2
      BY <2>1
    <3> QED
      BY <3>2, <3>3 DEF ClosedBefore
  <2>4. Ends(event) => ClosedBefore(n + 2)'
    <3>1. SUFFICES ASSUME Ends(event) PROVE ClosedBefore(n + 2)'
      OBVIOUS
    <3>2. ChangesState(event) /\ StateOf(event) \in TerminalStates
      BY <3>1 DEF Ends, ChangesState, StateOf
    <3>3. n + 1 \in 1..Len(events') /\ n + 1 < n + 2
      BY <2>1
    <3> QED
      BY <2>1, <3>2, <3>3 DEF ClosedBefore
  <2>5. ClosedBefore(Len(events) + 1)' <=> ClosedBefore(n + 2)'
    BY <2>1 DEF ClosedBefore
  <2>6. n + 1 \in 1..n + 1
    OBVIOUS
  <2> QED
    BY <1>0, <2>3, <2>4, <2>5, <2>6
<1> QED
  BY <1>1, <1>2

\* It comes one place closer when the first event has been stored.
LEMMA ClosedArrives ==
  ASSUME events \in Seq(Events), Takes, ~Finished, ~Finished'
  PROVE  /\ \A i \in 1..Len(events') : ClosedBefore(i + 1) => ClosedBefore(i)'
         /\ ClosedBefore(Len(events) + 1) => ClosedBefore(Len(events) + 1)'
<1>0. PICK n \in Nat \ {0} : n = Len(events)
  BY TakesFirst
<1>1. Len(events') = n - 1 /\ \A i \in 1..n - 1 : events'[i] = events[i + 1]
  BY <1>0, TakesFirst
<1>2. ~(ChangesState(events[1]) /\ StateOf(events[1]) \in TerminalStates)
  BY DEF Takes, Finished
<1>3. ASSUME NEW i \in 1..n, ClosedBefore(i + 1) PROVE ClosedBefore(i)'
  <2>1. PICK k \in 1..n : /\ k < i + 1 /\ ChangesState(events[k])
                          /\ StateOf(events[k]) \in TerminalStates
    BY <1>0, <1>3 DEF ClosedBefore
  <2>2. k # 1
    BY <1>2, <2>1
  <2>3. k - 1 \in 1..Len(events') /\ k - 1 < i /\ events'[k - 1] = events[k]
    BY <1>1, <2>1, <2>2
  <2> QED
    BY <2>1, <2>3 DEF ClosedBefore
<1>4. (Len(events) + 1)' = n
  BY <1>1
<1>5. ClosedBefore(Len(events) + 1)' <=> ClosedBefore(n)'
  BY <1>4 DEF ClosedBefore
<1>6. n \in 1..n /\ \A i \in 1..n - 1 : i \in 1..n
  OBVIOUS
<1> QED
  BY <1>0, <1>1, <1>3, <1>5, <1>6

\* The sizes the numbers of the hotels are computed from.
LEMMA Sizes ==
  ASSUME TypeOK
  PROVE  /\ events \in Seq(Events) /\ Len(events) \in Nat
         /\ Results \in Seq(Hotels) /\ Len(Results) \in Nat
         /\ found_names \in Seq(Hotels) /\ Len(found_names) \in Nat
         /\ num_hotels \in 0..MaxNumHotels /\ num_hotels \in Nat
BY ResultsTyped, HotelAssumption DEF TypeOK

\* What an event of the queue says stays true while more hotels are found, and
\* before any is found the number looked for does not matter.
LEMMA QueueAtStays ==
  ASSUME TypeOK, NEW event \in Events, Enqueue(event), UNCHANGED task,
         NEW i \in 1..Len(events), NEW b \in Nat, QueueAt(i, b),
         found_names' \in Seq(Hotels), Len(found_names) <= Len(found_names'),
         \A k \in 1..Len(found_names) : found_names'[k] = found_names[k],
         num_hotels' = num_hotels \/ found_names = <<>>
  PROVE  QueueAt(i, b)' /\ (i <= b => QueueAt(i, b + 1)')
<1>1. events'[i] = events[i] /\ i \in Nat
  BY Sizes, EnqueueAppends
<1>2. PICK n \in Int : n = Number(i, b)
  <2>1. Len(Results) \in Nat
    BY Sizes
  <2>2. Len(Results) + i - b \in Int
    BY <1>1, <2>1
  <2> QED
    BY <2>2 DEF Number
<1>3. Number(i, b)' = n
  BY <1>2 DEF Number, Results
<1>4. PICK e \in Events : e = events[i] /\ e = events'[i]
  <2>1. events \in Seq(Events)
    BY DEF TypeOK
  <2> QED
    BY <1>1, <2>1, ElementOfSeq
<1>5. Len(found_names) \in Nat /\ Len(found_names') \in Nat
  BY DEF TypeOK
<1>6. CASE found_names = <<>>
  <2>1. e.kind # "chunk" /\ ~(e.kind = "status" /\ e.state = "COMPLETED" /\ e.note # "missing")
    BY <1>2, <1>4, <1>6 DEF QueueAt
  <2>2. i <= b => i <= b + 1
    OBVIOUS
  <2> QED
    BY <1>4, <2>1, <2>2 DEF QueueAt
<1>7. CASE num_hotels' = num_hotels
  <2>1. n \in 1..Len(found_names) =>
          n \in 1..Len(found_names') /\ found_names'[n] = found_names[n]
    BY <1>2, <1>5
  <2>2. QueueAt(i, b)'
    BY <1>2, <1>3, <1>4, <1>5, <1>7, <2>1 DEF QueueAt
  <2>3. ASSUME i <= b PROVE QueueAt(i, b + 1)'
    <3>1. e.kind # "chunk" /\ ~Ends(e) /\ ~(e.kind = "status" /\ e.state = "COMPLETED")
      BY <1>4, <2>3 DEF QueueAt, Ends, TerminalStates
    <3>2. i <= b + 1
      BY <1>1, <2>3
    <3> QED
      BY <1>4, <3>1, <3>2 DEF QueueAt
  <2> QED
    BY <2>2, <2>3
<1> QED
  BY <1>6, <1>7

\* A closed queue may grow: nothing that is added is ever stored.
LEMMA ShapeClosed ==
  ASSUME TypeOK, NEW event \in Events, Enqueue(event), UNCHANGED task,
         NEW b \in 0..Len(events), QueueShape(b), ClosedBefore(Len(events) + 1),
         found_names' \in Seq(Hotels), Len(found_names) <= Len(found_names'),
         \A k \in 1..Len(found_names) : found_names'[k] = found_names[k],
         num_hotels' = num_hotels \/ found_names = <<>>
  PROVE  b \in 0..Len(events') /\ QueueShape(b)'
<1>0. events \in Seq(Events) /\ Len(events) \in Nat /\ b \in Nat
  BY Sizes
<1>1. Len(events') \in Nat /\ b \in 0..Len(events')
  BY <1>0, EnqueueAppends
<1>2. Results' = Results
  BY DEF Results
<1>3. ClosedBefore(Len(events) + 1)'
  BY <1>0, ClosedGrows
<1>4. ASSUME NEW i \in 1..Len(events'), ~ClosedBefore(i)' PROVE QueueAt(i, b)'
  <2>1. i \in 1..Len(events)
    <3>1. i \in 1..Len(events) \/ i = Len(events) + 1
      BY <1>0, AppendedAt
    <3>2. Len(events) + 1 \in 1..Len(events) + 1
      BY <1>0
    <3>3. ClosedBefore(Len(events) + 1) => i # Len(events) + 1
      BY <1>0, <1>4, <3>2, ClosedGrows
    <3> QED
      BY <3>1, <3>3
  <2>2. ~ClosedBefore(i)
    <3>1. i \in 1..Len(events) + 1
      BY <1>0, <2>1
    <3> QED
      BY <1>0, <1>4, <3>1, ClosedGrows
  <2>3. QueueAt(i, b)
    BY <2>1, <2>2 DEF QueueShape
  <2> QED
    BY <1>0, <2>1, <2>3, QueueAtStays
<1> QED
  BY <1>1, <1>2, <1>3, <1>4 DEF QueueShape

\* The queue grows by an event without a hotel, a chunk or an end in its turn.
LEMMA ShapeGrows ==
  ASSUME TypeOK, NEW event \in Events, Enqueue(event), UNCHANGED task,
         NEW b \in 0..Len(events), QueueShape(b), ~ClosedBefore(Len(events) + 1),
         found_names' \in Seq(Hotels), Len(found_names) <= Len(found_names'),
         \A k \in 1..Len(found_names) : found_names'[k] = found_names[k],
         num_hotels' = num_hotels \/ found_names = <<>>,
         NEW c \in {b, b + 1}, c = b + 1 => b = Len(events) /\ Results = <<>>,
         NEW m, m = Len(events) + 1, QueueAt(m, c)',
         \/ Ends(event)
         \/ /\ pc' \in {"begin", "parse"} => c = Len(events) + 1
            /\ pc' = "search" => Number(Len(events) + 1, c) = Len(found_names')
  PROVE  c \in 0..Len(events') /\ QueueShape(c)'
<1>0. events \in Seq(Events) /\ Len(events) \in Nat /\ b \in Nat /\ c \in Nat /\ b <= Len(events)
  BY Sizes
<1>1. ~Finished
  BY DEF ClosedBefore
<1>2. Len(events') = Len(events) + 1 /\ c \in 0..Len(events')
  BY <1>0, <1>1, EnqueueAppends
<1>3. Results' = Results
  BY DEF Results
<1>4. ASSUME NEW i \in 1..Len(events'), ~ClosedBefore(i)' PROVE QueueAt(i, c)'
  <2>1. CASE i = Len(events) + 1
    <3>1. i = m
      BY <2>1
    <3> QED
      BY <3>1
  <2>2. CASE i \in 1..Len(events)
    <3>1. i \in 1..Len(events) + 1
      BY <1>0, <2>2
    <3>2. ~ClosedBefore(i)
      BY <1>0, <1>4, <3>1, ClosedGrows
    <3>3. QueueAt(i, b)
      BY <2>2, <3>2 DEF QueueShape
    <3>4. QueueAt(i, b)' /\ (i <= b => QueueAt(i, b + 1)')
      BY <1>0, <2>2, <3>3, QueueAtStays
    <3>5. c = b \/ (c = b + 1 /\ i <= b)
      BY <1>0, <2>2
    <3> QED
      BY <3>4, <3>5
  <2> QED
    BY <1>0, <1>2, <2>1, <2>2
<1>5. c > 0 => Results' = <<>>
  BY <1>0, <1>3 DEF QueueShape
<1>6. CASE Ends(event)
  <2>1. ClosedBefore(Len(events) + 1)'
    BY <1>0, <1>6, ClosedGrows
  <2> QED
    BY <1>2, <1>4, <1>5, <2>1 DEF QueueShape
<1>7. CASE ~Ends(event)
  <2>1. pc' \in {"begin", "parse"} => c = Len(events')
    BY <1>2, <1>7
  <2>2. pc' = "search" => Number(Len(events), c)' = Len(found_names')
    <3>1. Number(Len(events), c)' = Number(Len(events) + 1, c)
      BY <1>2, <1>3 DEF Number
    <3> QED
      BY <1>7, <3>1
  <2> QED
    BY <1>2, <1>4, <1>5, <2>1, <2>2 DEF QueueShape
<1> QED
  BY <1>6, <1>7

\* What is stored stays a prefix while more hotels are found.
LEMMA PrefixGrows ==
  ASSUME NEW S, NEW s \in Seq(S), NEW t \in Seq(S), NEW u \in Seq(S), IsPrefix(s, t),
         Len(t) <= Len(u), \A k \in 1..Len(t) : u[k] = t[k]
  PROVE  IsPrefix(s, u)
<1>1. Len(s) <= Len(t) /\ \A i \in 1..Len(s) : s[i] = t[i]
  BY Prefixes1
<1>2. Len(s) <= Len(u) /\ \A i \in 1..Len(s) : s[i] = u[i]
  BY <1>1
<1> QED
  BY <1>2, Prefixes1

\* Nothing is a prefix of nothing but nothing.
LEMMA PrefixOfNothing ==
  ASSUME NEW S, NEW s \in Seq(S), NEW t, t = <<>>, IsPrefix(s, t)
  PROVE  s = <<>>
BY DEF IsPrefix

\* Whatever execute() says, it keeps the order of what it publishes.
LEMMA SearchUttered ==
  ASSUME TypeOK, SearchInv, NEW event \in Events, Utters(event),
         found_names' \in Seq(Hotels)
  PROVE  SearchInv'
<1>0. /\ events \in Seq(Events) /\ Len(events) \in Nat
      /\ Results \in Seq(Hotels) /\ Len(Results) \in Nat /\ Results' = Results
      /\ found_names \in Seq(Hotels) /\ Len(found_names) \in Nat
      /\ num_hotels \in Nat
      /\ Enqueue(event) /\ task' = task
  BY Sizes DEF Utters, Results
<1>1. PICK b \in 0..Len(events) : QueueShape(b)
  BY DEF SearchInv
<1>2. /\ Len(found_names) <= Len(found_names')
      /\ \A k \in 1..Len(found_names) : found_names'[k] = found_names[k]
      /\ num_hotels' = num_hotels \/ found_names = <<>>
  <2>1. CASE event.kind = "chunk"
    <3>1. event.hotel \in Hotels
      BY <2>1 DEF Events
    <3>2. found_names' = Append(found_names, event.hotel) /\ num_hotels' = num_hotels
      BY <2>1 DEF Utters
    <3> QED
      BY <1>0, <3>1, <3>2
  <2>2. CASE event.kind # "chunk"
    <3>1. /\ found_names' = found_names
          /\ num_hotels' = num_hotels \/ pc = "parse"
      BY <2>2 DEF Utters
    <3> QED
      BY <1>0, <3>1 DEF SearchInv
  <2> QED
    BY <2>1, <2>2
<1>3. found_names = <<>> => Results = <<>>
  BY <1>0, PrefixOfNothing DEF SearchInv
<1>4. \E c \in 0..Len(events') : QueueShape(c)'
  <2>1. CASE ClosedBefore(Len(events) + 1)
    BY <1>0, <1>1, <1>2, <2>1, ShapeClosed
  <2>2. CASE ~ClosedBefore(Len(events) + 1)
    <3>0. PICK m \in Nat : m = Len(events) + 1
      BY <1>0
    <3>1. events'[m] = event
      <4>1. ~Finished
        BY <2>2 DEF ClosedBefore
      <4> QED
        BY <1>0, <3>0, <4>1, EnqueueAppends
    <3>2. CASE event.kind = "status" /\ event.state = "WORKING"
      <4>1. b = Len(events) /\ found_names = <<>> /\ found_names' = <<>>
        BY <1>1, <2>2, <3>2 DEF Utters, QueueShape, SearchInv
      <4>2. PICK c \in {b, b + 1} : c = b + 1
        OBVIOUS
      <4>3. c = m /\ Results = <<>> /\ ~Ends(event)
        BY <1>3, <3>0, <3>2, <4>1, <4>2 DEF Ends, TerminalStates
      <4>4. QueueAt(m, c)'
        BY <3>0, <3>1, <3>2, <4>3 DEF QueueAt
      <4>5. Number(m, c) = 0 /\ Len(found_names') = 0
        BY <3>0, <4>1, <4>3 DEF Number
      <4>6. c \in 0..Len(events') /\ QueueShape(c)'
        BY <1>0, <1>1, <1>2, <2>2, <3>0, <4>1, <4>2, <4>3, <4>4, <4>5, ShapeGrows
      <4> QED
        BY <4>6
    <3>3. CASE event.kind = "status" /\ event.state \in {"FAILED", "COMPLETED"}
      <4>1. Ends(event) /\ m > b
        BY <1>0, <3>0, <3>3 DEF Ends, TerminalStates
      <4>2. UNCHANGED <<found_names, num_hotels>>
        BY <3>3 DEF Utters
      <4>3. event.state = "COMPLETED" =>
              \/ event.note = "missing"
              \/ Number(m, b) = num_hotels + 1 /\ num_hotels \in 1..Len(found_names)
        <5>1. SUFFICES ASSUME event.state = "COMPLETED", event.note # "missing"
                       PROVE  Number(m, b) = num_hotels + 1 /\ num_hotels \in 1..Len(found_names)
          OBVIOUS
        <5>2. pc = "search" /\ Len(found_names) >= num_hotels
          BY <3>3, <5>1 DEF Utters
        <5>3. Number(Len(events), b) = Len(found_names) /\ num_hotels # 0
              /\ Len(found_names) <= num_hotels
          BY <1>1, <2>2, <5>2 DEF QueueShape, SearchInv
        <5>4. Number(m, b) = Number(Len(events), b) + 1
          BY <1>0, <3>0 DEF Number
        <5> QED
          BY <1>0, <5>2, <5>3, <5>4
      <4>4. Number(m, b)' = Number(m, b)
        BY <1>0, <3>0 DEF Number
      <4>5. QueueAt(m, b)'
        BY <3>0, <3>1, <3>3, <4>1, <4>2, <4>3, <4>4 DEF QueueAt
      <4>6. PICK c \in {b, b + 1} : c = b /\ c # b + 1
        BY <1>0
      <4>7. b \in 0..Len(events') /\ QueueShape(b)'
        BY <1>0, <1>1, <1>2, <2>2, <3>0, <4>1, <4>5, <4>6, ShapeGrows
      <4> QED
        BY <4>7
    <3>4. CASE event.kind = "chunk"
      <4>1. /\ pc = "search" /\ pc' = "search" /\ num_hotels' = num_hotels
            /\ found_names' = Append(found_names, event.hotel)
            /\ event.append = (found_names # <<>>)
            /\ event.last = (Len(found_names) + 1 = num_hotels)
        BY <3>4 DEF Utters
      <4>2. event.hotel \in Hotels
        BY <3>4 DEF Events
      <4>3. PICK n \in Nat \ {0} : n = Len(found_names) + 1
        BY <1>0
      <4>4. Len(found_names') = n /\ found_names'[n] = event.hotel
        BY <1>0, <4>1, <4>2, <4>3
      <4>5. Number(m, b) = n
        <5>1. Number(Len(events), b) = Len(found_names)
          BY <1>1, <2>2, <4>1 DEF QueueShape
        <5>2. Number(m, b) = Number(Len(events), b) + 1
          BY <1>0, <3>0 DEF Number
        <5> QED
          BY <1>0, <4>3, <5>1, <5>2
      <4>6. Number(m, b)' = n
        BY <1>0, <3>0, <4>5 DEF Number
      <4>7. event.append = (n > 1) /\ event.last = (n = num_hotels) /\ m > b
        BY <1>0, <3>0, <4>1, <4>3
      <4>8. QueueAt(m, b)'
        BY <3>0, <3>1, <3>4, <4>1, <4>3, <4>4, <4>6, <4>7 DEF QueueAt
      <4>9. PICK c \in {b, b + 1} : c = b /\ c # b + 1
        BY <1>0
      <4>10. pc' \notin {"begin", "parse"} /\ Number(m, b) = Len(found_names')
        BY <4>1, <4>4, <4>5
      <4>11. b \in 0..Len(events') /\ QueueShape(b)'
        BY <1>0, <1>1, <1>2, <2>2, <3>0, <4>8, <4>9, <4>10, ShapeGrows
      <4> QED
        BY <4>11
    <3> QED
      BY <3>2, <3>3, <3>4 DEF Utters
  <2> QED
    BY <2>1, <2>2
<1>5. /\ pc' \in {"begin", "parse"} => found_names' = <<>>
      /\ pc' = "search" => num_hotels' # 0
      /\ Len(found_names') <= num_hotels'
  <2>1. CASE event.kind = "chunk"
    <3>1. event.hotel \in Hotels
      BY <2>1 DEF Events
    <3>2. /\ found_names' = Append(found_names, event.hotel) /\ num_hotels' = num_hotels
          /\ pc = "search" /\ pc' = "search" /\ Len(found_names) < num_hotels
      BY <2>1 DEF Utters
    <3> QED
      BY <1>0, <3>1, <3>2 DEF SearchInv
  <2>2. CASE event.kind # "chunk"
    <3>1. CASE num_hotels' = num_hotels
      BY <2>2, <3>1 DEF Utters, SearchInv
    <3>2. CASE num_hotels' # num_hotels
      <4>1. pc = "parse" /\ pc' = "search" /\ found_names' = found_names
            /\ num_hotels' \in 1..MaxNumHotels
        BY <2>2, <3>2 DEF Utters
      <4>2. found_names = <<>>
        BY <4>1 DEF SearchInv
      <4> QED
        BY <4>1, <4>2
    <3> QED
      BY <3>1, <3>2
  <2> QED
    BY <2>1, <2>2
<1>6. IsPrefix(Results, found_names)'
  <2>1. IsPrefix(Results, found_names')
    BY <1>0, <1>2, PrefixGrows DEF SearchInv
  <2> QED
    BY <1>0, <2>1
<1>7. SearchComplete'
  <2>1. SUFFICES ASSUME task.state = "COMPLETED", task.note # "missing"
                 PROVE  num_hotels' = num_hotels
    BY <1>0 DEF SearchInv, SearchComplete, Results
  <2>2. Len(Results) = num_hotels /\ num_hotels \in 1..MaxNumHotels
    BY <2>1 DEF SearchInv, SearchComplete, Results
  <2>3. Results # <<>>
    BY <1>0, <2>2
  <2> QED
    BY <1>2, <1>3, <2>3
<1> QED
  BY <1>4, <1>5, <1>6, <1>7 DEF SearchInv

\* Storing brings the chunks one place closer: the first of them is the hotel
\* that comes next.
LEMMA SearchStored ==
  ASSUME TypeOK, OneCallInv({"parse", "search"}), SearchInv, Store
  PROVE  /\ SearchInv'
         /\ Len(Results) <= Len(Results') /\ \A k \in 1..Len(Results) : Results'[k] = Results[k]
         /\ events[1].kind = "chunk" =>
              /\ Results' = Append(Results, events[1].hotel)
              /\ events[1].last = (Len(Results) + 1 = num_hotels)
         /\ events[1].kind # "chunk" => Results' = Results
         /\ events[1].kind # "chunk" /\ ~Ends(events[1]) => Results = <<>>
<1>0. /\ events \in Seq(Events) /\ Len(events) \in Nat \ {0} /\ 1 \in 1..Len(events)
      /\ Results \in Seq(Hotels) /\ Len(Results) \in Nat
      /\ found_names \in Seq(Hotels) /\ Len(found_names) \in Nat
      /\ num_hotels \in Nat /\ num_hotels \in 0..MaxNumHotels
  BY Sizes DEF Store
<1>1. Takes /\ events[1] \in Events /\ UNCHANGED <<pc, num_hotels, found_names>>
  BY StoreTakes DEF Store
<1>2. ~Finished /\ ~ClosedBefore(1)
  BY <1>0, <1>1, TakenInState, ClosedFirst DEF OneCallInv
<1>3. PICK b \in 0..Len(events) : QueueShape(b)
  BY DEF SearchInv
<1>4. QueueAt(1, b) /\ b \in Nat
  BY <1>0, <1>2, <1>3 DEF QueueShape
<1>5. events[1].kind = "chunk" => b = 0
  BY <1>0, <1>4 DEF QueueAt
<1>6. /\ events[1].kind = "chunk" =>
           /\ Results' = Append(Results, events[1].hotel)
           /\ Len(Results) + 1 \in 1..Len(found_names)
           /\ events[1].hotel = found_names[Len(Results) + 1]
           /\ events[1].last = (Len(Results) + 1 = num_hotels)
      /\ events[1].kind # "chunk" => Results' = Results
  <2>1. CASE events[1].kind = "chunk"
    <3>1. Number(1, b) = Len(Results) + 1
      BY <1>0, <1>5, <2>1 DEF Number
    <3>2. /\ Len(Results) + 1 \in 1..Len(found_names)
          /\ events[1].hotel = found_names[Len(Results) + 1]
          /\ events[1].append = (Len(Results) + 1 > 1)
          /\ events[1].last = (Len(Results) + 1 = num_hotels)
      BY <1>4, <2>1, <3>1 DEF QueueAt
    <3>3. Results' = (IF events[1].append THEN Results ELSE <<>>) \o <<events[1].hotel>>
      BY <2>1, StoreTakes
    <3>4. (IF events[1].append THEN Results ELSE <<>>) = Results
      <4>1. events[1].append \in BOOLEAN
        BY <1>1, <2>1 DEF Events
      <4>2. CASE events[1].append = TRUE
        BY <4>2
      <4>3. CASE events[1].append = FALSE
        <5>1. ~(Len(Results) + 1 > 1)
          BY <3>2, <4>3, Zenon
        <5>2. Results = <<>>
          BY <1>0, <5>1
        <5> QED
          BY <4>3, <5>2
      <4> QED
        BY <4>1, <4>2, <4>3
    <3>5. Results \o <<events[1].hotel>> = Append(Results, events[1].hotel)
      BY <1>0
    <3> QED
      BY <2>1, <3>2, <3>3, <3>4, <3>5
  <2>2. CASE events[1].kind # "chunk"
    BY <2>2, StoreTakes
  <2> QED
    BY <2>1, <2>2
<1>7. events[1].kind # "chunk" /\ ~Ends(events[1]) => b # 0 /\ Results = <<>>
  BY <1>0, <1>3, <1>4 DEF QueueAt, QueueShape
<1>8. /\ Results' \in Seq(Hotels)
      /\ Len(Results) <= Len(Results')
      /\ \A k \in 1..Len(Results) : Results'[k] = Results[k]
      /\ IsPrefix(Results, found_names)'
  <2>1. IsPrefix(Results, found_names)
    BY DEF SearchInv
  <2>2. CASE events[1].kind = "chunk"
    <3>1. events[1].hotel \in Hotels
      BY <1>1, <2>2 DEF Events
    <3>2. /\ Results' \in Seq(Hotels) /\ Len(Results') = Len(Results) + 1
          /\ \A k \in 1..Len(Results) : Results'[k] = Results[k]
          /\ Results'[Len(Results) + 1] = events[1].hotel
      <4>1. PICK hotel \in Hotels : hotel = events[1].hotel
        BY <3>1
      <4>2. PICK r \in Seq(Hotels) : r = Results
        BY <1>0
      <4>3. Results' = Append(r, hotel)
        BY <1>6, <2>2, <4>1, <4>2
      <4>4. /\ Append(r, hotel) \in Seq(Hotels) /\ Len(Append(r, hotel)) = Len(r) + 1
            /\ \A k \in 1..Len(r) : Append(r, hotel)[k] = r[k]
            /\ Append(r, hotel)[Len(r) + 1] = hotel
        OBVIOUS
      <4> QED
        BY <4>1, <4>2, <4>3, <4>4
    <3>3. Len(Results) <= Len(found_names) /\ \A k \in 1..Len(Results) : Results[k] = found_names[k]
      BY <1>0, <2>1, Prefixes1
    <3>4. Len(Results') <= Len(found_names) /\ \A k \in 1..Len(Results') : Results'[k] = found_names[k]
      <4>1. Len(Results') <= Len(found_names)
        BY <1>0, <1>6, <2>2, <3>2
      <4>2. ASSUME NEW k \in 1..Len(Results') PROVE Results'[k] = found_names[k]
        <5>1. k \in 1..Len(Results) \/ k = Len(Results) + 1
          BY <1>0, <3>2
        <5>2. k = Len(Results) + 1 => Results'[k] = found_names[k]
          BY <1>6, <2>2, <3>2
        <5> QED
          BY <3>2, <3>3, <5>1, <5>2
      <4> QED
        BY <4>1, <4>2
    <3>5. IsPrefix(Results', found_names)
      BY <1>0, <3>2, <3>4, Prefixes1
    <3> QED
      BY <1>0, <1>1, <3>2, <3>5
  <2>3. CASE events[1].kind # "chunk"
    BY <1>0, <1>1, <1>6, <2>1, <2>3
  <2> QED
    BY <2>2, <2>3
<1>9. \E c \in 0..Len(events') : QueueShape(c)'
  <2>1. CASE Finished'
    <3>1. events' = <<>> /\ 0 \in 0..Len(events')
      BY <1>0, <1>1, <2>1, TakesFirst
    <3>2. ClosedBefore(Len(events) + 1)'
      BY <2>1 DEF ClosedBefore
    <3>3. QueueShape(0)'
      BY <3>1, <3>2 DEF QueueShape
    <3> QED
      BY <3>1, <3>3
  <2>2. CASE ~Finished'
    <3>0. PICK n \in Nat \ {0} : n = Len(events)
      BY <1>0
    <3>1. Len(events') = n - 1 /\ \A i \in 1..n - 1 : events'[i] = events[i + 1]
      BY <1>0, <1>1, <2>2, <3>0, TakesFirst
    <3>2. ~Ends(events[1])
      BY <1>1, <2>2 DEF Takes, Ends, ChangesState, StateOf, Finished
    <3>3. PICK c \in 0..n - 1 : \/ b = 0 /\ c = 0 /\ events[1].kind = "chunk"
                                \/ b = c + 1 /\ events[1].kind # "chunk" /\ Results' = <<>>
      <4>1. CASE events[1].kind = "chunk"
        BY <1>5, <3>0, <4>1
      <4>2. CASE events[1].kind # "chunk"
        <5>1. b - 1 \in 0..n - 1 /\ b = (b - 1) + 1 /\ Results' = <<>>
          BY <1>6, <1>7, <3>0, <3>2, <4>2
        <5> QED
          BY <4>2, <5>1
      <4> QED
        BY <4>1, <4>2
    <3>4. \A i \in Nat : Number(i, c)' = Number(i + 1, b)
      <4>1. CASE events[1].kind = "chunk"
        <5>1. Len(Results') = Len(Results) + 1 /\ b = 0 /\ c = 0
          BY <1>0, <1>6, <3>3, <4>1
        <5> QED
          BY <1>0, <5>1 DEF Number
      <4>2. CASE events[1].kind # "chunk"
        <5>1. Results' = Results /\ b = c + 1
          BY <1>6, <3>3, <4>2
        <5> QED
          BY <1>0, <5>1 DEF Number
      <4> QED
        BY <4>1, <4>2
    <3>5. ASSUME NEW i \in 1..Len(events'), ~ClosedBefore(i)' PROVE QueueAt(i, c)'
      <4>1. i \in Nat /\ i + 1 \in 1..Len(events) /\ events'[i] = events[i + 1] /\ i >= 1
        BY <3>0, <3>1
      <4>2. ~ClosedBefore(i + 1)
        BY <1>0, <1>1, <1>2, <2>2, <3>5, ClosedArrives
      <4>3. QueueAt(i + 1, b)
        BY <1>3, <4>1, <4>2 DEF QueueShape
      <4>4. PICK k \in Int : k = Number(i, c)' /\ k = Number(i + 1, b)
        <5>1. Number(i + 1, b) \in Int
          BY <1>0, <1>4, <4>1 DEF Number
        <5> QED
          BY <3>4, <4>1, <5>1
      <4>5. i <= c <=> i + 1 <= b
        BY <3>3, <4>1
      <4>6. PICK e \in Events : e = events[i + 1] /\ e = events'[i]
        BY <1>0, <4>1, ElementOfSeq
      <4>7. i > c <=> i + 1 > b
        BY <3>3, <4>1
      <4> QED
        BY <1>1, <4>3, <4>4, <4>5, <4>6, <4>7 DEF QueueAt
    <3>6. ~ClosedBefore(Len(events) + 1)' =>
            /\ pc' \in {"begin", "parse"} => c = Len(events')
            /\ pc' = "search" => Number(Len(events), c)' = Len(found_names')
      <4>1. SUFFICES ASSUME ~ClosedBefore(Len(events) + 1)'
                     PROVE  /\ pc \in {"begin", "parse"} => c = n - 1
                            /\ pc = "search" => Number(n - 1, c)' = Len(found_names)
        <5>1. Number(Len(events), c)' = Number(n - 1, c)'
          BY <3>1 DEF Number
        <5> QED
          BY <1>1, <3>1, <5>1
      <4>2. ~ClosedBefore(Len(events) + 1)
        BY <1>0, <1>1, <1>2, <2>2, <4>1, ClosedArrives
      <4>3. /\ pc \in {"begin", "parse"} => b = n
            /\ pc = "search" => Number(n, b) = Len(found_names)
        BY <1>3, <3>0, <4>2 DEF QueueShape
      <4>4. Number(n - 1, c)' = Number(n, b)
        <5>1. n - 1 \in Nat /\ (n - 1) + 1 = n
          OBVIOUS
        <5> QED
          BY <3>4, <5>1
      <4> QED
        BY <3>3, <4>3, <4>4
    <3>7. c \in 0..Len(events') /\ (c > 0 => Results' = <<>>)
      BY <3>1, <3>3
    <3> QED
      BY <3>5, <3>6, <3>7 DEF QueueShape
  <2> QED
    BY <2>1, <2>2
<1>10. SearchComplete'
  <2>1. SUFFICES ASSUME task'.state = "COMPLETED", task'.note # "missing"
                 PROVE  Len(Results') = num_hotels /\ num_hotels \in 1..MaxNumHotels
    BY <1>1 DEF SearchComplete, Results
  <2>2. ChangesState(events[1]) /\ StateOf(events[1]) = "COMPLETED"
    <3>1. task.state # "COMPLETED"
      BY <1>2 DEF Finished, TerminalStates
    <3> QED
      BY <1>1, <2>1, <3>1 DEF Takes
  <2>3. events[1].kind = "status" /\ events[1].state = "COMPLETED"
    BY <2>2 DEF ChangesState, StateOf
  <2>4. events[1].note # "missing"
    BY <2>1, <2>3, StoreTakes
  <2>5. Ends(events[1]) /\ b = 0
    BY <1>0, <1>4, <2>3 DEF Ends, TerminalStates, QueueAt
  <2>6. Number(1, b) = num_hotels + 1 /\ num_hotels \in 1..Len(found_names)
    BY <1>4, <2>3, <2>4 DEF QueueAt
  <2>7. Results' = Results
    BY <1>6, <2>3
  <2> QED
    BY <1>0, <2>5, <2>6, <2>7 DEF Number
<1>11. SearchInv'
  BY <1>1, <1>8, <1>9, <1>10 DEF SearchInv
<1> QED
  BY <1>6, <1>7, <1>8, <1>11

\* Nothing is a prefix of everything.
LEMMA EmptyPrefix ==
  ASSUME NEW S, NEW t \in Seq(S)
  PROVE  IsPrefix(<<>>, t)
<1>0. <<>> \in Seq(S)
  OBVIOUS
<1>1. PICK s \in Seq(S) : s = <<>>
  BY <1>0
<1>2. Len(s) = 0 /\ Len(t) \in Nat
  BY <1>1
<1>3. \A i \in 1..Len(s) : s[i] = t[i]
  BY <1>2
<1>4. Len(s) <= Len(t)
  BY <1>2
<1> QED
  BY <1>1, <1>3, <1>4, Prefixes1

\* The call starts with a task that is not there and nothing found.
LEMMA SearchStarted ==
  ASSUME TypeOK, OneCallInv({"parse", "search"}), SearchInv, Execute
  PROVE  SearchInv' /\ Results = <<>> /\ task.state = "NONE"
<1>1. /\ CanServe /\ Enqueue(TaskEvent) /\ pc' = "begin" /\ found_names' = <<>>
      /\ served' = served + 1 /\ UNCHANGED <<sent, task, num_hotels>>
  BY DEF Execute
<1>2. task.state = "NONE" /\ events = <<>>
  <2> DEFINE Working == {"parse", "search"}
  <2>1. /\ events \in Seq(Events) /\ sent \in Seq([text : Messages, shown : Notes])
        /\ served \in 0..Len(sent) /\ "begin" \notin Working /\ OneCallInv(Working)
        /\ TaskEvent \in Events
    BY EventTypes DEF TypeOK
  <2> HIDE DEF Working
  <2> QED
    BY <1>1, <2>1, OneCallServed
<1>3. Results = <<>> /\ Results' = <<>>
  <2>1. task.artifacts = {} /\ task'.artifacts = {}
    BY <1>1, <1>2 DEF OneCallInv
  <2> QED
    BY <2>1, ResultsOf DEF Results
<1>4. events' = <<TaskEvent>>
  BY <1>1, <1>2 DEF Enqueue, Finished, TerminalStates
<1>5. Len(events') = 1 /\ events'[1].kind = "task"
  BY <1>4 DEF TaskEvent
<1>6. QueueAt(1, 1)'
  BY <1>5 DEF QueueAt, Ends
<1>7. QueueShape(1)'
  BY <1>1, <1>3, <1>5, <1>6 DEF QueueShape
<1>8. 1 \in 0..Len(events')
  BY <1>5
<1>9. IsPrefix(Results, found_names)'
  BY <1>1, <1>3 DEF IsPrefix
<1>10. Len(found_names') <= num_hotels'
  BY <1>1, Sizes
<1>11. SearchComplete'
  BY <1>1, <1>2 DEF SearchComplete
<1> QED
  BY <1>1, <1>2, <1>3, <1>7, <1>8, <1>9, <1>10, <1>11 DEF SearchInv

\* A cancel ends the queue.
LEMMA SearchCancelled ==
  ASSUME TypeOK, SearchInv, Cancel
  PROVE  SearchInv'
<1>1. PICK event \in Events : event = StatusEvent("CANCELED", "none")
  BY EventTypes DEF Notes, States, ActionableStates, TerminalStates
<1>2. /\ Enqueue(event) /\ UNCHANGED <<task, num_hotels, found_names>> /\ pc' \in {pc, "idle"}
      /\ Ends(event) /\ event.state # "COMPLETED" /\ event.kind = "status"
  BY <1>1 DEF Cancel, AcceptCancel, StatusEvent, Ends, TerminalStates
<1>3. /\ events \in Seq(Events) /\ Len(events) \in Nat
      /\ found_names \in Seq(Hotels) /\ Len(found_names) \in Nat
  BY Sizes
<1>4. PICK b \in 0..Len(events) : QueueShape(b)
  BY DEF SearchInv
<1>5. \E c \in 0..Len(events') : QueueShape(c)'
  <2>0. /\ found_names' \in Seq(Hotels) /\ Len(found_names) <= Len(found_names')
        /\ \A k \in 1..Len(found_names) : found_names'[k] = found_names[k]
        /\ num_hotels' = num_hotels
    BY <1>2, <1>3
  <2>1. CASE ClosedBefore(Len(events) + 1)
    BY <1>2, <1>4, <2>0, <2>1, ShapeClosed
  <2>2. CASE ~ClosedBefore(Len(events) + 1)
    <3>0. PICK m \in Nat : m = Len(events) + 1
      BY <1>3
    <3>1. events'[m] = event
      <4>1. ~Finished
        BY <2>2 DEF ClosedBefore
      <4> QED
        BY <1>2, <1>3, <3>0, <4>1, EnqueueAppends
    <3>2. m > b
      BY <1>3, <3>0
    <3>3. QueueAt(m, b)'
      BY <1>2, <3>1, <3>2 DEF QueueAt
    <3>4. PICK c \in {b, b + 1} : c = b /\ c # b + 1
      BY <1>3
    <3>5. b \in 0..Len(events') /\ QueueShape(b)'
      BY <1>2, <1>4, <2>0, <2>2, <3>0, <3>3, <3>4, ShapeGrows
    <3> QED
      BY <3>5
  <2> QED
    BY <2>1, <2>2
<1>6. Results' = Results
  BY <1>2 DEF Results
<1>7. SearchComplete' <=> SearchComplete
  BY <1>2 DEF SearchComplete
<1> QED
  BY <1>2, <1>5, <1>6, <1>7 DEF SearchInv

\* Every step keeps the order of what is published.
LEMMA SearchKept ==
  ASSUME TypeOK, TypeOK', OneCallInv({"parse", "search"}), SearchInv,
         [ClientsNext]_clientsVars
  PROVE  SearchInv'
<1>1. CASE UNCHANGED <<pc, events, task, num_hotels, found_names>>
  <2>1. \A i : ClosedBefore(i)' <=> ClosedBefore(i)
    BY <1>1 DEF ClosedBefore, Finished
  <2>2. Results' = Results
    BY <1>1 DEF Results
  <2>3. \A i, b : QueueAt(i, b)' <=> QueueAt(i, b)
    BY <1>1, <2>2 DEF QueueAt, Number
  <2>4. \A b : QueueShape(b)' <=> QueueShape(b)
    BY <1>1, <2>1, <2>2, <2>3 DEF QueueShape, Number
  <2>5. SearchComplete' <=> SearchComplete
    BY <1>1 DEF SearchComplete
  <2> QED
    BY <1>1, <2>2, <2>4, <2>5 DEF SearchInv
<1>2. CASE Execute
  BY <1>2, SearchStarted
<1>3. ASSUME NEW event \in Events, Utters(event) PROVE SearchInv'
  <2>1. found_names' \in Seq(Hotels)
    BY Sizes DEF TypeOK
  <2> QED
    BY <1>3, <2>1, SearchUttered
<1>4. CASE Store
  BY <1>4, SearchStored
<1>5. CASE Cancel
  BY <1>5, SearchCancelled
<1>6. CASE Restart
  <2>1. /\ events' = <<>> /\ pc' = "idle" /\ task' = NoTask
        /\ UNCHANGED <<num_hotels, found_names>>
    BY <1>6 DEF Restart, RestartServer
  <2>2. Results' = <<>>
    BY <2>1, ResultsOf DEF Results, NoTask
  <2>3. QueueShape(0)' /\ 0 \in 0..Len(events')
    BY <2>1 DEF QueueShape
  <2>4. IsPrefix(Results, found_names)'
    <3>1. found_names' \in Seq(Hotels) /\ <<>> \in Seq(Hotels)
      BY DEF TypeOK
    <3>2. PICK f \in Seq(Hotels) : f = found_names'
      BY <3>1
    <3>3. IsPrefix(<<>>, f)
      BY EmptyPrefix
    <3> QED
      BY <2>2, <3>2, <3>3
  <2>5. SearchComplete'
    BY <2>1 DEF SearchComplete, NoTask
  <2> QED
    BY <2>1, <2>3, <2>4, <2>5 DEF SearchInv
<1> QED
  BY <1>1, <1>2, <1>3, <1>4, <1>5, <1>6, ExecutorUtters
     DEF ClientsNext, ClientStep, AgentStep, StoreAndForward, clientsVars, vars, Submit, Send,
         SendMessage, ReadToEnd, ReadUntilDrop, Subscribe, SubscribeRefused, TaskUnknown,
         GetTask, ReadAgain

-----------------------------------------------------------------------------
(***************************************************************************)
(* The stream of the client.                                               *)
(***************************************************************************)

\* The sizes that count here.
LEMMA StreamSizes ==
  ASSUME TypeOK
  PROVE  /\ stream \in Seq(Events \union Snapshots) /\ Len(stream) \in Nat
         /\ Base \in Seq(Hotels) /\ Len(Base) \in Nat
         /\ view.hotels \in Seq(Hotels) /\ Len(view.hotels) \in Nat
         /\ view.last \in BOOLEAN
<1> DEFINE E == Events \union Snapshots
<1>1. stream \in Seq(E) /\ view \in [state : States, hotels : Seq(Hotels), last : BOOLEAN]
  BY DEF TypeOK
<1>2. stream # <<>> => stream[1] \in E
  <2> HIDE DEF E
  <2> QED
    BY <1>1
<1>3. stream # <<>> /\ stream[1].kind = "snapshot" => stream[1].hotels \in Seq(Hotels)
  BY <1>2 DEF Events, Snapshots
<1>4. view.hotels \in Seq(Hotels) /\ view.last \in BOOLEAN
  BY <1>1
<1>5. Base \in Seq(Hotels)
  BY <1>3, <1>4 DEF Base
<1>6. Len(stream) \in Nat
  <2> HIDE DEF E
  <2> QED
    BY <1>1
<1> QED
  BY <1>1, <1>4, <1>5, <1>6

\* While there is a task, nothing has been forgotten, and the client knows a
\* prefix of what is stored.
LEMMA ToldSoFar ==
  ASSUME StreamInv, Exists \/ events # <<>> \/ pc # "idle" \/ served # Len(sent) \/ sent = <<>>
  PROVE  ~Gone /\ IsPrefix(view.hotels, Results)
BY DEF StreamInv, Gone

\* A step that leaves the store and the client alone leaves the stream in
\* order; the number of hotels is only settled while there are none.
LEMMA StreamUndisturbed ==
  ASSUME TypeOK, StreamInv, UNCHANGED <<task, sent, clientVars>>, Gone => Gone',
         num_hotels' = num_hotels \/ (Results = <<>> /\ ~Gone)
  PROVE  StreamInv'
<1>1. /\ Results' = Results /\ Base' = Base /\ (Finished' <=> Finished)
      /\ (Exists' <=> Exists)
      /\ UNCHANGED <<script, client, stream, count, view, restarts>>
  BY DEF Results, Base, Finished, Exists, clientVars
<1>2. ASSUME NEW b \in 0..Len(stream), StreamShape(b)
      PROVE  StreamShape(b)'
  <2>1. \A i : Place(i, b)' = Place(i, b)
    BY <1>1 DEF Place
  <2>2. ASSUME NEW i \in 1..Len(stream) PROVE StreamAt(i, b)'
    <3>1. StreamAt(i, b)
      BY <1>2 DEF StreamShape
    <3>2. Results = <<>> => stream[i].kind # "chunk"
      <4>1. Results = <<>> => Len(Results) = 0
        OBVIOUS
      <4> QED
        BY <3>1, <4>1 DEF StreamAt
    <3>3. Ends(stream[i])' <=> Ends(stream[i])
      BY <1>1 DEF Ends
    <3> QED
      BY <1>1, <2>1, <3>1, <3>2, <3>3 DEF StreamAt
  <2> QED
    BY <1>1, <1>2, <2>1, <2>2 DEF StreamShape, Ends
<1>3. view.last => num_hotels' = num_hotels
  <2>1. ASSUME Results = <<>>, ~Gone PROVE ~view.last
    <3>1. IsPrefix(view.hotels, Results) /\ view.hotels \in Seq(Hotels)
      BY <2>1, StreamSizes DEF StreamInv
    <3>2. view.hotels = <<>>
      BY <2>1, <3>1, PrefixOfNothing
    <3> QED
      BY <3>2 DEF StreamInv
  <2> QED
    BY <2>1
<1>4. NothingLost'
  BY <1>1 DEF StreamInv, NothingLost, Results
<1> QED
  BY <1>1, <1>2, <1>3, <1>4 DEF StreamInv, Connected

\* What the store does to the task: only the end of the task ends it.
LEMMA StoreEnds ==
  ASSUME TypeOK, OneCallInv({"parse", "search"}), Store
  PROVE  /\ events \in Seq(Events) /\ events # <<>> /\ events[1] \in Events
         /\ Head(events) = events[1] /\ ~Finished /\ Exists'
         /\ (Finished' <=> Ends(events[1]))
         /\ Ends(events[1]) => task'.state = events[1].state
<1>1. Takes /\ events[1] \in Events /\ events \in Seq(Events) /\ events # <<>>
  BY StoreTakes DEF TypeOK, Store
<1>2. /\ ~Finished /\ task'.state # "NONE"
  <2>1. UNCHANGED <<sent, served, pc>>
    BY DEF Store
  <2> QED
    BY <1>1, <2>1, OneCallStored
<1>3. task'.state = IF ChangesState(events[1]) THEN StateOf(events[1]) ELSE task.state
  BY <1>1 DEF Takes
<1>4. CASE events[1].kind = "status"
  BY <1>1, <1>2, <1>3, <1>4 DEF ChangesState, StateOf, Ends, Finished, Exists
<1>5. CASE events[1].kind # "status"
  BY <1>1, <1>2, <1>3, <1>5 DEF ChangesState, StateOf, Ends, Finished, Exists, TerminalStates
<1> QED
  BY <1>1, <1>2, <1>4, <1>5

\* What is stored goes out to a client that is connected, behind what is under
\* way already.
LEMMA StreamForwards ==
  ASSUME TypeOK, TypeOK', OneCallInv({"parse", "search"}), SearchInv, Store, Connected,
         UNCHANGED view, stream' = Append(stream, events[1]),
         NEW b \in 0..Len(stream), StreamShape(b), IsPrefix(Base, Results)
  PROVE  /\ Base' = Base
         /\ \E c \in 0..Len(stream') : StreamShape(c)'
<1> DEFINE E == Events \union Snapshots
<1>0. PICK n \in Nat : n = Len(stream)
  BY StreamSizes
<1>1. /\ events[1] \in Events /\ ~Finished /\ (Finished' <=> Ends(events[1]))
      /\ Ends(events[1]) => task'.state = events[1].state
  BY StoreEnds
<1>2. PICK e \in Events : e = events[1]
  BY <1>1
<1>3. /\ Len(stream') = n + 1 /\ stream'[n + 1] = e
      /\ \A i \in 1..n : stream'[i] = stream[i]
      /\ stream' # <<>>
  <2>1. stream \in Seq(E) /\ e \in E /\ stream' = Append(stream, e)
    BY <1>2 DEF TypeOK
  <2> HIDE DEF E
  <2> QED
    BY <1>0, <2>1
<1>4. e.kind # "snapshot"
  BY DEF Events
<1>5. stream = <<>> <=> n = 0
  <2>1. stream \in Seq(E)
    BY DEF TypeOK
  <2> HIDE DEF E
  <2> QED
    BY <1>0, <2>1
<1>6. Base' = Base
  <2>1. CASE n = 0
    BY <1>3, <1>4, <1>5, <2>1 DEF Base
  <2>2. CASE n # 0
    <3>1. stream'[1] = stream[1]
      BY <1>0, <1>3, <2>2
    <3> QED
      BY <1>3, <1>5, <2>2, <3>1 DEF Base
  <2> QED
    BY <2>1, <2>2
<1>7. PICK k \in Nat : k = Len(Base) /\ k = Len(Base')
  BY <1>6, StreamSizes
<1>8. PICK r \in Nat : r = Len(Results)
  BY Sizes
<1>9. /\ \A i \in 1..n : StreamAt(i, b) /\ ~Ends(stream[i])
      /\ k + n - b = r /\ b \in 0..n
  <2>1. \A i \in 1..n : StreamAt(i, b)
    BY <1>0 DEF StreamShape
  <2>2. \A i \in 1..n : ~Ends(stream[i])
    BY <1>1, <2>1 DEF StreamAt
  <2>3. Place(Len(stream), b) = Len(Results)
    BY <1>1, <1>8 DEF StreamShape
  <2> QED
    BY <1>0, <1>7, <1>8, <2>1, <2>2, <2>3 DEF Place
<1>10. /\ r <= Len(Results') /\ Len(Results') \in Nat
       /\ \A i \in 1..r : Results'[i] = Results[i]
  BY <1>8, SearchStored, ResultsTyped
<1>11. num_hotels' = num_hotels
  BY DEF Store
<1>12. ASSUME NEW i \in 1..n PROVE StreamAt(i, b)'
  <2>1. StreamAt(i, b) /\ ~Ends(stream[i]) /\ stream'[i] = stream[i]
    BY <1>3, <1>9
  <2>2. Place(i, b)' = Place(i, b)
    BY <1>6 DEF Place
  <2>3. stream[i].kind = "chunk" =>
          Place(i, b) \in 1..Len(Results') /\ Results'[Place(i, b)] = Results[Place(i, b)]
    BY <1>8, <1>10, <2>1 DEF StreamAt
  <2>4. ~Ends(stream'[i])
    BY <2>1
  <2> QED
    BY <1>11, <2>1, <2>2, <2>3, <2>4 DEF StreamAt, Ends
<1>13. CASE e.kind = "chunk"
  <2>1. /\ Results' = Append(Results, e.hotel) /\ e.last = (r + 1 = num_hotels)
    BY <1>2, <1>8, <1>13, SearchStored
  <2>2. Len(Results') = r + 1 /\ Results'[r + 1] = e.hotel
    <3>1. Results \in Seq(Hotels) /\ e.hotel \in Hotels
      BY <1>13, ResultsTyped DEF Events
    <3> QED
      BY <1>8, <2>1, <3>1
  <2>3. ~Ends(e) /\ ~Finished'
    BY <1>1, <1>2, <1>13 DEF Ends
  <2>4. PICK m \in Nat : m = n + 1
    OBVIOUS
  <2>5. Place(m, b)' = r + 1
    BY <1>7, <1>9, <2>4 DEF Place
  <2>6. StreamAt(m, b)'
    <3>1. m > b /\ r + 1 \in 1..Len(Results')
      BY <1>9, <2>2, <2>4
    <3>2. stream'[m] = e
      BY <1>3, <2>4
    <3> QED
      BY <1>11, <1>13, <2>1, <2>2, <2>3, <2>5, <3>1, <3>2 DEF StreamAt, Ends
  <2>7. \A i \in 1..Len(stream') : StreamAt(i, b)'
    BY <1>3, <1>12, <2>4, <2>6
  <2>8. Place(m, b)' = Len(Results') /\ m = Len(stream')
    BY <1>3, <2>2, <2>4, <2>5
  <2>9. StreamShape(b)'
    BY <2>2, <2>3, <2>7, <2>8 DEF StreamShape
  <2> QED
    BY <1>3, <1>6, <1>9, <2>9
<1>14. CASE Ends(e)
  <2>1. Results' = Results /\ Finished' /\ task'.state = e.state /\ e.kind # "chunk"
    BY <1>1, <1>2, <1>14, SearchStored DEF Ends
  <2>4. PICK m \in Nat : m = n + 1
    OBVIOUS
  <2>5. Place(m, b)' = r + 1
    BY <1>7, <1>9, <2>4 DEF Place
  <2>6. StreamAt(m, b)'
    <3>1. m > b /\ m = Len(stream')
      BY <1>3, <1>9, <2>4
    <3>2. stream'[m] = e
      BY <1>3, <2>4
    <3> QED
      BY <1>4, <1>14, <2>1, <3>1, <3>2 DEF StreamAt, Ends
  <2>7. \A i \in 1..Len(stream') : StreamAt(i, b)'
    BY <1>3, <1>12, <2>4, <2>6
  <2>8. Place(m, b)' = Len(Results') + 1 /\ m = Len(stream') /\ stream'[m] = e
    BY <1>3, <1>8, <2>1, <2>4, <2>5
  <2>9. StreamShape(b)'
    BY <1>3, <1>14, <2>1, <2>7, <2>8 DEF StreamShape, Ends
  <2> QED
    BY <1>3, <1>6, <1>9, <2>9
<1>15. CASE e.kind # "chunk" /\ ~Ends(e)
  <2>1. Results = <<>> /\ Results' = <<>> /\ ~Finished'
    BY <1>1, <1>2, <1>15, SearchStored
  <2>2. r = 0 /\ Len(Results') = 0
    BY <1>8, <2>1
  <2>3. k = 0 /\ n = b
    <3>1. Base = <<>>
      BY <2>1, PrefixOfNothing, StreamSizes
    <3>2. k = 0
      BY <1>7, <3>1
    <3> QED
      BY <1>9, <2>2, <3>2
  <2>4. PICK m \in Nat : m = n + 1
    OBVIOUS
  <2>5. ASSUME NEW i \in 1..m PROVE StreamAt(i, m)'
    <3>1. CASE i = m
      <4>1. stream'[i] = e
        BY <1>3, <2>4, <3>1
      <4> QED
        BY <1>4, <1>15, <3>1, <4>1 DEF StreamAt, Ends
    <3>2. CASE i # m
      <4>1. i \in 1..n /\ i <= b /\ i <= m
        BY <2>3, <2>4, <3>2
      <4>2. /\ stream[i].kind = "snapshot" => i = 1 /\ stream[i].state \notin TerminalStates
            /\ stream[i].kind # "chunk" /\ ~Ends(stream[i]) /\ stream'[i] = stream[i]
        BY <1>3, <1>9, <4>1 DEF StreamAt
      <4>3. ~Ends(stream'[i])
        BY <4>2
      <4> QED
        BY <4>1, <4>2, <4>3 DEF StreamAt, Ends
    <3> QED
      BY <3>1, <3>2
  <2>6. Place(m, m)' = 0
    BY <1>7, <2>3 DEF Place
  <2>7. StreamShape(m)'
    BY <1>3, <2>1, <2>2, <2>4, <2>5, <2>6 DEF StreamShape
  <2> QED
    BY <1>3, <1>6, <2>4, <2>7
<1> QED
  BY <1>13, <1>14, <1>15

\* Storing an event keeps the stream in order, whether the client listens or
\* not.
LEMMA StreamStored ==
  ASSUME TypeOK, TypeOK', OneCallInv({"parse", "search"}), SearchInv, SearchInv', StreamInv,
         StoreAndForward
  PROVE  StreamInv'
<1>1. /\ Store /\ UNCHANGED <<sent, served, client, view>> /\ num_hotels' = num_hotels
      /\ stream' = IF Connected THEN Append(stream, events[1]) ELSE stream
  BY StoreEnds DEF StoreAndForward, Store
<1>2. /\ events # <<>> /\ ~Finished
      /\ ~Gone /\ IsPrefix(view.hotels, Results)
  BY <1>1, StoreEnds, ToldSoFar
<1>3. sent # <<>> /\ client # "start"
  <2>1. served # 0
    BY <1>2 DEF OneCallInv
  <2>2. served \in 0..Len(sent)
    BY DEF TypeOK
  <2>3. sent # <<>>
    <3>1. sent = <<>> => Len(sent) = 0
      OBVIOUS
    <3> QED
      BY <2>1, <2>2, <3>1
  <2> QED
    BY <2>3 DEF StreamInv
<1>4. client \notin {"fallback", "done"}
  BY <1>2 DEF StreamInv
<1>5. ASSUME NEW s \in Seq(Hotels), IsPrefix(s, Results) PROVE IsPrefix(s, Results')
  <2>1. /\ Len(Results) <= Len(Results') /\ \A k \in 1..Len(Results) : Results'[k] = Results[k]
        /\ Results \in Seq(Hotels)
    BY <1>1, SearchStored, ResultsTyped
  <2>2. Results' \in Seq(Hotels)
    <3>1. CASE events[1].kind = "chunk"
      <4>1. events[1].hotel \in Hotels /\ Results' = Append(Results, events[1].hotel)
        BY <1>1, <3>1, StoreEnds, SearchStored DEF Events
      <4> QED
        BY <2>1, <4>1
    <3>2. CASE events[1].kind # "chunk"
      BY <1>1, <2>1, <3>2, SearchStored
    <3> QED
      BY <3>1, <3>2
  <2> QED
    BY <1>5, <2>1, <2>2, PrefixGrows
<1>6. IsPrefix(view.hotels, Results')
  BY <1>2, <1>5, StreamSizes
<1>7. ASSUME Connected
      PROVE  /\ \E b \in 0..Len(stream') : StreamShape(b)'
             /\ IsPrefix(Base', Results')
             /\ Len(view.hotels) <= Len(Base')
  <2>1. PICK b \in 0..Len(stream) : StreamShape(b)
    BY <1>7 DEF StreamInv
  <2>2. IsPrefix(Base, Results) /\ Len(view.hotels) <= Len(Base) /\ Base \in Seq(Hotels)
    BY <1>7, StreamSizes DEF StreamInv
  <2>3. Base' = Base /\ \E c \in 0..Len(stream') : StreamShape(c)'
    BY <1>1, <1>7, <2>1, <2>2, StreamForwards
  <2>4. IsPrefix(Base, Results')
    BY <1>5, <2>2
  <2> QED
    BY <2>2, <2>3, <2>4
<1>8. Connected' <=> Connected
  BY <1>1 DEF Connected
<1>9. /\ client \in {"start", "live", "gap", "again"} => view.state \notin TerminalStates
      /\ view.last => view.hotels # <<>> /\ Len(view.hotels) = num_hotels
  BY DEF StreamInv
<1>10. NothingLost'
  BY <1>1, <1>4 DEF NothingLost
<1> QED
  BY <1>1, <1>3, <1>4, <1>6, <1>7, <1>8, <1>9, <1>10 DEF StreamInv

\* Reading: the first event under way becomes known.
Reads ==
  /\ Connected
  /\ stream # <<>>
  /\ view' = Told(Head(stream))
  /\ IF view'.state \in TerminalStates THEN client' = "done"
     ELSE client' \in {client, "gap"}
  /\ client' # "gap" => stream' = Tail(stream)
  /\ UNCHANGED vars

\* What the first event makes of what the client knows.
LEMMA FirstEvent ==
  ASSUME TypeOK, Reads, NEW b \in 0..Len(stream), StreamShape(b), IsPrefix(Base, Results),
         view.state \notin TerminalStates
  PROVE  /\ ~Ends(stream[1]) =>
              /\ view'.state \notin TerminalStates
              /\ Len(view'.hotels) - (IF b = 0 THEN 0 ELSE b - 1) = Len(Base) + 1 - b
              /\ stream[1].kind # "chunk" => view'.hotels = Base /\ view'.last = view.last
              /\ stream[1].kind = "chunk" =>
                   /\ view'.hotels = Append(Base, Results[Len(Base) + 1])
                   /\ Len(Base) + 1 \in 1..Len(Results)
                   /\ view'.last = (Len(Base) + 1 = num_hotels)
         /\ Ends(stream[1]) =>
              /\ Finished /\ view'.state = task.state /\ Len(stream) = 1
              /\ view'.hotels = Base /\ Base = Results /\ view'.last = view.last
<1> DEFINE E == Events \union Snapshots
<1>0. PICK n \in Nat : n = Len(stream)
  BY StreamSizes
<1>1. n # 0 /\ 1 \in 1..n /\ Head(stream) = stream[1] /\ stream[1] \in E
  <2>1. stream \in Seq(E) /\ stream # <<>>
    BY DEF TypeOK, Reads
  <2> HIDE DEF E
  <2> QED
    BY <1>0, <2>1
<1>2. PICK e \in E : e = stream[1]
  BY <1>1
<1>3. StreamAt(1, b) /\ view' = Told(e)
  BY <1>0, <1>1, <1>2 DEF StreamShape, Reads
<1>4. PICK k \in Nat : k = Len(Base)
  BY StreamSizes
<1>5. PICK r \in Nat : r = Len(Results)
  BY Sizes
<1>6. view \in [state : States, hotels : Seq(Hotels), last : BOOLEAN]
  BY DEF TypeOK
<1>7. b \in Nat
  OBVIOUS
<1>8. CASE e.kind = "snapshot"
  <2>1. Base = e.hotels /\ e.state \notin TerminalStates /\ b # 0 /\ ~Ends(e)
    BY <1>2, <1>3, <1>7, <1>8 DEF Base, Reads, StreamAt, Ends
  <2>2. view'.hotels = Base /\ view'.state = e.state /\ view'.last = view.last
    BY <1>3, <1>6, <1>8, <2>1 DEF Told
  <2> QED
    BY <1>2, <1>4, <1>7, <1>8, <2>1, <2>2
<1>9. CASE e.kind \in {"task", "status"} /\ ~Ends(e)
  <2>1. Base = view.hotels /\ b # 0
    BY <1>2, <1>3, <1>7, <1>9 DEF Base, StreamAt, Ends
  <2>2. view'.hotels = Base /\ view'.last = view.last /\ view'.state \notin TerminalStates
    <3>1. CASE e.kind = "task"
      BY <1>3, <1>6, <2>1, <3>1 DEF Told, TerminalStates
    <3>2. CASE e.kind = "status"
      BY <1>3, <1>6, <1>9, <2>1, <3>2 DEF Told, Ends
    <3> QED
      BY <1>9, <3>1, <3>2
  <2> QED
    BY <1>2, <1>4, <1>7, <1>9, <2>1, <2>2
<1>10. CASE Ends(e)
  <2>1. Finished /\ n = 1 /\ e.state = task.state /\ b = 0 /\ e.kind = "status"
    BY <1>0, <1>2, <1>3, <1>7, <1>10 DEF StreamAt, Ends
  <2>2. Base = view.hotels
    BY <1>2, <2>1 DEF Base
  <2>3. view'.hotels = Base /\ view'.last = view.last /\ view'.state = task.state
    BY <1>3, <1>6, <2>1, <2>2 DEF Told
  <2>4. k + 1 - 0 = r + 1
    BY <1>0, <1>4, <1>5, <2>1 DEF StreamShape, Place
  <2>5. Base = Results
    <3>1. Base \in Seq(Hotels) /\ Results \in Seq(Hotels) /\ Len(Base) = Len(Results)
      BY <1>4, <1>5, <2>4, StreamSizes, Sizes
    <3>2. \A i \in 1..Len(Base) : Base[i] = Results[i]
      BY <3>1, Prefixes1
    <3> QED
      BY <3>1, <3>2
  <2> QED
    BY <1>0, <1>2, <1>10, <2>1, <2>3, <2>5
<1>11. CASE e.kind = "chunk"
  <2>1. b = 0 /\ ~Ends(e) /\ Base = view.hotels
    BY <1>2, <1>3, <1>7, <1>11 DEF StreamAt, Ends, Base
  <2>2. Place(1, b) = k + 1
    BY <1>4, <2>1 DEF Place
  <2>3. k + 1 \in 1..r /\ e.hotel = Results[k + 1] /\ e.last = (k + 1 = num_hotels)
    BY <1>2, <1>3, <1>5, <1>11, <2>2 DEF StreamAt
  <2>4. /\ view'.hotels = Append(Base, e.hotel) /\ view'.last = e.last
        /\ view'.state = view.state
    BY <1>3, <1>6, <1>11, <2>1 DEF Told
  <2>5. Len(view'.hotels) = k + 1
    <3>1. Base \in Seq(Hotels) /\ e.hotel \in Hotels
      BY <1>11, StreamSizes DEF Events, Snapshots
    <3> QED
      BY <1>4, <2>4, <3>1
  <2>6. view'.state \notin TerminalStates
    BY <2>4
  <2> QED
    BY <1>2, <1>4, <1>5, <1>11, <2>1, <2>3, <2>4, <2>5, <2>6
<1> QED
  BY <1>8, <1>9, <1>10, <1>11 DEF Events, Snapshots

\* Reading keeps the stream in order; who reads the end knows everything.
LEMMA StreamRead ==
  ASSUME TypeOK, TypeOK', SearchInv, StreamInv, Reads
  PROVE  StreamInv'
<1> DEFINE E == Events \union Snapshots
<1>0. PICK n \in Nat : n = Len(stream)
  BY StreamSizes
<1>1. /\ Results' = Results /\ (Finished' <=> Finished) /\ (Gone' <=> Gone)
      /\ (Exists' <=> Exists) /\ UNCHANGED <<sent, task, num_hotels>>
  BY DEF Reads, vars, Results, Finished, Gone, Exists
<1>2. /\ client \in {"live", "again"} /\ sent # <<>>
      /\ view.state \notin TerminalStates /\ stream # <<>>
  BY DEF Reads, Connected, StreamInv
<1>3. PICK b \in 0..Len(stream) : StreamShape(b)
  BY DEF Reads, StreamInv
<1>4. /\ IsPrefix(Base, Results) /\ Len(view.hotels) <= Len(Base)
      /\ view.last => view.hotels # <<>> /\ Len(view.hotels) = num_hotels
  BY DEF Reads, StreamInv
<1>5. PICK e : e = stream[1]
  OBVIOUS
<1>6. /\ ~Ends(e) =>
           /\ view'.state \notin TerminalStates
           /\ Len(view'.hotels) - (IF b = 0 THEN 0 ELSE b - 1) = Len(Base) + 1 - b
           /\ e.kind # "chunk" => view'.hotels = Base /\ view'.last = view.last
           /\ e.kind = "chunk" =>
                /\ view'.hotels = Append(Base, Results[Len(Base) + 1])
                /\ Len(Base) + 1 \in 1..Len(Results)
                /\ view'.last = (Len(Base) + 1 = num_hotels)
      /\ Ends(e) =>
           /\ Finished /\ view'.state = task.state /\ Len(stream) = 1
           /\ view'.hotels = Base /\ Base = Results /\ view'.last = view.last
  BY <1>2, <1>3, <1>4, <1>5, FirstEvent
<1>7. PICK known \in Seq(Hotels) : known = view'.hotels
  BY DEF TypeOK
<1>8. /\ Base \in Seq(Hotels) /\ Results \in Seq(Hotels)
  BY StreamSizes, Sizes
<1>9. IsPrefix(known, Results)
  <2>1. CASE e.kind = "chunk" /\ ~Ends(e)
    <3>1. PICK k \in Nat : k = Len(Base)
      BY <1>8
    <3>2. k + 1 \in 1..Len(Results) /\ known = Append(Base, Results[k + 1])
      BY <1>6, <1>7, <2>1, <3>1
    <3>3. Results[k + 1] \in Hotels
      BY <1>8, <3>2
    <3>4. /\ Len(known) = k + 1 /\ known[k + 1] = Results[k + 1]
          /\ \A i \in 1..k : known[i] = Base[i]
      BY <1>8, <3>1, <3>2, <3>3
    <3>5. \A i \in 1..k : Base[i] = Results[i]
      BY <1>4, <1>8, <3>1, Prefixes1
    <3>6. Len(known) <= Len(Results) /\ \A i \in 1..Len(known) : known[i] = Results[i]
      BY <1>8, <3>2, <3>4, <3>5
    <3> QED
      BY <1>8, <3>6, Prefixes1
  <2>2. CASE e.kind # "chunk" \/ Ends(e)
    BY <1>4, <1>6, <1>7, <2>2 DEF Ends
  <2> QED
    BY <2>1, <2>2
<1>10. view'.last => known # <<>> /\ Len(known) = num_hotels
  <2>1. CASE e.kind = "chunk" /\ ~Ends(e)
    <3>1. PICK k \in Nat : k = Len(Base)
      BY <1>8
    <3>2. Len(known) = k + 1 /\ view'.last = (k + 1 = num_hotels)
      <4>1. Results[k + 1] \in Hotels
        BY <1>6, <1>8, <2>1, <3>1
      <4> QED
        BY <1>6, <1>7, <1>8, <2>1, <3>1, <4>1
    <3>3. known # <<>>
      <4>1. known = <<>> => Len(known) = 0
        OBVIOUS
      <4> QED
        BY <3>2, <4>1
    <3> QED
      BY <3>2, <3>3
  <2>2. CASE e.kind # "chunk" \/ Ends(e)
    <3>1. known = Base /\ view'.last = view.last
      BY <1>6, <1>7, <2>2 DEF Ends
    <3>2. ASSUME view.last PROVE known # <<>> /\ Len(known) = num_hotels
      <4>1. Len(Base) <= Len(Results) /\ Len(Results) <= Len(found_names)
        BY <1>4, <1>8, Prefixes1, Sizes DEF SearchInv
      <4>2. Len(found_names) <= num_hotels /\ Len(view.hotels) = num_hotels
        BY <1>4, <3>2 DEF SearchInv
      <4>3. Len(Base) = num_hotels
        BY <1>4, <4>1, <4>2, Sizes, StreamSizes
      <4>4. view.hotels # <<>> => Len(view.hotels) # 0
        BY StreamSizes
      <4>5. Base # <<>>
        <5>1. Base = <<>> => Len(Base) = 0
          OBVIOUS
        <5> QED
          BY <1>4, <3>2, <4>2, <4>3, <4>4, <5>1
      <4> QED
        BY <3>1, <4>3, <4>5
    <3> QED
      BY <3>1, <3>2
  <2> QED
    BY <2>1, <2>2
<1>11. CASE Ends(e)
  <2>1. view'.state \in TerminalStates
    BY <1>6, <1>11 DEF Finished
  <2>2. client' = "done"
    BY <2>1 DEF Reads
  <2>3. NothingLost'
    BY <1>1, <1>6, <1>11 DEF NothingLost, Results
  <2>4. Finished' /\ ~Connected'
    BY <1>1, <1>6, <1>11, <2>2 DEF Connected
  <2> QED
    BY <1>1, <1>2, <1>7, <1>9, <1>10, <2>2, <2>3, <2>4 DEF StreamInv
<1>12. CASE ~Ends(e)
  <2>1. view'.state \notin TerminalStates /\ client' \in {"live", "again", "gap"}
    BY <1>2, <1>6, <1>12 DEF Reads
  <2>2. ASSUME client' # "gap"
        PROVE  /\ Base' = known
               /\ \E c \in 0..Len(stream') : StreamShape(c)'
    <3>1. n # 0 /\ Len(stream') = n - 1 /\ \A i \in 1..n - 1 : stream'[i] = stream[i + 1]
      <4>1. stream \in Seq(E) /\ stream # <<>> /\ stream' = Tail(stream)
        BY <1>2, <2>2 DEF Reads, TypeOK
      <4> HIDE DEF E
      <4> QED
        BY <1>0, <4>1
    <3>2. PICK c \in Nat : c = IF b = 0 THEN 0 ELSE b - 1
      OBVIOUS
    <3>3. \A i \in 1..n : StreamAt(i, b)
      BY <1>0, <1>3 DEF StreamShape
    <3>4. ASSUME stream' # <<>> PROVE stream'[1].kind # "snapshot"
      <4>1. 1 \in 1..n - 1 /\ 2 \in 1..n
        <5>1. Len(stream') # 0
          <6>1. stream' \in Seq(E)
            BY DEF TypeOK
          <6> HIDE DEF E
          <6> QED
            BY <3>4, <6>1
        <5> QED
          BY <3>1, <5>1
      <4>2. stream'[1] = stream[2]
        BY <3>1, <4>1
      <4>3. StreamAt(2, b)
        BY <3>3, <4>1
      <4> QED
        BY <4>2, <4>3 DEF StreamAt
    <3>5. Base' = known
      BY <1>7, <3>4 DEF Base
    <3>6. Len(known) - c = Len(Base) + 1 - b /\ Len(known) \in Nat /\ Len(Base) \in Nat
      BY <1>6, <1>7, <1>8, <1>12, <3>2
    <3>7. \A i \in Nat : Place(i, c)' = Place(i + 1, b)
      BY <3>5, <3>6 DEF Place
    <3>8. ASSUME NEW i \in 1..n - 1 PROVE StreamAt(i, c)'
      <4>1. PICK j \in 1..n : j = i + 1
        OBVIOUS
      <4>2. stream'[i] = stream[j] /\ StreamAt(j, b)
        BY <3>1, <3>3, <4>1
      <4>3. Place(i, c)' = Place(j, b)
        BY <3>7, <4>1
      <4>4. (i > c => j > b) /\ j # 1
        BY <3>2, <4>1
      <4>5. /\ i <= c => stream[j].kind # "chunk" /\ ~Ends(stream[j])
            /\ i > c => stream[j].kind = "chunk" \/ Ends(stream[j])
        BY <3>2, <4>1, <4>2 DEF StreamAt
      <4>6. Ends(stream[j]) => i = Len(stream')
        BY <1>0, <3>1, <4>1, <4>2 DEF StreamAt
      <4>7. Ends(stream'[i]) <=> Ends(stream[j])
        BY <4>2
      <4> QED
        BY <1>1, <4>2, <4>3, <4>4, <4>5, <4>6, <4>7 DEF StreamAt, Ends
    <3>9. PICK m \in Nat : m = n - 1
      BY <3>1
    <3>10. Place(m, c)' = Len(Results) + (IF Finished THEN 1 ELSE 0)
      <4>1. m + 1 = n
        BY <3>1, <3>9
      <4>2. Place(m, c)' = Place(n, b)
        BY <3>7, <4>1
      <4> QED
        BY <1>0, <1>3, <4>2 DEF StreamShape
    <3>11. Finished => stream' # <<>> /\ Ends(stream'[Len(stream')])
      <4>1. Finished => Ends(stream[n])
        BY <1>0, <1>3 DEF StreamShape
      <4>2. Finished => n # 1
        BY <1>5, <1>12, <4>1
      <4>3. n # 1 => n - 1 \in 1..n - 1 /\ n - 1 + 1 = n
        BY <3>1
      <4>4. n # 1 => stream'[n - 1] = stream[n]
        BY <3>1, <4>3
      <4>5. n # 1 => stream' # <<>>
        <5>1. stream' = <<>> => Len(stream') = 0
          OBVIOUS
        <5> QED
          BY <3>1, <5>1
      <4> QED
        BY <3>1, <4>1, <4>2, <4>4, <4>5
    <3>12. c \in 0..Len(stream')
      BY <1>0, <3>1, <3>2
    <3>13. \A i \in 1..Len(stream') : StreamAt(i, c)'
      BY <3>1, <3>8
    <3>14. StreamShape(c)'
      BY <1>1, <3>1, <3>9, <3>10, <3>11, <3>13 DEF StreamShape, Ends
    <3> QED
      BY <3>5, <3>12, <3>14
  <2>3. Connected' => client' # "gap"
    BY DEF Connected
  <2>4. Len(known) <= Len(known)
    BY <1>7
  <2>5. NothingLost'
    BY <2>1 DEF NothingLost
  <2> QED
    BY <1>1, <1>2, <1>7, <1>9, <1>10, <2>1, <2>2, <2>3, <2>4, <2>5 DEF StreamInv
<1> QED
  BY <1>11, <1>12

\* The task is gone, and nobody has read that it was there before.
LEMMA StreamRestarted ==
  ASSUME TypeOK, StreamInv, Restart
  PROVE  StreamInv'
<1>1. /\ served' = Len(sent) /\ pc' = "idle" /\ events' = <<>> /\ task' = NoTask
      /\ stream' = <<>> /\ client' = (IF Connected THEN "crashed" ELSE client)
      /\ UNCHANGED <<sent, view, num_hotels>>
  BY DEF Restart, RestartServer
<1>2. Results' = <<>> /\ ~Exists'
  BY <1>1, ResultsOf DEF Results, NoTask, Exists
<1>3. sent # <<>> => Gone'
  BY <1>1, <1>2 DEF Gone
<1>4. sent = <<>> => client = "start" /\ view.hotels = <<>>
  BY DEF StreamInv
<1>5. Gone' \/ IsPrefix(view.hotels, Results)'
  <2>1. <<>> \in Seq(Hotels)
    OBVIOUS
  <2>2. IsPrefix(<<>>, <<>>)
    BY <2>1, EmptyPrefix
  <2> QED
    BY <1>1, <1>2, <1>3, <1>4, <2>2
<1>6. NothingLost'
  BY <1>2 DEF NothingLost
<1>7. ~Connected'
  BY <1>1 DEF Connected
<1>8. /\ client \in {"start", "live", "gap", "again"} => view.state \notin TerminalStates
      /\ view.last => view.hotels # <<>> /\ Len(view.hotels) = num_hotels
      /\ client = "start" => sent = <<>> /\ view.hotels = <<>>
      /\ client # "start" => sent # <<>>
  BY DEF StreamInv
<1>9. /\ client' = "start" => client = "start"
      /\ client' \in {"start", "live", "gap", "again"} => client' = client
      /\ client' # "start" => sent # <<>>
  BY <1>1, <1>8 DEF Connected
<1> QED
  BY <1>1, <1>3, <1>5, <1>6, <1>7, <1>8, <1>9 DEF StreamInv

\* A subscription starts with all that is stored.
LEMMA StreamSubscribed ==
  ASSUME TypeOK, StreamInv, Subscribe
  PROVE  StreamInv'
<1>1. /\ client = "gap" /\ client' = "again" /\ Exists /\ ~Finished
      /\ UNCHANGED <<vars, view>>
  BY DEF Subscribe
<1>2. PICK e : e = SnapshotEvent
  OBVIOUS
<1>3. /\ e.kind = "snapshot" /\ e.state = task.state /\ e.hotels = Results
  BY <1>2 DEF SnapshotEvent, Results
<1>4. stream' = <<e>> /\ Len(stream') = 1 /\ stream'[1] = e /\ stream' # <<>>
  BY <1>2 DEF Subscribe
<1>5. /\ Results' = Results /\ ~Finished' /\ Exists' /\ ~Gone' /\ UNCHANGED <<sent, num_hotels>>
  BY <1>1 DEF vars, Results, Finished, Exists, Gone
<1>6. Base' = Results
  BY <1>3, <1>4 DEF Base
<1>7. PICK r \in Nat : r = Len(Results)
  BY Sizes
<1>8. Place(1, 1)' = r
  BY <1>6, <1>7 DEF Place
<1>9. StreamAt(1, 1)'
  BY <1>1, <1>3, <1>4 DEF StreamAt, Ends, Finished
<1>10. StreamShape(1)'
  BY <1>4, <1>5, <1>7, <1>8, <1>9 DEF StreamShape
<1>11. 1 \in 0..Len(stream')
  BY <1>4
<1>12. IsPrefix(Results, Results)
  <2>1. Results \in Seq(Hotels) /\ Len(Results) <= Len(Results)
    BY Sizes
  <2> QED
    BY <2>1, Prefixes1
<1>13. IsPrefix(view.hotels, Results) /\ Len(view.hotels) <= Len(Results)
  <2>1. IsPrefix(view.hotels, Results)
    BY <1>1, ToldSoFar
  <2> QED
    BY <2>1, StreamSizes, Sizes, Prefixes1
<1>14. view.state \notin TerminalStates /\ sent # <<>>
  BY <1>1 DEF StreamInv
<1>15. NothingLost'
  BY <1>1 DEF NothingLost
<1>16. view.last => view.hotels # <<>> /\ Len(view.hotels) = num_hotels
  BY DEF StreamInv
<1> QED
  BY <1>1, <1>5, <1>6, <1>10, <1>11, <1>12, <1>13, <1>14, <1>15, <1>16 DEF StreamInv

\* The script that is too late to subscribe reads the whole task.
LEMMA StreamFallsBack ==
  ASSUME TypeOK, SearchInv, StreamInv, GetTask
  PROVE  StreamInv'
<1>1. /\ client = "fallback" /\ client' = "done" /\ Exists /\ UNCHANGED vars
      /\ view' = Told(SnapshotEvent)
  BY DEF GetTask
<1>2. /\ view'.state = task.state /\ view'.hotels = Results /\ view'.last = view.last
  BY <1>1 DEF Told, SnapshotEvent, Results, TypeOK
<1>3. /\ Results' = Results /\ (Finished' <=> Finished) /\ UNCHANGED <<sent, task, num_hotels>>
  BY <1>1 DEF vars, Results, Finished
<1>4. /\ Finished /\ sent # <<>> /\ ~Gone
  BY <1>1 DEF StreamInv, Gone
<1>5. IsPrefix(view.hotels, Results) /\ Len(view.hotels) <= Len(Results)
  <2>1. IsPrefix(view.hotels, Results)
    BY <1>1, ToldSoFar
  <2> QED
    BY <2>1, StreamSizes, Sizes, Prefixes1
<1>6. view.last => Results # <<>> /\ Len(Results) = num_hotels
  <2>1. ASSUME view.last PROVE Results # <<>> /\ Len(Results) = num_hotels
    <3>1. view.hotels # <<>> /\ Len(view.hotels) = num_hotels
      BY <2>1 DEF StreamInv
    <3>2. Len(Results) <= Len(found_names) /\ Len(found_names) <= num_hotels
      BY Sizes, Prefixes1 DEF SearchInv
    <3>3. Len(Results) = num_hotels
      BY <1>5, <3>1, <3>2, Sizes, StreamSizes
    <3>4. Results # <<>>
      BY <1>5, <3>1, StreamSizes, PrefixOfNothing
    <3> QED
      BY <3>3, <3>4
  <2> QED
    BY <2>1
<1>7. IsPrefix(Results, Results)
  <2>1. Results \in Seq(Hotels) /\ Len(Results) <= Len(Results)
    BY Sizes
  <2> QED
    BY <2>1, Prefixes1
<1>8. NothingLost'
  BY <1>2, <1>3 DEF NothingLost, Results
<1> QED
  BY <1>1, <1>2, <1>3, <1>4, <1>6, <1>7, <1>8 DEF StreamInv, Connected

\* The request is accepted, and the response is open.
LEMMA StreamOpened ==
  ASSUME TypeOK, OneCallInv({"parse", "search"}), StreamInv, Submit
  PROVE  StreamInv'
<1>1. /\ client = "start" /\ client' = "live" /\ UNCHANGED <<stream, view, task, num_hotels>>
      /\ sent' = Append(sent, [text |-> Query, shown |-> task.note])
  BY DEF Submit, Send, SendMessage
<1>2. sent = <<>> /\ stream = <<>> /\ view.hotels = <<>>
      /\ view.state \notin TerminalStates /\ ~view.last
  BY <1>1 DEF StreamInv
<1>3. sent' # <<>>
  BY <1>1, <1>2
<1>4. task.state = "NONE" /\ task.artifacts = {}
  <2>1. Len(sent) = 0 /\ served \in 0..Len(sent)
    BY <1>2 DEF TypeOK
  <2>2. served = 0
    BY <2>1
  <2> QED
    BY <2>2 DEF OneCallInv
<1>5. Results' = <<>> /\ ~Finished'
  BY <1>1, <1>4, ResultsOf DEF Results, Finished, TerminalStates
<1>6. Base' = <<>>
  BY <1>1, <1>2 DEF Base
<1>7. Len(stream') = 0
  BY <1>1, <1>2
<1>8. Place(0, 0)' = 0
  BY <1>6 DEF Place
<1>9. StreamShape(0)'
  BY <1>5, <1>7, <1>8 DEF StreamShape
<1>10. IsPrefix(<<>>, <<>>)
  <2>1. <<>> \in Seq(Hotels)
    OBVIOUS
  <2> QED
    BY <2>1, EmptyPrefix
<1>11. NothingLost'
  BY <1>1 DEF NothingLost
<1>12. 0 \in 0..Len(stream') /\ Len(view.hotels) <= Len(Base')
  BY <1>2, <1>6, <1>7
<1> QED
  BY <1>1, <1>2, <1>3, <1>5, <1>6, <1>9, <1>10, <1>11, <1>12 DEF StreamInv

\* Every step keeps the stream in order.
LEMMA StreamKept ==
  ASSUME TypeOK, TypeOK', OneCallInv({"parse", "search"}), SearchInv, SearchInv', StreamInv,
         [ClientsNext]_clientsVars
  PROVE  StreamInv'
<1>1. CASE UNCHANGED clientsVars
  <2>1. /\ UNCHANGED <<task, sent, clientVars, num_hotels, events, pc, served>>
    BY <1>1 DEF clientsVars, vars
  <2>2. Gone => Gone'
    BY <2>1 DEF Gone, Exists
  <2> QED
    BY <2>1, <2>2, StreamUndisturbed
<1>2. CASE Submit
  BY <1>2, StreamOpened
<1>3. CASE ReadToEnd \/ ReadUntilDrop \/ ReadAgain
  <2>1. Reads
    BY <1>3 DEF ReadToEnd, ReadUntilDrop, ReadAgain, Reads, Connected
  <2> QED
    BY <2>1, StreamRead
<1>4. CASE Subscribe
  BY <1>4, StreamSubscribed
<1>5. CASE SubscribeRefused \/ TaskUnknown
  <2>1. /\ UNCHANGED <<vars, stream, view>> /\ client \in {"gap", "fallback"}
        /\ (client' = "fallback" /\ Finished) \/ client' = "crashed"
    BY <1>5 DEF SubscribeRefused, TaskUnknown
  <2>2. /\ (Finished' <=> Finished) /\ (Gone' <=> Gone) /\ Results' = Results
        /\ UNCHANGED <<sent, num_hotels>>
    BY <2>1 DEF vars, Finished, Gone, Exists, Results
  <2>3. NothingLost'
    BY <2>1 DEF NothingLost
  <2> QED
    BY <2>1, <2>2, <2>3 DEF StreamInv, Connected
<1>6. CASE GetTask
  BY <1>6, StreamFallsBack
<1>7. CASE AgentStep /\ Execute
  <2>1. /\ UNCHANGED <<task, sent, clientVars, num_hotels>> /\ served < Len(sent)
    BY <1>7 DEF AgentStep, Execute, CanServe
  <2>2. ~Gone
    BY <2>1 DEF Gone, TypeOK
  <2> QED
    BY <2>1, <2>2, StreamUndisturbed
<1>8. CASE AgentStep /\ ~Execute
  <2>1. PICK event \in Events : Utters(event)
    BY <1>8, ExecutorUtters DEF AgentStep
  <2>2. UNCHANGED <<task, sent, clientVars>> /\ pc # "idle"
    BY <1>8, <2>1 DEF AgentStep, Utters
  <2>3. ~Gone
    BY <2>2 DEF Gone
  <2>4. num_hotels' = num_hotels \/ pc = "parse"
    BY <2>1 DEF Utters
  <2>5. pc = "parse" => Results = <<>>
    BY Sizes, PrefixOfNothing DEF SearchInv
  <2> QED
    BY <2>2, <2>3, <2>4, <2>5, StreamUndisturbed
<1>9. CASE StoreAndForward
  BY <1>9, StreamStored
<1>10. CASE Cancel /\ UNCHANGED clientVars
  <2>1. UNCHANGED <<task, sent, clientVars, num_hotels>> /\ Exists
    BY <1>10 DEF Cancel, AcceptCancel
  <2>2. ~Gone
    BY <2>1 DEF Gone
  <2> QED
    BY <2>1, <2>2, StreamUndisturbed
<1>11. CASE Restart
  BY <1>11, StreamRestarted
<1> QED
  BY <1>1, <1>2, <1>3, <1>4, <1>5, <1>6, <1>7, <1>8, <1>9, <1>10, <1>11
     DEF ClientsNext, ClientStep

\* Nothing has happened yet.
LEMMA ConsistentInit ==
  ASSUME ClientsInit
  PROVE  IInv
<1>1. /\ sent = <<>> /\ served = 0 /\ pc = "idle" /\ events = <<>> /\ cancelled = FALSE
      /\ task = NoTask /\ num_hotels = 0 /\ found_names = <<>>
      /\ script \in Scripts /\ client = "start" /\ stream = <<>> /\ count = 0
      /\ view = [state |-> "NONE", hotels |-> <<>>, last |-> FALSE] /\ restarts = 0
  BY DEF ClientsInit, Init, RuntimeInit
<1>2. TypeOK
  <2>1. task \in [state : States, note : Notes, history : Seq(Messages),
                  artifacts : {{}} \union {{a} : a \in Artifacts}]
    BY <1>1 DEF NoTask, States, ActionableStates, TerminalStates, Notes
  <2>2. view \in [state : States, hotels : Seq(Hotels), last : BOOLEAN]
    BY <1>1 DEF States, ActionableStates, TerminalStates
  <2>3. num_hotels \in 0..MaxNumHotels /\ restarts \in 0..MaxRestarts
    BY <1>1, HotelAssumption, ClientsAssumption
  <2>4. /\ sent \in Seq([text : Messages, shown : Notes]) /\ events \in Seq(Events)
        /\ found_names \in Seq(Hotels) /\ stream \in Seq(Events \union Snapshots)
    BY <1>1
  <2>5. served \in 0..Len(sent)
    BY <1>1
  <2> QED
    BY <1>1, <2>1, <2>2, <2>3, <2>4, <2>5 DEF TypeOK
<1>3. OneCallInv({"parse", "search"})
  BY OneCallInit DEF ClientsInit, Init
<1>4. Results = <<>>
  BY <1>1, ResultsOf DEF Results, NoTask
<1>5. IsPrefix(<<>>, <<>>)
  <2>1. <<>> \in Seq(Hotels)
    OBVIOUS
  <2> QED
    BY <2>1, EmptyPrefix
<1>6. SearchInv
  <2>1. Len(events) = 0 /\ Len(found_names) = 0
    BY <1>1
  <2>2. QueueShape(0)
    BY <1>1, <2>1 DEF QueueShape
  <2>3. SearchComplete
    BY <1>1 DEF SearchComplete, NoTask
  <2> QED
    BY <1>1, <1>4, <1>5, <2>1, <2>2, <2>3 DEF SearchInv
<1>7. StreamInv
  <2>1. NothingLost /\ ~Connected
    BY <1>1 DEF NothingLost, Connected
  <2> QED
    BY <1>1, <1>4, <1>5, <2>1 DEF StreamInv, TerminalStates
<1> QED
  BY <1>2, <1>3, <1>6, <1>7 DEF IInv

-----------------------------------------------------------------------------
\* The queue, the store, the stream and the client always fit together: the
\* types, one call of execute() that is never out of step with its task
\* (hotel_search/agent_executor.py), chunks that go on where the store stops,
\* and a stream that goes on where the client stops.
THEOREM HotelConsistent == ClientsSpec => []IInv
<1>1. ClientsInit => IInv
  BY ConsistentInit
<1>2. IInv /\ [ClientsNext]_clientsVars => IInv'
  BY TypeKept, OneCallKept, SearchKept, StreamKept DEF IInv
<1> QED
  BY <1>1, <1>2, PTL DEF ClientsSpec

\* A client that has read to the end knows all of the task that is stored, no
\* hotel lost and none counted twice, whether its connection dropped, whether
\* it subscribed again or came too late (resubscribe_demo.py).
THEOREM StreamsAddUp == ClientsSpec => []NothingLost
<1>1. IInv => NothingLost
  BY DEF IInv, StreamInv
<1> QED
  BY <1>1, HotelConsistent, PTL

\* Whenever the client looks, it knows a prefix of what is stored: it is never
\* ahead of the store (a chunk is stored before it is sent).
THEOREM ClientNeverAhead == ClientsSpec => []ToldPrefix
<1>1. IInv => ToldPrefix
  BY ToldSoFar DEF IInv, ToldPrefix, Results
<1> QED
  BY <1>1, HotelConsistent, PTL

\* A search that completes has published as many hotels as it looked for,
\* at least one and at most the cap, whatever number the model read
\* (_MAX_NUM_HOTELS, agent_executor.py), or says what is missing.
THEOREM SearchesComplete == ClientsSpec => []SearchComplete
<1>1. IInv => SearchComplete
  BY DEF IInv, SearchInv
<1> QED
  BY <1>1, HotelConsistent, PTL

\* A client that has seen the mark on the last chunk has as many hotels as the
\* search looked for, also across a dropped connection.
THEOREM LastIsLast == ClientsSpec => []LastChunkIsLast
<1>1. IInv => LastChunkIsLast
  BY DEF IInv, StreamInv, LastChunkIsLast
<1> QED
  BY <1>1, HotelConsistent, PTL

-----------------------------------------------------------------------------
\* The hotels in the store, each in its place.
Found == {<<i, Results[i]>> : i \in 1..Len(Results)}

\* A search that completes without a word has found something.
LEMMA CompletesWithHotels ==
  ASSUME TypeOK, OneCallInv({"parse", "search"}), SearchInv, Store,
         events[1].kind = "status", events[1].state = "COMPLETED", events[1].note # "missing"
  PROVE  Found \intersect ((1..MaxNumHotels) \X Hotels) # {}
<1>1. /\ events \in Seq(Events) /\ Len(events) \in Nat \ {0} /\ ~ClosedBefore(1)
  <2>1. events \in Seq(Events) /\ events # <<>> /\ ~Finished
    BY StoreEnds
  <2> QED
    BY <2>1, ClosedFirst, StoreTakes, TakesFirst
<1>2. PICK b \in 0..Len(events) : QueueShape(b)
  BY DEF SearchInv
<1>3. QueueAt(1, b)
  BY <1>1, <1>2 DEF QueueShape
<1>4. Ends(events[1])
  BY DEF Ends, TerminalStates
<1>5. b = 0
  BY <1>1, <1>3, <1>4 DEF QueueAt
<1>6. Len(Results) = num_hotels /\ num_hotels \in 1..MaxNumHotels
  <2>1. Number(1, b) = num_hotels + 1 /\ num_hotels \in 1..Len(found_names)
    BY <1>3 DEF QueueAt
  <2> QED
    BY <1>5, <2>1, Sizes DEF Number
<1>7. Results[1] \in Hotels /\ 1 \in 1..Len(Results) /\ 1 \in 1..MaxNumHotels
  BY <1>6, Sizes, HotelAssumption
<1>8. <<1, Results[1]>> \in Found /\ <<1, Results[1]>> \in (1..MaxNumHotels) \X Hotels
  BY <1>7 DEF Found
<1> QED
  BY <1>8

\* Storing the first event is a step the promise allows.
LEMMA StoreRefines ==
  ASSUME TypeOK, OneCallInv({"parse", "search"}), SearchInv, Store
  PROVE  Lifecycle!Next
<1>1. /\ Takes /\ events[1] \in Events
      /\ events[1].kind = "status" => task'.note = events[1].note
      /\ events[1].kind # "status" => task'.note = task.note
  BY StoreTakes
<1>2. /\ task.state \in Needs(events[1], {"WORKING"})
      /\ events[1].kind = "status" => events[1].state \in {"WORKING"} \union ActionableStates
  <2>1. events \in Seq(Events)
    BY DEF TypeOK
  <2> QED
    BY <1>1, <2>1, TakenInState DEF OneCallInv
<1>3. task'.state = IF ChangesState(events[1]) THEN StateOf(events[1]) ELSE task.state
  BY <1>1 DEF Takes
<1>4. /\ Len(Results) <= Len(Results') /\ \A k \in 1..Len(Results) : Results'[k] = Results[k]
      /\ events[1].kind # "chunk" => Results' = Results
      /\ Len(Results) \in Nat /\ Len(Results') \in Nat
  <2>1. events[1].kind = "chunk" => Results' = Append(Results, events[1].hotel)
    BY SearchStored
  <2>2. events[1].kind = "chunk" => events[1].hotel \in Hotels
    BY <1>1 DEF Events
  <2>3. Results' \in Seq(Hotels)
    <3>1. CASE events[1].kind = "chunk"
      <4>1. Results \in Seq(Hotels) /\ events[1].hotel \in Hotels
        BY <2>2, <3>1, Sizes
      <4> QED
        BY <2>1, <3>1, <4>1
    <3>2. CASE events[1].kind # "chunk"
      BY <3>2, Sizes, SearchStored
    <3> QED
      BY <3>1, <3>2
  <2> QED
    BY <2>3, Sizes, SearchStored
<1>5. Found \subseteq Found' /\ (events[1].kind # "chunk" => Found' = Found)
  <2>1. Found \subseteq Found'
    <3>1. ASSUME NEW i \in 1..Len(Results) PROVE <<i, Results[i]>> \in Found'
      <4>1. i \in 1..Len(Results') /\ Results'[i] = Results[i]
        BY <1>4
      <4> QED
        BY <4>1 DEF Found
    <3> QED
      BY <3>1 DEF Found
  <2> QED
    BY <1>4, <2>1 DEF Found
<1>6. CASE events[1].kind = "task"
  <2>1. Lifecycle!Submit
    BY <1>1, <1>2, <1>3, <1>5, <1>6
       DEF Lifecycle!Submit, Needs, ChangesState, StateOf, Found, Results
  <2> QED
    BY <2>1 DEF Lifecycle!Next
<1>7. CASE events[1].kind = "chunk"
  <2>1. task'.state = task.state /\ task'.note = task.note /\ task.state \in {"WORKING"}
    BY <1>1, <1>2, <1>3, <1>7 DEF Needs, ChangesState
  <2>2. Lifecycle!Deliver
    BY <1>5, <2>1 DEF Lifecycle!Deliver, Found, Results
  <2> QED
    BY <2>2 DEF Lifecycle!Next
<1>8. CASE events[1].kind = "status"
  <2>1. /\ task'.state = events[1].state /\ task'.note = events[1].note /\ Found' = Found
    BY <1>1, <1>3, <1>5, <1>8 DEF ChangesState, StateOf
  <2>2. CASE events[1].state = "WORKING"
    <3>1. task.state \in OpenStates
      BY <1>2, <1>8, <2>2 DEF Needs
    <3>2. Lifecycle!Work
      BY <2>1, <2>2, <3>1 DEF Lifecycle!Work, Lifecycle!Open, OpenStates, Found, Results
    <3> QED
      BY <3>2 DEF Lifecycle!Next
  <2>3. CASE events[1].state = "CANCELED"
    <3>1. task.state \in OpenStates
      BY <1>2, <1>8, <2>3 DEF Needs
    <3>2. Lifecycle!Cancel
      BY <2>1, <2>3, <3>1 DEF Lifecycle!Cancel, Lifecycle!Open, OpenStates, Found, Results
    <3> QED
      BY <3>2 DEF Lifecycle!Next
  <2>4. CASE events[1].state \in {"INPUT_REQUIRED", "FAILED", "COMPLETED"}
    <3>1. task.state \in {"WORKING"}
      BY <1>2, <1>8, <2>4 DEF Needs
    <3>2. CASE events[1].state = "INPUT_REQUIRED"
      <4>1. Lifecycle!Pause
        BY <2>1, <3>1, <3>2 DEF Lifecycle!Pause, Found, Results
      <4> QED
        BY <4>1 DEF Lifecycle!Next
    <3>3. CASE events[1].state = "FAILED"
      <4>1. Lifecycle!Fail
        BY <2>1, <3>1, <3>3 DEF Lifecycle!Fail, Found, Results
      <4> QED
        BY <4>1 DEF Lifecycle!Next
    <3>4. CASE events[1].state = "COMPLETED"
      <4>1. \/ Found \intersect ((1..MaxNumHotels) \X Hotels) # {}
            \/ task'.note \in {"missing"}
        BY <1>8, <2>1, <3>4, CompletesWithHotels
      <4>2. Lifecycle!Complete
        BY <2>1, <3>1, <3>4, <4>1 DEF Lifecycle!Complete, Found, Results
      <4> QED
        BY <4>2 DEF Lifecycle!Next
    <3> QED
      BY <2>4, <3>2, <3>3, <3>4
  <2> QED
    BY <1>2, <1>8, <2>2, <2>3, <2>4 DEF ActionableStates, TerminalStates
<1> QED
  BY <1>1, <1>6, <1>7, <1>8 DEF Events

\* The Hotel Search agent keeps the promise of TaskLifecycle to everyone who
\* polls: each hotel is there to stay, and nothing completes without one or a
\* word of what is missing.
THEOREM HotelRefinesLifecycle == ClientsSpec => RefinesLifecycle
<1>1. ClientsInit => Lifecycle!Init
  <2> SUFFICES ASSUME ClientsInit PROVE Lifecycle!Init
    OBVIOUS
  <2>1. task = NoTask
    BY DEF ClientsInit, Init, RuntimeInit
  <2>2. HotelsOf(task) = <<>>
    BY <2>1, ResultsOf DEF NoTask
  <2>3. {<<i, HotelsOf(task)[i]>> : i \in 1..Len(HotelsOf(task))} = {}
    BY <2>2
  <2> QED
    BY <2>1, <2>3 DEF NoTask, Lifecycle!Init
<1>2. IInv /\ [ClientsNext]_clientsVars => Lifecycle!Next \/ UNCHANGED Lifecycle!lifecycleVars
  <2> SUFFICES ASSUME IInv, [ClientsNext]_clientsVars
               PROVE  Lifecycle!Next \/ UNCHANGED Lifecycle!lifecycleVars
    OBVIOUS
  <2>1. CASE Restart
    <3>1. task' = NoTask
      BY <2>1 DEF Restart, RestartServer
    <3>2. HotelsOf(task)' = <<>>
      BY <3>1, ResultsOf DEF NoTask
    <3>3. {<<i, HotelsOf(task)[i]>> : i \in 1..Len(HotelsOf(task))}' = {}
      BY <3>2
    <3>4. CASE task.state # "NONE"
      <4>1. Lifecycle!Forget
        BY <3>1, <3>3, <3>4 DEF NoTask, Lifecycle!Forget, Lifecycle!Init
      <4> QED
        BY <4>1 DEF Lifecycle!Next
    <3>5. CASE task.state = "NONE"
      <4>1. task.note = "none" /\ task.artifacts = {}
        BY <3>5 DEF IInv, OneCallInv
      <4>2. HotelsOf(task) = <<>>
        BY <4>1, ResultsOf
      <4>3. {<<i, HotelsOf(task)[i]>> : i \in 1..Len(HotelsOf(task))} = {}
        BY <4>2
      <4> QED
        BY <3>1, <3>3, <3>5, <4>1, <4>3 DEF NoTask, Lifecycle!lifecycleVars
    <3> QED
      BY <3>4, <3>5
  <2>2. CASE Store
    BY <2>2, StoreRefines DEF IInv
  <2>3. CASE task' = task
    BY <2>3 DEF Lifecycle!lifecycleVars
  <2> QED
    BY <2>1, <2>2, <2>3
       DEF ClientsNext, ClientStep, AgentStep, StoreAndForward, Submit, Send, SendMessage,
           ReadToEnd, ReadUntilDrop, Subscribe, SubscribeRefused, TaskUnknown, GetTask,
           ReadAgain, Cancel, AcceptCancel, ExecutorStep, Execute, StartWork, FailRequest,
           ReportMissing, AnnounceSearch, PublishHotel, FailSearch, Complete, Step,
           clientsVars, vars
<1> QED
  BY <1>1, <1>2, HotelConsistent, PTL DEF ClientsSpec, RefinesLifecycle, Lifecycle!Spec
=============================================================================
