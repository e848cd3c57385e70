------------------------- MODULE A2ARuntime_proofs -------------------------
(***************************************************************************)
(* Lemmas about the runtime of one task that the proofs about every task   *)
(* agent need: what the queue says about the state the store will show     *)
(* when an event gets there, and what enqueueing and storing do to that.   *)
(* Positions count from the head of the queue; an event may be stored as   *)
(* the i-th one when the state shown by then is one it needs.              *)
(***************************************************************************)
EXTENDS A2ARuntime, TLAPS, SequenceTheorems

OpenStates == {"SUBMITTED", "WORKING", "INPUT_REQUIRED"}

ChangesState(event) == event.kind \in {"task", "status"}

StateOf(event) == IF event.kind = "task" THEN "SUBMITTED" ELSE event.state

\* When the events before the i-th one are stored, the task shows one of these
\* states: the one of the last event among them that has a state.
ShownAt(i, states) ==
  \/ /\ task.state \in states
     /\ \A k \in 1..Len(events) : k < i => ~ChangesState(events[k])
  \/ \E k \in 1..Len(events) :
       /\ k < i /\ ChangesState(events[k]) /\ StateOf(events[k]) \in states
       /\ \A l \in 1..Len(events) : k < l /\ l < i => ~ChangesState(events[l])

\* An event before the i-th one ends the task, so that the queue is closed
\* before the i-th one is stored.
ClosedBefore(i) ==
  \/ Finished
  \/ \E k \in 1..Len(events) :
       k < i /\ ChangesState(events[k]) /\ StateOf(events[k]) \in TerminalStates

Ready(i, states) == ClosedBefore(i) \/ ShownAt(i, states)

\* The states in which an event may be stored, in an agent that pauses,
\* delivers and ends in the states `busy`.
Needs(event, busy) ==
  CASE event.kind = "task" -> {"NONE"}
    [] event.kind = "status" /\ event.state \in {"WORKING", "CANCELED"} -> OpenStates
    [] OTHER -> busy

\* Every event of the queue will find the task in a state it needs.
QueueInv(busy) ==
  /\ Finished => events = <<>>
  /\ \A i \in 1..Len(events) :
       /\ Ready(i, Needs(events[i], busy))
       /\ events[i].kind = "status" => events[i].state \in {"WORKING"} \union ActionableStates
  /\ Ready(Len(events) + 1, OpenStates \union {"NONE"})

\* The consumer takes the first event, whatever else it makes of it.
Takes ==
  /\ events # <<>>
  /\ task'.state = IF ChangesState(events[1]) THEN StateOf(events[1]) ELSE task.state
  /\ events' = IF task'.state \in TerminalStates THEN <<>> ELSE Tail(events)

-----------------------------------------------------------------------------
\* Enqueueing adds one event behind the others, or nothing to an ended task.
LEMMA EnqueueAppends ==
  ASSUME NEW E, events \in Seq(E), NEW event \in E, Enqueue(event), UNCHANGED task
  PROVE  /\ events' \in Seq(E)
         /\ Finished' = Finished
         /\ \/ Finished /\ events' = events
            \/ /\ ~Finished
               /\ Len(events') = Len(events) + 1
               /\ \A i \in 1..Len(events) : events'[i] = events[i]
               /\ events'[Len(events) + 1] = event
BY DEF Enqueue, Finished

\* Storing takes the first event off, or all of them with a terminal one.
LEMMA TakesFirst ==
  ASSUME NEW E, events \in Seq(E), Takes
  PROVE  /\ Len(events) \in Nat \ {0}
         /\ events[1] \in E
         /\ events' \in Seq(E)
         /\ \/ Finished' /\ events' = <<>>
            \/ /\ ~Finished'
               /\ Len(events') = Len(events) - 1
               /\ \A i \in 1..Len(events') : events'[i] = events[i + 1]
BY DEF Takes, Finished

\* Every event of a queue that has grown was there before, or is the new one.
LEMMA AppendedAt ==
  ASSUME NEW E, events \in Seq(E), NEW event \in E, Enqueue(event), UNCHANGED task,
         NEW i \in 1..Len(events')
  PROVE  \/ i \in 1..Len(events) /\ events'[i] = events[i]
         \/ ~Finished /\ i = Len(events) + 1 /\ events'[i] = event
BY EnqueueAppends

\* Every event of a queue that has been taken from was there before, one place
\* further back.
LEMMA TakenAt ==
  ASSUME NEW E, events \in Seq(E), Takes, NEW i \in 1..Len(events')
  PROVE  /\ ~Finished'
         /\ i + 1 \in 1..Len(events) /\ events'[i] = events[i + 1]
<1>1. CASE Finished' /\ events' = <<>>
  <2>1. Len(events') = 0
    BY <1>1
  <2> QED
    BY <2>1
<1>2. CASE /\ ~Finished'
           /\ Len(events') = Len(events) - 1
           /\ \A k \in 1..Len(events') : events'[k] = events[k + 1]
  <2>1. PICK n \in Nat \ {0} : n = Len(events)
    BY TakesFirst
  <2>2. i \in 1..(n - 1)
    BY <1>2, <2>1
  <2> QED
    BY <1>2, <2>1, <2>2
<1> QED
  BY <1>1, <1>2, TakesFirst

\* A larger set of states is shown whenever a smaller one is.
LEMMA ReadyWeaker ==
  ASSUME NEW i, NEW S, NEW T, S \subseteq T, Ready(i, S)
  PROVE  Ready(i, T)
BY DEF Ready, ShownAt

\* Nothing is to come before the first event.
LEMMA ReadyFirst ==
  ASSUME NEW E, events \in Seq(E), NEW S
  PROVE  Ready(1, S) <=> (Finished \/ task.state \in S)
BY DEF Ready, ShownAt, ClosedBefore

\* Enqueueing does not disturb the events that are there already.
LEMMA ReadyGrows ==
  ASSUME NEW E, events \in Seq(E), NEW event \in E, Enqueue(event), UNCHANGED task,
         NEW i \in 1..Len(events) + 1, NEW S, Ready(i, S)
  PROVE  Ready(i, S)'
<1>0. PICK n \in Nat : n = Len(events)
  OBVIOUS
<1>1. CASE Finished
  <2>1. Finished'
    BY <1>1 DEF Finished
  <2> QED
    BY <2>1 DEF Ready, ClosedBefore
<1>2. CASE ~Finished
  <2>1. /\ Len(events') = n + 1
        /\ \A k \in 1..n : events'[k] = events[k]
    BY <1>0, <1>2, EnqueueAppends
  <2>2. \A k \in 1..(n + 1) : k < i => k \in 1..n
    BY <1>0
  <2>3. CASE ClosedBefore(i)
    BY <1>0, <1>2, <2>1, <2>3 DEF Ready, ClosedBefore
  <2>4. CASE ShownAt(i, S)
    <3>1. CASE task.state \in S /\ \A k \in 1..n : k < i => ~ChangesState(events[k])
      BY <1>0, <2>1, <2>2, <3>1 DEF Ready, ShownAt
    <3>2. CASE \E k \in 1..n :
                 /\ k < i /\ ChangesState(events[k]) /\ StateOf(events[k]) \in S
                 /\ \A l \in 1..n : k < l /\ l < i => ~ChangesState(events[l])
      <4>1. PICK k \in 1..n :
                 /\ k < i /\ ChangesState(events[k]) /\ StateOf(events[k]) \in S
                 /\ \A l \in 1..n : k < l /\ l < i => ~ChangesState(events[l])
        BY <3>2
      <4>2. /\ k \in 1..(n + 1) /\ ChangesState(events'[k]) /\ StateOf(events'[k]) \in S
            /\ \A l \in 1..(n + 1) : k < l /\ l < i => ~ChangesState(events'[l])
        BY <2>1, <2>2, <4>1
      <4> QED
        BY <2>1, <4>1, <4>2 DEF Ready, ShownAt
    <3> QED
      BY <1>0, <2>4, <3>1, <3>2 DEF ShownAt
  <2> QED
    BY <2>3, <2>4 DEF Ready
<1> QED
  BY <1>1, <1>2

\* Storing the first event brings the others one place closer.
LEMMA ReadyArrives ==
  ASSUME NEW E, events \in Seq(E), Takes, ~Finished, ~Finished',
         NEW i \in 1..Len(events), NEW S, Ready(i + 1, S)
  PROVE  Ready(i, S)'
<1>0. PICK n \in Nat \ {0} : n = Len(events)
  BY TakesFirst
<1>1. /\ Len(events') = n - 1
      /\ \A k \in 1..(n - 1) : events'[k] = events[k + 1]
  BY <1>0, TakesFirst
<1>2. \A k \in 2..n : k - 1 \in 1..(n - 1) /\ events'[k - 1] = events[k]
  BY <1>1
<1>4. CASE ClosedBefore(i + 1)
  <2>1. PICK k \in 1..n :
          k < i + 1 /\ ChangesState(events[k]) /\ StateOf(events[k]) \in TerminalStates
    BY <1>0, <1>4 DEF ClosedBefore
  <2>2. k # 1
    BY <2>1 DEF Takes, Finished
  <2>3. k - 1 \in 1..(n - 1) /\ events'[k - 1] = events[k] /\ k - 1 < i
    BY <1>2, <2>1, <2>2
  <2> QED
    BY <1>1, <2>1, <2>3 DEF Ready, ClosedBefore
<1>5. CASE ShownAt(i + 1, S)
  <2>1. CASE task.state \in S /\ \A k \in 1..n : k < i + 1 => ~ChangesState(events[k])
    <3>1. task'.state \in S
      BY <1>0, <2>1 DEF Takes
    <3>2. \A k \in 1..(n - 1) : k < i => ~ChangesState(events'[k])
      BY <1>1, <2>1
    <3> QED
      BY <1>1, <3>1, <3>2 DEF Ready, ShownAt
  <2>2. CASE \E k \in 1..n :
               /\ k < i + 1 /\ ChangesState(events[k]) /\ StateOf(events[k]) \in S
               /\ \A l \in 1..n : k < l /\ l < i + 1 => ~ChangesState(events[l])
    <3>1. PICK k \in 1..n :
               /\ k < i + 1 /\ ChangesState(events[k]) /\ StateOf(events[k]) \in S
               /\ \A l \in 1..n : k < l /\ l < i + 1 => ~ChangesState(events[l])
      BY <2>2
    <3>2. \A l \in 1..(n - 1) : k - 1 < l /\ l < i => ~ChangesState(events'[l])
      BY <1>1, <3>1
    <3>3. CASE k = 1
      <4>1. task'.state \in S
        BY <3>1, <3>3 DEF Takes
      <4>2. \A l \in 1..(n - 1) : l < i => ~ChangesState(events'[l])
        BY <3>2, <3>3
      <4> QED
        BY <1>1, <4>1, <4>2 DEF Ready, ShownAt
    <3>4. CASE k # 1
      <4>1. /\ k - 1 \in 1..(n - 1) /\ events'[k - 1] = events[k] /\ k - 1 < i
        BY <1>2, <3>1, <3>4
      <4> QED
        BY <1>1, <3>1, <3>2, <4>1 DEF Ready, ShownAt
    <3> QED
      BY <3>3, <3>4
  <2> QED
    BY <1>0, <1>5, <2>1, <2>2 DEF ShownAt
<1> QED
  BY <1>4, <1>5 DEF Ready

\* What the store shows behind an event with a state is that state; behind
\* another event, what it showed before.  Nothing follows a terminal one.
LEMMA ReadyBehind ==
  ASSUME NEW E, events \in Seq(E), NEW event \in E, Enqueue(event), UNCHANGED task, NEW S,
         IF ChangesState(event) THEN StateOf(event) \in S \union TerminalStates
         ELSE Ready(Len(events) + 1, S)
  PROVE  Ready(Len(events) + 1, S)'
<1>0. PICK n \in Nat : n = Len(events)
  OBVIOUS
<1>1. CASE Finished
  BY <1>1 DEF Finished, Ready, ClosedBefore
<1>2. CASE ~Finished
  <2>1. /\ Len(events') = n + 1
        /\ \A k \in 1..n : events'[k] = events[k]
        /\ events'[n + 1] = event
    BY <1>0, <1>2, EnqueueAppends
  <2>2. n + 1 \in 1..(n + 1) /\ n + 1 < n + 2 /\ (n + 1) + 1 = n + 2
    BY <1>0
  <2>3. CASE ChangesState(event) /\ StateOf(event) \in TerminalStates
    BY <2>1, <2>2, <2>3 DEF Ready, ClosedBefore
  <2>4. CASE ChangesState(event) /\ StateOf(event) \in S
    <3>1. \A l \in 1..(n + 1) : ~(n + 1 < l /\ l < n + 2)
      OBVIOUS
    <3> QED
      BY <2>1, <2>2, <2>4, <3>1 DEF Ready, ShownAt
  <2>5. CASE ~ChangesState(event)
    <3>1. Ready(n + 1, S)'
      BY <1>0, <2>5, ReadyGrows
    <3>2. CASE ClosedBefore(n + 1)'
      BY <2>1, <2>2, <3>2 DEF Ready, ClosedBefore
    <3>3. CASE ShownAt(n + 1, S)'
      <4>1. \A l \in 1..(n + 1) : l < n + 2 => l < n + 1 \/ l = n + 1
        OBVIOUS
      <4>2. ~ChangesState(events'[n + 1])
        BY <2>1, <2>5
      <4> QED
        BY <2>1, <2>2, <3>3, <4>1, <4>2 DEF Ready, ShownAt
    <3> QED
      BY <3>1, <3>2, <3>3 DEF Ready
  <2> QED
    BY <2>3, <2>4, <2>5
<1> QED
  BY <1>1, <1>2

\* A task that exists will be open, or closed, when the queue is through.
LEMMA ReadyForMore ==
  ASSUME NEW E, events \in Seq(E), NEW busy, QueueInv(busy), Exists
  PROVE  Ready(Len(events) + 1, OpenStates)
<1>0. PICK n \in Nat : n = Len(events)
  OBVIOUS
<1>1. \A k \in 1..n : ChangesState(events[k]) => StateOf(events[k]) # "NONE"
  BY <1>0 DEF QueueInv, ChangesState, StateOf, ActionableStates, TerminalStates
<1>2. CASE ClosedBefore(n + 1)
  BY <1>0, <1>2 DEF Ready
<1>3. CASE ShownAt(n + 1, OpenStates \union {"NONE"})
  BY <1>0, <1>1, <1>3 DEF Ready, ShownAt, Exists
<1> QED
  BY <1>0, <1>2, <1>3 DEF QueueInv, Ready

\* An event may be enqueued when it will find the task in a state it needs.
LEMMA QueueEnqueued ==
  ASSUME NEW E, events \in Seq(E), NEW busy, busy \subseteq OpenStates, QueueInv(busy),
         NEW event \in E, Enqueue(event), UNCHANGED task,
         Ready(Len(events) + 1, Needs(event, busy)),
         event.kind = "status" => event.state \in {"WORKING"} \union ActionableStates
  PROVE  QueueInv(busy)'
<1>0. PICK n \in Nat : n = Len(events)
  OBVIOUS
<1>1. Ready(Len(events) + 1, OpenStates \union {"NONE"})'
  <2>1. CASE ChangesState(event)
    <3>1. StateOf(event) \in (OpenStates \union {"NONE"}) \union TerminalStates
      BY <2>1 DEF ChangesState, StateOf, OpenStates, ActionableStates
    <3> QED
      BY <2>1, <3>1, ReadyBehind
  <2>2. CASE ~ChangesState(event)
    <3>1. Needs(event, busy) = busy
      BY <2>2 DEF Needs, ChangesState
    <3>2. busy \subseteq OpenStates \union {"NONE"}
      OBVIOUS
    <3>3. Ready(Len(events) + 1, OpenStates \union {"NONE"})
      BY <3>1, <3>2, ReadyWeaker
    <3> QED
      BY <2>2, <3>3, ReadyBehind
  <2> QED
    BY <2>1, <2>2
<1>2. CASE Finished
  <2>1. events = <<>> /\ events' = <<>> /\ Finished'
    BY <1>2, EnqueueAppends DEF QueueInv
  <2> QED
    BY <1>1, <2>1 DEF QueueInv
<1>3. CASE ~Finished
  <2>1. /\ ~Finished'
        /\ Len(events') = n + 1
        /\ \A i \in 1..n : events'[i] = events[i]
        /\ events'[n + 1] = event
    BY <1>0, <1>3, EnqueueAppends
  <2>2. ASSUME NEW i \in 1..(n + 1)
        PROVE  /\ Ready(i, Needs(events[i], busy))'
               /\ events'[i].kind = "status" =>
                    events'[i].state \in {"WORKING"} \union ActionableStates
    <3>1. CASE i = n + 1
      <4>1. PICK needed : needed = Needs(event, busy)
        OBVIOUS
      <4>2. Ready(n + 1, needed)'
        BY <1>0, <4>1, ReadyGrows
      <4>3. Needs(events[i], busy)' = needed
        BY <2>1, <3>1, <4>1 DEF Needs
      <4> QED
        BY <2>1, <3>1, <4>2, <4>3
    <3>2. CASE i \in 1..n
      <4>1. PICK needed : needed = Needs(events[i], busy)
        OBVIOUS
      <4>2. Ready(i, needed)
        BY <1>0, <3>2, <4>1 DEF QueueInv
      <4>3. Ready(i, needed)'
        BY <1>0, <3>2, <4>2, ReadyGrows
      <4>4. Needs(events[i], busy)' = needed
        BY <2>1, <3>2, <4>1 DEF Needs
      <4> QED
        BY <1>0, <2>1, <3>2, <4>3, <4>4 DEF QueueInv
    <3> QED
      BY <3>1, <3>2
  <2> QED
    BY <1>1, <2>1, <2>2 DEF QueueInv
<1> QED
  BY <1>2, <1>3

\* Storing an event keeps the promises of the others.
LEMMA QueueTaken ==
  ASSUME NEW E, events \in Seq(E), NEW busy, QueueInv(busy), Takes
  PROVE  QueueInv(busy)'
<1>0. PICK n \in Nat \ {0} : n = Len(events)
  BY TakesFirst
<1>1. ~Finished
  BY DEF QueueInv, Takes
<1>2. CASE Finished'
  <2>1. events' = <<>>
    BY <1>2, TakesFirst
  <2>2. Ready(1, OpenStates \union {"NONE"})'
    BY <1>2 DEF Ready, ClosedBefore
  <2> QED
    BY <1>2, <2>1, <2>2 DEF QueueInv
<1>3. CASE ~Finished'
  <2>1. Len(events') = n - 1 /\ \A i \in 1..(n - 1) : events'[i] = events[i + 1]
    BY <1>0, <1>3, TakesFirst
  <2>2. ASSUME NEW i \in 1..(n - 1)
        PROVE  /\ Ready(i, Needs(events[i], busy))'
               /\ events'[i].kind = "status" =>
                    events'[i].state \in {"WORKING"} \union ActionableStates
    <3>1. i + 1 \in 1..n /\ i \in 1..n /\ events'[i] = events[i + 1]
      BY <2>1
    <3>2. PICK needed : needed = Needs(events[i + 1], busy)
      OBVIOUS
    <3>3. Ready(i + 1, needed)
      BY <1>0, <3>1, <3>2 DEF QueueInv
    <3>4. Ready(i, needed)'
      BY <1>0, <1>1, <1>3, <3>1, <3>3, ReadyArrives
    <3>5. Needs(events[i], busy)' = needed
      BY <3>1, <3>2 DEF Needs
    <3> QED
      BY <1>0, <3>1, <3>4, <3>5 DEF QueueInv
  <2>3. Ready(n, OpenStates \union {"NONE"})'
    <3>1. Ready(n + 1, OpenStates \union {"NONE"})
      BY <1>0 DEF QueueInv
    <3> QED
      BY <1>0, <1>1, <1>3, <3>1, ReadyArrives
  <2>4. Len(events') + 1 = n
    BY <2>1
  <2> QED
    BY <1>3, <2>1, <2>2, <2>3, <2>4 DEF QueueInv
<1> QED
  BY <1>2, <1>3

\* When an event is stored, the task is in a state the event needs.
LEMMA TakenInState ==
  ASSUME NEW E, events \in Seq(E), NEW busy, QueueInv(busy), Takes
  PROVE  /\ ~Finished
         /\ task.state \in Needs(events[1], busy)
         /\ events[1].kind = "status" => events[1].state \in {"WORKING"} \union ActionableStates
<1>1. Len(events) \in Nat \ {0}
  BY TakesFirst
<1>2. ~Finished
  BY DEF QueueInv, Takes
<1>3. Ready(1, Needs(events[1], busy))
  BY <1>1 DEF QueueInv
<1> QED
  BY <1>1, <1>2, <1>3, ReadyFirst DEF QueueInv

-----------------------------------------------------------------------------
(***************************************************************************)
(* The types of the runtime, for an agent with these notes and artifacts.  *)
(***************************************************************************)
EventsWith(notes, artifacts) ==
  [kind : {"task"}]
    \union [kind : {"status"}, state : States, note : notes]
    \union [kind : {"artifact"}, artifact : artifacts]

RecordsWith(notes, artifacts) ==
  [state : States, note : notes, history : Seq(Messages), artifacts : SUBSET artifacts]

RuntimeTypeOK(notes, artifacts) ==
  /\ sent \in Seq([text : Messages, shown : notes])
  /\ served \in 0..Len(sent)
  /\ events \in Seq(EventsWith(notes, artifacts))
  /\ cancelled \in BOOLEAN
  /\ task \in RecordsWith(notes, artifacts)

\* The three kinds of event an executor enqueues are events.
LEMMA EventsTyped ==
  ASSUME NEW notes, NEW artifacts
  PROVE  /\ TaskEvent \in EventsWith(notes, artifacts)
         /\ \A state \in States, note \in notes :
              StatusEvent(state, note) \in EventsWith(notes, artifacts)
         /\ \A a \in artifacts : ArtifactEvent(a) \in EventsWith(notes, artifacts)
BY DEF TaskEvent, StatusEvent, ArtifactEvent, EventsWith

\* A server that has not seen a request yet.
LEMMA InitTyped ==
  ASSUME NEW notes, NEW artifacts, "none" \in notes, RuntimeInit
  PROVE  RuntimeTypeOK(notes, artifacts)
<1>1. sent = <<>> /\ events = <<>> /\ served = 0 /\ cancelled = FALSE /\ task = NoTask
  BY DEF RuntimeInit
<1>2. /\ sent \in Seq([text : Messages, shown : notes])
      /\ events \in Seq(EventsWith(notes, artifacts))
      /\ served \in 0..Len(sent)
  BY <1>1
<1>3. NoTask \in RecordsWith(notes, artifacts)
  BY DEF NoTask, RecordsWith, States, ActionableStates, TerminalStates
<1> QED
  BY <1>1, <1>2, <1>3 DEF RuntimeTypeOK

\* Accepting a message keeps the types, and adds it behind the others.
LEMMA SendTyped ==
  ASSUME NEW notes, NEW artifacts, RuntimeTypeOK(notes, artifacts),
         NEW m \in Messages, SendMessage(m)
  PROVE  /\ RuntimeTypeOK(notes, artifacts)'
         /\ Len(sent') = Len(sent) + 1
         /\ \A i \in 1..Len(sent) : sent'[i] = sent[i]
         /\ sent'[Len(sent) + 1] = [text |-> m, shown |-> task.note]
<1> DEFINE Requests == [text : Messages, shown : notes]
           request == [text |-> m, shown |-> task.note]
<1>1. request \in Requests
  BY DEF RuntimeTypeOK, RecordsWith
<1>2. sent \in Seq(Requests) /\ sent' = Append(sent, request)
  BY DEF RuntimeTypeOK, SendMessage
<1> HIDE DEF Requests, request
<1>3. /\ sent' \in Seq(Requests)
      /\ Len(sent') = Len(sent) + 1
      /\ \A i \in 1..Len(sent) : sent'[i] = sent[i]
      /\ sent'[Len(sent) + 1] = request
  BY <1>1, <1>2
<1> QED
  BY <1>3 DEF SendMessage, RuntimeTypeOK, Requests, request

\* Every accepted message carries a text.
LEMMA TextTyped ==
  ASSUME NEW notes, NEW artifacts, RuntimeTypeOK(notes, artifacts), NEW i \in 1..Len(sent)
  PROVE  sent[i].text \in Messages
<1> DEFINE Requests == [text : Messages, shown : notes]
<1>1. sent \in Seq(Requests)
  BY DEF RuntimeTypeOK
<1> HIDE DEF Requests
<1>2. sent[i] \in Requests
  BY <1>1, ElementOfSeq
<1> QED
  BY <1>2 DEF Requests

\* The texts of the first messages, as a sequence.
LEMMA TextsTyped ==
  ASSUME NEW notes, NEW artifacts, RuntimeTypeOK(notes, artifacts), NEW k \in 0..Len(sent)
  PROVE  /\ Texts(k) \in Seq(Messages)
         /\ Len(Texts(k)) = k
         /\ \A i \in 1..k : Texts(k)[i] = sent[i].text
<1>1. k \in Nat /\ \A i \in 1..k : i \in 1..Len(sent)
  BY DEF RuntimeTypeOK
<1>2. \A i \in 1..k : sent[i].text \in Messages
  BY <1>1, TextTyped
<1>3. Texts(k) \in [1..k -> Messages]
  BY <1>2 DEF Texts
<1> QED
  BY <1>1, <1>3 DEF Texts

\* The texts already served do not change when another message is accepted.
LEMMA TextsStay ==
  ASSUME NEW notes, NEW artifacts, RuntimeTypeOK(notes, artifacts),
         NEW m \in Messages, SendMessage(m)
  PROVE  Texts(served)' = Texts(served)
<1>1. /\ served' = served /\ served \in 0..Len(sent)
      /\ \A i \in 1..Len(sent) : sent'[i] = sent[i]
  BY SendTyped DEF RuntimeTypeOK, SendMessage
<1>2. \A i \in 1..served : sent'[i].text = sent[i].text
  BY <1>1 DEF RuntimeTypeOK
<1> QED
  BY <1>1, <1>2 DEF Texts

\* The texts of one more message are the texts so far and its own.
LEMMA TextsNext ==
  ASSUME NEW notes, NEW artifacts, RuntimeTypeOK(notes, artifacts), served < Len(sent)
  PROVE  Append(Texts(served), sent[served + 1].text) = Texts(served + 1)
<1>0. PICK n \in Nat : n = Len(sent)
  BY DEF RuntimeTypeOK
<1>1. /\ served \in Nat /\ served + 1 \in 1..Len(sent)
      /\ served \in 0..Len(sent) /\ served + 1 \in 0..Len(sent)
  BY <1>0 DEF RuntimeTypeOK
<1>2. PICK text \in Messages : text = sent[served + 1].text
  BY <1>1, TextTyped
<1>3. PICK before \in Seq(Messages) : before = Texts(served)
  BY <1>1, TextsTyped DEF RuntimeTypeOK
<1>4. PICK after \in Seq(Messages) : after = Texts(served + 1)
  BY <1>1, TextsTyped
<1>5. /\ Len(before) = served /\ Len(after) = served + 1
      /\ \A i \in 1..served : before[i] = sent[i].text
      /\ \A i \in 1..(served + 1) : after[i] = sent[i].text
  <2>1. \A k \in 0..Len(sent) :
          Len(Texts(k)) = k /\ \A i \in 1..k : Texts(k)[i] = sent[i].text
    BY TextsTyped
  <2> QED
    BY <1>1, <1>3, <1>4, <2>1
<1>6. PICK longer \in Seq(Messages) : longer = Append(before, text)
  <2>1. Append(before, text) \in Seq(Messages)
    OBVIOUS
  <2> QED
    BY <2>1
<1>7. /\ Len(longer) = served + 1
      /\ \A i \in 1..served : longer[i] = before[i]
      /\ longer[served + 1] = text
  BY <1>5, <1>6
<1>8. \A i \in 1..(served + 1) : longer[i] = after[i]
  BY <1>1, <1>2, <1>5, <1>7
<1>9. longer = after
  BY <1>5, <1>7, <1>8, SeqEqual
<1> QED
  BY <1>2, <1>3, <1>4, <1>6, <1>9

\* What the consumer makes of the first event, field by field.
LEMMA ConsumeTyped ==
  ASSUME NEW notes, NEW artifacts, RuntimeTypeOK(notes, artifacts), Consume
  PROVE  /\ RuntimeTypeOK(notes, artifacts)'
         /\ Takes
         /\ events[1] \in EventsWith(notes, artifacts)
         /\ task'.note = IF events[1].kind = "status" THEN events[1].note ELSE task.note
         /\ task'.artifacts =
              IF events[1].kind = "artifact"
              THEN {a \in task.artifacts : a.id # events[1].artifact.id} \union {events[1].artifact}
              ELSE task.artifacts
         /\ task'.history = Texts(served)
<1>1. served \in 0..Len(sent) /\ Len(sent) \in Nat
  BY DEF RuntimeTypeOK
<1>2. \A i \in 1..served : sent[i].text \in Messages
  BY <1>1, TextTyped
<1>3. Texts(served) \in [1..served -> Messages]
  BY <1>2 DEF Texts
<1>4. Texts(served) \in Seq(Messages)
  BY <1>1, <1>3
<1>5. /\ events[1] \in EventsWith(notes, artifacts)
      /\ events # <<>> /\ events' \in Seq(EventsWith(notes, artifacts))
      /\ task' = Stored(events[1])
      /\ events' = IF task'.state \in TerminalStates THEN <<>> ELSE Tail(events)
  BY DEF Consume, RuntimeTypeOK
<1>6. task \in RecordsWith(notes, artifacts)
  BY DEF RuntimeTypeOK
<1>7. CASE events[1].kind = "task"
  <2>1. task' = [[task EXCEPT !.history = Texts(served)] EXCEPT !.state = "SUBMITTED"]
    BY <1>5, <1>7 DEF Stored
  <2>2. /\ task' \in RecordsWith(notes, artifacts)
        /\ task'.state = "SUBMITTED" /\ task'.note = task.note
        /\ task'.artifacts = task.artifacts /\ task'.history = Texts(served)
    BY <1>4, <1>6, <2>1 DEF RecordsWith, States
  <2> QED
    BY <1>5, <1>7, <2>2 DEF Takes, ChangesState, StateOf, Consume, RuntimeTypeOK
<1>8. CASE events[1].kind = "status"
  <2>1. task' = [[task EXCEPT !.history = Texts(served)]
                   EXCEPT !.state = events[1].state, !.note = events[1].note]
    BY <1>5, <1>8 DEF Stored
  <2>2. events[1].state \in States /\ events[1].note \in notes
    BY <1>5, <1>8 DEF EventsWith
  <2>3. /\ task' \in RecordsWith(notes, artifacts)
        /\ task'.state = events[1].state /\ task'.note = events[1].note
        /\ task'.artifacts = task.artifacts /\ task'.history = Texts(served)
    BY <1>4, <1>6, <2>1, <2>2 DEF RecordsWith
  <2> QED
    BY <1>5, <1>8, <2>3 DEF Takes, ChangesState, StateOf, Consume, RuntimeTypeOK
<1>9. CASE events[1].kind = "artifact"
  <2> DEFINE kept == {a \in task.artifacts : a.id # events[1].artifact.id}
                       \union {events[1].artifact}
  <2>1. task' = [[task EXCEPT !.history = Texts(served)] EXCEPT !.artifacts = kept]
    BY <1>5, <1>6, <1>9 DEF Stored, RecordsWith
  <2>2. kept \subseteq artifacts
    BY <1>5, <1>6, <1>9 DEF EventsWith, RecordsWith
  <2> HIDE DEF kept
  <2>3. /\ task' \in RecordsWith(notes, artifacts)
        /\ task'.state = task.state /\ task'.note = task.note
        /\ task'.artifacts = kept /\ task'.history = Texts(served)
    BY <1>4, <1>6, <2>1, <2>2 DEF RecordsWith
  <2>4. ~ChangesState(events[1])
    BY <1>9 DEF ChangesState
  <2> QED
    BY <1>5, <1>9, <2>3, <2>4 DEF Takes, Consume, RuntimeTypeOK, kept
<1> QED
  BY <1>5, <1>7, <1>8, <1>9 DEF EventsWith

\* Enqueueing keeps the types.
LEMMA EnqueueTyped ==
  ASSUME NEW notes, NEW artifacts, RuntimeTypeOK(notes, artifacts),
         NEW event \in EventsWith(notes, artifacts), Enqueue(event),
         UNCHANGED <<sent, served, task>>, cancelled' \in BOOLEAN
  PROVE  RuntimeTypeOK(notes, artifacts)'
BY EnqueueAppends DEF RuntimeTypeOK

\* A restart keeps the types.
LEMMA RestartTyped ==
  ASSUME NEW notes, NEW artifacts, "none" \in notes, RuntimeTypeOK(notes, artifacts),
         RestartServer
  PROVE  RuntimeTypeOK(notes, artifacts)'
<1>1. NoTask \in RecordsWith(notes, artifacts)
  BY DEF NoTask, RecordsWith, States, ActionableStates, TerminalStates
<1>2. events' = <<>> /\ served' = Len(sent) /\ Len(sent) \in Nat
  BY DEF RestartServer, RuntimeTypeOK
<1>3. events' \in Seq(EventsWith(notes, artifacts)) /\ served' \in 0..Len(sent)
  BY <1>2
<1> QED
  BY <1>1, <1>3 DEF RestartServer, RuntimeTypeOK

\* A queue that is empty keeps every promise.
LEMMA EmptyQueue ==
  ASSUME NEW busy, events = <<>>, task.state \in States
  PROVE  QueueInv(busy)
<1>1. events \in Seq({}) /\ Len(events) = 0
  OBVIOUS
<1>2. Ready(1, OpenStates \union {"NONE"})
  BY <1>1, ReadyFirst DEF Finished, States, ActionableStates, OpenStates
<1> QED
  BY <1>1, <1>2 DEF QueueInv

\* So does a queue that has been emptied.
LEMMA QueueEmptied ==
  ASSUME NEW busy, events' = <<>>, task'.state \in States
  PROVE  QueueInv(busy)'
<1>1. Len(events') = 0
  OBVIOUS
<1>2. Finished' \/ task'.state \in OpenStates \union {"NONE"}
  BY DEF Finished, States, ActionableStates, OpenStates
<1>3. Ready(1, OpenStates \union {"NONE"})'
  BY <1>1, <1>2 DEF Ready, ShownAt, ClosedBefore
<1> QED
  BY <1>1, <1>3 DEF QueueInv

\* A cancel finds an open task, and nothing is stored behind it.
LEMMA CancelQueued ==
  ASSUME NEW E, events \in Seq(E), NEW busy, busy \subseteq OpenStates, QueueInv(busy),
         StatusEvent("CANCELED", "none") \in E, Exists,
         Enqueue(StatusEvent("CANCELED", "none")), UNCHANGED task
  PROVE  /\ QueueInv(busy)'
         /\ \A S : Ready(Len(events) + 1, S)'
<1>1. PICK event \in E : event = StatusEvent("CANCELED", "none")
  OBVIOUS
<1>2. /\ Enqueue(event) /\ ChangesState(event) /\ StateOf(event) = "CANCELED"
      /\ event.kind = "status" /\ event.state = "CANCELED" /\ Needs(event, busy) = OpenStates
  BY <1>1 DEF StatusEvent, ChangesState, StateOf, Needs
<1>3. Ready(Len(events) + 1, OpenStates)
  BY ReadyForMore
<1>4. QueueInv(busy)'
  BY <1>2, <1>3, QueueEnqueued DEF ActionableStates, TerminalStates
<1>5. ASSUME NEW S PROVE Ready(Len(events) + 1, S)'
  BY <1>2, ReadyBehind DEF TerminalStates
<1> QED
  BY <1>4, <1>5

-----------------------------------------------------------------------------
\* What is on its way stays so while the queue grows.
LEMMA ComingStays ==
  ASSUME NEW E, events \in Seq(E), NEW event \in E, Enqueue(event), UNCHANGED task,
         NEW id, NEW i \in 1..Len(events) + 1, Coming(id, i)
  PROVE  Coming(id, i)'
BY EnqueueAppends DEF Coming, Delivered, Publishes

\* An artifact that is enqueued is on its way to everything behind it, and so
\* is what was on its way before.
LEMMA ComingBehind ==
  ASSUME NEW E, events \in Seq(E), NEW event \in E, Enqueue(event), UNCHANGED task, NEW id,
         Finished \/ Coming(id, Len(events) + 1)
           \/ (event.kind = "artifact" /\ event.artifact.id = id)
  PROVE  Finished' \/ Coming(id, Len(events) + 1)'
<1>0. PICK n \in Nat : n = Len(events)
  OBVIOUS
<1>1. SUFFICES ASSUME ~Finished PROVE Coming(id, Len(events) + 1)'
  BY DEF Finished
<1>2. /\ Len(events') = n + 1
      /\ \A i \in 1..n : events'[i] = events[i]
      /\ events'[n + 1] = event
  BY <1>0, <1>1, EnqueueAppends
<1>3. CASE event.kind = "artifact" /\ event.artifact.id = id
  BY <1>0, <1>2, <1>3 DEF Coming, Publishes
<1>4. CASE Coming(id, n + 1)
  BY <1>0, <1>2, <1>4 DEF Coming, Delivered, Publishes
<1> QED
  BY <1>0, <1>1, <1>3, <1>4

\* What is on its way has arrived, or is one place closer, when the first event
\* has been stored.
LEMMA ComingCloser ==
  ASSUME NEW notes, NEW artifacts, RuntimeTypeOK(notes, artifacts), Consume, NEW id
  PROVE  /\ Delivered(id) => Delivered(id)'
         /\ Publishes(1, id) => Delivered(id)'
         /\ Delivered(id)' => Delivered(id) \/ Publishes(1, id)
         /\ ~Finished' => \A i \in 1..Len(events) : Coming(id, i + 1) => Coming(id, i)'
<1>0. PICK n \in Nat \ {0} : n = Len(events)
  BY ConsumeTyped, TakesFirst DEF RuntimeTypeOK
<1>1. task'.artifacts =
        IF events[1].kind = "artifact"
        THEN {a \in task.artifacts : a.id # events[1].artifact.id} \union {events[1].artifact}
        ELSE task.artifacts
  BY ConsumeTyped
<1>2. /\ Delivered(id) => Delivered(id)'
      /\ Publishes(1, id) => Delivered(id)'
      /\ Delivered(id)' => Delivered(id) \/ Publishes(1, id)
  BY <1>1 DEF Delivered, Publishes
<1>3. ASSUME ~Finished', NEW i \in 1..n, Coming(id, i + 1) PROVE Coming(id, i)'
  <2>1. /\ Len(events') = n - 1
        /\ \A k \in 1..(n - 1) : events'[k] = events[k + 1]
    BY <1>0, <1>3, ConsumeTyped, TakesFirst DEF RuntimeTypeOK
  <2>2. CASE Delivered(id)
    BY <1>2, <2>2 DEF Coming
  <2>3. CASE \E j \in 1..n : j < i + 1 /\ Publishes(j, id)
    <3>1. PICK j \in 1..n : j < i + 1 /\ Publishes(j, id)
      BY <2>3
    <3>2. CASE j = 1
      BY <1>2, <3>1, <3>2 DEF Coming
    <3>3. CASE j # 1
      <4>1. j - 1 \in 1..(n - 1) /\ j - 1 < i /\ events'[j - 1] = events[j]
        BY <2>1, <3>1, <3>3
      <4>2. Publishes(j - 1, id)'
        BY <3>1, <4>1 DEF Publishes
      <4> QED
        BY <2>1, <4>1, <4>2 DEF Coming
    <3> QED
      BY <3>2, <3>3
  <2> QED
    BY <1>0, <1>3, <2>2, <2>3 DEF Coming
<1> QED
  BY <1>0, <1>2, <1>3

\* What will be ready behind the last event still will be when the first one
\* has been stored.
LEMMA ReadyStays ==
  ASSUME NEW E, events \in Seq(E), Takes, ~Finished, NEW S, Ready(Len(events) + 1, S)
  PROVE  Ready(Len(events) + 1, S)'
<1>0. PICK n \in Nat \ {0} : n = Len(events)
  BY TakesFirst
<1>1. CASE Finished'
  BY <1>1 DEF Ready, ClosedBefore
<1>2. CASE ~Finished'
  <2>1. Ready(n, S)'
    BY <1>0, <1>2, ReadyArrives
  <2>2. Len(events') + 1 = n
    BY <1>0, <1>2, TakesFirst
  <2> QED
    BY <2>1, <2>2
<1> QED
  BY <1>1, <1>2

\* What is on its way to everything behind the last event still is when the
\* first one has been stored.
LEMMA ComingKeepsUp ==
  ASSUME NEW notes, NEW artifacts, RuntimeTypeOK(notes, artifacts), Consume, NEW id,
         Finished \/ Coming(id, Len(events) + 1), Finished => events = <<>>
  PROVE  Finished' \/ Coming(id, Len(events) + 1)'
<1>0. PICK n \in Nat \ {0} : n = Len(events)
  BY ConsumeTyped, TakesFirst DEF RuntimeTypeOK
<1>1. SUFFICES ASSUME ~Finished' PROVE Coming(id, Len(events) + 1)'
  OBVIOUS
<1>2. Coming(id, n + 1)
  BY <1>0 DEF Consume
<1>3. \A i \in 1..n : Coming(id, i + 1) => Coming(id, i)'
  BY <1>0, <1>1, ComingCloser
<1>4. events \in Seq(EventsWith(notes, artifacts)) /\ Takes
  BY ConsumeTyped DEF RuntimeTypeOK
<1>5. Len(events') + 1 = n
  BY <1>0, <1>1, <1>4, TakesFirst
<1>6. Coming(id, n)'
  BY <1>2, <1>3
<1> QED
  BY <1>5, <1>6

-----------------------------------------------------------------------------
\* A completion has the artifact ahead of it, or one of these notes for an
\* excuse.
CompletesWith(id, excuses) ==
  /\ \A i \in 1..Len(events) :
       events[i].kind = "status" /\ events[i].state = "COMPLETED" =>
         events[i].note \in excuses \/ Coming(id, i)
  /\ task.state = "COMPLETED" => task.note \in excuses \/ Delivered(id)

\* Enqueueing keeps that up when the new event does.
LEMMA CompletionEnqueued ==
  ASSUME NEW E, events \in Seq(E), NEW event \in E, Enqueue(event), UNCHANGED task,
         NEW id, NEW excuses, CompletesWith(id, excuses), Finished => events = <<>>,
         event.kind = "status" /\ event.state = "COMPLETED" =>
           event.note \in excuses \/ Finished \/ Coming(id, Len(events) + 1)
  PROVE  CompletesWith(id, excuses)'
<1>0. PICK n \in Nat : n = Len(events)
  OBVIOUS
<1>1. task'.state = "COMPLETED" => task'.note \in excuses \/ Delivered(id)'
  BY DEF CompletesWith, Delivered
<1>2. CASE Finished
  <2>1. events' = <<>>
    BY <1>2, EnqueueAppends
  <2>2. Len(events') = 0
    BY <2>1
  <2> QED
    BY <1>1, <2>2 DEF CompletesWith
<1>3. CASE ~Finished
  <2>1. /\ Len(events') = n + 1
        /\ \A i \in 1..n : events'[i] = events[i]
        /\ events'[n + 1] = event
    BY <1>0, <1>3, EnqueueAppends
  <2>2. \A i \in 1..(n + 1) : Coming(id, i) => Coming(id, i)'
    BY <1>0, ComingStays
  <2>3. ASSUME NEW i \in 1..(n + 1), events'[i].kind = "status", events'[i].state = "COMPLETED"
        PROVE  events'[i].note \in excuses \/ Coming(id, i)'
    <3>1. CASE i = n + 1
      BY <1>0, <1>3, <2>1, <2>2, <2>3, <3>1
    <3>2. CASE i \in 1..n
      BY <1>0, <2>1, <2>2, <2>3, <3>2 DEF CompletesWith
    <3> QED
      BY <3>1, <3>2
  <2> QED
    BY <1>1, <2>1, <2>3 DEF CompletesWith
<1> QED
  BY <1>2, <1>3

\* Storing keeps it up: the artifact is there when the completion is stored.
LEMMA CompletionTaken ==
  ASSUME NEW notes, NEW artifacts, RuntimeTypeOK(notes, artifacts), Consume,
         NEW id, NEW excuses, CompletesWith(id, excuses), ~Finished
  PROVE  CompletesWith(id, excuses)'
<1>0. PICK n \in Nat \ {0} : n = Len(events)
  BY ConsumeTyped, TakesFirst DEF RuntimeTypeOK
<1>1. /\ Takes
      /\ task'.note = IF events[1].kind = "status" THEN events[1].note ELSE task.note
      /\ events \in Seq(EventsWith(notes, artifacts))
  BY ConsumeTyped DEF RuntimeTypeOK
<1>2. /\ Delivered(id) => Delivered(id)'
      /\ ~Finished' => \A i \in 1..n : Coming(id, i + 1) => Coming(id, i)'
  BY <1>0, ComingCloser
<1>3. task'.state = "COMPLETED" => task'.note \in excuses \/ Delivered(id)'
  <2>1. SUFFICES ASSUME task'.state = "COMPLETED"
                 PROVE  task'.note \in excuses \/ Delivered(id)'
    OBVIOUS
  <2>2. events[1].kind = "status" /\ events[1].state = "COMPLETED"
    BY <1>1, <2>1 DEF Takes, ChangesState, StateOf, Finished, TerminalStates
  <2>3. events[1].note \in excuses \/ Coming(id, 1)
    BY <1>0, <2>2 DEF CompletesWith
  <2>4. Coming(id, 1) => Delivered(id)
    BY <1>0 DEF Coming
  <2> QED
    BY <1>1, <1>2, <2>2, <2>3, <2>4
<1>4. CASE Finished'
  BY <1>1, <1>3, <1>4, TakesFirst DEF CompletesWith
<1>5. CASE ~Finished'
  <2>1. Len(events') = n - 1 /\ \A i \in 1..(n - 1) : events'[i] = events[i + 1]
    BY <1>0, <1>1, <1>5, TakesFirst
  <2>2. ASSUME NEW i \in 1..(n - 1), events'[i].kind = "status", events'[i].state = "COMPLETED"
        PROVE  events'[i].note \in excuses \/ Coming(id, i)'
    <3>1. i + 1 \in 1..n /\ i \in 1..n /\ events'[i] = events[i + 1]
      BY <2>1
    <3>2. events[i + 1].note \in excuses \/ Coming(id, i + 1)
      BY <1>0, <2>2, <3>1 DEF CompletesWith
    <3> QED
      BY <1>2, <1>5, <3>1, <3>2
  <2> QED
    BY <1>3, <2>1, <2>2 DEF CompletesWith
<1> QED
  BY <1>4, <1>5

\* Whoever touches neither the queue nor the store disturbs nothing of this.
LEMMA NothingMoved ==
  ASSUME UNCHANGED <<events, task>>
  PROVE  /\ \A i, S : Ready(i, S)' <=> Ready(i, S)
         /\ \A i, id : Coming(id, i)' <=> Coming(id, i)
         /\ \A id : Delivered(id)' <=> Delivered(id)
         /\ \A busy : QueueInv(busy)' <=> QueueInv(busy)
         /\ \A id, excuses : CompletesWith(id, excuses)' <=> CompletesWith(id, excuses)
         /\ Finished' = Finished
BY DEF Ready, ShownAt, ClosedBefore, Coming, Delivered, Publishes, QueueInv, Needs, Finished,
       CompletesWith

-----------------------------------------------------------------------------
(***************************************************************************)
(* An agent that is asked once and whose task ends with that one call of   *)
(* execute(): the task is new when the request is served, and from then on *)
(* execute() stands where the task will be ready for its next event.  A    *)
(* task nobody has announced has nothing to show.                          *)
(***************************************************************************)
OneCallInv(working) ==
  /\ QueueInv({"WORKING"})
  /\ task.state = "NONE" => task.note = "none" /\ task.artifacts = {}
  /\ Len(sent) <= 1
  /\ served = 0 => task.state = "NONE" /\ events = <<>> /\ pc = "idle"
  /\ pc = "begin" => Ready(Len(events) + 1, OpenStates)
  /\ pc \in working => Ready(Len(events) + 1, {"WORKING"})

\* Enqueueing an event keeps that up when the task will be ready for it, and
\* behind it for what execute() is to do next.
LEMMA OneCallEnqueued ==
  ASSUME NEW E, events \in Seq(E), NEW working, OneCallInv(working),
         NEW event \in E, Enqueue(event), UNCHANGED <<sent, task>>, served' # 0,
         Ready(Len(events) + 1, Needs(event, {"WORKING"})),
         event.kind = "status" => event.state \in {"WORKING"} \union ActionableStates,
         pc' = "begin" =>
           event.kind = "task" \/ (event.kind = "status" /\ event.state = "CANCELED"),
         pc' \in working =>
           \/ event.kind = "status" /\ event.state \in {"WORKING", "CANCELED"}
           \/ ~ChangesState(event)
  PROVE  OneCallInv(working)'
<1>1. QueueInv({"WORKING"})'
  BY QueueEnqueued DEF OneCallInv, OpenStates
<1>2. pc' = "begin" => Ready(Len(events) + 1, OpenStates)'
  <2>1. SUFFICES ASSUME pc' = "begin" PROVE Ready(Len(events) + 1, OpenStates)'
    OBVIOUS
  <2>2. ChangesState(event) /\ StateOf(event) \in OpenStates \union TerminalStates
    BY <2>1 DEF ChangesState, StateOf, OpenStates, TerminalStates
  <2> QED
    BY <2>2, ReadyBehind
<1>3. pc' \in working => Ready(Len(events) + 1, {"WORKING"})'
  <2>1. SUFFICES ASSUME pc' \in working PROVE Ready(Len(events) + 1, {"WORKING"})'
    OBVIOUS
  <2>2. CASE event.kind = "status" /\ event.state \in {"WORKING", "CANCELED"}
    <3>1. ChangesState(event) /\ StateOf(event) \in {"WORKING"} \union TerminalStates
      BY <2>2 DEF ChangesState, StateOf, TerminalStates
    <3> QED
      BY <3>1, ReadyBehind
  <2>3. CASE ~ChangesState(event)
    <3>1. Needs(event, {"WORKING"}) = {"WORKING"}
      BY <2>3 DEF ChangesState, Needs
    <3> QED
      BY <2>3, <3>1, ReadyBehind
  <2> QED
    BY <2>1, <2>2, <2>3
<1> QED
  BY <1>1, <1>2, <1>3 DEF OneCallInv

\* The one request is served on a task that is not there yet.
LEMMA OneCallServed ==
  ASSUME NEW E, events \in Seq(E), NEW R, sent \in Seq(R), served \in 0..Len(sent),
         NEW working, "begin" \notin working, OneCallInv(working),
         TaskEvent \in E, CanServe, Enqueue(TaskEvent), pc' = "begin",
         served' = served + 1, UNCHANGED <<sent, task>>
  PROVE  /\ OneCallInv(working)'
         /\ served = 0 /\ served' = 1 /\ Len(sent) = 1
         /\ task.state = "NONE" /\ events = <<>>
<1>1. served = 0 /\ served' = 1 /\ Len(sent) = 1
  <2>1. PICK n \in Nat : n = Len(sent)
    OBVIOUS
  <2>2. served \in 0..n /\ n <= 1 /\ served < n
    BY <2>1 DEF CanServe, OneCallInv
  <2>3. served = 0 /\ n = 1
    BY <2>2
  <2> QED
    BY <2>1, <2>3
<1>2. task.state = "NONE" /\ events = <<>>
  BY <1>1 DEF OneCallInv
<1>3. PICK event \in E : event = TaskEvent
  OBVIOUS
<1>4. event.kind = "task" /\ Needs(event, {"WORKING"}) = {"NONE"}
  BY <1>3 DEF TaskEvent, Needs
<1>5. Ready(Len(events) + 1, Needs(event, {"WORKING"}))
  BY <1>2, <1>4, ReadyFirst
<1>6. OneCallInv(working)'
  BY <1>1, <1>3, <1>4, <1>5, OneCallEnqueued
<1> QED
  BY <1>1, <1>2, <1>6

\* Storing an event keeps it up.
LEMMA OneCallStored ==
  ASSUME NEW E, events \in Seq(E), NEW working, OneCallInv(working), Takes,
         UNCHANGED <<sent, served, pc>>
  PROVE  OneCallInv(working)' /\ ~Finished /\ task'.state # "NONE" /\ served # 0
<1>1. QueueInv({"WORKING"})' /\ ~Finished
  BY QueueTaken, TakenInState DEF OneCallInv
<1>2. served # 0
  BY DEF OneCallInv, Takes
<1>3. \A S : Ready(Len(events) + 1, S) => Ready(Len(events) + 1, S)'
  BY <1>1, ReadyStays
<1>4. pc' = "begin" => Ready(Len(events) + 1, OpenStates)'
  BY <1>3 DEF OneCallInv
<1>5. pc' \in working => Ready(Len(events) + 1, {"WORKING"})'
  BY <1>3 DEF OneCallInv
<1>6. task'.state # "NONE"
  BY TakenInState
     DEF OneCallInv, Takes, ChangesState, StateOf, Needs, ActionableStates, TerminalStates
<1> QED
  BY <1>1, <1>2, <1>4, <1>5, <1>6 DEF OneCallInv

\* A cancel keeps it up, wherever execute() is interrupted.
LEMMA OneCallCancelled ==
  ASSUME NEW E, events \in Seq(E), NEW working, "idle" \notin working, OneCallInv(working),
         StatusEvent("CANCELED", "none") \in E, AcceptCancel,
         Enqueue(StatusEvent("CANCELED", "none"))
  PROVE  OneCallInv(working)'
<1>1. PICK event \in E : event = StatusEvent("CANCELED", "none")
  OBVIOUS
<1>2. /\ Enqueue(event) /\ Exists /\ pc' \in {pc, "idle"} /\ UNCHANGED <<sent, served, task>>
  BY <1>1 DEF AcceptCancel
<1>3. /\ event.kind = "status" /\ event.state = "CANCELED"
      /\ Needs(event, {"WORKING"}) = OpenStates
  BY <1>1 DEF StatusEvent, Needs
<1>4. served' # 0
  BY <1>2 DEF OneCallInv, Exists
<1>5. Ready(Len(events) + 1, OpenStates)
  BY <1>2, ReadyForMore DEF OneCallInv
<1> QED
  BY <1>2, <1>3, <1>4, <1>5, OneCallEnqueued DEF ActionableStates, TerminalStates

\* The request keeps it up: it is the only one.
LEMMA OneCallSent ==
  ASSUME NEW notes, sent \in Seq([text : Messages, shown : notes]), task.note \in notes,
         NEW m, Messages = {m}, NEW working, OneCallInv(working), SendMessage(m)
  PROVE  OneCallInv(working)' /\ Len(sent) = 0
<1> DEFINE Requests == [text : Messages, shown : notes]
           request == [text |-> m, shown |-> task.note]
<1>1. request \in Requests /\ \A r \in Requests : r.text = m
  OBVIOUS
<1>2. /\ sent \in Seq(Requests) /\ sent' = Append(sent, request)
      /\ \A i \in 1..Len(sent) : sent[i].text # m
      /\ UNCHANGED <<served, pc, events, task>>
  BY DEF SendMessage
<1>3. Len(sent) \in Nat /\ Len(sent) <= 1
  BY DEF OneCallInv
<1> HIDE DEF Requests, request
<1>4. \A i \in 1..Len(sent) : sent[i] \in Requests
  BY <1>2, ElementOfSeq
<1>5. Len(sent) = 0
  BY <1>1, <1>2, <1>3, <1>4
<1>6. Len(sent') = 1
  BY <1>1, <1>2, <1>5
<1> QED
  BY <1>2, <1>5, <1>6, NothingMoved DEF OneCallInv

\* A restart keeps it up.
LEMMA OneCallRestarted ==
  ASSUME NEW R, sent \in Seq(R), served \in 0..Len(sent), task.state \in States,
         NEW working, "idle" \notin working, OneCallInv(working),
         RestartServer
  PROVE  OneCallInv(working)'
<1>1. /\ served' = Len(sent) /\ pc' = "idle" /\ events' = <<>> /\ task' = NoTask
      /\ sent' = sent
  BY DEF RestartServer
<1>2. task'.state \in States
  BY <1>1 DEF NoTask, States
<1>3. QueueInv({"WORKING"})'
  BY <1>1, <1>2, QueueEmptied
<1>4. served' = 0 => served = 0
  BY <1>1
<1> QED
  BY <1>1, <1>3, <1>4 DEF OneCallInv, NoTask

\* Nobody has asked yet.
LEMMA OneCallInit ==
  ASSUME RuntimeInit, NEW working, "idle" \notin working
  PROVE  OneCallInv(working)
<1>1. /\ sent = <<>> /\ events = <<>> /\ pc = "idle" /\ served = 0
      /\ task.state = "NONE" /\ task.note = "none" /\ task.artifacts = {}
  BY DEF RuntimeInit, NoTask
<1>2. QueueInv({"WORKING"})
  BY <1>1, EmptyQueue DEF States
<1> QED
  BY <1>1, <1>2 DEF OneCallInv

(***************************************************************************)
(* An agent that publishes its result and then completes: the result       *)
(* travels ahead of the completion, which needs it unless it says what is  *)
(* missing from the request.                                               *)
(***************************************************************************)
ResultInv(id) ==
  /\ pc = "complete" => Finished \/ Coming(id, Len(events) + 1)
  /\ CompletesWith(id, {"missing"})

\* Enqueueing keeps that up.
LEMMA ResultEnqueued ==
  ASSUME NEW E, events \in Seq(E), NEW id, ResultInv(id), Finished => events = <<>>,
         NEW event \in E, Enqueue(event), UNCHANGED task,
         event.kind = "status" /\ event.state = "COMPLETED" =>
           event.note = "missing" \/ Finished \/ Coming(id, Len(events) + 1),
         pc' = "complete" =>
           \/ pc = "complete"
           \/ event.kind = "artifact" /\ event.artifact.id = id
  PROVE  ResultInv(id)'
<1>1. pc' = "complete" => Finished' \/ Coming(id, Len(events) + 1)'
  BY ComingBehind DEF ResultInv
<1>2. CompletesWith(id, {"missing"})'
  BY CompletionEnqueued DEF ResultInv
<1> QED
  BY <1>1, <1>2 DEF ResultInv

\* So does storing.
LEMMA ResultStored ==
  ASSUME NEW notes, NEW artifacts, RuntimeTypeOK(notes, artifacts), Consume,
         NEW id, ResultInv(id), ~Finished
  PROVE  ResultInv(id)'
<1>1. pc' = pc
  BY DEF Consume
<1>2. pc' = "complete" => Finished' \/ Coming(id, Len(events) + 1)'
  BY <1>1, ComingKeepsUp DEF ResultInv
<1>3. CompletesWith(id, {"missing"})'
  BY CompletionTaken DEF ResultInv
<1> QED
  BY <1>2, <1>3 DEF ResultInv

\* So does a restart.
LEMMA ResultRestarted ==
  ASSUME NEW id, ResultInv(id), RestartServer
  PROVE  ResultInv(id)'
<1>1. pc' = "idle" /\ events' = <<>> /\ task' = NoTask
  BY DEF RestartServer
<1> QED
  BY <1>1 DEF ResultInv, CompletesWith, Delivered, NoTask

\* Such an agent serves its one call: in `working` it has said that it works,
\* in `complete` it has published `result` as well.
PublisherInv(working, result) == OneCallInv(working) /\ ResultInv(result.id)

\* A step of execute() keeps that up when it enqueues an event in its turn.
LEMMA PublisherStepped ==
  ASSUME NEW notes, NEW result, RuntimeTypeOK(notes, {result}),
         NEW working, working \intersect {"idle", "begin"} = {}, PublisherInv(working, result),
         NEW event \in EventsWith(notes, {result}), Enqueue(event),
         UNCHANGED <<sent, served, cancelled, task>>,
         pc \in {"begin"} \union working, pc' \in {"idle"} \union working,
         CASE event.kind = "status" /\ event.state = "WORKING" -> pc' # "complete"
           [] event.kind = "status" /\ event.state = "FAILED" -> pc # "begin" /\ pc' = "idle"
           [] event.kind = "status" /\ event.state = "COMPLETED" ->
                pc # "begin" /\ pc' = "idle" /\ (pc = "complete" \/ event.note = "missing")
           [] event.kind = "artifact" -> pc # "begin"
           [] OTHER -> FALSE
  PROVE  PublisherInv(working, result)' /\ RuntimeTypeOK(notes, {result})'
<1>1. events \in Seq(EventsWith(notes, {result}))
  BY DEF RuntimeTypeOK
<1>2. /\ pc = "begin" => Ready(Len(events) + 1, OpenStates)
      /\ pc # "begin" => Ready(Len(events) + 1, {"WORKING"})
      /\ pc = "complete" => Finished \/ Coming(result.id, Len(events) + 1)
      /\ CompletesWith(result.id, {"missing"})
      /\ Finished => events = <<>>
      /\ served' # 0
  BY DEF PublisherInv, OneCallInv, ResultInv, QueueInv
<1>3. /\ event.kind \in {"status", "artifact"}
      /\ event.kind = "status" => event.state \in {"WORKING", "FAILED", "COMPLETED"}
      /\ event.kind = "artifact" => event.artifact = result
  BY DEF EventsWith
<1>4. Ready(Len(events) + 1, Needs(event, {"WORKING"}))
  <2>1. CASE event.kind = "status" /\ event.state = "WORKING"
    <3>1. Needs(event, {"WORKING"}) = OpenStates
      BY <2>1 DEF Needs
    <3>2. Ready(Len(events) + 1, OpenStates)
      BY <1>2, ReadyWeaker DEF OpenStates
    <3> QED
      BY <3>1, <3>2
  <2>2. CASE ~(event.kind = "status" /\ event.state = "WORKING")
    <3>1. Needs(event, {"WORKING"}) = {"WORKING"} /\ pc # "begin"
      BY <1>3, <2>2 DEF Needs
    <3> QED
      BY <1>2, <3>1
  <2> QED
    BY <2>1, <2>2
<1>5. OneCallInv(working)'
  <2>1. pc' # "begin"
    OBVIOUS
  <2>2. event.kind = "status" => event.state \in {"WORKING"} \union ActionableStates
    BY <1>3 DEF ActionableStates, TerminalStates
  <2>3. pc' \in working =>
          \/ event.kind = "status" /\ event.state \in {"WORKING", "CANCELED"}
          \/ ~ChangesState(event)
    BY <1>3 DEF ChangesState
  <2> QED
    BY <1>1, <1>2, <1>4, <2>1, <2>2, <2>3, OneCallEnqueued DEF PublisherInv
<1>6. ResultInv(result.id)'
  <2>1. event.kind = "status" /\ event.state = "COMPLETED" =>
          event.note = "missing" \/ Finished \/ Coming(result.id, Len(events) + 1)
    BY <1>2
  <2>2. pc' = "complete" =>
          pc = "complete" \/ (event.kind = "artifact" /\ event.artifact.id = result.id)
    BY <1>3
  <2> QED
    BY <1>1, <1>2, <2>1, <2>2, ResultEnqueued DEF PublisherInv
<1>7. RuntimeTypeOK(notes, {result})'
  BY EnqueueTyped DEF RuntimeTypeOK
<1> QED
  BY <1>5, <1>6, <1>7 DEF PublisherInv

\* So does the call itself.
LEMMA PublisherServed ==
  ASSUME NEW notes, NEW result, RuntimeTypeOK(notes, {result}),
         NEW working, working \intersect {"idle", "begin"} = {}, PublisherInv(working, result),
         CanServe, Enqueue(TaskEvent), pc' = "begin",
         served' = served + 1, UNCHANGED <<sent, cancelled, task>>
  PROVE  PublisherInv(working, result)' /\ RuntimeTypeOK(notes, {result})'
<1>1. PICK event \in EventsWith(notes, {result}) : event = TaskEvent
  BY EventsTyped
<1>2. /\ sent \in Seq([text : Messages, shown : notes]) /\ served \in 0..Len(sent)
      /\ events \in Seq(EventsWith(notes, {result}))
  BY DEF RuntimeTypeOK
<1>3. /\ OneCallInv(working)' /\ served' = 1 /\ Len(sent) = 1 /\ events = <<>>
  BY <1>1, <1>2, OneCallServed DEF PublisherInv
<1>4. event.kind = "task"
  BY <1>1 DEF TaskEvent
<1>5. ResultInv(result.id)'
  BY <1>1, <1>2, <1>3, <1>4, ResultEnqueued DEF PublisherInv
<1>6. RuntimeTypeOK(notes, {result})'
  BY <1>1, <1>2, <1>3, EnqueueAppends DEF RuntimeTypeOK
<1> QED
  BY <1>3, <1>5, <1>6 DEF PublisherInv

\* So does storing an event.
LEMMA PublisherStored ==
  ASSUME NEW notes, NEW result, RuntimeTypeOK(notes, {result}),
         NEW working, PublisherInv(working, result), Consume
  PROVE  /\ PublisherInv(working, result)' /\ RuntimeTypeOK(notes, {result})'
         /\ ~Finished
<1>1. /\ Takes /\ events \in Seq(EventsWith(notes, {result})) /\ UNCHANGED <<sent, served, pc>>
      /\ RuntimeTypeOK(notes, {result})'
  BY ConsumeTyped DEF Consume, RuntimeTypeOK
<1>2. OneCallInv(working)' /\ ~Finished
  BY <1>1, OneCallStored DEF PublisherInv
<1>3. ResultInv(result.id)'
  BY <1>2, ResultStored DEF PublisherInv
<1> QED
  BY <1>1, <1>2, <1>3 DEF PublisherInv

\* So does a cancel, wherever execute() is interrupted.
LEMMA PublisherCancelled ==
  ASSUME NEW notes, "none" \in notes, NEW result, RuntimeTypeOK(notes, {result}),
         NEW working, "idle" \notin working, PublisherInv(working, result),
         AcceptCancel, Enqueue(StatusEvent("CANCELED", "none"))
  PROVE  /\ PublisherInv(working, result)' /\ RuntimeTypeOK(notes, {result})'
         /\ pc' \in {pc, "idle"}
<1>1. PICK event \in EventsWith(notes, {result}) : event = StatusEvent("CANCELED", "none")
  BY EventsTyped DEF States, ActionableStates, TerminalStates
<1>2. /\ pc' \in {pc, "idle"} /\ cancelled' = TRUE /\ UNCHANGED <<sent, served, task>>
      /\ events \in Seq(EventsWith(notes, {result}))
  BY DEF AcceptCancel, RuntimeTypeOK
<1>3. OneCallInv(working)'
  BY <1>1, <1>2, OneCallCancelled DEF PublisherInv
<1>4. event.kind = "status" /\ event.state = "CANCELED"
  BY <1>1 DEF StatusEvent
<1>5. ResultInv(result.id)'
  BY <1>1, <1>2, <1>4, ResultEnqueued DEF PublisherInv, OneCallInv, QueueInv
<1>6. RuntimeTypeOK(notes, {result})'
  BY <1>1, <1>2, EnqueueTyped
<1> QED
  BY <1>2, <1>3, <1>5, <1>6 DEF PublisherInv

\* So does the request: it is the only one.
LEMMA PublisherAsked ==
  ASSUME NEW notes, NEW result, RuntimeTypeOK(notes, {result}),
         NEW working, PublisherInv(working, result),
         NEW m, Messages = {m}, SendMessage(m)
  PROVE  PublisherInv(working, result)' /\ RuntimeTypeOK(notes, {result})'
<1>1. RuntimeTypeOK(notes, {result})' /\ UNCHANGED <<pc, events, task>>
  BY SendTyped DEF SendMessage
<1>2. OneCallInv(working)'
  BY OneCallSent DEF RuntimeTypeOK, RecordsWith, PublisherInv
<1>3. ResultInv(result.id)'
  BY <1>1, NothingMoved DEF PublisherInv, ResultInv
<1> QED
  BY <1>1, <1>2, <1>3 DEF PublisherInv

\* So does a restart.
LEMMA PublisherRestarted ==
  ASSUME NEW notes, "none" \in notes, NEW result, RuntimeTypeOK(notes, {result}),
         NEW working, "idle" \notin working, PublisherInv(working, result),
         RestartServer
  PROVE  PublisherInv(working, result)' /\ RuntimeTypeOK(notes, {result})'
<1>1. RuntimeTypeOK(notes, {result})'
  BY RestartTyped
<1>2. /\ sent \in Seq([text : Messages, shown : notes]) /\ served \in 0..Len(sent)
      /\ task.state \in States
  BY DEF RuntimeTypeOK, RecordsWith
<1>3. OneCallInv(working)'
  BY <1>2, OneCallRestarted DEF PublisherInv
<1>4. ResultInv(result.id)'
  BY ResultRestarted DEF PublisherInv
<1> QED
  BY <1>1, <1>3, <1>4 DEF PublisherInv

\* It holds of a server that has not seen a request yet.
LEMMA PublisherInit ==
  ASSUME RuntimeInit, NEW working, "idle" \notin working, NEW result
  PROVE  PublisherInv(working, result)
<1>1. events = <<>> /\ pc = "idle" /\ task.state = "NONE"
  BY DEF RuntimeInit, NoTask
<1>2. ResultInv(result.id)
  BY <1>1 DEF ResultInv, CompletesWith
<1> QED
  BY <1>2, OneCallInit DEF PublisherInv

-----------------------------------------------------------------------------
\* The promise of TaskLifecycle about the stored task, for an agent with this
\* result, these explanations and these busy states, on a server that may or
\* may not restart.
Promise(result, explanations, busy, restarting) == INSTANCE TaskLifecycle WITH
  state <- task.state, note <- task.note, artifacts <- task.artifacts,
  Result <- result, Explanations <- explanations, Busy <- busy, Restarts <- restarting

\* Storing the first event is a step the promise allows: the task is ready for
\* the event, an artifact replaces no other one, and a completion comes with
\* the result or the reason.
LEMMA StoreKeepsPromise ==
  ASSUME NEW notes, NEW artifacts, RuntimeTypeOK(notes, artifacts), Consume,
         NEW busy, busy \subseteq OpenStates, QueueInv(busy),
         NEW result, NEW explanations, NEW restarting,
         events[1].kind = "artifact" =>
           \A a \in task.artifacts : a.id = events[1].artifact.id => a = events[1].artifact,
         events[1].kind = "status" /\ events[1].state = "COMPLETED" =>
           task.artifacts \intersect result # {} \/ events[1].note \in explanations
  PROVE  Promise(result, explanations, busy, restarting)!Next
<1>1. /\ Takes
      /\ events[1] \in EventsWith(notes, artifacts)
      /\ task'.note = IF events[1].kind = "status" THEN events[1].note ELSE task.note
      /\ task'.artifacts =
           IF events[1].kind = "artifact"
           THEN {a \in task.artifacts : a.id # events[1].artifact.id} \union {events[1].artifact}
           ELSE task.artifacts
  BY ConsumeTyped
<1>2. /\ task.state \in Needs(events[1], busy)
      /\ events[1].kind = "status" => events[1].state \in {"WORKING"} \union ActionableStates
  BY <1>1, TakenInState DEF RuntimeTypeOK
<1>3. task'.state = IF ChangesState(events[1]) THEN StateOf(events[1]) ELSE task.state
  BY <1>1 DEF Takes
<1>4. CASE events[1].kind = "task"
  <2>1. Promise(result, explanations, busy, restarting)!Submit
    BY <1>1, <1>2, <1>3, <1>4 DEF Promise!Submit, Needs, ChangesState, StateOf
  <2> QED
    BY <2>1 DEF Promise!Next
<1>5. CASE events[1].kind = "artifact"
  <2>1. task'.state = task.state /\ task'.note = task.note /\ task.state \in busy
    BY <1>1, <1>2, <1>3, <1>5 DEF Needs, ChangesState
  <2>2. task.artifacts \subseteq task'.artifacts
    BY <1>1, <1>5
  <2>3. Promise(result, explanations, busy, restarting)!Deliver
    BY <2>1, <2>2 DEF Promise!Deliver
  <2> QED
    BY <2>3 DEF Promise!Next
<1>6. CASE events[1].kind = "status"
  <2>1. /\ task'.state = events[1].state /\ task'.note = events[1].note
        /\ task'.artifacts = task.artifacts
    BY <1>1, <1>3, <1>6 DEF ChangesState, StateOf
  <2>2. CASE events[1].state = "WORKING"
    <3>1. task.state \in OpenStates
      BY <1>2, <1>6, <2>2 DEF Needs
    <3>2. Promise(result, explanations, busy, restarting)!Work
      BY <2>1, <2>2, <3>1 DEF Promise!Work, Promise!Open, OpenStates
    <3> QED
      BY <3>2 DEF Promise!Next
  <2>3. CASE events[1].state = "CANCELED"
    <3>1. task.state \in OpenStates
      BY <1>2, <1>6, <2>3 DEF Needs
    <3>2. Promise(result, explanations, busy, restarting)!Cancel
      BY <2>1, <2>3, <3>1 DEF Promise!Cancel, Promise!Open, OpenStates
    <3> QED
      BY <3>2 DEF Promise!Next
  <2>4. CASE events[1].state \in {"INPUT_REQUIRED", "FAILED", "COMPLETED"}
    <3>1. task.state \in busy
      BY <1>2, <1>6, <2>4 DEF Needs
    <3>2. CASE events[1].state = "INPUT_REQUIRED"
      <4>1. Promise(result, explanations, busy, restarting)!Pause
        BY <2>1, <3>1, <3>2 DEF Promise!Pause
      <4> QED
        BY <4>1 DEF Promise!Next
    <3>3. CASE events[1].state = "FAILED"
      <4>1. Promise(result, explanations, busy, restarting)!Fail
        BY <2>1, <3>1, <3>3 DEF Promise!Fail
      <4> QED
        BY <4>1 DEF Promise!Next
    <3>4. CASE events[1].state = "COMPLETED"
      <4>1. Promise(result, explanations, busy, restarting)!Complete
        BY <1>6, <2>1, <3>1, <3>4 DEF Promise!Complete
      <4> QED
        BY <4>1 DEF Promise!Next
    <3> QED
      BY <2>4, <3>2, <3>3, <3>4
  <2> QED
    BY <1>2, <1>6, <2>2, <2>3, <2>4 DEF ActionableStates, TerminalStates
<1> QED
  BY <1>1, <1>4, <1>5, <1>6 DEF EventsWith

\* An agent that publishes its result and then completes keeps the promise.
LEMMA PublisherKeepsPromise ==
  ASSUME NEW notes, NEW result, RuntimeTypeOK(notes, {result}),
         NEW working, PublisherInv(working, result), Consume, NEW restarting
  PROVE  Promise({result}, {"missing"}, {"WORKING"}, restarting)!Next
<1>1. Len(events) \in Nat \ {0} /\ events[1] \in EventsWith(notes, {result})
  BY ConsumeTyped, TakesFirst DEF RuntimeTypeOK
<1>2. events[1].kind = "artifact" =>
        \A a \in task.artifacts : a.id = events[1].artifact.id => a = events[1].artifact
  BY <1>1 DEF RuntimeTypeOK, RecordsWith, EventsWith
<1>3. events[1].kind = "status" /\ events[1].state = "COMPLETED" =>
        task.artifacts \intersect {result} # {} \/ events[1].note \in {"missing"}
  <2>1. Coming(result.id, 1) => result \in task.artifacts
    BY <1>1 DEF Coming, Delivered, RuntimeTypeOK, RecordsWith
  <2> QED
    BY <1>1, <2>1 DEF PublisherInv, ResultInv, CompletesWith
<1> QED
  BY <1>2, <1>3, StoreKeepsPromise DEF PublisherInv, OneCallInv, OpenStates
=============================================================================
