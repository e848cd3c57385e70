------------------------- MODULE AuthClients_proofs -------------------------
(***************************************************************************)
(* Theorems about AuthClients, for every set of calls and of keys and      *)
(* every assignment of users to the valid ones.                            *)
(***************************************************************************)
EXTENDS AuthClients, TLAPS, SequenceTheorems

Events == [state : {"SUBMITTED", "COMPLETED"}] \union [greeting : Users]

Records == [owner : Users \union {"none"},
            state : {"NONE", "SUBMITTED", "COMPLETED"},
            greeting : Users \union {"none"}]

\* The type invariant.
TypeOK ==
  /\ api_key \in [Calls -> Keys]
  /\ pc \in [Calls -> {"none", "begin", "greet", "complete", "idle"}]
  /\ events \in [Calls -> Seq(Events)]
  /\ cancelled \in [Calls -> BOOLEAN]
  /\ store \in [Calls -> Records]
  /\ caller \in [Calls -> {"start", "ready", "sending", "listing"} \union Ended]
  /\ printed \in [Calls -> Users \union {"none"}]
  /\ listed \in [Calls -> SUBSET Calls]

Valid(c) == api_key[c] \in DOMAIN VALID_API_KEYS

\* The three events of a call, in the order execute() enqueues them, and the
\* task after the first j of them.
Event(c, i) ==
  CASE i = 1 -> [state |-> "SUBMITTED"]
    [] i = 2 -> [greeting |-> User(c)]
    [] OTHER -> [state |-> "COMPLETED"]

TaskAfter(c, j) ==
  [owner    |-> IF j = 0 THEN "none" ELSE User(c),
   state    |-> IF j = 0 THEN "NONE" ELSE IF j = 3 THEN "COMPLETED" ELSE "SUBMITTED",
   greeting |-> IF j < 2 THEN "none" ELSE User(c)]

\* The number of events execute() has enqueued when it stands before its next
\* one; a call that was interrupted may have stopped anywhere.
Enqueued(place) ==
  CASE place = "greet" -> {1}
    [] place = "complete" -> {2}
    [] place = "idle" -> 0..3
    [] OTHER -> {0}

\* What has been stored and what is still queued are, in this order, the events
\* enqueued so far.
CallInv(c) ==
  /\ \E j \in 0..3 :
       /\ store[c] = TaskAfter(c, j)
       /\ j + Len(events[c]) \in Enqueued(pc[c])
       /\ \A i \in 1..Len(events[c]) : events[c][i] = Event(c, j + i)
  /\ pc[c] # "none" => Valid(c)
  /\ caller[c] \in {"start", "ready"} => pc[c] = "none"
  /\ caller[c] \in {"sending", "listing", "done"} => Valid(c)
  /\ printed[c] = "none" \/ (Valid(c) /\ printed[c] = User(c))
  /\ caller[c] \in {"listing", "done"} => printed[c] # "none" /\ Finished(c)
  /\ caller[c] = "done" => c \in listed[c]
  /\ \A d \in listed[c] : SameUser(c, d)

CallsInv == \A c \in Calls : CallInv(c)

-----------------------------------------------------------------------------
\* The user of a call with a valid key is the one of that key, and no call
\* passes for anonymous.
LEMMA UserOfKey ==
  ASSUME NEW c \in Calls, Valid(c)
  PROVE  /\ User(c) = VALID_API_KEYS[api_key[c]]
         /\ User(c) \in Users
         /\ User(c) \notin {Anonymous, Rejected, "none"}
<1>1. User(c) = VALID_API_KEYS[api_key[c]]
  BY DEF User, Authenticate, Valid
<1>2. VALID_API_KEYS[api_key[c]] \in Users
  BY DEF Users, Valid
<1> QED
  BY <1>1, <1>2, ServerAssumption

\* A call that is not refused carries a valid key.
LEMMA AdmittedIsValid ==
  ASSUME NEW c \in Calls, User(c) # Rejected
  PROVE  Valid(c)
BY DEF User, Authenticate, Valid

\* The events of a call with a valid key are events.
LEMMA EventType ==
  ASSUME NEW c \in Calls, Valid(c), NEW i \in 1..3
  PROVE  Event(c, i) \in Events
BY UserOfKey DEF Event, Events

-----------------------------------------------------------------------------
\* Every step of execute() enqueues the next event of its call and goes on.
LEMMA Executing ==
  ASSUME TypeOK, CallsInv, NEW c \in Calls, Announce(c) \/ Greet(c) \/ Complete(c)
  PROVE  \E n \in 0..2 : \E next \in {"greet", "complete", "idle"} :
           /\ Valid(c)
           /\ Enqueued(pc[c]) = {n}
           /\ n + 1 \in Enqueued(next)
           /\ events' = [events EXCEPT ![c] = Append(@, Event(c, n + 1))]
           /\ pc' = [pc EXCEPT ![c] = next]
           /\ UNCHANGED <<api_key, cancelled, store>>
<1>1. CASE Announce(c)
  <2>1. Valid(c)
    BY <1>1 DEF Announce, Step, CallsInv, CallInv
  <2>2. /\ Enqueued(pc[c]) = {0} /\ 1 \in Enqueued("greet")
        /\ events' = [events EXCEPT ![c] = Append(@, Event(c, 1))]
        /\ pc' = [pc EXCEPT ![c] = "greet"]
        /\ UNCHANGED <<api_key, cancelled, store>>
    BY <1>1 DEF Announce, Step, Event, Enqueued
  <2> QED
    BY <2>1, <2>2
<1>2. CASE Greet(c)
  <2>1. Valid(c)
    BY <1>2 DEF Greet, Step, CallsInv, CallInv
  <2>2. /\ Enqueued(pc[c]) = {1} /\ 2 \in Enqueued("complete")
        /\ events' = [events EXCEPT ![c] = Append(@, Event(c, 2))]
        /\ pc' = [pc EXCEPT ![c] = "complete"]
        /\ UNCHANGED <<api_key, cancelled, store>>
    <3>1. (IF User(c) = Anonymous THEN "(anonymous)" ELSE User(c)) = User(c)
      BY <2>1, UserOfKey
    <3>2. Event(c, 2) = [greeting |-> User(c)]
      BY DEF Event
    <3> QED
      BY <1>2, <3>1, <3>2 DEF Greet, Step, Enqueued
  <2> QED
    BY <2>1, <2>2
<1>3. CASE Complete(c)
  <2>1. Valid(c)
    BY <1>3 DEF Complete, Step, CallsInv, CallInv
  <2>2. /\ Enqueued(pc[c]) = {2} /\ 3 \in Enqueued("idle")
        /\ events' = [events EXCEPT ![c] = Append(@, Event(c, 3))]
        /\ pc' = [pc EXCEPT ![c] = "idle"]
        /\ UNCHANGED <<api_key, cancelled, store>>
    BY <1>3 DEF Complete, Step, Event, Enqueued
  <2> QED
    BY <2>1, <2>2
<1> QED
  BY <1>1, <1>2, <1>3

\* Storing an event of a call brings its task one event further.
LEMMA StoringNext ==
  ASSUME TypeOK, CallsInv, NEW c \in Calls, Store(c)
  PROVE  \E j \in 0..2 :
           /\ Valid(c)
           /\ store[c] = TaskAfter(c, j)
           /\ store' = [store EXCEPT ![c] = TaskAfter(c, j + 1)]
           /\ events[c] \in Seq(Events) /\ Len(events[c]) \in 1..(3 - j)
           /\ j + Len(events[c]) \in Enqueued(pc[c])
           /\ \A i \in 1..Len(events[c]) : events[c][i] = Event(c, j + i)
           /\ events' = [events EXCEPT ![c] = Tail(@)]
           /\ UNCHANGED <<api_key, pc, cancelled>>
<1>1. PICK j \in 0..3 :
        /\ store[c] = TaskAfter(c, j)
        /\ j + Len(events[c]) \in Enqueued(pc[c])
        /\ \A i \in 1..Len(events[c]) : events[c][i] = Event(c, j + i)
  BY DEF CallsInv, CallInv
<1>2. events[c] \in Seq(Events) /\ events[c] # <<>> /\ Len(events[c]) \in Nat \ {0}
  BY DEF TypeOK, Store
<1>3. j + Len(events[c]) \in 0..3
  BY <1>1, <1>2 DEF Enqueued
<1>4. pc[c] # "none"
  BY <1>1, <1>2 DEF Enqueued
<1>5. Valid(c) /\ j \in 0..2 /\ Len(events[c]) \in 1..(3 - j)
  BY <1>2, <1>3, <1>4 DEF CallsInv, CallInv
<1>6. Head(events[c]) = Event(c, j + 1)
  BY <1>1, <1>2, <1>5
<1>7. store' = [store EXCEPT ![c] = TaskAfter(c, j + 1)]
  <2> DEFINE after(event) == IF "state" \in DOMAIN event
                             THEN [store[c] EXCEPT !.owner = User(c), !.state = event.state]
                             ELSE [store[c] EXCEPT !.greeting = event.greeting]
  <2>1. store' = [store EXCEPT ![c] = after(Event(c, j + 1))]
    BY <1>6 DEF Store
  <2>2. CASE j = 0
    <3>1. Event(c, j + 1) = [state |-> "SUBMITTED"]
      BY <2>2 DEF Event
    <3>2. /\ store[c] = [owner |-> "none", state |-> "NONE", greeting |-> "none"]
          /\ TaskAfter(c, j + 1) = [owner |-> User(c), state |-> "SUBMITTED", greeting |-> "none"]
      BY <1>1, <2>2 DEF TaskAfter
    <3>3. after([state |-> "SUBMITTED"]) = [owner |-> User(c), state |-> "SUBMITTED", greeting |-> "none"]
      <4>1. "state" \in DOMAIN [state |-> "SUBMITTED"]
        OBVIOUS
      <4>2. [store[c] EXCEPT !.owner = User(c), !.state = "SUBMITTED"]
              = [[store[c] EXCEPT !.owner = User(c)] EXCEPT !.state = "SUBMITTED"]
        BY <3>2
      <4>3. [store[c] EXCEPT !.owner = User(c)]
              = [owner |-> User(c), state |-> "NONE", greeting |-> "none"]
        BY <3>2
      <4>4. [[owner |-> User(c), state |-> "NONE", greeting |-> "none"]
               EXCEPT !.state = "SUBMITTED"]
              = [owner |-> User(c), state |-> "SUBMITTED", greeting |-> "none"]
        OBVIOUS
      <4> QED
        BY <4>1, <4>2, <4>3, <4>4
    <3>4. after(Event(c, j + 1)) = TaskAfter(c, j + 1)
      BY <3>1, <3>2, <3>3
    <3> QED
      BY <2>1, <3>4
  <2>3. CASE j = 1
    <3>1. Event(c, j + 1) = [greeting |-> User(c)]
      BY <2>3 DEF Event
    <3>2. /\ store[c] = [owner |-> User(c), state |-> "SUBMITTED", greeting |-> "none"]
          /\ TaskAfter(c, j + 1) = [owner |-> User(c), state |-> "SUBMITTED", greeting |-> User(c)]
      BY <1>1, <2>3 DEF TaskAfter
    <3>3. after([greeting |-> User(c)]) = [owner |-> User(c), state |-> "SUBMITTED", greeting |-> User(c)]
      BY <3>2
    <3>4. after(Event(c, j + 1)) = TaskAfter(c, j + 1)
      BY <3>1, <3>2, <3>3
    <3> QED
      BY <2>1, <3>4
  <2>4. CASE j = 2
    <3>1. Event(c, j + 1) = [state |-> "COMPLETED"]
      BY <2>4 DEF Event
    <3>2. /\ store[c] = [owner |-> User(c), state |-> "SUBMITTED", greeting |-> User(c)]
          /\ TaskAfter(c, j + 1) = [owner |-> User(c), state |-> "COMPLETED", greeting |-> User(c)]
      BY <1>1, <2>4 DEF TaskAfter
    <3>3. after([state |-> "COMPLETED"]) = [owner |-> User(c), state |-> "COMPLETED", greeting |-> User(c)]
      <4>1. "state" \in DOMAIN [state |-> "COMPLETED"]
        OBVIOUS
      <4>2. [store[c] EXCEPT !.owner = User(c), !.state = "COMPLETED"]
              = [[store[c] EXCEPT !.owner = User(c)] EXCEPT !.state = "COMPLETED"]
        BY <3>2
      <4>3. [store[c] EXCEPT !.owner = User(c)]
              = [owner |-> User(c), state |-> "SUBMITTED", greeting |-> User(c)]
        BY <3>2
      <4>4. [[owner |-> User(c), state |-> "SUBMITTED", greeting |-> User(c)]
               EXCEPT !.state = "COMPLETED"]
              = [owner |-> User(c), state |-> "COMPLETED", greeting |-> User(c)]
        OBVIOUS
      <4> QED
        BY <4>1, <4>2, <4>3, <4>4
    <3>4. after(Event(c, j + 1)) = TaskAfter(c, j + 1)
      BY <3>1, <3>2, <3>3
    <3> QED
      BY <2>1, <3>4
  <2> QED
    BY <1>5, <2>2, <2>3, <2>4
<1> QED
  BY <1>1, <1>2, <1>5, <1>7 DEF Store

-----------------------------------------------------------------------------
\* What a call and its caller have of their own.
Own(c) == <<pc[c], events[c], store[c], caller[c], printed[c], listed[c]>>

\* A step of one call leaves the others as they are.
LEMMA Elsewhere ==
  ASSUME NEW d \in Calls, CallInv(d), UNCHANGED <<api_key, Own(d)>>
  PROVE  CallInv(d)'
<1>1. /\ pc'[d] = pc[d] /\ events'[d] = events[d] /\ store'[d] = store[d]
      /\ caller'[d] = caller[d] /\ printed'[d] = printed[d] /\ listed'[d] = listed[d]
  BY DEF Own
<1>2. \A j : TaskAfter(d, j)' = TaskAfter(d, j)
  BY DEF TaskAfter, User, Authenticate
<1>3. \A i : Event(d, i)' = Event(d, i)
  BY DEF Event, User, Authenticate
<1>4. Valid(d)' = Valid(d) /\ User(d)' = User(d) /\ Finished(d)' = Finished(d)
  BY <1>1 DEF Valid, User, Finished, Authenticate
<1>5. \A e : SameUser(d, e)' = SameUser(d, e)
  BY DEF SameUser
<1>6. \E j \in 0..3 :
        /\ store'[d] = TaskAfter(d, j)'
        /\ j + Len(events'[d]) \in Enqueued(pc'[d])
        /\ \A i \in 1..Len(events'[d]) : events'[d][i] = Event(d, j + i)'
  <2>1. PICK j \in 0..3 :
          /\ store[d] = TaskAfter(d, j)
          /\ j + Len(events[d]) \in Enqueued(pc[d])
          /\ \A i \in 1..Len(events[d]) : events[d][i] = Event(d, j + i)
    BY DEF CallInv
  <2> QED
    BY <1>1, <1>2, <1>3, <2>1
<1> QED
  BY <1>1, <1>4, <1>5, <1>6 DEF CallInv

\* A step of the caller alone, or of the runtime without the store, leaves the
\* order of the call's events as it is.
LEMMA OrderKept ==
  ASSUME NEW c \in Calls, CallInv(c), UNCHANGED <<api_key, events, store>>,
         Enqueued(pc[c]) \subseteq Enqueued(pc'[c])
  PROVE  \E j \in 0..3 :
           /\ store'[c] = TaskAfter(c, j)'
           /\ j + Len(events'[c]) \in Enqueued(pc'[c])
           /\ \A i \in 1..Len(events'[c]) : events'[c][i] = Event(c, j + i)'
<1>1. PICK j \in 0..3 :
        /\ store[c] = TaskAfter(c, j)
        /\ j + Len(events[c]) \in Enqueued(pc[c])
        /\ \A i \in 1..Len(events[c]) : events[c][i] = Event(c, j + i)
  BY DEF CallInv
<1>2. TaskAfter(c, j)' = TaskAfter(c, j)
  BY DEF TaskAfter, User, Authenticate
<1>3. \A i : Event(c, i)' = Event(c, i)
  BY DEF Event, User, Authenticate
<1> QED
  BY <1>1, <1>2, <1>3

\* The record of a call with a valid key is a record.
LEMMA TaskAfterType ==
  ASSUME NEW c \in Calls, Valid(c), NEW j \in 0..3
  PROVE  TaskAfter(c, j) \in Records
BY UserOfKey DEF TaskAfter, Records

-----------------------------------------------------------------------------
IInv == TypeOK /\ CallsInv

\* What a call and its caller do keeps the types.
LEMMA TypeKept ==
  ASSUME IInv, NEW c \in Calls,
         CallerStep(c) \/ LoseAnswer(c) \/ AgentStep(c) \/ (Cancel(c) /\ UNCHANGED callerVars)
  PROVE  TypeOK'
<1> USE DEF IInv
<1>1. CASE CallerStep(c)
  <2>1. store[c].greeting \in Users \union {"none"}
    BY DEF TypeOK, Records
  <2>2. printed' \in [Calls -> Users \union {"none"}]
    BY <1>1, <2>1
       DEF CallerStep, FetchCard, SendRejected, Send, Answer, ListTasks, TypeOK
  <2>3. TasksOf(User(c)) \subseteq Calls
    BY DEF TasksOf
  <2>4. listed' \in [Calls -> SUBSET Calls]
    BY <1>1, <2>3
       DEF CallerStep, FetchCard, SendRejected, Send, Answer, ListTasks, TypeOK
  <2>5. caller' \in [Calls -> {"start", "ready", "sending", "listing"} \union Ended]
    BY <1>1 DEF CallerStep, FetchCard, SendRejected, Send, Answer, ListTasks, Goto,
                TypeOK, Ended
  <2>6. /\ pc' \in [Calls -> {"none", "begin", "greet", "complete", "idle"}]
        /\ UNCHANGED <<api_key, events, cancelled, store>>
    BY <1>1 DEF CallerStep, FetchCard, SendRejected, Send, Answer, ListTasks, Accept,
                vars, TypeOK
  <2> QED
    BY <2>2, <2>4, <2>5, <2>6 DEF TypeOK
<1>2. CASE LoseAnswer(c)
  BY <1>2 DEF LoseAnswer, Goto, vars, TypeOK, Ended
<1>3. CASE AgentStep(c) /\ (Announce(c) \/ Greet(c) \/ Complete(c))
  <2>1. PICK n \in 0..2, next \in {"greet", "complete", "idle"} :
          /\ Valid(c)
          /\ events' = [events EXCEPT ![c] = Append(@, Event(c, n + 1))]
          /\ pc' = [pc EXCEPT ![c] = next]
          /\ UNCHANGED <<api_key, cancelled, store>>
    BY <1>3, Executing
  <2>2. Event(c, n + 1) \in Events
    BY <2>1, EventType
  <2>3. events' \in [Calls -> Seq(Events)]
    BY <2>1, <2>2 DEF TypeOK
  <2> QED
    BY <1>3, <2>1, <2>3 DEF AgentStep, callerVars, TypeOK
<1>4. CASE AgentStep(c) /\ Store(c)
  <2>1. PICK j \in 0..2 :
          /\ Valid(c)
          /\ store' = [store EXCEPT ![c] = TaskAfter(c, j + 1)]
          /\ events[c] \in Seq(Events) /\ Len(events[c]) \in 1..(3 - j)
          /\ events' = [events EXCEPT ![c] = Tail(@)]
          /\ UNCHANGED <<api_key, pc, cancelled>>
    BY <1>4, StoringNext
  <2>2. TaskAfter(c, j + 1) \in Records
    BY <2>1, TaskAfterType
  <2>3. store' \in [Calls -> Records]
    BY <2>1, <2>2 DEF TypeOK
  <2>4. Tail(events[c]) \in Seq(Events)
    BY <2>1
  <2>5. events' \in [Calls -> Seq(Events)]
    BY <2>1, <2>4 DEF TypeOK
  <2> QED
    BY <1>4, <2>1, <2>3, <2>5 DEF AgentStep, callerVars, TypeOK
<1>5. CASE Cancel(c) /\ UNCHANGED callerVars
  BY <1>5 DEF Cancel, callerVars, TypeOK
<1> QED
  BY <1>1, <1>2, <1>3, <1>4, <1>5 DEF AgentStep, ServerStep

\* What a caller does keeps the invariant of its call.
LEMMA CallerStepKept ==
  ASSUME IInv, NEW c \in Calls, CallerStep(c) \/ LoseAnswer(c)
  PROVE  CallInv(c)'
<1> USE DEF IInv
<1>0. /\ CallInv(c) /\ UNCHANGED <<api_key, events, store>>
      /\ pc[c] = "none" \/ pc'[c] = pc[c]
  BY DEF CallsInv, CallInv, CallerStep, FetchCard, SendRejected, Send, Answer, ListTasks,
         LoseAnswer, Accept, vars
<1>1. /\ Valid(c)' = Valid(c) /\ User(c)' = User(c) /\ Finished(c)' = Finished(c)
      /\ \A e : SameUser(c, e)' = SameUser(c, e)
  BY <1>0 DEF Valid, User, Finished, Authenticate, SameUser
<1>2. CASE FetchCard(c)
  <2>1. pc' = pc /\ printed' = printed /\ listed' = listed
        /\ caller[c] = "start" /\ caller'[c] \in {"ready", "crashed"}
    BY <1>2 DEF FetchCard, Goto, vars, TypeOK
  <2> QED
    BY <1>0, <1>1, <2>1, OrderKept DEF CallInv
<1>3. CASE SendRejected(c) \/ LoseAnswer(c)
  <2>1. pc' = pc /\ printed' = printed /\ listed' = listed /\ caller'[c] = "rejected"
    BY <1>3 DEF SendRejected, LoseAnswer, Goto, vars, TypeOK
  <2> QED
    BY <1>0, <1>1, <2>1, OrderKept DEF CallInv
<1>4. CASE Send(c)
  <2>1. Valid(c)
    BY <1>4, AdmittedIsValid DEF Send
  <2>2. /\ printed' = printed /\ listed' = listed
        /\ caller'[c] = "sending" /\ pc[c] = "none" /\ pc'[c] = "begin"
    BY <1>0, <1>4 DEF Send, Accept, Goto, TypeOK, CallInv
  <2>3. Enqueued(pc[c]) = Enqueued(pc'[c])
    BY <2>2 DEF Enqueued
  <2> QED
    BY <1>0, <1>1, <2>1, <2>2, <2>3, OrderKept DEF CallInv
<1>5. CASE Answer(c)
  <2>1. /\ pc' = pc /\ listed' = listed /\ Finished(c)
        /\ caller[c] = "sending" /\ caller'[c] = "listing"
        /\ printed'[c] = store[c].greeting
    BY <1>5 DEF Answer, Goto, vars, TypeOK
  <2>2. Valid(c)
    BY <1>0, <2>1 DEF CallInv
  <2>3. store[c].greeting = User(c)
    BY <1>0, <2>1 DEF CallInv, TaskAfter, Finished
  <2>4. User(c) # "none"
    BY <2>2, UserOfKey
  <2> QED
    BY <1>0, <1>1, <2>1, <2>2, <2>3, <2>4, OrderKept DEF CallInv
<1>6. CASE ListTasks(c)
  <2>1. /\ pc' = pc /\ printed' = printed
        /\ caller[c] = "listing" /\ caller'[c] = "done"
        /\ listed'[c] = TasksOf(User(c))
    BY <1>6 DEF ListTasks, Goto, vars, TypeOK
  <2>2. Valid(c) /\ Finished(c)
    BY <1>0, <2>1 DEF CallInv
  <2>3. ASSUME NEW d \in Calls, Exists(d)
        PROVE  Valid(d) /\ store[d].owner = User(d)
    <3>1. CallInv(d)
      BY DEF CallsInv
    <3>2. PICK j \in 0..3 : store[d] = TaskAfter(d, j) /\ j + Len(events[d]) \in Enqueued(pc[d])
      BY <3>1 DEF CallInv
    <3>3. j # 0
      BY <2>3, <3>2 DEF Exists, TaskAfter
    <3>4. Len(events[d]) \in Nat
      BY DEF TypeOK
    <3>5. pc[d] # "none"
      BY <3>2, <3>3, <3>4 DEF Enqueued
    <3> QED
      BY <3>1, <3>2, <3>3, <3>5 DEF CallInv, TaskAfter
  <2>4. Exists(c)
    BY <2>2 DEF Exists, Finished
  <2>5. c \in TasksOf(User(c))
    BY <2>3, <2>4 DEF TasksOf
  <2>6. ASSUME NEW d \in TasksOf(User(c)) PROVE SameUser(c, d)
    <3>1. d \in Calls /\ Valid(d) /\ User(d) = User(c)
      BY <2>3 DEF TasksOf
    <3> QED
      BY <2>2, <3>1, UserOfKey DEF SameUser, Valid
  <2> QED
    BY <1>0, <1>1, <2>1, <2>2, <2>5, <2>6, OrderKept DEF CallInv
<1> QED
  BY <1>2, <1>3, <1>4, <1>5, <1>6 DEF CallerStep

\* What the server does keeps the invariant of the call it does it for.
LEMMA ServerStepKept ==
  ASSUME IInv, NEW c \in Calls, (ServerStep(c) \/ Cancel(c)) /\ UNCHANGED callerVars
  PROVE  CallInv(c)'
<1> USE DEF IInv
<1>0. /\ CallInv(c)
      /\ UNCHANGED <<api_key, caller, printed, listed>>
  BY DEF CallsInv, callerVars, ServerStep, Announce, Greet, Complete, Store, Cancel, Step
<1>1. /\ Valid(c)' = Valid(c) /\ User(c)' = User(c)
      /\ \A e : SameUser(c, e)' = SameUser(c, e)
      /\ \A i : Event(c, i)' = Event(c, i)
      /\ \A j : TaskAfter(c, j)' = TaskAfter(c, j)
  BY <1>0 DEF Valid, User, Authenticate, SameUser, Event, TaskAfter
<1>2. CASE Announce(c) \/ Greet(c) \/ Complete(c)
  <2>1. PICK n \in 0..2, next \in {"greet", "complete", "idle"} :
          /\ Valid(c)
          /\ Enqueued(pc[c]) = {n}
          /\ n + 1 \in Enqueued(next)
          /\ events' = [events EXCEPT ![c] = Append(@, Event(c, n + 1))]
          /\ pc' = [pc EXCEPT ![c] = next]
          /\ UNCHANGED <<api_key, cancelled, store>>
    BY <1>2, Executing
  <2>2. PICK j \in 0..3 :
          /\ store[c] = TaskAfter(c, j)
          /\ j + Len(events[c]) = n
          /\ \A i \in 1..Len(events[c]) : events[c][i] = Event(c, j + i)
    BY <1>0, <2>1 DEF CallInv
  <2>3. PICK q \in Seq(Events) : q = events[c]
    BY DEF TypeOK
  <2>4. events'[c] = Append(q, Event(c, n + 1)) /\ pc'[c] = next
    BY <2>1, <2>3 DEF TypeOK
  <2>5. Event(c, n + 1) \in Events
    BY <2>1, EventType
  <2>6. Len(events'[c]) = Len(q) + 1 /\ j + Len(events'[c]) = n + 1
    BY <2>2, <2>3, <2>4, <2>5
  <2>7. ASSUME NEW i \in 1..Len(events'[c]) PROVE events'[c][i] = Event(c, j + i)
    <3>1. CASE i = Len(q) + 1
      BY <2>2, <2>3, <2>4, <2>5, <3>1
    <3>2. CASE i \in 1..Len(q)
      BY <2>2, <2>3, <2>4, <2>5, <3>2
    <3> QED
      BY <2>3, <2>6, <3>1, <3>2
  <2>8. Finished(c)' = Finished(c)
    BY <2>1 DEF Finished
  <2>9. pc[c] # "none"
    BY <1>2 DEF Announce, Greet, Complete, Step
  <2>10. \E k \in 0..3 :
           /\ store'[c] = TaskAfter(c, k)'
           /\ k + Len(events'[c]) \in Enqueued(pc'[c])
           /\ \A i \in 1..Len(events'[c]) : events'[c][i] = Event(c, k + i)'
    BY <1>1, <2>1, <2>2, <2>4, <2>6, <2>7
  <2> QED
    BY <1>0, <1>1, <2>1, <2>8, <2>9, <2>10 DEF CallInv
<1>3. CASE Store(c)
  <2>1. PICK j \in 0..2 :
           /\ Valid(c)
           /\ store[c] = TaskAfter(c, j)
           /\ store' = [store EXCEPT ![c] = TaskAfter(c, j + 1)]
           /\ events[c] \in Seq(Events) /\ Len(events[c]) \in 1..(3 - j)
           /\ j + Len(events[c]) \in Enqueued(pc[c])
           /\ \A i \in 1..Len(events[c]) : events[c][i] = Event(c, j + i)
           /\ events' = [events EXCEPT ![c] = Tail(@)]
           /\ UNCHANGED <<api_key, pc, cancelled>>
    BY <1>3, StoringNext
  <2>2. PICK q \in Seq(Events) : q = events[c]
    BY <2>1
  <2>3. store'[c] = TaskAfter(c, j + 1) /\ events'[c] = Tail(q)
    BY <2>1, <2>2 DEF TypeOK
  <2>4. Len(q) \in Nat \ {0} /\ q # <<>>
    BY <2>1, <2>2
  <2>5. /\ Len(Tail(q)) = Len(q) - 1
        /\ \A i \in 1..Len(Tail(q)) : Tail(q)[i] = q[i + 1]
    BY <2>2, <2>4, HeadTailProperties
  <2>6. \E k \in 0..3 :
           /\ store'[c] = TaskAfter(c, k)'
           /\ k + Len(events'[c]) \in Enqueued(pc'[c])
           /\ \A i \in 1..Len(events'[c]) : events'[c][i] = Event(c, k + i)'
    <3>1. j + 1 \in 0..3 /\ store'[c] = TaskAfter(c, j + 1)'
      BY <1>1, <2>1, <2>3
    <3>2. (j + 1) + Len(events'[c]) = j + Len(events[c])
      <4>1. Len(events'[c]) = Len(q) - 1
        BY <2>3, <2>5
      <4>2. Len(events[c]) = Len(q)
        BY <2>2
      <4> QED
        BY <2>4, <4>1, <4>2
    <3>3. ASSUME NEW i \in 1..Len(events'[c])
          PROVE  events'[c][i] = Event(c, (j + 1) + i)'
      <4>1. i + 1 \in 1..Len(q) /\ events'[c][i] = q[i + 1]
        BY <2>3, <2>4, <2>5
      <4>2. q[i + 1] = Event(c, j + (i + 1))
        BY <2>1, <2>2, <4>1
      <4>3. j + (i + 1) = (j + 1) + i
        BY <2>4, <4>1
      <4> QED
        BY <1>1, <4>1, <4>2, <4>3
    <3> QED
      BY <2>1, <3>1, <3>2, <3>3
  <2>7. ~Finished(c)
    BY <2>1 DEF Finished, TaskAfter
  <2>8. caller'[c] \notin {"listing", "done"}
    BY <1>0, <2>7 DEF CallInv
  <2>9. pc'[c] = pc[c] /\ caller'[c] = caller[c] /\ printed'[c] = printed[c] /\ listed'[c] = listed[c]
    BY <1>0, <2>1
  <2> QED
    BY <1>0, <1>1, <2>1, <2>6, <2>8, <2>9 DEF CallInv
<1>4. CASE Cancel(c)
  <2>1. /\ UNCHANGED <<events, store>> /\ Exists(c)
        /\ pc'[c] \in {pc[c], "idle"}
    BY <1>4 DEF Cancel, TypeOK
  <2>2. Enqueued(pc[c]) \subseteq Enqueued(pc'[c])
    BY <2>1 DEF Enqueued
  <2>3. pc[c] # "none"
    <3>1. PICK j \in 0..3 : store[c] = TaskAfter(c, j) /\ j + Len(events[c]) \in Enqueued(pc[c])
      BY <1>0 DEF CallInv
    <3>2. j # 0
      BY <2>1, <3>1 DEF Exists, TaskAfter
    <3>3. Len(events[c]) \in Nat
      BY DEF TypeOK
    <3> QED
      BY <3>1, <3>2, <3>3 DEF Enqueued
  <2>4. Finished(c)' = Finished(c)
    BY <2>1 DEF Finished
  <2> QED
    BY <1>0, <1>1, <2>1, <2>2, <2>3, <2>4, OrderKept DEF CallInv
<1> QED
  BY <1>2, <1>3, <1>4 DEF ServerStep

-----------------------------------------------------------------------------
\* The inductive invariant: what is stored, what is queued and where execute()
\* stands belong together for each call.
THEOREM CallsInOrder == ClientsSpec => []IInv
<1>1. ClientsInit => IInv
  <2> SUFFICES ASSUME ClientsInit PROVE TypeOK /\ CallsInv
    BY DEF IInv
  <2>1. NoTask \in Records
    BY DEF NoTask, Records
  <2>2. TypeOK
    BY <2>1 DEF ClientsInit, Init, TypeOK
  <2>3. ASSUME NEW c \in Calls PROVE CallInv(c)
    <3>1. store[c] = TaskAfter(c, 0) /\ events[c] = <<>> /\ pc[c] = "none"
      BY DEF ClientsInit, Init, NoTask, TaskAfter
    <3>2. 0 + Len(events[c]) \in Enqueued(pc[c])
      BY <3>1 DEF Enqueued
    <3>3. \A i \in 1..Len(events[c]) : events[c][i] = Event(c, 0 + i)
      BY <3>1
    <3> QED
      BY <3>1, <3>2, <3>3 DEF ClientsInit, CallInv
  <2> QED
    BY <2>2, <2>3 DEF CallsInv
<1>2. IInv /\ [ClientsNext]_clientsVars => IInv'
  <2> SUFFICES ASSUME IInv, [ClientsNext]_clientsVars PROVE IInv'
    OBVIOUS
  <2>1. ASSUME NEW c \in Calls,
               CallerStep(c) \/ LoseAnswer(c) \/ AgentStep(c)
                 \/ (Cancel(c) /\ UNCHANGED callerVars)
        PROVE  IInv'
    <3>1. TypeOK'
      BY <2>1, TypeKept
    <3>2. CallInv(c)'
      BY <2>1, CallerStepKept, ServerStepKept DEF AgentStep
    <3>3. ASSUME NEW d \in Calls, d # c PROVE CallInv(d)'
      <4>1. UNCHANGED <<api_key, Own(d)>>
        BY <2>1, <3>3
           DEF Own, IInv, TypeOK, CallerStep, FetchCard, SendRejected, Send, Answer, ListTasks,
               LoseAnswer, Accept, Goto, vars, callerVars, AgentStep, ServerStep, Announce,
               Greet, Complete, Store, Cancel, Step
      <4> QED
        BY <4>1, Elsewhere DEF IInv, CallsInv
    <3> QED
      BY <3>1, <3>2, <3>3 DEF IInv, CallsInv
  <2>2. CASE UNCHANGED clientsVars
    <3>1. TypeOK'
      BY <2>2 DEF IInv, TypeOK, clientsVars, vars, callerVars
    <3>2. \A c \in Calls : UNCHANGED <<api_key, Own(c)>>
      BY <2>2 DEF Own, clientsVars, vars, callerVars
    <3> QED
      BY <3>1, <3>2, Elsewhere DEF IInv, CallsInv
  <2> QED
    BY <2>1, <2>2 DEF ClientsNext
<1> QED
  BY <1>1, <1>2, PTL DEF ClientsSpec

\* However the calls overlap, tasks/list shows a caller its own task and only
\* tasks that were sent with a key of the same user.
THEOREM TasksOfOwnUser == ClientsSpec => []ListsOwnTasks
<1>1. IInv => ListsOwnTasks
  BY DEF IInv, CallsInv, CallInv, ListsOwnTasks
<1> QED
  BY <1>1, CallsInOrder, PTL

\* No work is done for a call without a valid key, and the greeting names the
\* user of that call's own key.
THEOREM KeysEnforced == ClientsSpec => []WorkOnlyForUsers
<1>1. IInv => WorkOnlyForUsers
  <2> SUFFICES ASSUME IInv, NEW c \in Calls
               PROVE  /\ pc[c] # "none" => api_key[c] \in DOMAIN VALID_API_KEYS
                      /\ {store[c].greeting, printed[c]} \ {"none"} \subseteq
                           {VALID_API_KEYS[key] : key \in {api_key[c]} \intersect DOMAIN VALID_API_KEYS}
                      /\ caller[c] \in {"listing", "done"} => printed[c] # "none"
    BY DEF WorkOnlyForUsers
  <2>1. CallInv(c)
    BY DEF IInv, CallsInv
  <2>2. printed[c] # "none" => Valid(c) /\ printed[c] = VALID_API_KEYS[api_key[c]]
    BY <2>1, UserOfKey DEF CallInv
  <2>3. store[c].greeting # "none" =>
          Valid(c) /\ store[c].greeting = VALID_API_KEYS[api_key[c]]
    <3>1. SUFFICES ASSUME store[c].greeting # "none"
                   PROVE  Valid(c) /\ store[c].greeting = VALID_API_KEYS[api_key[c]]
      OBVIOUS
    <3>2. PICK j \in 0..3 : store[c] = TaskAfter(c, j) /\ j + Len(events[c]) \in Enqueued(pc[c])
      BY <2>1 DEF CallInv
    <3>3. j \in 2..3 /\ store[c].greeting = User(c)
      BY <3>1, <3>2 DEF TaskAfter
    <3>4. Len(events[c]) \in Nat
      BY DEF IInv, TypeOK
    <3>5. pc[c] # "none"
      BY <3>2, <3>3, <3>4 DEF Enqueued
    <3> QED
      BY <2>1, <3>3, <3>5, UserOfKey DEF CallInv
  <2>4. VALID_API_KEYS[api_key[c]] \in
          {VALID_API_KEYS[key] : key \in {api_key[c]} \intersect DOMAIN VALID_API_KEYS}
        \/ ~Valid(c)
    BY DEF Valid
  <2> QED
    BY <2>1, <2>2, <2>3, <2>4 DEF CallInv, Valid
<1> QED
  BY <1>1, CallsInOrder, PTL

-----------------------------------------------------------------------------
\* Storing an event of a call is a step of what its task promises.
LEMMA StoreRefines ==
  ASSUME IInv, NEW c \in Calls, Store(c)
  PROVE  Lifecycle(c)!Next
<1>1. PICK j \in 0..2 :
         /\ Valid(c)
         /\ store[c] = TaskAfter(c, j)
         /\ store' = [store EXCEPT ![c] = TaskAfter(c, j + 1)]
  BY StoringNext DEF IInv
<1>2. store'[c] = TaskAfter(c, j + 1)
  BY <1>1 DEF IInv, TypeOK
<1>3. User(c) \in Users /\ User(c) # "none"
  BY <1>1, UserOfKey
<1>4. CASE j = 0
  <2>1. Lifecycle(c)!Submit
    BY <1>1, <1>2, <1>4 DEF Lifecycle!Submit, TaskAfter
  <2> QED
    BY <2>1 DEF Lifecycle!Next
<1>5. CASE j = 1
  <2>1. Lifecycle(c)!Deliver
    BY <1>1, <1>2, <1>5 DEF Lifecycle!Deliver, TaskAfter
  <2> QED
    BY <2>1 DEF Lifecycle!Next
<1>6. CASE j = 2
  <2>1. Lifecycle(c)!Complete
    BY <1>1, <1>2, <1>3, <1>6 DEF Lifecycle!Complete, TaskAfter
  <2> QED
    BY <2>1 DEF Lifecycle!Next
<1> QED
  BY <1>4, <1>5, <1>6

\* Every call's task keeps the promise of a task, whatever the calls do: it is
\* announced once, its greeting is delivered before it completes, and it
\* never moves again.
THEOREM AuthRefinesLifecycle == ClientsSpec => RefinesLifecycle
<1>1. ClientsInit => \A c \in Calls : Lifecycle(c)!Init
  <2> SUFFICES ASSUME ClientsInit, NEW c \in Calls PROVE Lifecycle(c)!Init
    OBVIOUS
  <2>1. store[c].state = "NONE" /\ store[c].greeting = "none"
    BY DEF ClientsInit, Init, NoTask
  <2>2. {store[c].greeting} \ {"none"} = {}
    BY <2>1
  <2> QED
    BY <2>1, <2>2 DEF Lifecycle!Init
<1>2. IInv /\ [ClientsNext]_clientsVars =>
        [\A c \in Calls : Lifecycle(c)!Next \/ UNCHANGED store[c]]_store
  <2> SUFFICES ASSUME IInv, ClientsNext, store' # store, NEW c \in Calls
               PROVE  Lifecycle(c)!Next \/ UNCHANGED store[c]
    BY DEF clientsVars, vars
  <2>1. PICK d \in Calls : Store(d)
    BY DEF ClientsNext, CallerStep, FetchCard, SendRejected, Send, Answer, ListTasks, LoseAnswer,
           Accept, AgentStep, ServerStep, Announce, Greet, Complete, Step, Cancel, vars
  <2>2. CASE d = c
    BY <2>1, <2>2, StoreRefines
  <2>3. CASE d # c
    BY <2>1, <2>3 DEF Store, IInv, TypeOK
  <2> QED
    BY <2>2, <2>3
<1> QED
  BY <1>1, <1>2, CallsInOrder, PTL DEF ClientsSpec, RefinesLifecycle

=============================================================================
