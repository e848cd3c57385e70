----------------------------- MODULE A2ARuntime -----------------------------
(***************************************************************************)
(* The part of the a2a-sdk that drives one task, as the agents of this     *)
(* repository use it.  The SDK is a dependency (pyproject.toml), so every  *)
(* definition here is external.  A task has                                *)
(*   - requests, served one at a time in the order they were accepted:     *)
(*     each is one call of AgentExecutor.execute;                          *)
(*   - an event queue, filled by the executor (TaskUpdater) and emptied in *)
(*     order by a consumer that updates the task store;                    *)
(*   - a record in the task store, the only thing tasks/get can see.       *)
(* Executors keep no state of their own between tasks, so one task is      *)
(* enough: two tasks of a server never touch each other.                   *)
(***************************************************************************)
EXTENDS Naturals, Sequences

CONSTANT Messages    \* the user messages a client may send, each with its own id

VARIABLES
  sent,      \* the messages accepted for the task, oldest first
  served,    \* how many of them execute() has been called with
  pc,        \* where execute() stands; "idle" when it is not running
  events,    \* the event queue between executor and task store
  cancelled, \* tasks/cancel was accepted for the task
  task       \* the record in the task store

runtimeVars == <<sent, served, pc, events, cancelled, task>>

TerminalStates == {"COMPLETED", "FAILED", "CANCELED"}
ActionableStates == TerminalStates \union {"INPUT_REQUIRED"}
States == ActionableStates \union {"NONE", "SUBMITTED", "WORKING"}

Exists == task.state # "NONE"
Finished == task.state \in TerminalStates

NoTask == [state |-> "NONE", note |-> "none", history |-> <<>>, artifacts |-> {}]

\* The three kinds of event an executor enqueues.  A note stands for the text
\* of a status message, "none" for a status without one.
TaskEvent == [kind |-> "task"]
StatusEvent(state, note) == [kind |-> "status", state |-> state, note |-> note]
ArtifactEvent(artifact) == [kind |-> "artifact", artifact |-> artifact]

\* Enqueueing on the queue of a finished task is ignored.
Enqueue(event) == events' = IF Finished THEN events ELSE Append(events, event)

RuntimeInit ==
  /\ sent = <<>>
  /\ served = 0
  /\ pc = "idle"
  /\ events = <<>>
  /\ cancelled = FALSE
  /\ task = NoTask

(***************************************************************************)
(* message/send.  The first message opens the task; a later one names the  *)
(* task and is accepted while the store knows it and it has not ended.     *)
(* The second component is auxiliary: what the task was showing when the   *)
(* message was accepted.  No code reads it.                                *)
(***************************************************************************)
SendMessage(m) ==
  /\ sent = <<>> \/ (Exists /\ ~Finished)
  /\ \A i \in 1..Len(sent) : sent[i].text # m
  /\ sent' = Append(sent, [text |-> m, shown |-> task.note])
  /\ UNCHANGED <<served, pc, events, cancelled, task>>

\* The texts of the first n messages.
Texts(n) == [i \in 1..n |-> sent[i].text]

\* A request may start once the one before it has returned and all of its
\* events have reached the store.
CanServe ==
  /\ pc = "idle"
  /\ events = <<>>
  /\ ~cancelled
  /\ ~Finished
  /\ served < Len(sent)

(***************************************************************************)
(* The consumer stores the oldest event.  A status replaces the last one,  *)
(* an artifact the one with the same id.  The message of a request becomes *)
(* part of the history with the first event of that request.  A terminal   *)
(* status closes both queues.                                              *)
(***************************************************************************)
Stored(event) ==
  LET base == [task EXCEPT !.history = Texts(served)] IN
  CASE event.kind = "task" -> [base EXCEPT !.state = "SUBMITTED"]
    [] event.kind = "status" ->
         [base EXCEPT !.state = event.state, !.note = event.note]
    [] OTHER ->
         [base EXCEPT !.artifacts =
            {a \in @ : a.id # event.artifact.id} \union {event.artifact}]

Consume ==
  /\ events # <<>>
  /\ task' = Stored(Head(events))
  /\ events' = IF task'.state \in TerminalStates THEN <<>> ELSE Tail(events)
  /\ UNCHANGED <<sent, served, pc, cancelled>>

(***************************************************************************)
(* tasks/cancel: refused for an unknown or an ended task, otherwise the    *)
(* executor's cancel() enqueues CANCELED through a TaskUpdater of its own. *)
(* Whether the interrupted execute() still reaches another await is left   *)
(* open.  Bound: one accepted cancel per task.                             *)
(***************************************************************************)
AcceptCancel ==
  /\ Exists
  /\ ~Finished
  /\ ~cancelled
  /\ cancelled' = TRUE
  /\ pc' \in {pc, "idle"}
  /\ UNCHANGED <<sent, served, task>>

(***************************************************************************)
(* The process of the server ends and is started again: the running call,  *)
(* the queues and open connections are gone, and so is the task, which     *)
(* every server of this repository keeps in an InMemoryTaskStore.          *)
(***************************************************************************)
RestartServer ==
  /\ served' = Len(sent)
  /\ pc' = "idle"
  /\ events' = <<>>
  /\ cancelled' = FALSE
  /\ task' = NoTask
  /\ UNCHANGED sent

-----------------------------------------------------------------------------
\* An artifact with this id is in the store.
Delivered(id) == \E a \in task.artifacts : a.id = id

\* The i-th event of the queue publishes an artifact with this id.
Publishes(i, id) == events[i].kind = "artifact" /\ events[i].artifact.id = id

\* It is in the store before the i-th event of the queue gets there.
Coming(id, i) == Delivered(id) \/ \E j \in 1..Len(events) : j < i /\ Publishes(j, id)
=============================================================================
