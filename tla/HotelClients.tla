---------------------------- MODULE HotelClients ----------------------------
(***************************************************************************)
(* The scripts that stream from the Hotel Search agent: client.py reads    *)
(* one stream to its end; resubscribe_demo.py drops it after a few events, *)
(* stays away for a while and subscribes to the task again, or falls back  *)
(* to tasks/get when the task has ended meanwhile.  Anybody who knows the  *)
(* task may cancel it, and the server may restart.                         *)
(***************************************************************************)
EXTENDS HotelSearch

CONSTANTS
  Query,             \* the one request of the script
  Scripts,           \* which script may be run
  EventsBeforeDrop,  \* EVENTS_BEFORE_DROP
  MaxRestarts        \* bound on restarts of the server

ASSUME ClientsAssumption ==
  /\ Messages = {Query}
  /\ Scripts \subseteq {"client", "resubscribe_demo"}
  /\ EventsBeforeDrop \in Nat \ {0}
  /\ MaxRestarts \in Nat

VARIABLES
  script,     \* the script that was run
  client,     \* where it stands
  stream,     \* the events under way on its connection
  count,      \* the events resubscribe_demo.py has read from its first stream
  view,       \* what it has been told of the task, all streams together
  restarts    \* restarts of the server so far

clientVars == <<script, client, stream, count, view, restarts>>
clientsVars == <<vars, clientVars>>

Connected == client \in {"live", "again"}

\* What an event adds to what the client knows.  The first event of a
\* subscription is the task as it is stored.
SnapshotEvent == [kind |-> "snapshot", state |-> task.state, hotels |-> HotelsOf(task)]

Told(event) ==
  CASE event.kind = "task" -> [view EXCEPT !.state = "SUBMITTED"]
    [] event.kind = "snapshot" ->
         [view EXCEPT !.state = event.state, !.hotels = event.hotels]
    [] event.kind = "status" -> [view EXCEPT !.state = event.state]
    [] event.kind = "chunk" ->
         [view EXCEPT !.hotels = Append(@, event.hotel), !.last = event.last]

-----------------------------------------------------------------------------
ClientsInit ==
  /\ Init
  /\ script \in Scripts
  /\ client = "start"
  /\ stream = <<>>
  /\ count = 0
  /\ view = [state |-> "NONE", hotels |-> <<>>, last |-> FALSE]
  /\ restarts = 0

\* message/stream: the response stays open.
Submit ==
  /\ client = "start"
  /\ Send(Query)
  /\ client' = "live"
  /\ UNCHANGED <<script, stream, count, view, restarts>>

\* An event is stored first and then sent to whoever is connected.
StoreAndForward ==
  /\ Store
  /\ stream' = IF Connected THEN Append(stream, Head(events)) ELSE stream
  /\ UNCHANGED <<script, client, count, view, restarts>>

\* client.py prints each event; the server closes the stream after a terminal
\* one.
ReadToEnd ==
  /\ script = "client"
  /\ client = "live"
  /\ stream # <<>>
  /\ view' = Told(Head(stream))
  /\ stream' = Tail(stream)
  /\ client' = IF view'.state \in TerminalStates THEN "done" ELSE "live"
  /\ UNCHANGED <<vars, script, count, restarts>>

\* resubscribe_demo.py: a terminal event ends the script, "finished before we
\* had a chance to drop"; the last one before the drop ends the connection, and
\* what is under way on it is lost.
ReadUntilDrop ==
  /\ script = "resubscribe_demo"
  /\ client = "live"
  /\ stream # <<>>
  /\ view' = Told(Head(stream))
  /\ count' = count + 1
  /\ client' = CASE view'.state \in TerminalStates -> "done"
                 [] view'.state \notin TerminalStates /\ count' >= EventsBeforeDrop -> "gap"
                 [] OTHER -> "live"
  /\ stream' = IF client' = "gap" THEN <<>> ELSE Tail(stream)
  /\ UNCHANGED <<vars, script, restarts>>

\* Mutant: the subscription starts with the next event.
SubscribeWithoutSnapshot ==
  /\ client = "gap"
  /\ ~Finished
  /\ stream' = <<>>
  /\ client' = "again"
  /\ UNCHANGED <<vars, script, count, view, restarts>>

\* tasks/subscribe, after a gap of any length.
Subscribe ==
  /\ client = "gap"
  /\ Exists
  /\ ~Finished
  /\ stream' = <<SnapshotEvent>>
  /\ client' = "again"
  /\ UNCHANGED <<vars, script, count, view, restarts>>

\* A task that has ended is no longer tracked: InvalidParamsError.
SubscribeRefused ==
  /\ client = "gap"
  /\ Finished
  /\ client' = "fallback"
  /\ UNCHANGED <<vars, script, stream, count, view, restarts>>

\* The task was forgotten: an error the script does not expect.
TaskUnknown ==
  /\ client \in {"gap", "fallback"}
  /\ ~Exists
  /\ client' = "crashed"
  /\ UNCHANGED <<vars, script, stream, count, view, restarts>>

\* tasks/get reads the store.
GetTask ==
  /\ client = "fallback"
  /\ Exists
  /\ view' = Told(SnapshotEvent)
  /\ client' = "done"
  /\ UNCHANGED <<vars, script, stream, count, restarts>>

ReadAgain ==
  /\ client = "again"
  /\ stream # <<>>
  /\ view' = Told(Head(stream))
  /\ stream' = Tail(stream)
  /\ client' = IF view'.state \in TerminalStates THEN "done" ELSE "again"
  /\ UNCHANGED <<vars, script, count, restarts>>

\* A stream that is open breaks off.
Restart ==
  /\ restarts < MaxRestarts
  /\ restarts' = restarts + 1
  /\ RestartServer
  /\ client' = IF Connected THEN "crashed" ELSE client
  /\ stream' = <<>>
  /\ UNCHANGED <<num_hotels, found_names, script, count, view>>

ClientStep ==
  \/ Submit
  \/ ReadToEnd
  \/ ReadUntilDrop
  \/ Subscribe
  \/ SubscribeRefused
  \/ TaskUnknown
  \/ GetTask
  \/ ReadAgain

AgentStep == ExecutorStep /\ UNCHANGED clientVars

ClientsNext ==
  \/ ClientStep
  \/ AgentStep
  \/ StoreAndForward
  \/ Cancel /\ UNCHANGED clientVars
  \/ Restart

\* Nobody has to cancel or to restart, and a script need not be started.
ClientsSpec ==
  /\ ClientsInit
  /\ [][ClientsNext]_clientsVars
  /\ WF_clientsVars(ClientStep /\ client # "start")
  /\ WF_clientsVars(AgentStep)
  /\ WF_clientsVars(StoreAndForward)

-----------------------------------------------------------------------------
\* resubscribe_demo.py:7-8: the client "never actually lost anything, even
\* though its connection did": at the end, what it was told over its streams
\* adds up to the task in the store, no hotel lost and none counted twice, as
\* long as the store keeps the task.
NothingLost ==
  client = "done" /\ Exists => view.state = task.state /\ view.hotels = HotelsOf(task)

\* What the client has been told is never ahead of the store and never has a
\* hole: it is a prefix of what is stored, whenever it looks.
ToldPrefix == Exists => IsPrefix(view.hotels, HotelsOf(task))

\* A completed search has delivered as many hotels as it promised, between one
\* and the cap, however absurd a number the model has read from the request.
SearchComplete ==
  task.state = "COMPLETED" =>
    \/ task.note = "missing"
    \/ Len(HotelsOf(task)) = num_hotels /\ num_hotels \in 1..MaxNumHotels

\* Whoever is told that a chunk is the last has everything, also across a
\* dropped connection.
LastChunkIsLast == view.last => Len(view.hotels) = num_hotels

\* Every script that is run ends: neither a stream nor a subscription is left
\* waiting for an event that never comes, also when the server restarts.
ScriptsEnd == client # "start" ~> client \in {"done", "crashed"}

\* What the task promises to whoever polls it; each hotel counts as an
\* artifact, since a chunk extends the one there is.
Lifecycle == INSTANCE TaskLifecycle WITH
  state <- task.state, note <- task.note,
  artifacts <- {<<i, HotelsOf(task)[i]>> : i \in 1..Len(HotelsOf(task))},
  Result <- (1..MaxNumHotels) \X Hotels, Explanations <- {"missing"},
  Busy <- {"WORKING"}, Restarts <- TRUE
RefinesLifecycle == Lifecycle!Spec
=============================================================================
