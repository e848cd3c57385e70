----------------------------- MODULE VisaClients -----------------------------
(***************************************************************************)
(* The scripts that ask the Visa Requirements agent and register a         *)
(* webhook: client.py serves the webhook itself and waits for a terminal   *)
(* notification, up to a timeout; webhook_fallback_demo.py registers an    *)
(* address where nobody listens, waits for a while and then polls.  A post *)
(* may fail, somebody may cancel the task, and the server may restart.     *)
(***************************************************************************)
EXTENDS VisaRequirements

CONSTANTS
  Query,        \* the one request of the script
  Scripts,      \* which script may be run
  MaxRestarts   \* bound on restarts of the server

ASSUME ClientsAssumption ==
  /\ Messages = {Query}
  /\ Scripts \subseteq {"client", "webhook_fallback_demo"}
  /\ MaxRestarts \in Nat

VARIABLES
  script,             \* the script that was run
  client,             \* where it stands
  seen,               \* the task of its last response
  heard,              \* the notifications it has handled, oldest first
  completion_event,   \* set: a terminal one was among them
  lost,               \* auxiliary: some post has failed
  restarts            \* restarts of the server so far

clientVars == <<script, client, seen, heard, completion_event, lost, restarts>>
clientsVars == <<vars, clientVars>>

Ended == {"done", "crashed"}

\* client.py serves its webhook from before the request until it leaves.
Listening ==
  script = "client" /\ client \in {"sending", "waiting", "notified", "timed out"}

\* Mutant: an artifact counts as the end.
TerminalOrArtifact(event) ==
  \/ event.kind = "status" /\ event.state \in TerminalStates
  \/ event.kind = "artifact"

\* _is_terminal; a pushed task is always the announcement.
IsTerminal(event) == event.kind = "status" /\ event.state \in TerminalStates

-----------------------------------------------------------------------------
ClientsInit ==
  /\ Init
  /\ script \in Scripts
  /\ client = "start"
  /\ seen = NoTask
  /\ heard = <<>>
  /\ completion_event = FALSE
  /\ lost = FALSE
  /\ restarts = 0

\* message/send with the push configuration.
Submit ==
  /\ client = "start"
  /\ Send(Query)
  /\ client' = "sending"
  /\ UNCHANGED <<script, seen, heard, completion_event, lost, restarts>>

\* The fast acknowledgement; notifications may have been handled before it.
Acknowledge ==
  /\ client = "sending"
  /\ Exists
  /\ seen' = task
  /\ client' = IF script = "client" THEN "waiting" ELSE "sleeping"
  /\ UNCHANGED <<vars, script, heard, completion_event, lost, restarts>>

\* Mutant: the event is only armed once the request was acknowledged.
HandleWhenWaiting ==
  /\ posting # Nothing
  /\ Listening
  /\ heard' = Append(heard, posting)
  /\ completion_event' = (completion_event \/ (client = "waiting" /\ IsTerminal(posting)))
  /\ posting' = Nothing
  /\ UNCHANGED <<runtimeVars, script, client, seen, lost, restarts>>

handle_webhook ==
  /\ posting # Nothing
  /\ Listening
  /\ heard' = Append(heard, posting)
  /\ completion_event' = (completion_event \/ IsTerminal(posting))
  /\ posting' = Nothing
  /\ UNCHANGED <<runtimeVars, script, client, seen, lost, restarts>>

\* Nobody listens, or the post fails on its way.
PostFails ==
  /\ posting # Nothing
  /\ posting' = Nothing
  /\ lost' = TRUE
  /\ UNCHANGED <<runtimeVars, script, client, seen, heard, completion_event, restarts>>

Notified ==
  /\ client = "waiting"
  /\ completion_event
  /\ client' = "notified"
  /\ UNCHANGED <<vars, script, seen, heard, completion_event, lost, restarts>>

\* Mutant: the wait has no timeout.
WaitForEver == FALSE /\ UNCHANGED clientsVars

\* wait_for() gives up; the script only says so.
TimeOut ==
  /\ client = "waiting"
  /\ ~completion_event
  /\ client' = "timed out"
  /\ UNCHANGED <<vars, script, seen, heard, completion_event, lost, restarts>>

\* The client is closed, and then the webhook server stopped.
StopListening ==
  /\ client \in {"notified", "timed out"}
  /\ client' = "done"
  /\ UNCHANGED <<vars, script, seen, heard, completion_event, lost, restarts>>

FallBack ==
  /\ client = "sleeping"
  /\ client' = "polling"
  /\ UNCHANGED <<vars, script, seen, heard, completion_event, lost, restarts>>

\* tasks/get of a forgotten task raises, and nothing catches it.
Poll ==
  /\ client = "polling"
  /\ seen.state \notin TerminalStates
  /\ seen' = IF Exists THEN task ELSE seen
  /\ client' = IF Exists THEN "polling" ELSE "crashed"
  /\ UNCHANGED <<vars, script, heard, completion_event, lost, restarts>>

\* Mutant: the loop stops at the first poll that brings an artifact.
ReportEarly ==
  /\ client = "polling"
  /\ seen.state \in TerminalStates \/ seen.artifacts # {}
  /\ client' = "done"
  /\ UNCHANGED <<vars, script, seen, heard, completion_event, lost, restarts>>

Report ==
  /\ client = "polling"
  /\ seen.state \in TerminalStates
  /\ client' = "done"
  /\ UNCHANGED <<vars, script, seen, heard, completion_event, lost, restarts>>

\* The server keeps tasks and push configurations in memory.
Restart ==
  /\ restarts < MaxRestarts
  /\ restarts' = restarts + 1
  /\ RestartServer
  /\ posting' = Nothing
  /\ client' = IF client = "sending" THEN "crashed" ELSE client
  /\ UNCHANGED <<script, seen, heard, completion_event, lost>>

ClientStep ==
  \/ Submit
  \/ Acknowledge
  \/ Notified
  \/ TimeOut
  \/ StopListening
  \/ FallBack
  \/ Poll
  \/ Report

PushStep == handle_webhook \/ PostFails

ServerStep == (ExecutorStep \/ Store) /\ UNCHANGED clientVars

ClientsNext ==
  \/ ClientStep
  \/ PushStep
  \/ ServerStep
  \/ Cancel /\ UNCHANGED clientVars
  \/ Restart

\* A post is answered or fails, a timeout expires; nobody has to start a
\* script, to cancel or to restart, and no post has to get through.
ClientsSpec ==
  /\ ClientsInit
  /\ [][ClientsNext]_clientsVars
  /\ WF_clientsVars(ClientStep /\ client # "start")
  /\ WF_clientsVars(PushStep)
  /\ WF_clientsVars(ExecutorStep /\ UNCHANGED clientVars)
  /\ WF_clientsVars(Store /\ UNCHANGED clientVars)

-----------------------------------------------------------------------------
\* client.py stops listening at the first terminal notification and never asks
\* tasks/get: by then it must have been told the final state of the task, and,
\* if no post has failed, everything that was delivered with it.
NotifiedKnowsAll ==
  client = "notified" /\ restarts = 0 =>
    /\ heard[Len(heard)] = StatusEvent(task.state, task.note)
    /\ lost \/ {heard[i].artifact : i \in {j \in 1..Len(heard) : heard[j].kind = "artifact"}}
                 = task.artifacts

\* A terminal notification may be handled before message/send has returned,
\* when the script does not wait yet; it must not sit out the timeout then.
NoMissedWakeup ==
  [][client = "waiting" /\ client' = "timed out" =>
       \A i \in 1..Len(heard) : ~IsTerminal(heard[i])]_clientsVars

\* webhook_fallback_demo.py reports the task as it ended, although no
\* notification ever arrives, at whatever moment it starts to poll: the final
\* state, and if that is COMPLETED the requirements or the reason why there are
\* none.
FallbackReports ==
  script = "webhook_fallback_demo" /\ client = "done" =>
    /\ restarts = 0 => seen = task
    /\ seen.state = "COMPLETED" => Requirements \in seen.artifacts \/ seen.note = "missing"

\* Every script that is run ends, whichever posts fail: posts to a dead
\* webhook do not hold up the task, and no script waits for a lost one.
ScriptsEnd == client # "start" ~> client \in Ended

\* What the task promises to whoever polls it or is notified.
Lifecycle == INSTANCE TaskLifecycle WITH
  state <- task.state, note <- task.note, artifacts <- task.artifacts,
  Result <- {Requirements}, Explanations <- {"missing"}, Busy <- {"WORKING"},
  Restarts <- TRUE
RefinesLifecycle == Lifecycle!Spec
=============================================================================
