----------------------------- MODULE TripSession -----------------------------
(***************************************************************************)
(* trip_booking/client.py talking to TripBooking: the client submits the   *)
(* trip, polls the stored task, answers one pause on the same task and     *)
(* polls again until it can report.  It acts on the snapshot its last      *)
(* response carried, while the agent goes on.  The client is alone with    *)
(* its task: no other message is sent to it and nobody cancels it; but the *)
(* server, which keeps the task in memory, may restart.                    *)
(***************************************************************************)
EXTENDS TripBooking

CONSTANTS
  Opener,   \* the trip request
  Answer,   \* FLIGHT_CHOICE_REPLY, a constant of the script
  MaxRestarts   \* bound on restarts of the server

\* The script's two messages differ; only SessionEnds depends on that.
ASSUME SessionAssumption ==
  /\ {Opener, Answer} \subseteq Messages
  /\ MaxRestarts \in Nat

VARIABLES
  client,   \* where main() stands
  seen,     \* the task of the last response
  restarts  \* restarts of the server so far

sessionVars == <<vars, client, seen, restarts>>

-----------------------------------------------------------------------------
SessionInit ==
  /\ Init
  /\ client = "start"
  /\ seen = NoTask
  /\ restarts = 0

\* Turn 1: the trip request opens the task.
Submit ==
  /\ client = "start"
  /\ Send(Opener)
  /\ client' = "waiting"
  /\ UNCHANGED <<seen, restarts>>

\* Mutant: a response that shows the task as it was before the message.
ReceiveAtOnce ==
  /\ client = "waiting"
  /\ Exists
  /\ seen' = task
  /\ client' = "polling"
  /\ UNCHANGED <<vars, restarts>>

\* The client polls (ClientConfig.polling), so the server answers a message
\* with the task as it is after the first event of that message's call.
Receive ==
  /\ client = "waiting"
  /\ Finished \/ (Exists /\ Len(task.history) = Len(sent))
  /\ seen' = task
  /\ client' = "polling"
  /\ UNCHANGED <<vars, restarts>>

\* _poll_until_actionable; tasks/get of a forgotten task raises, and nothing
\* catches it.
Poll ==
  /\ client = "polling"
  /\ seen.state \notin ActionableStates
  /\ seen' = IF Exists THEN task ELSE seen
  /\ client' = IF Exists THEN "polling" ELSE "crashed"
  /\ UNCHANGED <<vars, restarts>>

\* Mutant: the client answers as soon as the search has been announced.
ReplyWhileWorking ==
  /\ client = "polling"
  /\ Len(sent) = 1
  /\ seen.state = "WORKING"
  /\ Send(Answer)
  /\ client' = "waiting"
  /\ UNCHANGED <<seen, restarts>>

\* Turn 2: the first pause is answered, whatever it asks.
Reply ==
  /\ client = "polling"
  /\ Len(sent) = 1
  /\ seen.state = "INPUT_REQUIRED"
  /\ Send(Answer)
  /\ client' = "waiting"
  /\ UNCHANGED <<seen, restarts>>

\* The task to reply to was forgotten.
ReplyRefused ==
  /\ client = "polling"
  /\ Len(sent) = 1
  /\ seen.state = "INPUT_REQUIRED"
  /\ ~Exists
  /\ client' = "crashed"
  /\ UNCHANGED <<vars, seen, restarts>>

\* Mutant: the client polls for a terminal state only.
ReportTerminal ==
  /\ client = "polling"
  /\ seen.state \in TerminalStates
  /\ client' = "done"
  /\ UNCHANGED <<vars, seen, restarts>>

\* The outcome is printed and the client closed; a second pause is one.
Report ==
  /\ client = "polling"
  /\ \/ seen.state \in TerminalStates
     \/ seen.state = "INPUT_REQUIRED" /\ Len(sent) = 2
  /\ client' = "done"
  /\ UNCHANGED <<vars, seen, restarts>>

\* A request under way fails with its connection.
Restart ==
  /\ restarts < MaxRestarts
  /\ restarts' = restarts + 1
  /\ RestartServer
  /\ client' = IF client = "waiting" THEN "crashed" ELSE client
  /\ UNCHANGED <<conversation, destination, chosen, seen>>

ClientStep ==
  \/ Submit
  \/ Receive
  \/ Poll
  \/ Reply
  \/ ReplyRefused
  \/ Report

ServerStep == (ExecutorStep \/ Store) /\ UNCHANGED <<client, seen, restarts>>

SessionNext == ClientStep \/ ServerStep \/ Restart

\* The client's own steps are fair: its sleeps end and its requests are
\* answered.  The server's are as in FairSpec; it need not restart.
SessionSpec ==
  /\ SessionInit
  /\ [][SessionNext]_sessionVars
  /\ WF_sessionVars(ClientStep)
  /\ WF_sessionVars(ExecutorStep /\ UNCHANGED <<client, seen, restarts>>)
  /\ WF_sessionVars(Store /\ UNCHANGED <<client, seen, restarts>>)

-----------------------------------------------------------------------------
\* The script never hangs: it reports and closes, on every way the agent's
\* model calls can turn out, or ends with the error of a forgotten task.
SessionEnds == <>(client \in {"done", "crashed"})

\* When the script closes, the agent has nothing left to do for it: every
\* message was served, no call is running, no event is under way, and the
\* state reported is the state the task keeps until it is forgotten.
NothingLeftBehind ==
  client = "done" =>
    /\ pc = "idle" /\ events = <<>> /\ served = Len(sent)
    /\ task = seen \/ (restarts > 0 /\ ~Exists)

\* A reply is served as the answer to the pause the client was looking at: a
\* call that books serves a reply to "1 or 2?", a second search a reply to a
\* question about details, and never the other way round.
ReplyReachesItsQuestion ==
  /\ pc \in {"resume", "choose", "book", "complete"} => sent[served].shown = "choose"
  /\ pc \in {"begin", "parse", "search", "ask"} /\ served = 2 => sent[2].shown = "missing"
=============================================================================
