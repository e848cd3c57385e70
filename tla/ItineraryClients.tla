-------------------------- MODULE ItineraryClients --------------------------
(***************************************************************************)
(* The scripts that use the Itinerary Planning agent, each a process of    *)
(* its own: one that submits a task (client.py, cancel_demo.py or          *)
(* submit_then_detach.py) and check_later.py, which only knows the task    *)
(* id.  The server may restart under them.                                 *)
(***************************************************************************)
EXTENDS ItineraryPlanning

CONSTANTS
  Query,        \* the one request of the submitting script
  Scripts,      \* which submitting scripts may be run
  Budget,       \* polls of cancel_demo.py before it gives up
  MaxRestarts   \* bound on restarts of the server

ASSUME ClientsAssumption ==
  /\ Messages = {Query}
  /\ Scripts \subseteq {"client", "cancel_demo", "submit_then_detach"}
  /\ Budget \in Nat \ {0}
  /\ MaxRestarts \in Nat

VARIABLES
  script,     \* the submitting script that was run
  submitter,  \* where it stands
  seen,       \* the task of its last response
  elapsed,    \* the polls cancel_demo.py has spent
  checker,    \* where check_later.py stands
  found,      \* the task of its last response
  restarts    \* restarts of the server so far

submitterVars == <<script, submitter, seen, elapsed>>
checkerVars == <<checker, found>>
clientsVars == <<vars, submitterVars, checkerVars, restarts>>

Ended == {"done", "crashed"}

-----------------------------------------------------------------------------
ClientsInit ==
  /\ Init
  /\ script \in Scripts
  /\ submitter = "start"
  /\ seen = NoTask
  /\ elapsed = 0
  /\ checker = "off"
  /\ found = NoTask
  /\ restarts = 0

Submit ==
  /\ submitter = "start"
  /\ Send(Query)
  /\ submitter' = "waiting"
  /\ UNCHANGED <<script, seen, elapsed, checkerVars, restarts>>

\* The fast acknowledgement of a polling client; submit_then_detach.py leaves
\* with the task id.
Receive ==
  /\ submitter = "waiting"
  /\ Exists
  /\ seen' = task
  /\ submitter' = IF script = "submit_then_detach" THEN "done" ELSE "polling"
  /\ UNCHANGED <<vars, script, elapsed, checkerVars, restarts>>

\* tasks/get of a task the store no longer has raises, and nothing catches it.
Poll ==
  /\ submitter = "polling"
  /\ ~(seen.state \in TerminalStates)
  /\ script = "cancel_demo" => elapsed < Budget
  /\ seen' = IF Exists THEN task ELSE seen
  /\ submitter' = IF Exists THEN "polling" ELSE "crashed"
  /\ elapsed' = IF script = "cancel_demo" THEN elapsed + 1 ELSE elapsed
  /\ UNCHANGED <<vars, script, checkerVars, restarts>>

Report ==
  /\ submitter = "polling"
  /\ seen.state \in TerminalStates
  /\ submitter' = "done"
  /\ UNCHANGED <<vars, script, seen, elapsed, checkerVars, restarts>>

\* cancel_demo.py has spent its budget.
OutOfBudget ==
  /\ script = "cancel_demo"
  /\ submitter = "polling"
  /\ seen.state \notin TerminalStates
  /\ elapsed = Budget

CancelAccepted ==
  /\ OutOfBudget
  /\ Cancel
  /\ submitter' = "cancelling"
  /\ UNCHANGED <<script, seen, elapsed, checkerVars, restarts>>

\* The task ended, or was forgotten, after the last poll: the first
\* cancel_task() is not guarded and the error ends the script.
CancelRefused ==
  /\ OutOfBudget
  /\ ~Exists \/ Finished
  /\ submitter' = "crashed"
  /\ UNCHANGED <<vars, script, seen, elapsed, checkerVars, restarts>>

\* tasks/cancel answers with the task as it ended.
CancelAnswered ==
  /\ submitter = "cancelling"
  /\ Finished
  /\ seen' = task
  /\ submitter' = "again"
  /\ UNCHANGED <<vars, script, elapsed, checkerVars, restarts>>

\* The second cancel_task() may be answered or refused with
\* TaskNotCancelableError, and the script closes; a forgotten task raises
\* something else.
CancelAgain ==
  /\ submitter = "again"
  /\ submitter' = IF Exists THEN "done" ELSE "crashed"
  /\ UNCHANGED <<vars, script, seen, elapsed, checkerVars, restarts>>

\* check_later.py: its first tasks/get, at any time after the task id was
\* printed, and its polls.
CheckLater ==
  /\ seen.state # "NONE"
  /\ checker = "off" \/ (checker = "polling" /\ found.state \notin TerminalStates)
  /\ found' = IF Exists THEN task ELSE found
  /\ checker' = IF Exists THEN "polling" ELSE "crashed"
  /\ UNCHANGED <<vars, submitterVars, restarts>>

ReportLater ==
  /\ checker = "polling"
  /\ found.state \in TerminalStates
  /\ checker' = "done"
  /\ UNCHANGED <<vars, submitterVars, found, restarts>>

\* A request under way fails with its connection.
Restart ==
  /\ restarts < MaxRestarts
  /\ restarts' = restarts + 1
  /\ RestartServer
  /\ submitter' = IF submitter \in {"waiting", "cancelling"} THEN "crashed" ELSE submitter
  /\ UNCHANGED <<script, seen, elapsed, checkerVars>>

SubmitterStep ==
  \/ Submit
  \/ Receive
  \/ Poll
  \/ Report
  \/ CancelAccepted
  \/ CancelRefused
  \/ CancelAnswered
  \/ CancelAgain

CheckerStep == CheckLater \/ ReportLater

ServerStep ==
  /\ ExecutorStep \/ Store
  /\ UNCHANGED <<submitterVars, checkerVars, restarts>>

ClientsNext == SubmitterStep \/ CheckerStep \/ ServerStep \/ Restart

\* Executor, consumer and the scripts make progress once started; a script
\* need not be started and the server need not restart.
ClientsSpec ==
  /\ ClientsInit
  /\ [][ClientsNext]_clientsVars
  /\ WF_clientsVars(SubmitterStep /\ submitter # "start")
  /\ WF_clientsVars(CheckerStep /\ checker # "off")
  /\ WF_clientsVars(ExecutorStep /\ UNCHANGED <<submitterVars, checkerVars, restarts>>)
  /\ WF_clientsVars(Store /\ UNCHANGED <<submitterVars, checkerVars, restarts>>)

-----------------------------------------------------------------------------
\* A reported task is worth reporting: whichever script finds it COMPLETED,
\* at whatever moment it looks, finds the itinerary artifact or the reason why
\* there is none (client.py:83-88 has nothing else to print).  What the artifact
\* says is not looked at: see Itinerary.
ReportComplete ==
  \A snapshot \in {seen, found} :
    snapshot.state = "COMPLETED" =>
      Itinerary \in snapshot.artifacts \/ snapshot.note = "missing"

\* Every script that is run ends, however the agent's model calls turn out and
\* even if the server restarts: a lost task ends a polling loop with an error
\* and never leaves it spinning.
ScriptsEnd ==
  /\ submitter # "start" ~> submitter \in Ended
  /\ checker = "polling" ~> checker \in Ended

\* Of the outcomes that race for the task, COMPLETED and FAILED come from the
\* call itself: whichever script has seen one, the agent is through with that
\* request.  It neither goes on to plan for it (each of the two early outcomes
\* of agent_executor.py:39-67 must be followed by its return) nor has anything
\* left to say, not even a cancel that came too late.  Only a task that shows
\* CANCELED may have its execute() still on the way to its next await.
ReportedIsOver ==
  \A snapshot \in {seen, found} :
    snapshot.state \in {"COMPLETED", "FAILED"} =>
      pc = "idle" /\ events = <<>> /\ served = Len(sent)

\* What the task promises to whoever polls it, restarts included.
Lifecycle == INSTANCE TaskLifecycle WITH
  state <- task.state, note <- task.note, artifacts <- task.artifacts,
  Result <- {Itinerary}, Explanations <- {"missing"}, Busy <- {"WORKING"},
  Restarts <- TRUE
RefinesLifecycle == Lifecycle!Spec

\* poc.md:384: cancel_demo.py polls "until the budget is exceeded, then
\* cancels": the cancel is accepted.
BudgetCancels == submitter # "crashed"
=============================================================================
