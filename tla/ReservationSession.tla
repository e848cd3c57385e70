------------------------- MODULE ReservationSession -------------------------
(***************************************************************************)
(* restaurant_reservation/client.py talking to RestaurantReservation: a    *)
(* scripted conversation of blocking calls, each on the task of the first. *)
(* Anybody who knows the task may cancel it meanwhile, and the server may  *)
(* restart.                                                                *)
(***************************************************************************)
EXTENDS RestaurantReservation

CONSTANTS
  Script,       \* SCRIPTED_TURNS
  MaxRestarts   \* bound on restarts of the server

ASSUME ScriptAssumption ==
  /\ Script \in Seq(Messages)
  /\ Script # <<>>
  /\ \A i, j \in 1..Len(Script) : Script[i] = Script[j] => i = j
  /\ MaxRestarts \in Nat

VARIABLES
  client,   \* where main() stands
  turn,     \* the turns it has sent
  seen,     \* the task of its last response
  restarts  \* restarts of the server so far

sessionVars == <<vars, client, turn, seen, restarts>>

-----------------------------------------------------------------------------
SessionInit ==
  /\ Init
  /\ client = "ready"
  /\ turn = 0
  /\ seen = NoTask
  /\ restarts = 0

\* The next turn, on the same task.
SendTurn ==
  /\ client = "ready"
  /\ turn < Len(Script)
  /\ Send(Script[turn + 1])
  /\ turn' = turn + 1
  /\ client' = "waiting"
  /\ UNCHANGED <<seen, restarts>>

\* The task was cancelled or forgotten while the client was reading the
\* question: the call raises and nothing catches it.
TurnRefused ==
  /\ client = "ready"
  /\ turn < Len(Script)
  /\ Finished \/ (turn > 0 /\ ~Exists)
  /\ client' = "crashed"
  /\ UNCHANGED <<vars, turn, seen, restarts>>

\* Mutant: a response that takes the old pause for the new one.
ReceiveStale ==
  /\ client = "waiting"
  /\ task.state \in ActionableStates
  /\ seen' = task
  /\ client' = IF task.state = "INPUT_REQUIRED" THEN "ready" ELSE "done"
  /\ UNCHANGED <<vars, turn, restarts>>

\* A blocking call returns when the call of execute() it caused has brought
\* the task to a pause or to its end.  A question leads to the next turn,
\* anything else ends the script.
Receive ==
  /\ client = "waiting"
  /\ task.state \in ActionableStates
  /\ Finished \/ Len(task.history) = turn
  /\ seen' = task
  /\ client' = IF task.state = "INPUT_REQUIRED" THEN "ready" ELSE "done"
  /\ UNCHANGED <<vars, turn, restarts>>

\* The HTTP client has a read timeout, which a blocking call may exceed; the
\* agent goes on without the script.
TurnTimesOut ==
  /\ client = "waiting"
  /\ client' = "crashed"
  /\ UNCHANGED <<vars, turn, seen, restarts>>

\* A request under way fails with its connection.
Restart ==
  /\ restarts < MaxRestarts
  /\ restarts' = restarts + 1
  /\ RestartServer
  /\ client' = IF client = "waiting" THEN "crashed" ELSE client
  /\ UNCHANGED <<conversation, turn, seen>>

\* The scripted turns are used up; the last question stays unanswered.
OutOfTurns ==
  /\ client = "ready"
  /\ turn = Len(Script)
  /\ client' = "done"
  /\ UNCHANGED <<vars, turn, seen, restarts>>

ClientStep ==
  \/ SendTurn
  \/ TurnRefused
  \/ Receive
  \/ OutOfTurns

OtherStep(action) == action /\ UNCHANGED <<client, turn, seen, restarts>>

SessionNext ==
  \/ ClientStep
  \/ OtherStep(ExecutorStep)
  \/ OtherStep(Store)
  \/ OtherStep(Cancel)
  \/ TurnTimesOut
  \/ Restart

\* Nobody has to cancel or to restart, and no call has to time out.
SessionSpec ==
  /\ SessionInit
  /\ [][SessionNext]_sessionVars
  /\ WF_sessionVars(ClientStep)
  /\ WF_sessionVars(OtherStep(ExecutorStep))
  /\ WF_sessionVars(OtherStep(Store))

-----------------------------------------------------------------------------
\* A confirmation takes everything into account that the client has said on
\* the task, in the order it was said: a turn is merged with the earlier ones
\* and none is forgotten or read twice.
ConfirmsWholeConversation ==
  \A a \in task.artifacts : a.from = SubSeq(Script, 1, turn)

\* A question the client gets is about its latest turn: when it is ready for
\* the next one, the agent has served every turn and has nothing under way
\* but a cancel.
QuestionIsFresh ==
  client = "ready" => served = turn /\ (cancelled \/ (pc = "idle" /\ events = <<>>))

\* The script comes to an end, whatever the agent asks and whoever cancels, and
\* without the timeout ever firing.
SessionEnds == <>(client \in {"done", "crashed"})

\* What the task promises to whoever looks at it; this agent also pauses and
\* ends straight from SUBMITTED.
Lifecycle == INSTANCE TaskLifecycle WITH
  state <- task.state, note <- task.note, artifacts <- task.artifacts,
  Result <- {Confirmation(SubSeq(Script, 1, n)) : n \in 1..Len(Script)},
  Explanations <- {}, Busy <- {"SUBMITTED", "WORKING"},
  Restarts <- TRUE
RefinesLifecycle == Lifecycle!Spec
=============================================================================
