--------------------------- MODULE TaskLifecycle ---------------------------
(***************************************************************************)
(* What every task agent of this repository promises to a client that can  *)
(* only look at the stored task (tasks/get, a webhook, a resubscription):  *)
(* it is announced once, pauses, delivers and ends only while at work,     *)
(* never takes an artifact back, completes only with a result in hand or   *)
(* with an explanation of why there is none, and never moves again after a *)
(* terminal state.  The store is in memory: when the server may restart,   *)
(* the whole task may be forgotten.                                        *)
(***************************************************************************)
EXTENDS Naturals

CONSTANTS
  Result,         \* the artifacts that count as the result of the task
  Explanations,   \* the status texts that may stand in for a result
  Busy,           \* the states in which the agent pauses, delivers and ends
  Restarts        \* whether the server may restart

VARIABLES
  state,          \* the state of the stored task
  note,           \* its status text
  artifacts       \* what has been delivered

lifecycleVars == <<state, note, artifacts>>

Terminal == {"COMPLETED", "FAILED", "CANCELED"}
Open == {"SUBMITTED", "WORKING", "INPUT_REQUIRED"}

Init == state = "NONE" /\ note = "none" /\ artifacts = {}

Submit == state = "NONE" /\ state' = "SUBMITTED" /\ UNCHANGED <<note, artifacts>>

Work == state \in Open /\ state' = "WORKING" /\ UNCHANGED artifacts

\* Nothing delivered is ever taken back.
Deliver ==
  /\ state \in Busy
  /\ artifacts \subseteq artifacts'
  /\ UNCHANGED <<state, note>>

Pause == state \in Busy /\ state' = "INPUT_REQUIRED" /\ UNCHANGED artifacts

Complete ==
  /\ state \in Busy
  /\ artifacts \intersect Result # {} \/ note' \in Explanations
  /\ state' = "COMPLETED"
  /\ UNCHANGED artifacts

Fail == state \in Busy /\ state' = "FAILED" /\ UNCHANGED artifacts

Cancel == state \in Open /\ state' = "CANCELED" /\ UNCHANGED artifacts

Forget == Restarts /\ state # "NONE" /\ Init'

Next ==
  \/ Submit
  \/ Work
  \/ Deliver
  \/ Pause
  \/ Complete
  \/ Fail
  \/ Cancel
  \/ Forget

Spec == Init /\ [][Next]_lifecycleVars
=============================================================================
