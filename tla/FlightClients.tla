---------------------------- MODULE FlightClients ----------------------------
(***************************************************************************)
(* The scripts that ask the Flight Search agent with a blocking            *)
(* message/send: client.py once; version_mismatch_demo.py once for each of *)
(* a list of protocol versions; retry_demo.py over a transport that fails  *)
(* its first requests, retrying with exponential back-off.  The network    *)
(* below may lose a request or, while the agent works or when it has       *)
(* answered, the reply.                                                    *)
(***************************************************************************)
EXTENDS FlightSearch

CONSTANTS
  Scripts,            \* which script may be run
  Tried,              \* the versions version_mismatch_demo.py sends, in order
  FailFirstAttempts,  \* FAIL_FIRST_N_ATTEMPTS
  MaxAttempts         \* MAX_ATTEMPTS

ASSUME ClientsAssumption ==
  /\ Scripts \subseteq {"client", "retry_demo", "version_mismatch_demo"}
  /\ Versions \subseteq Nat \X Nat
  /\ <<1, 0>> \in Versions
  /\ Tried \in Seq(Versions) \ {<<>>}
  /\ FailFirstAttempts \in Nat
  /\ MaxAttempts \in Nat \ {0}

VARIABLES
  script,     \* the script that was run
  client,     \* where it stands
  attempt,    \* the loop index of send_with_retry
  attempts,   \* the requests FlakyTransport has seen
  label,      \* the number of versions tried
  pending,    \* the call whose reply the client awaits
  printed,    \* the answers it was given
  lost        \* auxiliary: requests and replies the network has lost

clientVars == <<script, client, attempt, attempts, label, pending, printed, lost>>
clientsVars == <<calls, clientVars>>

Ended == {"done", "crashed"}

Retrying == script = "retry_demo"

Simulated == Retrying /\ attempts < FailFirstAttempts

\* The header of the request: the default, unless the script sets one.
Version == IF script = "version_mismatch_demo" THEN Tried[label + 1] ELSE <<1, 0>>

\* Mutant: the last attempt is not made.
LastAttemptEarly == attempt = MaxAttempts - 1

LastAttempt == attempt = MaxAttempts

\* An attempt that raised: send_with_retry makes another one, unless it was the
\* last; the other scripts do not catch it.
Raise ==
  IF Retrying /\ ~LastAttempt
  THEN client' = "backoff"
  ELSE client' = "crashed"

-----------------------------------------------------------------------------
ClientsInit ==
  /\ Init
  /\ script \in Scripts
  /\ client = "start"
  /\ attempt = 1
  /\ attempts = 0
  /\ label = 0
  /\ pending = 0
  /\ printed = <<>>
  /\ lost = [requests |-> 0, replies |-> 0]

Start ==
  /\ client = "start"
  /\ client' = "sending"
  /\ UNCHANGED <<calls, script, attempt, attempts, label, pending, printed, lost>>

\* Mutant: the transport passes the request on before it fails.
FlakeAfterSending ==
  /\ client = "sending"
  /\ Simulated
  /\ attempts' = attempts + 1
  /\ Arrive(Version)
  /\ Raise
  /\ UNCHANGED <<script, attempt, label, pending, printed, lost>>

\* FlakyTransport: the request never leaves the client.
Flake ==
  /\ client = "sending"
  /\ Simulated
  /\ attempts' = attempts + 1
  /\ Raise
  /\ UNCHANGED <<calls, script, attempt, label, pending, printed, lost>>

Request ==
  /\ client = "sending"
  /\ ~Simulated
  /\ attempts' = IF Retrying THEN attempts + 1 ELSE attempts
  /\ Arrive(Version)
  /\ pending' = Len(calls')
  /\ client' = "awaiting"
  /\ UNCHANGED <<script, attempt, label, printed, lost>>

LoseRequest ==
  /\ client = "sending"
  /\ ~Simulated
  /\ attempts' = IF Retrying THEN attempts + 1 ELSE attempts
  /\ lost' = [lost EXCEPT !.requests = @ + 1]
  /\ Raise
  /\ UNCHANGED <<calls, script, attempt, label, pending, printed>>

\* The connection breaks, or the client's read times out while the agent is
\* still at work: the call goes on without anybody to read its answer.
LoseReply ==
  /\ client = "awaiting"
  /\ lost' = [lost EXCEPT !.replies = @ + 1]
  /\ Raise
  /\ UNCHANGED <<calls, script, attempt, attempts, label, pending, printed>>

\* Mutant: VersionNotSupportedError is not caught.
ReceiveUncaught ==
  /\ client = "awaiting"
  /\ Answered(pending)
  /\ printed' = Append(printed, calls[pending].stage)
  /\ label' = label + 1
  /\ client' = CASE calls[pending].stage = "refused" -> "crashed"
                 [] script = "version_mismatch_demo" /\ label' < Len(Tried) -> "sending"
                 [] OTHER -> "done"
  /\ UNCHANGED <<calls, script, attempt, attempts, pending, lost>>

\* The next version of the list, or the end of the script.  A refusal is caught
\* and printed like a Message.
Receive ==
  /\ client = "awaiting"
  /\ Answered(pending)
  /\ printed' = Append(printed, calls[pending].stage)
  /\ label' = label + 1
  /\ client' = IF script = "version_mismatch_demo" /\ label' < Len(Tried)
               THEN "sending" ELSE "done"
  /\ UNCHANGED <<calls, script, attempt, attempts, pending, lost>>

\* The loop goes on after its sleep.
Retry ==
  /\ client = "backoff"
  /\ attempt' = attempt + 1
  /\ client' = "sending"
  /\ UNCHANGED <<calls, script, attempts, label, pending, printed, lost>>

ClientStep ==
  \/ Start
  \/ Flake
  \/ Request
  \/ Receive
  \/ Retry

NetworkStep == LoseRequest \/ LoseReply

AgentStep == ExecutorStep /\ UNCHANGED clientVars

ClientsNext == ClientStep \/ NetworkStep \/ AgentStep

\* The network need not lose anything; a script need not be started.
ClientsSpec ==
  /\ ClientsInit
  /\ [][ClientsNext]_clientsVars
  /\ WF_clientsVars(ClientStep /\ client # "start")
  /\ WF_clientsVars(AgentStep)

-----------------------------------------------------------------------------
\* poc.md:418: the agent "never even needs to know anything went wrong": a
\* simulated failure never reaches it, however many there are.  It serves one
\* request, and the same one again only for a reply the network itself lost.
AgentUnaware == Retrying => Len(calls) <= 1 + lost.replies

\* As long as fewer attempts are simulated to fail than are made, it takes the
\* loss of every remaining one to defeat the retries, and the script never ends
\* without an answer and without an error (the last line of send_with_retry).
OnlyLossDefeatsRetry ==
  Retrying /\ FailFirstAttempts < MaxAttempts =>
    /\ client = "crashed" => lost.requests + lost.replies = MaxAttempts - FailFirstAttempts
    /\ client = "done" => Len(printed) = 1 /\ printed[1] \in Replies

\* version_mismatch_demo.py:34-39 catches a refusal and nothing else.  A refused
\* version costs the script that one try only: it makes one request for each
\* version it gets to, in the order of its list, prints under each heading the
\* answer to that very request, and unless the network loses one gets to the end
\* of the list.  The first loss ends it, and with it client.py, there and then,
\* so that no later answer can appear under an earlier heading.
RefusalEndsOneTry ==
  ~Retrying =>
    /\ client = "crashed" <=> lost.requests + lost.replies = 1
    /\ client = "done" => Len(printed) = Len(calls)
    /\ script = "version_mismatch_demo" =>
         /\ client = "done" => Len(printed) = Len(Tried)
         /\ \A i \in 1..Len(printed) :
              /\ calls[i].version = Tried[i]
              /\ calls[i].stage = printed[i]

\* Every script that is run ends: each request that reaches the agent gets its
\* one Message, also when its model call raises, and retries are bounded.
ScriptsEnd == client # "start" ~> client \in Ended
=============================================================================
