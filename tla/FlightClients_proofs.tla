------------------------ MODULE FlightClients_proofs ------------------------
(***************************************************************************)
(* Theorems about FlightClients, for every number of simulated failures    *)
(* and of attempts, every list of protocol versions and every loss.        *)
(***************************************************************************)
EXTENDS FlightClients, TLAPS, SequenceTheorems

Stages == {"parse", "refused"} \union Replies

Places == {"start", "sending", "awaiting", "backoff", "done", "crashed"}

\* The type invariant.
TypeOK ==
  /\ calls \in Seq([version : Versions, stage : Stages])
  /\ script \in Scripts
  /\ client \in Places
  /\ attempt \in 1..MaxAttempts
  /\ attempts \in Nat
  /\ label \in 0..Len(Tried)
  /\ pending \in 0..Len(calls)
  /\ printed \in Seq(Stages)
  /\ lost \in [requests : Nat, replies : Nat]
  /\ client = "awaiting" => pending \in 1..Len(calls)
  /\ client \in {"start", "sending", "awaiting", "backoff"} => label < Len(Tried)
  /\ client = "backoff" => attempt < MaxAttempts

\* One while the request of an attempt is with the agent, or has been answered.
Taken == IF client \in {"awaiting", "done"} THEN 1 ELSE 0

\* Where every attempt went: simulated to fail, lost by the network, or Taken.
RetryInv ==
  Retrying =>
    /\ attempts = IF client \in {"start", "sending"} THEN attempt - 1 ELSE attempt
    /\ lost.requests + lost.replies + Taken =
         IF attempts <= FailFirstAttempts THEN 0 ELSE attempts - FailFirstAttempts
    /\ Len(calls) = lost.replies + Taken
    /\ client = "crashed" => attempt = MaxAttempts
    /\ Len(printed) = IF client = "done" THEN 1 ELSE 0
    /\ client = "done" => printed[1] \in Replies
    /\ \A i \in 1..Len(calls) : calls[i].version = <<1, 0>>

\* The server refuses by the version of a request.
VersionInv ==
  \A i \in 1..Len(calls) : calls[i].stage = "refused" <=> ~Supported(calls[i].version)

\* Without retries the i-th request is the i-th try and its answer the i-th one
\* printed; a loss ends the script, a refusal does not.
TryInv ==
  ~Retrying =>
    /\ lost.requests + lost.replies = IF client = "crashed" THEN 1 ELSE 0
    /\ client # "backoff"
    /\ Len(printed) = label /\ label <= Len(calls)
    /\ client \in {"start", "sending", "done"} => Len(calls) = label
    /\ client = "awaiting" => Len(calls) = label + 1 /\ pending = label + 1
    /\ \A i \in 1..label : Answered(i) /\ calls[i].stage = printed[i]
    /\ script = "version_mismatch_demo" =>
         /\ client = "done" => label = Len(Tried)
         /\ \A i \in 1..Len(calls) : calls[i].version = Tried[i]

-----------------------------------------------------------------------------
\* The version of the request about to be made is one of the versions.
LEMMA VersionType ==
  ASSUME TypeOK, client = "sending"
  PROVE  Version \in Versions
<1>1. Len(Tried) \in Nat /\ \A i \in 1..Len(Tried) : Tried[i] \in Versions
  BY ClientsAssumption
<1>2. CASE script = "version_mismatch_demo"
  <2>1. label + 1 \in 1..Len(Tried)
    BY <1>1, <1>2 DEF TypeOK
  <2> QED
    BY <1>1, <1>2, <2>1 DEF Version
<1>3. CASE script # "version_mismatch_demo"
  BY <1>3, ClientsAssumption DEF Version
<1> QED
  BY <1>2, <1>3

\* A request that reaches the server is the last of the calls.
LEMMA Arriving ==
  ASSUME TypeOK, NEW version \in Versions, Arrive(version)
  PROVE  /\ calls' \in Seq([version : Versions, stage : Stages])
         /\ Len(calls') = Len(calls) + 1
         /\ \A i \in 1..Len(calls) : calls'[i] = calls[i]
         /\ calls'[Len(calls) + 1].version = version
         /\ calls'[Len(calls) + 1].stage =
              IF Supported(version) THEN "parse" ELSE "refused"
<1> DEFINE stage == IF Supported(version) THEN "parse" ELSE "refused"
           call == [version |-> version, stage |-> stage]
<1>1. call \in [version : Versions, stage : Stages]
  BY DEF Stages
<1>2. calls' = Append(calls, call)
  BY DEF Arrive
<1>3. call.version = version /\ call.stage = stage
  OBVIOUS
<1> HIDE DEF call
<1>4. calls \in Seq([version : Versions, stage : Stages])
  BY DEF TypeOK
<1>5. /\ calls' \in Seq([version : Versions, stage : Stages])
      /\ Len(calls') = Len(calls) + 1
      /\ \A i \in 1..Len(calls) : calls'[i] = calls[i]
      /\ calls'[Len(calls) + 1] = call
  BY <1>1, <1>2, <1>4
<1> QED
  BY <1>3, <1>5

\* A call of the agent that is answered keeps its version and its neighbours.
LEMMA Replying ==
  ASSUME TypeOK, ExecutorStep
  PROVE  \E i \in 1..Len(calls) : \E text \in Replies :
           /\ calls' \in Seq([version : Versions, stage : Stages])
           /\ Len(calls') = Len(calls)
           /\ calls[i].stage = "parse"
           /\ calls'[i].stage = text
           /\ \A j \in 1..Len(calls) : calls'[j].version = calls[j].version
           /\ \A j \in 1..Len(calls) : j # i => calls'[j] = calls[j]
<1>1. PICK i \in 1..Len(calls) : \E text \in Replies : Reply(i, text)
  BY DEF ExecutorStep, FailRequest, ReportMissing, ListFlights, Replies
<1>2. PICK text \in Replies : Reply(i, text)
  BY <1>1
<1>3. calls[i].stage = "parse" /\ calls' = [calls EXCEPT ![i].stage = text]
  BY <1>2 DEF Reply
<1> DEFINE CallRecords == [version : Versions, stage : Stages]
           call == [calls[i] EXCEPT !.stage = text]
<1>4. calls \in Seq(CallRecords) /\ text \in Stages
  BY DEF TypeOK, Stages
<1>5. calls[i] \in CallRecords
  BY <1>4, ElementOfSeq
<1>6. call \in CallRecords /\ call.stage = text /\ call.version = calls[i].version
  BY <1>4, <1>5
<1>7. calls' = [calls EXCEPT ![i] = call]
  BY <1>3
<1> HIDE DEF CallRecords, call
<1>8. /\ calls' \in Seq(CallRecords)
      /\ Len(calls') = Len(calls)
      /\ \A j \in 1..Len(calls) : calls'[j] = IF j = i THEN call ELSE calls[j]
  BY <1>4, <1>6, <1>7, ExceptSeq
<1> QED
  BY <1>3, <1>6, <1>8 DEF CallRecords

-----------------------------------------------------------------------------
\* Every variable keeps its type, and the scripts stay within their lists.
THEOREM FlightTypeCorrect == ClientsSpec => []TypeOK
<1>1. ClientsInit => TypeOK
  <2> SUFFICES ASSUME ClientsInit PROVE TypeOK
    OBVIOUS
  <2>1. calls = <<>> /\ printed = <<>>
    BY DEF ClientsInit, Init
  <2>2. calls \in Seq([version : Versions, stage : Stages]) /\ printed \in Seq(Stages)
    BY <2>1
  <2>3. Len(Tried) \in Nat \ {0}
    BY ClientsAssumption, EmptySeq
  <2> QED
    BY <2>2, <2>3, ClientsAssumption DEF ClientsInit, TypeOK, Places
<1>2. TypeOK /\ [ClientsNext]_clientsVars => TypeOK'
  <2> SUFFICES ASSUME TypeOK, [ClientsNext]_clientsVars PROVE TypeOK'
    OBVIOUS
  <2>0. Len(Tried) \in Nat
    BY ClientsAssumption
  <2>1. CASE Start
    BY <2>1 DEF Start, TypeOK, Places
  <2>2. CASE Flake
    BY <2>2, ClientsAssumption DEF Flake, Raise, LastAttempt, TypeOK, Places
  <2>3. CASE Request
    <3>1. PICK version \in Versions : Arrive(version)
      BY <2>3, VersionType DEF Request
    <3>2. /\ calls' \in Seq([version : Versions, stage : Stages])
          /\ Len(calls') = Len(calls) + 1
      BY <3>1, Arriving
    <3> QED
      BY <2>3, <3>2 DEF Request, TypeOK, Places
  <2>4. CASE Receive
    <3>1. pending \in 1..Len(calls)
      BY <2>4 DEF Receive, TypeOK
    <3>2. calls[pending].stage \in Stages
      <4> DEFINE CallRecords == [version : Versions, stage : Stages]
      <4>1. calls \in Seq(CallRecords)
        BY DEF TypeOK
      <4> HIDE DEF CallRecords
      <4>2. calls[pending] \in CallRecords
        BY <3>1, <4>1, ElementOfSeq
      <4> QED
        BY <4>2 DEF CallRecords
    <3>3. printed' \in Seq(Stages)
      BY <2>4, <3>2 DEF Receive, TypeOK
    <3>4. /\ label' \in 0..Len(Tried)
          /\ client' \in {"sending", "done"}
          /\ client' = "sending" => label' < Len(Tried)
      BY <2>0, <2>4 DEF Receive, TypeOK
    <3>5. UNCHANGED <<calls, script, attempt, attempts, pending, lost>>
      BY <2>4 DEF Receive
    <3> QED
      BY <3>3, <3>4, <3>5 DEF TypeOK, Places
  <2>5. CASE Retry
    BY <2>5, ClientsAssumption DEF Retry, TypeOK, Places
  <2>6. CASE LoseRequest
    <3>1. lost' \in [requests : Nat, replies : Nat]
      BY <2>6 DEF LoseRequest, TypeOK
    <3>2. client' = "crashed" \/ (client' = "backoff" /\ attempt # MaxAttempts)
      BY <2>6 DEF LoseRequest, Raise, LastAttempt
    <3>3. attempts' \in Nat /\ client \in {"sending", "awaiting"}
      BY <2>6 DEF LoseRequest, TypeOK
    <3>4. UNCHANGED <<calls, script, attempt, label, pending, printed>>
      BY <2>6 DEF LoseRequest
    <3> QED
      BY <3>1, <3>2, <3>3, <3>4, ClientsAssumption DEF TypeOK, Places
  <2>7. CASE LoseReply
    <3>1. lost' \in [requests : Nat, replies : Nat]
      BY <2>7 DEF LoseReply, TypeOK
    <3>2. client' = "crashed" \/ (client' = "backoff" /\ attempt # MaxAttempts)
      BY <2>7 DEF LoseReply, Raise, LastAttempt
    <3>3. attempts' \in Nat /\ client \in {"sending", "awaiting"}
      BY <2>7 DEF LoseReply, TypeOK
    <3>4. UNCHANGED <<calls, script, attempt, label, pending, printed>>
      BY <2>7 DEF LoseReply
    <3> QED
      BY <3>1, <3>2, <3>3, <3>4, ClientsAssumption DEF TypeOK, Places
  <2>8. CASE AgentStep
    <3>1. /\ calls' \in Seq([version : Versions, stage : Stages])
          /\ Len(calls') = Len(calls)
      BY <2>8, Replying DEF AgentStep
    <3> QED
      BY <2>8, <3>1 DEF AgentStep, clientVars, TypeOK
  <2>9. CASE UNCHANGED clientsVars
    BY <2>9 DEF clientsVars, clientVars, TypeOK
  <2> QED
    BY <2>1, <2>2, <2>3, <2>4, <2>5, <2>6, <2>7, <2>8, <2>9
       DEF ClientsNext, ClientStep, NetworkStep
<1> QED
  BY <1>1, <1>2, PTL DEF ClientsSpec

-----------------------------------------------------------------------------
\* An answer carries the version it was asked with, and is a refusal only for
\* another major version.
LEMMA ReplyingVersions ==
  ASSUME TypeOK, VersionInv, ExecutorStep
  PROVE  /\ Len(calls') = Len(calls)
         /\ \A i \in 1..Len(calls) :
              /\ calls'[i].version = calls[i].version
              /\ calls'[i].stage = "refused" <=> ~Supported(calls'[i].version)
<1>1. PICK i \in 1..Len(calls), text \in Replies :
           /\ Len(calls') = Len(calls)
           /\ calls[i].stage = "parse"
           /\ calls'[i].stage = text
           /\ \A j \in 1..Len(calls) : calls'[j].version = calls[j].version
           /\ \A j \in 1..Len(calls) : j # i => calls'[j] = calls[j]
  BY Replying
<1>2. text # "refused" /\ calls[i].stage # "refused"
  BY <1>1 DEF Replies
<1> QED
  BY <1>1, <1>2 DEF VersionInv

\* A request that has arrived is refused by its version alone.
LEMMA ArrivingVersions ==
  ASSUME TypeOK, VersionInv, NEW version \in Versions, Arrive(version)
  PROVE  \A i \in 1..Len(calls') : calls'[i].stage = "refused" <=> ~Supported(calls'[i].version)
<1>0. PICK n \in Nat : n = Len(calls)
  BY DEF TypeOK
<1>1. /\ Len(calls') = n + 1
      /\ \A i \in 1..n : calls'[i] = calls[i]
      /\ calls'[n + 1].version = version
      /\ calls'[n + 1].stage = IF Supported(version) THEN "parse" ELSE "refused"
  BY <1>0, Arriving
<1>2. SUFFICES ASSUME NEW i \in 1..(n + 1)
               PROVE  calls'[i].stage = "refused" <=> ~Supported(calls'[i].version)
  BY <1>1
<1>3. CASE i = n + 1
  BY <1>1, <1>3
<1>4. CASE i \in 1..n
  BY <1>0, <1>1, <1>4 DEF VersionInv
<1> QED
  BY <1>3, <1>4

\* A request is refused by its version alone, whatever else is under way.
THEOREM RefusedByVersion == ClientsSpec => []VersionInv
<1>1. ClientsInit => VersionInv
  BY DEF ClientsInit, Init, VersionInv
<1>2. TypeOK /\ VersionInv /\ [ClientsNext]_clientsVars => VersionInv'
  <2> SUFFICES ASSUME TypeOK, VersionInv, [ClientsNext]_clientsVars PROVE VersionInv'
    OBVIOUS
  <2>1. CASE Request
    <3>1. PICK version \in Versions : Arrive(version)
      BY <2>1, VersionType DEF Request
    <3> QED
      BY <3>1, ArrivingVersions DEF VersionInv
  <2>2. CASE AgentStep
    BY <2>2, ReplyingVersions DEF AgentStep, VersionInv
  <2>3. CASE UNCHANGED calls
    BY <2>3 DEF VersionInv
  <2> QED
    BY <2>1, <2>2, <2>3
       DEF ClientsNext, ClientStep, NetworkStep, Start, Flake, Receive, Retry, LoseRequest,
           LoseReply, clientsVars
<1> QED
  BY <1>1, <1>2, FlightTypeCorrect, PTL DEF ClientsSpec

\* The agent answers what has no answer yet: the answers printed stay those of
\* their requests.
LEMMA ReplyingTries ==
  ASSUME TypeOK, TryInv, AgentStep
  PROVE  TryInv'
<1>1. UNCHANGED clientVars /\ ExecutorStep
  BY DEF AgentStep
<1>2. PICK i \in 1..Len(calls), text \in Replies :
           /\ Len(calls') = Len(calls)
           /\ calls[i].stage = "parse"
           /\ \A j \in 1..Len(calls) : calls'[j].version = calls[j].version
           /\ \A j \in 1..Len(calls) : j # i => calls'[j] = calls[j]
  BY <1>1, Replying
<1>3. SUFFICES ASSUME ~Retrying PROVE TryInv'
  BY <1>1 DEF TryInv, Retrying, clientVars
<1>4. Len(calls) \in Nat /\ label \in Nat /\ label <= Len(calls)
  BY <1>3, ClientsAssumption DEF TypeOK, TryInv
<1>5. \A j \in 1..label : calls'[j] = calls[j]
  <2> SUFFICES ASSUME NEW j \in 1..label PROVE calls'[j] = calls[j]
    OBVIOUS
  <2>1. Answered(j) /\ j \in 1..Len(calls)
    BY <1>3, <1>4 DEF TryInv
  <2>2. j # i
    BY <1>2, <2>1 DEF Answered, Replies
  <2> QED
    BY <1>2, <2>1, <2>2
<1>6. \A j \in 1..label : Answered(j)' /\ calls'[j].stage = printed[j]
  BY <1>3, <1>5 DEF TryInv, Answered
<1> QED
  BY <1>1, <1>2, <1>3, <1>6 DEF TryInv, clientVars, Retrying

\* A try sends its own version, behind the requests of the tries before it.
LEMMA RequestingTries ==
  ASSUME TypeOK, TryInv, Request
  PROVE  TryInv'
<1>1. PICK version \in Versions : version = Version
  BY VersionType DEF Request
<1>2. PICK n \in Nat : n = Len(calls)
  BY DEF TypeOK
<1>3. /\ Len(calls') = n + 1
      /\ \A i \in 1..n : calls'[i] = calls[i]
      /\ calls'[n + 1].version = version
  BY <1>1, <1>2, Arriving DEF Request
<1>4. /\ client = "sending" /\ client' = "awaiting" /\ pending' = n + 1
      /\ UNCHANGED <<script, label, printed, lost>>
  BY <1>2, <1>3 DEF Request
<1>5. SUFFICES ASSUME ~Retrying PROVE TryInv'
  BY <1>4 DEF TryInv, Retrying
<1>6. n = label
  BY <1>2, <1>4, <1>5 DEF TryInv
<1>7. \A i \in 1..label : Answered(i)' /\ calls'[i].stage = printed[i]
  BY <1>3, <1>5, <1>6 DEF TryInv, Answered
<1>8. script = "version_mismatch_demo" => \A i \in 1..(n + 1) : calls'[i].version = Tried[i]
  <2> SUFFICES ASSUME script = "version_mismatch_demo", NEW i \in 1..(n + 1)
               PROVE  calls'[i].version = Tried[i]
    OBVIOUS
  <2>1. CASE i = n + 1
    BY <1>1, <1>3, <1>6, <2>1 DEF Version
  <2>2. CASE i \in 1..n
    BY <1>2, <1>3, <1>5, <2>2 DEF TryInv
  <2> QED
    BY <2>1, <2>2
<1>9. /\ lost'.requests + lost'.replies = 0
      /\ Len(printed') = label' /\ label' <= n + 1 /\ pending' = label' + 1
  BY <1>2, <1>4, <1>5, <1>6 DEF TryInv
<1> QED
  BY <1>3, <1>4, <1>6, <1>7, <1>8, <1>9 DEF TryInv

\* An answer is printed behind those of the tries before it.
LEMMA ReceivingTries ==
  ASSUME TypeOK, TryInv, Receive
  PROVE  TryInv'
<1>1. /\ client = "awaiting" /\ Answered(pending)
      /\ printed' = Append(printed, calls[pending].stage)
      /\ label' = label + 1
      /\ UNCHANGED <<calls, script, lost>>
      /\ client' \in {"sending", "done"}
      /\ client' = "done" /\ script = "version_mismatch_demo" => ~(label + 1 < Len(Tried))
  BY DEF Receive
<1>2. SUFFICES ASSUME ~Retrying PROVE TryInv'
  BY <1>1 DEF TryInv, Retrying
<1>3. PICK n \in Nat : n = label
  BY ClientsAssumption DEF TypeOK
<1>4. Len(calls) = n + 1 /\ pending = n + 1 /\ Len(printed) = n /\ printed \in Seq(Stages)
  BY <1>1, <1>2, <1>3 DEF TryInv, TypeOK
<1>5. /\ Len(printed') = n + 1
      /\ \A i \in 1..n : printed'[i] = printed[i]
      /\ printed'[n + 1] = calls[n + 1].stage
  BY <1>1, <1>4
<1>6. \A i \in 1..(n + 1) : Answered(i) /\ calls[i].stage = printed'[i]
  <2> SUFFICES ASSUME NEW i \in 1..(n + 1) PROVE Answered(i) /\ calls[i].stage = printed'[i]
    OBVIOUS
  <2>1. CASE i = n + 1
    BY <1>1, <1>4, <1>5, <2>1
  <2>2. CASE i \in 1..n
    BY <1>2, <1>3, <1>5, <2>2 DEF TryInv
  <2> QED
    BY <2>1, <2>2
<1>7. \A i \in 1..(n + 1) : Answered(i)' /\ calls'[i].stage = printed'[i]
  BY <1>1, <1>6 DEF Answered
<1>8. client' = "done" /\ script = "version_mismatch_demo" => n + 1 = Len(Tried)
  <2>1. Len(Tried) \in Nat /\ n < Len(Tried)
    BY <1>1, <1>3, ClientsAssumption DEF TypeOK
  <2> QED
    BY <1>1, <1>3, <2>1
<1>9. /\ lost'.requests + lost'.replies = 0
      /\ script = "version_mismatch_demo" => \A i \in 1..Len(calls) : calls[i].version = Tried[i]
  BY <1>1, <1>2 DEF TryInv
<1> QED
  BY <1>1, <1>3, <1>4, <1>5, <1>7, <1>8, <1>9 DEF TryInv

\* Every try is accounted for: sent, answered and printed, or lost.
THEOREM TriesAccounted == ClientsSpec => []TryInv
<1>1. ClientsInit => TryInv
  BY DEF ClientsInit, Init, TryInv
<1>2. TypeOK /\ TryInv /\ [ClientsNext]_clientsVars => TryInv'
  <2> SUFFICES ASSUME TypeOK, TryInv, [ClientsNext]_clientsVars PROVE TryInv'
    OBVIOUS
  <2>0. /\ lost \in [requests : Nat, replies : Nat]
        /\ Len(calls) \in Nat /\ label \in Nat
    BY ClientsAssumption DEF TypeOK
  <2>1. CASE Start
    BY <2>1 DEF Start, TryInv, Retrying, Answered
  <2>2. CASE Flake
    BY <2>2 DEF Flake, Simulated, TryInv, Retrying
  <2>3. CASE Retry
    BY <2>3 DEF Retry, TryInv, Retrying
  <2>4. CASE LoseRequest \/ LoseReply
    <3>1. /\ client \in {"sending", "awaiting"}
          /\ ~Retrying => client' = "crashed"
          /\ lost'.requests + lost'.replies = (lost.requests + lost.replies) + 1
          /\ UNCHANGED <<calls, script, label, printed>>
      BY <2>0, <2>4 DEF LoseRequest, LoseReply, Raise
    <3>2. SUFFICES ASSUME ~Retrying PROVE TryInv'
      BY <3>1 DEF TryInv, Retrying
    <3>3. lost'.requests + lost'.replies = 1
      BY <3>1, <3>2 DEF TryInv
    <3> QED
      BY <3>1, <3>2, <3>3 DEF TryInv, Answered
  <2>5. CASE UNCHANGED clientsVars
    BY <2>5 DEF clientsVars, clientVars, TryInv, Retrying, Answered
  <2> QED
    BY <2>1, <2>2, <2>3, <2>4, <2>5, ReplyingTries, RequestingTries, ReceivingTries
       DEF ClientsNext, ClientStep, NetworkStep
<1> QED
  BY <1>1, <1>2, FlightTypeCorrect, PTL DEF ClientsSpec

\* For every list of versions, in whatever order the refused ones come, each
\* try has its own answer and only a loss ends the list early.
THEOREM TriesIndependent == ClientsSpec => []RefusalEndsOneTry
<1>1. TypeOK /\ TryInv => RefusalEndsOneTry
  <2> SUFFICES ASSUME TypeOK, TryInv, ~Retrying
               PROVE  /\ client = "crashed" <=> lost.requests + lost.replies = 1
                      /\ client = "done" => Len(printed) = Len(calls)
                      /\ script = "version_mismatch_demo" =>
                           /\ client = "done" => Len(printed) = Len(Tried)
                           /\ \A i \in 1..Len(printed) :
                                calls[i].version = Tried[i] /\ calls[i].stage = printed[i]
    BY DEF RefusalEndsOneTry
  <2>1. Len(calls) \in Nat /\ label \in Nat /\ label <= Len(calls) /\ Len(printed) = label
    BY ClientsAssumption DEF TypeOK, TryInv
  <2> QED
    BY <2>1 DEF TryInv
<1> QED
  BY <1>1, FlightTypeCorrect, TriesAccounted, PTL

-----------------------------------------------------------------------------
\* The attempts of the retry loop are all accounted for.
THEOREM AttemptsAccounted == ClientsSpec => []RetryInv
<1>1. ClientsInit => RetryInv
  BY ClientsAssumption DEF ClientsInit, Init, RetryInv, Taken
<1>2. TypeOK /\ VersionInv /\ RetryInv /\ [ClientsNext]_clientsVars => RetryInv'
  <2> SUFFICES ASSUME TypeOK, VersionInv, RetryInv, [ClientsNext]_clientsVars PROVE RetryInv'
    OBVIOUS
  <2>0. /\ attempt \in Nat /\ attempts \in Nat /\ Len(calls) \in Nat
        /\ MaxAttempts \in Nat /\ FailFirstAttempts \in Nat
        /\ lost.requests \in Nat /\ lost.replies \in Nat
    BY ClientsAssumption DEF TypeOK
  <2>1. CASE Start
    BY <2>1 DEF Start, RetryInv, Retrying, Taken
  <2>2. CASE Flake
    <3>1. SUFFICES ASSUME Retrying PROVE RetryInv'
      BY <2>2 DEF Flake, RetryInv, Retrying
    <3>2. /\ client = "sending" /\ Taken = 0
          /\ client' \in {"backoff", "crashed"} /\ Taken' = 0
          /\ client' = "crashed" => attempt = MaxAttempts
      BY <2>2, <3>1 DEF Flake, Raise, LastAttempt, Taken
    <3>3. /\ attempts' = attempts + 1
          /\ attempts < FailFirstAttempts
          /\ UNCHANGED <<calls, script, attempt, printed, lost>>
      BY <2>0, <2>2, <3>1 DEF Flake, Simulated
    <3>4. /\ attempts = attempt - 1
          /\ Len(calls) = lost.replies
          /\ Len(printed) = 0
          /\ \A i \in 1..Len(calls) : calls[i].version = <<1, 0>>
      BY <2>0, <3>1, <3>2 DEF RetryInv
    <3>5. lost.requests + lost.replies = 0
      <4>1. attempts <= FailFirstAttempts
        BY <2>0, <3>3
      <4>2. lost.requests + lost.replies + Taken = 0
        BY <3>1, <4>1 DEF RetryInv
      <4> QED
        BY <2>0, <3>2, <4>2
    <3>6. attempts' = attempt' /\ attempts' <= FailFirstAttempts
      BY <2>0, <3>3, <3>4
    <3>7. client' \notin {"start", "sending", "done"}
      BY <3>2
    <3>8. lost'.requests + lost'.replies + Taken' = 0 /\ Len(calls') = lost'.replies + Taken'
      BY <2>0, <3>2, <3>3, <3>4, <3>5
    <3> QED
      BY <3>2, <3>3, <3>4, <3>6, <3>7, <3>8 DEF RetryInv
  <2>3. CASE Request
    <3>1. PICK version \in Versions : version = Version
      BY <2>3, VersionType DEF Request
    <3>2. Retrying => version = <<1, 0>>
      BY <3>1 DEF Version, Retrying
    <3>3. /\ Len(calls') = Len(calls) + 1
          /\ \A i \in 1..Len(calls) : calls'[i] = calls[i]
          /\ calls'[Len(calls) + 1].version = version
      BY <2>3, <3>1, Arriving DEF Request
    <3> QED
      BY <2>0, <2>3, <3>2, <3>3 DEF Request, Simulated, RetryInv, Retrying, Taken
  <2>4. CASE Receive
    <3>1. SUFFICES ASSUME Retrying PROVE RetryInv'
      BY <2>4 DEF Receive, RetryInv, Retrying
    <3>2. pending \in 1..Len(calls) /\ calls[pending].version = <<1, 0>>
      BY <2>4, <3>1 DEF Receive, TypeOK, RetryInv
    <3>3. calls[pending].stage # "refused"
      BY <3>2 DEF VersionInv, Supported
    <3>4. calls[pending].stage \in Replies
      BY <2>4, <3>3 DEF Receive, Answered
    <3>5. printed = <<>> /\ client' = "done" /\ UNCHANGED <<calls, script, attempt, attempts, lost>>
      BY <2>4, <3>1 DEF Receive, RetryInv, Retrying, TypeOK
    <3>6. printed' = <<calls[pending].stage>>
      BY <2>4, <3>5 DEF Receive
    <3>7. client = "awaiting" /\ Taken = 1 /\ Taken' = 1
      BY <2>4, <3>5 DEF Receive, Taken
    <3> QED
      BY <2>0, <3>4, <3>5, <3>6, <3>7 DEF RetryInv, Retrying
  <2>5. CASE Retry
    BY <2>0, <2>5 DEF Retry, RetryInv, Retrying, Taken
  <2>6. CASE LoseRequest
    <3>1. SUFFICES ASSUME Retrying PROVE RetryInv'
      BY <2>6 DEF LoseRequest, RetryInv, Retrying
    <3>2. /\ client = "sending" /\ Taken = 0
          /\ client' \in {"backoff", "crashed"} /\ Taken' = 0
          /\ client' = "crashed" => attempt = MaxAttempts
      BY <2>6, <3>1 DEF LoseRequest, Raise, LastAttempt, Taken
    <3>3. /\ attempts' = attempts + 1
          /\ attempts >= FailFirstAttempts
          /\ lost'.requests = lost.requests + 1 /\ lost'.replies = lost.replies
          /\ UNCHANGED <<calls, script, attempt, printed>>
      BY <2>0, <2>6, <3>1 DEF LoseRequest, Simulated, TypeOK
    <3>4. /\ attempts = attempt - 1
          /\ lost.requests + lost.replies = attempts - FailFirstAttempts
          /\ Len(calls) = lost.replies
          /\ Len(printed) = 0
          /\ \A i \in 1..Len(calls) : calls[i].version = <<1, 0>>
      BY <2>0, <3>1, <3>2, <3>3 DEF RetryInv
    <3>5. attempts' = attempt' /\ ~(attempts' <= FailFirstAttempts)
      BY <2>0, <3>3, <3>4
    <3>6. client' \notin {"start", "sending", "done"}
      BY <3>2
    <3>7. /\ lost'.requests + lost'.replies + Taken' = attempts' - FailFirstAttempts
          /\ Len(calls') = lost'.replies + Taken'
      <4>1. lost'.requests + lost'.replies = (lost.requests + lost.replies) + 1
        BY <2>0, <3>3
      <4>2. attempts' - FailFirstAttempts = (attempts - FailFirstAttempts) + 1
        BY <2>0, <3>3
      <4>3. lost'.requests + lost'.replies = attempts' - FailFirstAttempts
        BY <3>4, <4>1, <4>2
      <4>4. lost'.requests \in Nat /\ lost'.replies \in Nat
        BY <2>0, <3>3
      <4>5. Len(calls') = lost'.replies
        BY <3>3, <3>4
      <4> QED
        BY <3>2, <4>3, <4>4, <4>5
    <3> QED
      BY <3>2, <3>3, <3>4, <3>5, <3>6, <3>7 DEF RetryInv
  <2>7. CASE LoseReply
    BY <2>0, <2>7 DEF LoseReply, Raise, LastAttempt, RetryInv, Retrying, Taken
  <2>8. CASE AgentStep
    <3>1. /\ Len(calls') = Len(calls)
          /\ \A i \in 1..Len(calls) : calls'[i].version = calls[i].version
      BY <2>8, Replying DEF AgentStep
    <3> QED
      BY <2>8, <3>1 DEF AgentStep, clientVars, RetryInv, Retrying, Taken
  <2>9. CASE UNCHANGED clientsVars
    BY <2>9 DEF clientsVars, clientVars, RetryInv, Retrying, Taken
  <2> QED
    BY <2>1, <2>2, <2>3, <2>4, <2>5, <2>6, <2>7, <2>8, <2>9
       DEF ClientsNext, ClientStep, NetworkStep
<1> QED
  BY <1>1, <1>2, FlightTypeCorrect, RefusedByVersion, PTL DEF ClientsSpec

\* However many failures are simulated, none reaches the agent.
THEOREM AgentNeverTold == ClientsSpec => []AgentUnaware
<1>1. TypeOK /\ RetryInv => AgentUnaware
  BY DEF AgentUnaware, RetryInv, Taken, TypeOK
<1> QED
  BY <1>1, FlightTypeCorrect, AttemptsAccounted, PTL

\* Whatever the limits are, only as many losses as there are real attempts
\* defeat the retries.
THEOREM RetriesHold == ClientsSpec => []OnlyLossDefeatsRetry
<1>1. TypeOK /\ RetryInv => OnlyLossDefeatsRetry
  <2> SUFFICES ASSUME TypeOK, RetryInv, Retrying, FailFirstAttempts < MaxAttempts
               PROVE  /\ client = "crashed" =>
                           lost.requests + lost.replies = MaxAttempts - FailFirstAttempts
                      /\ client = "done" => Len(printed) = 1 /\ printed[1] \in Replies
    BY DEF OnlyLossDefeatsRetry
  <2>1. /\ attempts \in Nat /\ attempt \in Nat /\ MaxAttempts \in Nat
        /\ FailFirstAttempts \in Nat /\ lost \in [requests : Nat, replies : Nat]
    BY ClientsAssumption DEF TypeOK
  <2>2. CASE client = "crashed"
    <3>1. Taken = 0 /\ attempt = MaxAttempts /\ attempts = MaxAttempts
      BY <2>2 DEF RetryInv, Taken
    <3> QED
      BY <2>1, <2>2, <3>1 DEF RetryInv
  <2>3. CASE client # "crashed"
    BY <2>3 DEF RetryInv
  <2> QED
    BY <2>2, <2>3
<1> QED
  BY <1>1, FlightTypeCorrect, AttemptsAccounted, PTL

=============================================================================
