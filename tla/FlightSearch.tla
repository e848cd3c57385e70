---------------------------- MODULE FlightSearch ----------------------------
(***************************************************************************)
(* The Flight Search agent: FlightSearchAgentExecutor answers each request *)
(* with exactly one Message and creates no task, so that requests share    *)
(* nothing, tasks/cancel finds nothing, and cancel() is empty.  Requests   *)
(* are served concurrently.  The server looks at the protocol version of   *)
(* a request before the agent sees it.                                     *)
(***************************************************************************)
EXTENDS Naturals, Sequences

CONSTANT Versions   \* the values of the A2A-Version header, <<major, minor>>

VARIABLE calls      \* the requests that reached the server, oldest first

\* parse_flight_query; the date may be missing.
FlightQuery == [origin_iata : BOOLEAN, destination_iata : BOOLEAN, missing_info : BOOLEAN]

Missing(parsed) ==
  parsed.missing_info \/ ~parsed.origin_iata \/ ~parsed.destination_iata

\* What the one Message of a call may say.
Replies == {"sorry", "missing", "flights"}

\* Only the major version has to match.
Supported(version) == version[1] = 1

-----------------------------------------------------------------------------
Init == calls = <<>>

\* VersionNotSupportedError, or a call of execute().
Arrive(version) ==
  calls' = Append(calls, [version |-> version,
                          stage |-> IF Supported(version) THEN "parse" ELSE "refused"])

Reply(i, text) ==
  /\ calls[i].stage = "parse"
  /\ calls' = [calls EXCEPT ![i].stage = text]

\* Mutant: an exception ends the call without a message.
FailSilently(i) == Reply(i, "gone")

FailRequest(i) == Reply(i, "sorry")

ReportMissing(i) == (\E parsed \in FlightQuery : Missing(parsed)) /\ Reply(i, "missing")

ListFlights(i) == (\E parsed \in FlightQuery : ~Missing(parsed)) /\ Reply(i, "flights")

\* A response can be sent.
Answered(i) == calls[i].stage \in Replies \union {"refused"}

ExecutorStep ==
  \E i \in 1..Len(calls) : FailRequest(i) \/ ReportMissing(i) \/ ListFlights(i)
=============================================================================
