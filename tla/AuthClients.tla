----------------------------- MODULE AuthClients -----------------------------
(***************************************************************************)
(* Callers of the Auth Demo server: each fetches the card, sends one       *)
(* blocking message/send with its key, if it has one, and then lists its   *)
(* tasks.  client.py makes four such calls one after the other, each with  *)
(* another key; here calls may overlap and carry any key.                  *)
(***************************************************************************)
EXTENDS AuthServer

VARIABLES
  caller,    \* where each call of the client stands
  printed,   \* the greeting in the answer of message/send
  listed     \* the tasks tasks/list has shown

callerVars == <<caller, printed, listed>>
clientsVars == <<vars, callerVars>>

Ended == {"done", "rejected", "crashed"}

-----------------------------------------------------------------------------
ClientsInit ==
  /\ Init
  /\ caller = [c \in Calls |-> "start"]
  /\ printed = [c \in Calls |-> "none"]
  /\ listed = [c \in Calls |-> {}]

Goto(c, place) == caller' = [caller EXCEPT ![c] = place]

\* The card is fetched before there is a credential to present.
FetchCard(c) ==
  /\ caller[c] = "start"
  /\ Goto(c, IF Authenticate("card", NoKey) = Rejected THEN "crashed" ELSE "ready")
  /\ UNCHANGED <<vars, printed, listed>>

\* AuthInterceptor attaches the key; a refused request is printed as REJECTED.
SendRejected(c) ==
  /\ caller[c] = "ready"
  /\ User(c) = Rejected
  /\ Goto(c, "rejected")
  /\ UNCHANGED <<vars, printed, listed>>

Send(c) ==
  /\ caller[c] = "ready"
  /\ User(c) # Rejected
  /\ Accept(c)
  /\ Goto(c, "sending")
  /\ UNCHANGED <<printed, listed>>

\* The answer of a blocking call is the task as it ended.
Answer(c) ==
  /\ caller[c] = "sending"
  /\ Finished(c)
  /\ printed' = [printed EXCEPT ![c] = store[c].greeting]
  /\ Goto(c, "listing")
  /\ UNCHANGED <<vars, listed>>

\* Whatever goes wrong is printed as REJECTED, a lost connection too; the task
\* goes on without its caller.
LoseAnswer(c) ==
  /\ caller[c] = "sending"
  /\ Goto(c, "rejected")
  /\ UNCHANGED <<vars, printed, listed>>

ListTasks(c) ==
  /\ caller[c] = "listing"
  /\ listed' = [listed EXCEPT ![c] = TasksOf(User(c))]
  /\ Goto(c, "done")
  /\ UNCHANGED <<vars, printed>>

CallerStep(c) ==
  \/ FetchCard(c)
  \/ SendRejected(c)
  \/ Send(c)
  \/ Answer(c)
  \/ ListTasks(c)

AgentStep(c) == ServerStep(c) /\ UNCHANGED callerVars

ClientsNext ==
  \E c \in Calls :
    \/ CallerStep(c)
    \/ LoseAnswer(c)
    \/ AgentStep(c)
    \/ Cancel(c) /\ UNCHANGED callerVars

\* A call that was started goes on, and the server serves every call; nobody
\* has to start, to cancel or to lose a connection.
ClientsSpec ==
  /\ ClientsInit
  /\ [][ClientsNext]_clientsVars
  /\ \A c \in Calls :
       /\ WF_clientsVars(CallerStep(c) /\ caller[c] # "start")
       /\ WF_clientsVars(AgentStep(c))

-----------------------------------------------------------------------------
SameUser(c, d) ==
  /\ {api_key[c], api_key[d]} \subseteq DOMAIN VALID_API_KEYS
  /\ VALID_API_KEYS[api_key[c]] = VALID_API_KEYS[api_key[d]]

\* server.py:14-16, poc.md:291: however the calls overlap, tasks/list shows a
\* caller its own task, already completed, and of the others only tasks that
\* were sent with a key of the same user.
ListsOwnTasks ==
  \A c \in Calls : caller[c] = "done" =>
    /\ c \in listed[c]
    /\ \A d \in listed[c] : SameUser(c, d)

\* server.py:5-7: the key is enforced, not only declared.  No work is done for
\* a call without a valid key, and the greeting that is stored and printed
\* names the user of that call's own key.
WorkOnlyForUsers ==
  \A c \in Calls :
    /\ pc[c] # "none" => api_key[c] \in DOMAIN VALID_API_KEYS
    /\ {store[c].greeting, printed[c]} \ {"none"} \subseteq
         {VALID_API_KEYS[key] : key \in {api_key[c]} \intersect DOMAIN VALID_API_KEYS}
    /\ caller[c] \in {"listing", "done"} => printed[c] # "none"

\* server.py:8-12: with or without a valid key every caller gets as far as its
\* message and an end; only a cancel, which nothing in the executor handles,
\* can leave a call and its task where they are.
CallsEnd ==
  \A c \in Calls :
    caller[c] # "start" ~> caller[c] \in {"done", "rejected"} \/ cancelled[c]

\* What each task promises; it is never at work, it goes from SUBMITTED to its end.
Lifecycle(c) == INSTANCE TaskLifecycle WITH
  state <- store[c].state, note <- "none",
  artifacts <- {store[c].greeting} \ {"none"},
  Result <- Users, Explanations <- {}, Busy <- {"SUBMITTED"}, Restarts <- FALSE
RefinesLifecycle ==
  /\ \A c \in Calls : Lifecycle(c)!Init
  /\ [][\A c \in Calls : Lifecycle(c)!Next \/ UNCHANGED store[c]]_store
=============================================================================
