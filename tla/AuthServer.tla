----------------------------- MODULE AuthServer -----------------------------
(***************************************************************************)
(* The Auth Demo server: ApiKeyAuthBackend in front of AuthDemoExecutor    *)
(* and a task store that keeps the tasks of each user apart.  Each call of *)
(* message/send is a task of its own; calls are served concurrently.       *)
(***************************************************************************)
EXTENDS Naturals, Sequences

CONSTANTS
  Calls,            \* the calls of message/send that may be made
  Keys,             \* the keys they may carry
  NoKey,            \* no X-API-Key header, or an empty one
  VALID_API_KEYS    \* the user of each valid key

VARIABLES
  api_key,      \* the key each call carries
  pc,           \* where execute() stands for each call
  events,       \* the event queue of each call
  cancelled,    \* tasks/cancel was accepted for the task of the call
  store         \* the stored task of each call, with its owner

vars == <<api_key, pc, events, cancelled, store>>

Users == {VALID_API_KEYS[key] : key \in DOMAIN VALID_API_KEYS}
Rejected == "401"
Anonymous == ""

ASSUME ServerAssumption ==
  /\ NoKey \in Keys
  /\ DOMAIN VALID_API_KEYS \subseteq Keys \ {NoKey}
  /\ {Rejected, Anonymous, "none"} \intersect Users = {}

NoTask == [owner |-> "none", state |-> "NONE", greeting |-> "none"]

\* Mutant: a request without a key is let through.
AuthenticateAnybody(path, key) ==
  CASE path = "card" \/ key = NoKey -> Anonymous
    [] path = "rpc" /\ key \in DOMAIN VALID_API_KEYS -> VALID_API_KEYS[key]
    [] OTHER -> Rejected

\* Mutant: every valid key stands for the same user.
AuthenticateAsOne(path, key) ==
  CASE path = "card" -> Anonymous
    [] path = "rpc" /\ key \in DOMAIN VALID_API_KEYS -> CHOOSE user \in Users : TRUE
    [] OTHER -> Rejected

\* Mutant: the card needs a key like everything else.
AuthenticateCard(path, key) ==
  IF key \in DOMAIN VALID_API_KEYS THEN VALID_API_KEYS[key] ELSE Rejected

\* The user of a request, or 401; the card is open to all.
Authenticate(path, key) ==
  CASE path = "card" -> Anonymous
    [] path = "rpc" /\ key \in DOMAIN VALID_API_KEYS -> VALID_API_KEYS[key]
    [] OTHER -> Rejected

\* The user name in the context of a call.
User(c) == Authenticate("rpc", api_key[c])

Exists(c) == store[c].state # "NONE"
Finished(c) == store[c].state = "COMPLETED"

-----------------------------------------------------------------------------
Init ==
  /\ api_key \in [Calls -> Keys]
  /\ pc = [c \in Calls |-> "none"]
  /\ events = [c \in Calls |-> <<>>]
  /\ cancelled = [c \in Calls |-> FALSE]
  /\ store = [c \in Calls |-> NoTask]

Step(c, from, event, next) ==
  /\ pc[c] = from
  /\ events' = [events EXCEPT ![c] = Append(@, event)]
  /\ pc' = [pc EXCEPT ![c] = next]
  /\ UNCHANGED <<api_key, cancelled, store>>

\* An authenticated message/send is handed to execute().
Accept(c) ==
  /\ pc' = [pc EXCEPT ![c] = "begin"]
  /\ UNCHANGED <<api_key, events, cancelled, store>>

\* Mutant: the task is completed before the greeting is added.
CompleteFirst(c) == Step(c, "greet", [state |-> "COMPLETED"], "idle")

Announce(c) == Step(c, "begin", [state |-> "SUBMITTED"], "greet")

Greet(c) ==
  Step(c, "greet", [greeting |-> IF User(c) = Anonymous THEN "(anonymous)" ELSE User(c)],
       "complete")

Complete(c) == Step(c, "complete", [state |-> "COMPLETED"], "idle")

\* The consumer, with InMemoryTaskStore: a task belongs to the user of its call.
Store(c) ==
  /\ events[c] # <<>>
  /\ LET event == Head(events[c]) IN
       store' = [store EXCEPT ![c] =
                   IF "state" \in DOMAIN event
                   THEN [@ EXCEPT !.owner = User(c), !.state = event.state]
                   ELSE [@ EXCEPT !.greeting = event.greeting]]
  /\ events' = [events EXCEPT ![c] = Tail(@)]
  /\ UNCHANGED <<api_key, pc, cancelled>>

\* tasks/list reads the store of the caller's user.
TasksOf(user) == {c \in Calls : Exists(c) /\ store[c].owner = user}

\* tasks/cancel by the owner, who knows the task from tasks/list.  cancel() is
\* empty: execute() is interrupted or not, and nothing is enqueued.
Cancel(c) ==
  /\ Exists(c)
  /\ ~Finished(c)
  /\ ~cancelled[c]
  /\ cancelled' = [cancelled EXCEPT ![c] = TRUE]
  /\ \E place \in {pc[c], "idle"} : pc' = [pc EXCEPT ![c] = place]
  /\ UNCHANGED <<api_key, events, store>>

ServerStep(c) == Announce(c) \/ Greet(c) \/ Complete(c) \/ Store(c)
=============================================================================
