# agent2agent: specification and proofs

A TLA+ model of the task agents of this repository and of the scripts that use
them, checked with TLC, and theorems about it checked with TLAPS. Paths are
relative to the repository; `a2a/` abbreviates `src/agent2agent/`.

## 1. The system

Every agent is a server process: an `AgentExecutor` (the repository's code)
behind the `DefaultRequestHandler` of the a2a-sdk (a dependency), with an
in-memory task store. Every client is a script that talks to one server. An
executor keeps no state between calls; all state of a conversation is in the
task: its status, its history and its artifacts. The executor never writes the
task. It enqueues events; a consumer takes them in order and updates the store;
`tasks/get` reads the store. Between two `await`s of an executor anything else
may run: the consumer, other requests on the same task, a cancel.

| Component | State | Operations | Hard about it | What makes it correct | Modelled in |
|---|---|---|---|---|---|
| Trip Booking agent (`a2a/trip_booking/agent_executor.py`, parsers) | a call's place, its conversation, destination, choice | `execute` (search and pause, resume and book), `cancel` | stage read off the stored artifacts; messages queued during a call; order of artifact and question; index from a model | options shown are options chosen from; a booking is complete; every message served; every call ends in a pause or an outcome | `TripBooking` |
| Trip Booking client (`a2a/trip_booking/client.py`) | place, last response | submit, poll, reply, report | acts on stale snapshots | ends; leaves nothing behind; replies to the pause it saw | `TripSession` |
| Itinerary Planning agent (`a2a/itinerary_planning/`) | place | `execute`, `cancel` | one unguarded model call | completed means an itinerary or a reason | `ItineraryPlanning` |
| its clients (`client.py`, `cancel_demo.py`, `submit_then_detach.py`, `check_later.py`) | place, last response, polls spent | submit, poll, cancel twice, detach, reattach | cancel races the outcome; server restart | every script ends; the report is worth reporting | `ItineraryClients` |
| Restaurant Reservation agent and client (`a2a/restaurant_reservation/`) | place, conversation; turn, last response | `execute`, `cancel`; blocking turns | conversation put together from store and request; cancel between turns | a confirmation covers the whole conversation | `RestaurantReservation`, `ReservationSession` |
| Hotel Search agent (`a2a/hotel_search/`) | place, hotels wanted, hotels found | `execute` (a loop of chunks), `cancel` | failure half way; clamped count; append/last flags | exactly the promised number, in order | `HotelSearch` |
| its clients (`client.py`, `a2a/resilience/resubscribe_demo.py`) | place, connection, events read | stream, drop, resubscribe, fall back | events lost with the connection; task ends in the gap | nothing lost, nothing twice | `HotelClients` |
| task runtime (a2a-sdk) | request queue, event queue, store | send, get, subscribe, cancel | external | - | `A2ARuntime` (external) |
| Visa Requirements agent (`a2a/visa_requirements/agent_executor.py`, parsers, push sender of `server.py`) | place, the post under way | `execute`, `cancel`, push | an exception outside of the `try`; a post after every event | completed means requirements or a reason; a dead webhook holds nothing up | `VisaRequirements` |
| its clients (`client.py`, `a2a/resilience/webhook_fallback_demo.py`) | place, notifications handled, completion event | submit, handle, wait with a timeout, fall back to polling | notifications early, lost or late; stops listening at the first terminal one | a notified client knows the end; no missed wake-up; every script ends | `VisaClients` |
| Flight Search agent (`a2a/flight_search/agent_executor.py`, parser) | none between calls | one message | concurrent requests, an exception in the model call | each request gets its one answer | `FlightSearch` |
| its clients (`client.py`, `a2a/resilience/retry_demo.py`, `version_mismatch_demo.py`) | attempts, versions tried | send, retry with back-off | a retry after a lost reply; the last attempt | only real losses defeat the retries; simulated ones never reach the agent | `FlightClients` |
| Auth demo (`a2a/auth_demo/server.py`, `client.py`) | tasks by owner | authenticate, `execute`, list | overlapping calls of several users; an empty `cancel` | tasks are kept apart; no work without a valid key | `AuthServer`, `AuthClients` |
| Signature demo, agent cards and routes | none | checks inside the SDK, static data | - | - | not modelled |

## 2. Modules

- `A2ARuntime`: the SDK around one task, as the code relies on it. A request
  queue (`sent`, `served`), the place of the running call (`pc`), the event
  queue (`events`), an accepted cancel (`cancelled`) and the stored `task`. One
  task is enough, since executors share nothing between tasks. The actions are
  `SendMessage`, `Consume` and `AcceptCancel`; `CanServe` says when the next
  call may start; `RestartServer` ends the call and forgets the task, because
  every `server.py` uses an `InMemoryTaskStore`. A call interrupted by a cancel
  may or may not reach another `await`: both are explored.
- `TaskLifecycle`: the abstract specification: what a client that only sees the
  stored task may count on. Announced once; pauses, delivers, completes and
  fails only while the agent is busy; an artifact is never taken back; completed
  means a result or an explanation; a terminal state is final. It is a
  specification for all agents: constants say which artifacts are results,
  which texts may stand in for one, in which states an agent is busy, and
  whether the server may restart.
- `TripBooking`, `ItineraryPlanning`, `RestaurantReservation`, `HotelSearch`,
  `VisaRequirements`: one executor each, on `A2ARuntime`. An action is the code
  up to the next event it enqueues. A model call and a sleep before or after it
  are one step: nobody but the executor can tell them apart, and whatever else
  runs meanwhile runs while the call stands at that place. The stored history is
  read at the start of a call, although the code reads `context.current_task`
  behind an `await`: the SDK hands the call a snapshot. The place names are the stages of `execute()`: `begin` (before
  `start_work`), `parse`, `search`, `ask`, `resume`, `choose`, `book`, `draft`,
  `complete`; `idle` when no call runs. What a model call returns is any value
  its JSON schema allows, or an exception.
- `VisaRequirements` also has the push sender its server adds: the consumer
  stores an event, posts it and takes the next one when the post has been
  answered or has failed (`posting`). A failed post is never repeated.
- `FlightSearch`: an agent without tasks. `calls` are the requests that reached
  the server; each stands at `parse`, is `refused` for its version, or has its
  one answer. `FlightClients` adds the scripts and a network that loses requests
  and replies; a read timeout of the client is a lost reply.
- `AuthServer`, `AuthClients`: several calls at once, each with a key, a task
  and an event queue of its own. This is the only server on which several tasks
  matter to each other, so it does not use the one-task `A2ARuntime`.
- `TripSession`, `ItineraryClients`, `ReservationSession`, `HotelClients`,
  `VisaClients`: the scripts, composed with their agent and with restarts of its
  server. A request under way or an open stream ends with an error, and so does
  the next request about a forgotten task; a script that does not catch it is
  `crashed`. `seen`, `found` and `view` are what a
  script knows; they differ from the store until it asks again.
- `MC...`: values of the constants for TLC.
- `A2ARuntime_proofs`: lemmas about the queue and the store that every agent's
  proof uses, and the promise of `TaskLifecycle` for any agent whose events come
  in order. `TripBooking_proofs`, `ItineraryClients_proofs`,
  `ReservationSession_proofs`, `HotelClients_proofs`, `VisaClients_proofs`,
  `FlightClients_proofs`, `AuthClients_proofs`: the theorems about each system.

Data are abstracted to what the properties tell apart. A message is a model
value, a conversation the sequence of its messages. A status text is one of a
few notes (`missing`, `searching`, `choose`, `finalizing`, `error`, `none`). A
flight-options artifact is the destination it is for and has two lines, as
`generate_flight_options` guarantees (an airline name with a line break in it
is not considered); a hotel is not kept. A parsed request says which fields
the model filled; `0` counts as not filled, as in the code's `if not ...`.

Definitions marked as mutants are not part of the model. Each is one plausible
mistake in the definition that follows it, and shows that a property notices.

## 3. What is checked

All passing runs explore the whole state space. CHECK_DEADLOCK is off because
every one of these systems may come to rest: tasks end and scripts finish.

| Run | Shows |
|---|---|
| `TripBooking.cfg` | The question comes with its options; options never change once stored; a completed booking has both artifacts; a call sees the whole conversation; nothing follows an outcome; no question about details after the options; the agent settles; every message is served unless the task ends; `TaskLifecycle` is implemented. |
| `TripSession.cfg` | The script ends, restarts included, and then nothing is left to do for it; a reply is served as the answer to the pause it was sent to. |
| `ItineraryClients.cfg` | A completed task always comes with its report; when a script has seen COMPLETED or FAILED the call is over, whatever cancel raced with it; every script ends, restarts included; `TaskLifecycle` with forgetting is implemented. |
| `ReservationSession.cfg` | A confirmation covers every turn; a question is about the latest turn; the script ends, with cancels, read timeouts and a restart; `TaskLifecycle` is implemented. |
| `HotelClients.cfg` | What the client was told over all its streams is a prefix of the store and at the end equal to it; a completed search has the promised number of hotels; the last chunk is the last; every script ends, restarts included; `TaskLifecycle` is implemented. |
| `VisaClients.cfg` | A client that stops listening knows how the task ended, and everything delivered unless a post failed; a notification handled before the client waits still wakes it; the fallback reports what was stored; every script ends, whatever is lost; `TaskLifecycle` is implemented. |
| `FlightClients.cfg` | Simulated failures never reach the agent, which serves a request again only for a lost reply; the retries fail only if the network loses every attempt that is left; a refused version costs its script one try only, and each try prints its own answer; every script ends. |
| `AuthClients.cfg` | Overlapping calls list tasks of their own user only; no work without a valid key; the greeting names the caller; every call ends unless cancelled; each task follows `TaskLifecycle`. |

Three runs show where the code does something else than a comment or document of
the repository says; `PROJECT.json` quotes each:

| Run | Shows |
|---|---|
| `TripAnswer.cfg` | A message accepted during the search counts as the answer to a question not yet asked. |
| `TripChoice.cfg` | A number outside 1..2 books the wrong option (0, -1) instead of being refused. |
| `CancelRace.cfg` | A task that ends after the last poll makes the first cancel raise. |

Two more differences are visible in the models and have no run of their own.
`TripSession.Reply` answers the first pause whatever it asks, a question about
details included, as `trip_booking/client.py:100-105` does, although its
docstring speaks of the flight-choice question only. And with the script's
`EVENTS_BEFORE_DROP = 3`, `HotelClients` drops the connection before the first
chunk (task, `WORKING`, `WORKING`), not after it as the comment in
`resubscribe_demo.py:36` says.

### Bounds

- `TripBooking`: three messages, since three are needed for a question about
  details, a choice and one message too many (and for one queued during the
  search); two destinations, so that one set of options can differ from
  another; the integers -2..3 or two of them, which contain both valid indices,
  the two that Python counts from the end, and one out of range on each side.
  The main run uses 1 (in range) and 3 (out of range).
- One accepted cancel per task; a second is refused by the SDK anyway.
- `ItineraryClients`: three polls in the budget of `cancel_demo.py`, as in the
  script; one restart, which is the first that can find a task, and after which
  no script submits another.
- The sessions of the other agents: one restart, for the same reason. It may
  come at any moment, so between any two steps of a script.
- `VisaClients`: one query, because the scripts send one; posts fail without a
  bound.
- `FlightClients`: the scripts' own constants (two simulated failures, four
  attempts, versions 1.0, 1.7 and 2.0), and 1.0 once more, so that a try follows
  the refused one. At most two requests of one script are
  at the agent at a time; they share nothing.
- `AuthClients`: two overlapping calls, each with any of the keys of `client.py`:
  two valid ones, a wrong one, none. What the properties say of tasks and users
  is about pairs of calls.
- `ReservationSession`: three turns, one more than the script has, so that a
  question can follow a question that was answered.
- `HotelClients`: at most three hotels and two by default, so that null, 0, a
  negative, a normal and an excessive number all differ; two hotel names, which
  may repeat, since nothing in the code prevents it. The passing run drops the
  connection after four events (the script: three), so that hotels can come
  before and after the drop.

### Fairness

Weak fairness of the executor's steps and of the consumer: both run on an event
loop that never starves a ready task, model calls return or raise, sleeps end.
Weak fairness of a script's own steps once it is started, for the same reasons.
Nobody is obliged to start a script, send a message, cancel or restart, and the
network is not obliged to lose or to time out anything. A post to a webhook is
answered or fails (the sender's HTTP client has a timeout), and `wait_for` of
the webhook client expires if nothing wakes it: `TimeOut` is one of the script's
own steps. After a restart the fair executor has no call left; what remains is
only the script.

## 4. What is proved

Every theorem holds for every value of the constants under the assumptions
named in the modules. They restrict the constants to what the code has:
the null values are no values, the number of hotels has a cap of at least the
default, `MAX_ATTEMPTS` is not zero, a script sends its own messages. So the
theorems cover any number of messages, turns, polls, hotels, retries, versions,
calls, users and restarts; TLC covers the small instances of section 3. Each
safety theorem is `Init => IInv`, `IInv /\ [Next]_vars => IInv'` (one step for
each action) and `IInv => property`, and each inductive invariant was checked
by TLC before it was proved.

### The runtime (`A2ARuntime_proofs`)

What a client sees is the store, but what the store will show is decided by
what is in the queue, by where `execute()` stands and by whether an event ahead
closes the queue. The common vocabulary:

- `ShownAt(i, S)`, `ClosedBefore(i)`, `Ready(i, S)`: when the events before the
  i-th are stored, the task shows a state of `S`, or has ended.
- `QueueInv(busy)`: every event of the queue is `Ready` for the states in which
  the life cycle allows it; a task that has ended has no queue. `QueueEnqueued`
  and `QueueTaken` keep it through an enqueue and a store.
- `OneCallInv(working)`, `ResultInv(id)`, `PublisherInv`: for agents that are
  called once and publish one result before they complete (itinerary, visa; the
  hotel agent uses the first): the call stands where the task will be ready, and
  a completion has its artifact in the store or ahead (`Coming`), or says why not.
- `StoreKeepsPromise`, `PublisherKeepsPromise`: under those invariants, storing
  an event is a step of `TaskLifecycle`. Storing is the only step of an agent
  that changes what a poller sees; the rest of a refinement proof is the
  restart (`Forget`) and stuttering.

### Trip Booking (`TripBooking_proofs`)

- `TypeCorrect`: the type invariant. Not only shapes: a booking is for line 1
  or 2, because the index is checked by Python itself.
- `QuestionsAnswerable` and `BookingsComplete`, from `OrderKept`. That the store
  never shows the question without the options is not inductive: it depends on
  what is still in the queue. `OrderInv` says, for every status in the queue
  that speaks of an artifact, that the artifact is in the store or ahead of
  that status in the queue (`Coming`), and the same for the statuses that the
  running call is about to enqueue.
- `OptionsNeverReplaced`: an action property, from `OptionsOnce`: at most one
  options artifact is ever on its way, and only to a task that has none; a call
  that searches was started with an empty queue and without options.
- `OutcomeIsLast`: `OutcomeInv` adds that a call has returned by the time its
  outcome is queued.
- `ConversationsComplete`: `HistoryInv` adds that the stored history has caught
  up with the last call whenever the next one may start.
- `NoSecondQuestion` and `TripRefinesLifecycle`, from `TripConsistent`.
  `JourneyInv` says where the call may stand; `ConfirmInv` that a confirmation is
  on its way at most once, and that a call that published it has nothing more to
  say than its completion, so that no artifact is taken back; `NoteInv` that the
  question about details is only on its way to a task without options, and that
  a task still showing it when options come has another status ahead of them.

### The Trip Booking script (`TripBooking_proofs`, last part)

`SessionConsistent` adds to `TripConsistent` what holds only while the script is
alone with its task. `TurnInv`: the script sends only to an agent that is
settled, so that at most one message waits and none waits behind a running call.
`EndInv`: a pause or an outcome is the last word of its call, in the queue as in
the store, so that a script that sees one (with a history as long as the
conversation) sees an agent that is settled. `ReplyInv`: the second call finds
the pause the reply was sent to. `SeenInv`: what the script saw as actionable is
what is stored, or was forgotten. From these follow `NothingIsLeftBehind`, and
`RepliesReachTheirQuestion`: the call goes by the options, the reply by the
question, and `QuestionsAnswerable` and `NoSecondQuestion` say that the two
agree. `TripSession` assumes only that the script's messages are among
`Messages`, so the theorems about the agent alone keep theirs arbitrary.

### The other agents and their scripts

- `ItineraryClients_proofs`: `ReportsComplete`, `ReportedCallsAreOver`,
  `ItineraryRefinesLifecycle`. What a script has seen says nothing of where
  `execute()` stands unless the queue does: `OutcomeInv` says that the call has
  returned by the time COMPLETED or FAILED is in the queue, `OverInv` that a task
  seen in such a state is still ended, or forgotten, and that no request is left
  that could start another call.
- `ReservationSession_proofs`: `WholeConversationConfirmed`, `QuestionsFresh`,
  `ReservationRefinesLifecycle`, for a script of any length. The agent is at most
  one turn behind the script (`TurnInv`); store and call have the whole
  conversation (`HistoryInv`); behind a question there is only a cancel
  (`QuestionInv`); a confirmation that exists anywhere is the current one, of the
  last call (`ConfirmInv`).
- `HotelClients_proofs`: `SearchesComplete`, `StreamsAddUp`, `ClientNeverAhead`,
  `LastIsLast`, `HotelRefinesLifecycle`, for any cap and any place of the drop.
  The queue is `b` events without a hotel, then chunks, then the end
  (`QueueShape`): the chunks go on where the store stops, so the store is a
  prefix of what was found. The stream has the same form (`StreamShape`): its
  events go on where the client stops, counted from the snapshot if one leads
  it, and reach exactly as far as the store. Both follow the chunk that is
  enqueued, stored, sent and read through four sequences; a client that has
  read the end has read everything. After a restart the invariant lets go of
  what the client knew (`Gone`), and so do the properties.
- `VisaClients_proofs`: `NotifiedInFull`, `FallbackInFull`, `WakeupNotMissed` (an
  action property), `VisaRefinesLifecycle`. `NotifyInv` relates store and
  notifications: what was delivered was heard or is being posted unless a post
  failed, and the terminal one is the last.
- `FlightClients_proofs`: `AgentNeverTold`, `RetriesHold` and `TriesIndependent`,
  for every number of attempts, of simulated failures and every list of
  versions. `RetryInv` accounts for every attempt of the retrying script:
  simulated, lost, or taken. `TryInv` does the same for the scripts without
  retries: the i-th request is the i-th try, and its answer the i-th one printed.
- `AuthClients_proofs`: `TasksOfOwnUser`, `KeysEnforced`, `AuthRefinesLifecycle` for
  any set of overlapping calls, keys and users. `CallInv`: what is stored and what is
  queued for a call are, in this order, its events so far, all with the user of
  its own key.

### Only model-checked

- Liveness (`Settles`, `EveryMessageServed`, `SessionEnds`, `ScriptsEnd`,
  `CallsEnd`): it rests on weak fairness and so on ENABLED, which TLAPS cannot
  handle here. TLC checks it on the instances of section 3.
- The three runs that expect a violation: counterexamples need no proof.

## 5. Not modelled

- Card signatures: `signature_demo.py` signs a card, changes it and verifies it in
  one straight line; everything happens in the SDK's JWS code.
- A client that gets no task in a response ("Agent did not return a task"): the
  agents modelled always announce one.
- A lost connection, except where a script handles or provokes one
  (`resubscribe_demo.py`, `retry_demo.py`), where a failure is printed (the auth
  client), a post that fails, a read timeout of a blocking call, and what a
  restart breaks off.
- The time a server is down: a restart is one step, and a request made meanwhile
  is not considered.
- The text of an itinerary. A reply of the model without content (`None`) is
  published as an artifact with a blank part and the task is completed;
  `ReportComplete` asks for the artifact and does not look into it. (In the visa
  agent the same reply raises, which is modelled.)
- A durable task store: the document names one as a possible change, but no
  server of the repository uses it.
- How a request gets its user (Starlette keeps it in the scope of the request):
  `User(c)` is that of the call's own key by construction, so the auth model says
  nothing of a mix-up between requests. It checks which requests get as far as
  the executor, and what is stored and listed for them.
- Prompts, texts, prices and formats; delays and back-off times, except as steps
  between which other things happen.
- Several tasks of one server, except in the auth demo: they share nothing.
- A notification that arrives in the very turn of the event loop in which
  `wait_for` expires: the client either wakes or times out.

## 6. Plan

Done: all agents with their scripts, the push channel, retries, versions and
users, restarts in every task session; theorems for every safety property of a
passing run and for every refinement.

What TLAPS cannot do here, the liveness properties, stays with TLC.
