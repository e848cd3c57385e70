----------------------------- MODULE HotelSearch -----------------------------
(***************************************************************************)
(* The Hotel Search agent: HotelSearchAgentExecutor on the runtime of one  *)
(* task.  One call of execute() finds the hotels one model call at a time  *)
(* and publishes each as a chunk of one artifact.                          *)
(***************************************************************************)
EXTENDS A2ARuntime, Integers, SequencesExt

CONSTANTS
  Hotels,            \* the names generate_hotel_offer may invent
  Counts,            \* the integers the model may return for num_hotels
  NoCount,           \* null: the request names no number
  DefaultNumHotels,  \* _DEFAULT_NUM_HOTELS
  MaxNumHotels       \* _MAX_NUM_HOTELS

ASSUME HotelAssumption ==
  /\ Counts \subseteq Int
  /\ NoCount \notin Int
  /\ MaxNumHotels \in Nat
  /\ DefaultNumHotels \in 1..MaxNumHotels

VARIABLES
  num_hotels,   \* how many hotels the running call looks for
  found_names   \* the ones it has found, in order

vars == <<sent, served, pc, events, cancelled, task, num_hotels, found_names>>

\* parse_hotel_query: which fields the model fills, and the number it reads.
HotelQuery == [destination : BOOLEAN, checkin : BOOLEAN, checkout : BOOLEAN,
               num_hotels : Counts \union {NoCount}, missing_info : BOOLEAN]

\* The model's own questions, or the backstop's.
Missing(parsed) ==
  \/ parsed.missing_info
  \/ ~(parsed.destination /\ parsed.checkin /\ parsed.checkout)

\* Mutant: the count is not capped.
NumHotelsUncapped(n) == IF n \in {NoCount, 0} THEN DefaultNumHotels ELSE n

\* max(1, min(n or _DEFAULT_NUM_HOTELS, _MAX_NUM_HOTELS)); 0 is as good as null.
NumHotels(n) ==
  CASE n \in {NoCount, 0} -> DefaultNumHotels
    [] n # NoCount /\ n < 0 -> 1
    [] n # NoCount /\ n > MaxNumHotels -> MaxNumHotels
    [] OTHER -> n

\* One chunk of the artifact: `append` adds to it, otherwise it starts anew.
Chunk(hotel, append, last) ==
  [kind |-> "chunk", hotel |-> hotel, append |-> append, last |-> last]

-----------------------------------------------------------------------------
Init ==
  /\ RuntimeInit
  /\ num_hotels = 0
  /\ found_names = <<>>

Step(from, event, next) ==
  /\ pc = from
  /\ Enqueue(event)
  /\ pc' = next
  /\ UNCHANGED <<sent, served, cancelled, task, num_hotels, found_names>>

Send(m) == SendMessage(m) /\ UNCHANGED <<num_hotels, found_names>>

\* The consumer.  An appended chunk extends the artifact that is there.
HotelsOf(record) ==
  IF record.artifacts = {} THEN <<>>
  ELSE (CHOOSE a \in record.artifacts : TRUE).hotels

StoredChunk(chunk) ==
  [task EXCEPT
     !.history = Texts(served),
     !.artifacts = {[id |-> "hotel-results",
                     hotels |-> (IF chunk.append THEN HotelsOf(task) ELSE <<>>)
                                  \o <<chunk.hotel>>]}]

Store ==
  /\ events # <<>>
  /\ LET event == Head(events) IN
       task' = IF event.kind = "chunk" THEN StoredChunk(event) ELSE Stored(event)
  /\ events' = IF task'.state \in TerminalStates THEN <<>> ELSE Tail(events)
  /\ UNCHANGED <<sent, served, pc, cancelled, num_hotels, found_names>>

\* execute(): the task is announced with every call, not only with the first.
Execute ==
  /\ CanServe
  /\ served' = served + 1
  /\ Enqueue(TaskEvent)
  /\ pc' = "begin"
  /\ found_names' = <<>>
  /\ UNCHANGED <<sent, cancelled, task, num_hotels>>

\* Mutant: start_work() is left out.
StartSilently ==
  /\ pc = "begin"
  /\ pc' = "parse"
  /\ UNCHANGED <<sent, served, events, cancelled, task, num_hotels, found_names>>

StartWork == Step("begin", StatusEvent("WORKING", "none"), "parse")

FailRequest == Step("parse", StatusEvent("FAILED", "error"), "idle")

ReportMissing ==
  /\ \E parsed \in HotelQuery : Missing(parsed)
  /\ Step("parse", StatusEvent("COMPLETED", "missing"), "idle")

AnnounceSearch ==
  \E parsed \in HotelQuery :
    /\ ~Missing(parsed)
    /\ pc = "parse"
    /\ Enqueue(StatusEvent("WORKING", "searching"))
    /\ num_hotels' = NumHotels(parsed.num_hotels)
    /\ pc' = "search"
    /\ UNCHANGED <<sent, served, cancelled, task, found_names>>

\* Mutant: every chunk starts the artifact anew.
PublishAnew ==
  \E hotel \in Hotels :
    /\ pc = "search"
    /\ Len(found_names) < num_hotels
    /\ found_names' = Append(found_names, hotel)
    /\ Enqueue(Chunk(hotel, FALSE, Len(found_names') = num_hotels))
    /\ UNCHANGED <<sent, served, pc, cancelled, task, num_hotels>>

\* Mutant: last_chunk is off by one.
PublishLastEarly ==
  \E hotel \in Hotels :
    /\ pc = "search"
    /\ Len(found_names) < num_hotels
    /\ found_names' = Append(found_names, hotel)
    /\ Enqueue(Chunk(hotel, found_names # <<>>, Len(found_names) = num_hotels - 2))
    /\ UNCHANGED <<sent, served, pc, cancelled, task, num_hotels>>

\* One turn of the loop.  The model is asked not to repeat a hotel, but
\* nothing checks that it does not.
PublishHotel ==
  \E hotel \in Hotels :
    /\ pc = "search"
    /\ Len(found_names) < num_hotels
    /\ found_names' = Append(found_names, hotel)
    /\ Enqueue(Chunk(hotel, found_names # <<>>, Len(found_names') = num_hotels))
    /\ UNCHANGED <<sent, served, pc, cancelled, task, num_hotels>>

\* Mutant: the loop is left without a word.
SearchGivesUp ==
  /\ pc = "search"
  /\ Len(found_names) < num_hotels
  /\ pc' = "idle"
  /\ UNCHANGED <<sent, served, events, cancelled, task, num_hotels, found_names>>

\* A model call of the loop raises; what was published stays.
FailSearch ==
  /\ Len(found_names) < num_hotels
  /\ Step("search", StatusEvent("FAILED", "error"), "idle")

Complete ==
  /\ Len(found_names) >= num_hotels
  /\ Step("search", StatusEvent("COMPLETED", "none"), "idle")

Cancel ==
  /\ AcceptCancel
  /\ Enqueue(StatusEvent("CANCELED", "none"))
  /\ UNCHANGED <<num_hotels, found_names>>

ExecutorStep ==
  \/ Execute
  \/ StartWork
  \/ FailRequest
  \/ ReportMissing
  \/ AnnounceSearch
  \/ PublishHotel
  \/ FailSearch
  \/ Complete
=============================================================================
