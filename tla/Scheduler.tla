------------------------------ MODULE Scheduler ------------------------------
(***************************************************************************)
(* The scheduler of src/src/scheduler.cpp: delayed tasks that its thread   *)
(* hands to the dispatcher when their timer expires, unless stopEvent()    *)
(* gets there first.  addEvent, stopEvent and shutdown only post a handler *)
(* to the io_context; the scheduler's thread runs the handlers in order.   *)
(*                                                                         *)
(* Boost.Asio is external and modelled by what its documentation promises: *)
(* a timer that expires puts its completion handler in the queue; cancel() *)
(* and a new expiry time put it there with operation_aborted, but not once *)
(* it is in the queue already; destroying a timer cancels it.              *)
(***************************************************************************)
EXTENDS Naturals, Sequences, SequencesExt, FiniteSets

CONSTANTS MaxEvents,     \* bound: how many tasks are ever scheduled
          IdSpace        \* event ids are counted modulo this (2^32)

ASSUME SchedulerAssumption == MaxEvents \in Nat /\ IdSpace \in Nat \ {0}

VARIABLES sState,        \* "running" or "terminated"
          sPc,           \* "run", "handing" a task to the dispatcher, "done"
          inHand,        \* the task being handed over, 0 for none
          ops,           \* the io_context's queue of handlers
          timer,         \* eventIdTimerMap
          lastEventId,   \* lastEventId, not yet reduced modulo IdSpace
          stopped,       \* the tasks stopEvent() was called for
          dispatched,    \* the tasks handed to the dispatcher
          deleted        \* the tasks deleted without being handed over

sVars == <<sState, sPc, inHand, ops, timer, lastEventId, stopped, dispatched, deleted>>

Event == 1..MaxEvents                     \* the tasks, in the order of addEvent
Id == 0..(IdSpace - 1)

\* ++lastEventId wraps around in silence.
EventId(e) == e % IdSpace

NoTimer == MaxEvents + 1                  \* no such key in the map
Idle == 0                                 \* a timer nobody waits for

SInit == /\ sState = "running"
         /\ sPc = "run"
         /\ inHand = 0
         /\ ops = << >>
         /\ timer = [i \in Id |-> NoTimer]
         /\ lastEventId = 0
         /\ stopped = {}
         /\ dispatched = << >>
         /\ deleted = << >>
-----------------------------------------------------------------------------
(* The callers, any thread.                                                *)

Post(op, e) == ops' = Append(ops, [op |-> op, event |-> e])

\* addEvent(): every task comes with eventId 0 and gets the next id.
NewEvent_OldId == lastEventId

NewEvent == lastEventId + 1

AddEvent == /\ lastEventId < MaxEvents
            /\ lastEventId' = lastEventId + 1
            /\ Post("add", NewEvent)
            /\ UNCHANGED <<sState, sPc, inHand, timer, stopped, dispatched, deleted>>

\* stopEvent(eventId), by whoever kept the id addEvent() returned.  Nobody
\* can stop event 0, which after a wrap is an id like any other.
StopEvent(e) == /\ e <= lastEventId
                /\ e \notin stopped
                /\ EventId(e) # 0
                /\ stopped' = stopped \cup {e}
                /\ Post("stop", e)
                /\ UNCHANGED <<sState, sPc, inHand, timer, lastEventId, dispatched, deleted>>

\* shutdown(), called once, by the game or by main().
SShutdown == /\ sState = "running"
             /\ sState' = "terminated"
             /\ Post("shutdown", 0)
             /\ UNCHANGED <<sPc, inHand, timer, lastEventId, stopped, dispatched, deleted>>
-----------------------------------------------------------------------------
(* Timers.                                                                 *)

Waiting(i) == timer[i] \in Event

\* Cancelling the wait for timer i queues its handler as aborted.
Aborted(i) == IF Waiting(i) THEN << [op |-> "aborted", event |-> timer[i]] >>
                            ELSE << >>

Expire(i) == /\ sPc # "done"
             /\ Waiting(i)
             /\ Post("fired", timer[i])
             /\ timer' = [timer EXCEPT ![i] = Idle]
             /\ UNCHANGED <<sState, sPc, inHand, lastEventId, stopped, dispatched, deleted>>
-----------------------------------------------------------------------------
(* The handlers, run by the scheduler's thread.                            *)

Handles(op) == sPc = "run" /\ ops # << >> /\ Head(ops).op = op

\* emplace() leaves an entry that is there already; expires_from_now() then
\* cancels the wait on it.
RunAdd == /\ Handles("add")
          /\ LET e == Head(ops).event
                 i == EventId(e)
             IN  /\ ops' = Tail(ops) \o Aborted(i)
                 /\ timer' = [timer EXCEPT ![i] = e]
          /\ UNCHANGED <<sState, sPc, inHand, lastEventId, stopped, dispatched, deleted>>

\* The key a stop handler looks for.
StopKey_Next(e) == (e + 1) % IdSpace

StopKey(e) == EventId(e)

RunStop == /\ Handles("stop")
           /\ LET i == StopKey(Head(ops).event)
              IN  /\ ops' = Tail(ops) \o Aborted(i)
                  /\ timer' = IF Waiting(i) THEN [timer EXCEPT ![i] = Idle] ELSE timer
           /\ UNCHANGED <<sState, sPc, inHand, lastEventId, stopped, dispatched, deleted>>

\* What remains of the map when the handler of timer i has run.
Erased_Kept(i) == timer

Erased(i) == [timer EXCEPT ![i] = NoTimer]

\* The wait is over.  The entry goes first; then the task is deleted, if the
\* wait was cancelled or shutdown() was called by now, or is handed over.
Cancelled == Head(ops).op = "aborted" \/ sState = "terminated"

RunTimeout == /\ Handles("fired") \/ Handles("aborted")
              /\ LET e == Head(ops).event
                     i == EventId(e)
                 IN  /\ ops' = Tail(ops) \o Aborted(i)
                     /\ timer' = Erased(i)
                     /\ IF Cancelled
                        THEN /\ deleted' = Append(deleted, e)
                             /\ UNCHANGED <<sPc, inHand>>
                        ELSE /\ sPc' = "handing"
                             /\ inHand' = e
                             /\ UNCHANGED deleted
              /\ UNCHANGED <<sState, lastEventId, stopped, dispatched>>

\* g_dispatcher.addTask(task), after the state was looked at.
HandOver_Lost == dispatched

HandOver_Twice == dispatched \o << inHand, inHand >>

HandOver == Append(dispatched, inHand)

Dispatch == /\ sPc = "handing"
            /\ dispatched' = HandOver
            /\ inHand' = 0
            /\ sPc' = "run"
            /\ UNCHANGED <<sState, ops, timer, lastEventId, stopped, deleted>>

\* Every wait is cancelled, and io_context.stop() ends the thread at once:
\* the handlers in the queue, the aborted ones included, never run.
RunShutdown == /\ Handles("shutdown")
               /\ ops' = Tail(ops) \o
                         SetToSeq({[op |-> "aborted", event |-> timer[i]] : i \in {j \in Id : Waiting(j)}})
               /\ timer' = [i \in Id |-> IF Waiting(i) THEN Idle ELSE timer[i]]
               /\ sPc' = "done"
               /\ UNCHANGED <<sState, inHand, lastEventId, stopped, dispatched, deleted>>
-----------------------------------------------------------------------------
SchedulerThread == RunAdd \/ RunStop \/ RunTimeout \/ Dispatch \/ RunShutdown

SNext == \/ SchedulerThread
         \/ \E i \in Id : Expire(i)
         \/ AddEvent \/ (\E e \in Event : StopEvent(e)) \/ SShutdown

\* Time passes for every timer, and the thread runs its handlers.
SFairness == WF_sVars(SchedulerThread) /\ \A i \in Id : WF_sVars(Expire(i))

SSpec == SInit /\ [][SNext]_sVars /\ SFairness
-----------------------------------------------------------------------------
Op == [op : {"add", "stop", "fired", "aborted"}, event : Event]
      \cup [op : {"shutdown"}, event : {0}]

STypeOK == /\ sState \in {"running", "terminated"}
           /\ sPc \in {"run", "handing", "done"}
           /\ inHand \in 0..MaxEvents
           /\ ops \in Seq(Op)
           /\ timer \in [Id -> 0..NoTimer]
           /\ lastEventId \in 0..MaxEvents
           /\ stopped \in SUBSET Event
           /\ dispatched \in Seq(Event)
           /\ deleted \in Seq(Event)

InQueue(e, kinds) == {k \in DOMAIN ops : ops[k].event = e /\ ops[k].op \in kinds}

\* The places where task e may be.
Places(e) ==
    Cardinality(InQueue(e, {"add", "fired", "aborted"}))
    + Cardinality({i \in Id : timer[i] = e})
    + (IF inHand = e THEN 1 ELSE 0)
    + Cardinality({k \in DOMAIN dispatched : dispatched[k] = e})
    + Cardinality({k \in DOMAIN deleted : deleted[k] = e})

\* The scheduler owns the raw pointer until it hands it over or deletes it:
\* whatever the race between expiry, stop and shutdown, a scheduled task is
\* in one place, so it is not deleted twice, nor run after it was deleted.
OnePlace == \A e \in 1..lastEventId : Places(e) = 1

\* A task is dropped only when somebody stopped it, when the server goes down,
\* or when, after a wrap, another event took over its id.
DroppedOnlyOnPurpose ==
    \A k \in DOMAIN deleted :
        \/ deleted[k] \in stopped
        \/ sState = "terminated"
        \/ \E e \in 1..lastEventId : e # deleted[k] /\ EventId(e) = EventId(deleted[k])

\* The map does not grow with the events that are over: each entry belongs to
\* an event whose wait or whose handler is outstanding.
NoTimerLeak ==
    \A i \in Id : timer[i] # NoTimer =>
        Waiting(i) \/ \E e \in Event : EventId(e) = i /\ InQueue(e, {"fired", "aborted"}) # {}

\* Each scheduled task is handed over or dropped, unless the thread ends.
EventuallyOver ==
    \A e \in Event : (e <= lastEventId) ~>
        (e \in Range(dispatched) \cup Range(deleted) \/ sPc = "done")
=============================================================================
