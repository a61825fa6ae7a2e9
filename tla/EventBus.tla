------------------------------ MODULE EventBus ------------------------------
(***************************************************************************)
(* The broadcast side of the in-process event bus (runtime/events.py): a   *)
(* priority queue, one consumer thread, handlers that run on the thread    *)
(* pool (Sync) or on the main loop (Async), the drain-and-seal barrier     *)
(* that precedes the unloading of plugins, and two ways to stop: the       *)
(* life cycle awaits stop_async(), a synchronous handler may call stop().  *)
(* Every section under __lifecycle_lock is one step.                       *)
(***************************************************************************)
EXTENDS Integers, FiniteSets

CONSTANTS
    Events,         \* broadcast events, each sent at most once
    Priority,       \* [Events -> Int], smaller first
    Sync,           \* synchronous handlers of every event
    Async,          \* coroutine handlers of every event
    Stopping,       \* the <<event, synchronous handler>> that call stop()
    MaxStarts,      \* bound of the model: starts of the bus
    NoEvent

ASSUME EventBusAssumption ==
    /\ IsFiniteSet(Events)
    /\ Priority \in [Events -> Int]
    /\ Sync \intersect Async = {}
    /\ Stopping \subseteq Events \X Sync
    /\ MaxStarts \in Nat
    /\ NoEvent \notin Events

Handlers == Sync \union Async
Owners   == Events \X Handlers          \* one submission of one handler
App      == <<"app", "lifespan">>
Stoppers == {App} \union Stopping

\* The life cycle is none of the handlers.
ASSUME AppAssumption == App \notin Owners

VARIABLES
    state,          \* __lifecycle_state
    flag,           \* __event
    tracked,        \* __consumer_threads is not empty
    queue,          \* the events in __event_queue
    sentinels,      \* the stop sentinels in it
    unfinished,     \* its unfinished_tasks
    consumer,       \* where the consumer thread is
    current,        \* the event it has taken
    offered,        \* the handlers it has offered that event to
    handle,         \* __sync_handles and __async_handles
    stop,           \* where each caller of stop() or stop_async() is
    pending,        \* the events it holds while it discards sentinels
    awaited,        \* the submissions it waits for
    taken,          \* the events the consumer has taken
    starts          \* starts so far

items == <<queue, sentinels, unfinished>>
loop  == <<consumer, current, offered, taken>>
stops == <<stop, pending, awaited>>
vars  == <<state, flag, tracked, items, loop, handle, stops, starts>>

States == {"new", "running", "sealed", "stopping", "stopped"}

TypeOK ==
    /\ state \in States
    /\ flag \in BOOLEAN /\ tracked \in BOOLEAN
    /\ queue \subseteq Events
    /\ sentinels \in Nat /\ unfinished \in Nat
    /\ consumer \in {"none", "check", "get", "dispatch"}
    /\ current \in Events \union {NoEvent}
    /\ offered \subseteq Handlers
    /\ handle \in [Owners -> {"none", "queued", "running", "removed", "done"}]
    /\ stop \in [Stoppers -> {"idle", "join", "discard", "return", "collect", "wait", "done"}]
    /\ pending \in [Stoppers -> SUBSET Events]
    /\ awaited \in [Stoppers -> SUBSET Owners]
    /\ taken \subseteq Events
    /\ starts \in 0..MaxStarts

Init ==
    /\ state = "new"
    /\ flag = FALSE
    /\ tracked = FALSE
    /\ queue = {} /\ sentinels = 0 /\ unfinished = 0
    /\ consumer = "none" /\ current = NoEvent /\ offered = {}
    /\ handle = [o \in Owners |-> "none"]
    /\ stop = [p \in Stoppers |-> "idle"]
    /\ pending = [p \in Stoppers |-> {}]
    /\ awaited = [p \in Stoppers |-> {}]
    /\ taken = {}
    /\ starts = 0

\* The submissions __sync_handles and __async_handles hold.
Held == {o \in Owners : handle[o] \in {"queued", "running"}}
HeldSync == {o \in Held : o[2] \in Sync}
-----------------------------------------------------------------------------
(* Start, send, drain.                                                     *)

\* The life cycle starts the bus; running, sealed and stopping refuse it.
Start ==
    /\ state \in {"new", "stopped"}
    /\ stop[App] \in {"idle", "done"}
    /\ starts < MaxStarts
    /\ state' = "running"
    /\ flag' = TRUE
    /\ consumer' = "check"
    /\ tracked' = TRUE
    /\ stop' = [stop EXCEPT ![App] = "idle"]
    /\ starts' = starts + 1
    /\ UNCHANGED <<items, current, offered, taken, handle, pending, awaited>>

Fresh(e) == /\ e \notin queue \union taken
            /\ \A p \in Stoppers : e \notin pending[p]

Accepting == state \notin {"sealed", "stopping", "stopped"}

\* send_event of a broadcast, by any thread; a refused event leaves no trace.
SendEvent(e) ==
    /\ Fresh(e)
    /\ Accepting
    /\ queue' = queue \union {e}
    /\ unfinished' = unfinished + 1
    /\ UNCHANGED <<state, flag, tracked, sentinels, loop, handle, stops, starts>>

\* Faulty variant: a handler that has not begun yet is overlooked.
IdleLoose == unfinished = 0 /\ \A o \in Owners : handle[o] # "running"

Idle == unfinished = 0 /\ Held = {}

\* A poll of drain_async(seal=True) that finds the bus idle.
DrainSeals ==
    /\ state \in {"running", "sealed"}
    /\ stop[App] = "idle"
    /\ Idle
    /\ state' = "sealed"
    /\ UNCHANGED <<flag, tracked, items, loop, handle, stops, starts>>
-----------------------------------------------------------------------------
(* The consumer thread.                                                    *)

\* Top of the loop.
ConsumerChecks ==
    /\ consumer = "check"
    /\ consumer' = IF flag THEN "get" ELSE "none"
    /\ UNCHANGED <<state, flag, tracked, items, current, offered, taken, handle, stops, starts>>

\* get() timed out on an empty queue.
ConsumerTimesOut ==
    /\ consumer = "get"
    /\ queue = {} /\ sentinels = 0
    /\ consumer' = "check"
    /\ UNCHANGED <<state, flag, tracked, items, current, offered, taken, handle, stops, starts>>

\* A sentinel has priority -inf; it ends the thread.
ConsumerEnds ==
    /\ consumer = "get"
    /\ sentinels > 0
    /\ sentinels' = sentinels - 1
    /\ unfinished' = unfinished - 1
    /\ consumer' = "none"
    /\ UNCHANGED <<state, flag, tracked, queue, current, offered, taken, handle, stops, starts>>

ConsumerTakes(e) ==
    /\ consumer = "get"
    /\ sentinels = 0
    /\ e \in queue
    /\ \A f \in queue : Priority[e] <= Priority[f]
    /\ queue' = queue \ {e}
    /\ consumer' = "dispatch"
    /\ current' = e
    /\ offered' = {}
    /\ taken' = taken \union {e}
    /\ UNCHANGED <<state, flag, tracked, sentinels, unfinished, handle, stops, starts>>

\* __register_sync_handle and __register_async_handle; refused unless running.
Offer(h) ==
    /\ consumer = "dispatch"
    /\ h \in Handlers \ offered
    /\ offered' = offered \union {h}
    /\ handle' = IF state = "running"
                 THEN [handle EXCEPT ![<<current, h>>] = "queued"] ELSE handle
    /\ UNCHANGED <<state, flag, tracked, items, consumer, current, taken, stops, starts>>

TaskDone ==
    /\ consumer = "dispatch"
    /\ offered = Handlers
    /\ unfinished' = unfinished - 1
    /\ consumer' = "check"
    /\ current' = NoEvent
    /\ UNCHANGED <<state, flag, tracked, queue, sentinels, offered, taken, handle, stops, starts>>
-----------------------------------------------------------------------------
(* Handlers.                                                               *)

HandlerBegins(o) ==
    /\ handle[o] = "queued"
    /\ handle' = [handle EXCEPT ![o] = "running"]
    /\ UNCHANGED <<state, flag, tracked, items, loop, stops, starts>>

\* The handler has ended: its owner is removed, then its completion is set.
Removable(o) == handle[o] = "running" /\ (o \in Stoppers => stop[o] \in {"idle", "done"})

HandlerRemoved(o) ==
    /\ Removable(o)
    /\ handle' = [handle EXCEPT ![o] = "removed"]
    /\ UNCHANGED <<state, flag, tracked, items, loop, stops, starts>>

HandlerPublished(o) ==
    /\ handle[o] = "removed"
    /\ handle' = [handle EXCEPT ![o] = "done"]
    /\ UNCHANGED <<state, flag, tracked, items, loop, stops, starts>>
-----------------------------------------------------------------------------
(* stop() by a handler and stop_async() by the life cycle.                 *)

MayStop(p) == \/ /\ p = App
                 /\ state \in {"running", "sealed", "stopping", "stopped"}
              \/ p # App /\ handle[p] = "running"

BeginStop(p) ==
    /\ stop[p] = "idle"
    /\ MayStop(p)
    /\ state' = "stopping"
    /\ flag' = FALSE
    /\ sentinels' = IF tracked THEN sentinels + 1 ELSE sentinels
    /\ unfinished' = IF tracked THEN unfinished + 1 ELSE unfinished
    /\ stop' = [stop EXCEPT ![p] = "join"]
    /\ UNCHANGED <<tracked, queue, loop, handle, pending, awaited, starts>>

\* The consumer thread has been joined.
Joined(p) ==
    /\ stop[p] = "join"
    /\ consumer = "none"
    /\ stop' = [stop EXCEPT ![p] = "discard"]
    /\ UNCHANGED <<state, flag, tracked, items, loop, handle, pending, awaited, starts>>

\* Faulty variant: sentinels are put back like business events.
DiscardTakesNoSentinel(p) ==
    /\ stop[p] = "discard"
    /\ stop' = [stop EXCEPT ![p] = "return"]
    /\ pending' = [pending EXCEPT ![p] = queue]
    /\ queue' = {}
    /\ unfinished' = unfinished - Cardinality(queue)
    /\ UNCHANGED <<state, flag, tracked, sentinels, loop, handle, awaited, starts>>

\* __discard_stop_sentinels empties the queue ...
DiscardTakes(p) ==
    /\ stop[p] = "discard"
    /\ stop' = [stop EXCEPT ![p] = "return"]
    /\ pending' = [pending EXCEPT ![p] = queue]
    /\ queue' = {}
    /\ sentinels' = 0
    /\ unfinished' = unfinished - sentinels - Cardinality(queue)
    /\ UNCHANGED <<state, flag, tracked, loop, handle, awaited, starts>>

\* Faulty variant: the business events are dropped with the sentinels.
DiscardReturnsNothing(p) ==
    /\ stop[p] = "return"
    /\ stop' = [stop EXCEPT ![p] = "collect"]
    /\ pending' = [pending EXCEPT ![p] = {}]
    /\ UNCHANGED <<state, flag, tracked, items, loop, handle, awaited, starts>>

\* ... and puts the business events back.
DiscardReturns(p) ==
    /\ stop[p] = "return"
    /\ stop' = [stop EXCEPT ![p] = "collect"]
    /\ queue' = queue \union pending[p]
    /\ unfinished' = unfinished + Cardinality(pending[p])
    /\ pending' = [pending EXCEPT ![p] = {}]
    /\ UNCHANGED <<state, flag, tracked, sentinels, loop, handle, awaited, starts>>

\* Faulty variant: the caller is among those it waits for.
WaitsForItself(p) == IF p = App THEN Held ELSE HeldSync

\* stop_async() waits for every handler, stop() only for synchronous ones,
\* and neither for its own caller.
WaitsFor(p) == IF p = App THEN Held ELSE HeldSync \ {p}

\* Snapshot the submissions and cancel the coroutines; one that has not
\* begun is closed at once (_complete_unstarted_submission).
Collect(p) ==
    /\ stop[p] = "collect"
    /\ stop' = [stop EXCEPT ![p] = "wait"]
    /\ awaited' = [awaited EXCEPT ![p] = WaitsFor(p)]
    /\ handle' = [o \in Owners |-> IF handle[o] = "queued" /\ o[2] \in Async
                                   THEN "done" ELSE handle[o]]
    /\ UNCHANGED <<state, flag, tracked, items, loop, pending, starts>>

StopReturns(p) ==
    /\ stop[p] = "wait"
    /\ \A o \in awaited[p] : handle[o] = "done"
    /\ stop' = [stop EXCEPT ![p] = "done"]
    /\ awaited' = [awaited EXCEPT ![p] = {}]
    /\ state' = "stopped"
    /\ tracked' = FALSE
    /\ UNCHANGED <<flag, items, loop, handle, pending, starts>>
-----------------------------------------------------------------------------
Consumer ==
    \/ ConsumerChecks \/ ConsumerTimesOut \/ ConsumerEnds \/ TaskDone
    \/ \E e \in Events : ConsumerTakes(e)
    \/ \E h \in Handlers : Offer(h)

Handler(o) == HandlerBegins(o) \/ HandlerRemoved(o) \/ HandlerPublished(o)

StopSteps(p) ==
    \/ Joined(p) \/ DiscardTakes(p) \/ DiscardReturns(p)
    \/ Collect(p) \/ StopReturns(p)

Next ==
    \/ Start
    \/ DrainSeals
    \/ Consumer
    \/ \E e \in Events : SendEvent(e)
    \/ \E o \in Owners : Handler(o)
    \/ \E p \in Stoppers : BeginStop(p) \/ StopSteps(p)

Spec == Init /\ [][Next]_vars

\* Threads and the main loop run, and handlers end.
Fairness ==
    /\ WF_vars(Consumer)
    /\ \A o \in Owners : WF_vars(Handler(o))
    /\ \A p \in Stoppers : WF_vars(StopSteps(p))

FairSpec == Spec /\ Fairness
-----------------------------------------------------------------------------
\* Once sealed, the bus has nothing in hand and runs no handler: plugins can
\* be unloaded (drain_async's barrier, runtime/events.py:549).
SealIsBarrier ==
    state = "sealed" => queue = {} /\ consumer # "dispatch" /\ Held = {}

\* When stop_async() has returned no handler waits or runs; while the bus
\* stays stopped by a handler's stop(), no other synchronous handler does.
StoppedIsQuiet ==
    /\ stop[App] = "done" => Held = {}
    /\ state = "stopped" =>
          \A p \in Stopping :
             stop[p] = "done" /\ handle[p] = "running" => HeldSync \subseteq {p}

\* Both of what a caller of the two operations may rely on.
BarriersHold == SealIsBarrier /\ StoppedIsQuiet

\* An event that nobody has taken survives any number of stops and restarts:
\* it leaves the queue only into the consumer's hands or, until it is put
\* back, into a stopper's (__discard_stop_sentinels).
WaitingSurvive ==
    [][\A e \in Events :
          e \in queue \/ (\E p \in Stoppers : e \in pending[p]) =>
             e \in queue' \/ e \in taken' \/ (\E p \in Stoppers : e \in pending'[p])]_vars

\* Every stop returns, also one that a handler calls from inside the bus.
EveryStopReturns == \A p \in Stoppers : stop[p] = "join" ~> stop[p] = "done"

\* While the bus runs, what it has accepted is dispatched: whatever the stops
\* before a restart met, its consumer lives and meets no sentinel of theirs.
EveryEventIsTaken ==
    \A e \in Events : e \in queue /\ state = "running" ~> e \in taken \/ state # "running"
=============================================================================
