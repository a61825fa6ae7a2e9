--------------------------- MODULE EventBusProofs ---------------------------
(***************************************************************************)
(* Proofs about EventBus for every set of events, handlers and stopping    *)
(* handlers.                                                               *)
(***************************************************************************)
EXTENDS EventBus, FiniteSetTheorems, TLAPS

InProgress(p) == stop[p] \notin {"idle", "done"}

\* Who is past the join keeps the consumer thread from being there.
Past(p) == stop[p] \in {"discard", "return", "collect", "wait"}

\* The bus is only open, or stopped, when no handler is inside stop(); while
\* it is open the life cycle is not inside stop_async() either.
Transitions ==
    /\ state \in {"new", "running", "sealed"} =>
          stop[App] = "idle" /\ \A p \in Stopping : ~InProgress(p)
    /\ state = "stopped" => \A p \in Stopping : ~InProgress(p)
    /\ \A p \in Stopping : InProgress(p) => handle[p] = "running"

\* A stop that has joined the consumer, and a stopped bus, have no consumer.
Joins ==
    /\ state \in {"new", "stopped"} => consumer = "none"
    /\ \A p \in Stoppers : Past(p) => consumer = "none"

\* Who waits has everything in its snapshot that it must outlast; a stop that
\* has returned has outlasted it.
Waits ==
    /\ \A p \in Stoppers : stop[p] = "wait" => WaitsFor(p) \subseteq awaited[p]
    /\ stop[App] = "done" => Held = {}
    /\ state = "stopped" => \A a, b \in HeldSync : a = b

InHand == IF consumer = "dispatch" THEN 1 ELSE 0

\* unfinished_tasks counts what is queued and what the consumer has in hand;
\* an event is in the queue or in the hands of one stopper.
Counts ==
    /\ unfinished = Cardinality(queue) + sentinels + InHand
    /\ \A p \in Stoppers : /\ stop[p] # "return" => pending[p] = {}
                           /\ pending[p] \intersect queue = {}
    /\ \A p, q \in Stoppers : p # q => pending[p] \intersect pending[q] = {}

Bus == TypeOK /\ Transitions /\ Joins /\ Waits /\ Counts /\ SealIsBarrier
-----------------------------------------------------------------------------
(* Facts about the state                                                   *)

LEMMA StoppersAreOwners == Stopping \subseteq Owners /\ App \notin Stopping
BY EventBusAssumption, AppAssumption DEF Owners, Handlers

LEMMA QueueIsFinite ==
    ASSUME NEW Q, Q \subseteq Events
    PROVE  IsFiniteSet(Q) /\ Cardinality(Q) \in Nat
BY EventBusAssumption, FS_Subset, FS_CardinalityType

\* While nobody is inside a stop nobody is past a join either.
LEMMA NobodyIsPast ==
    ASSUME TypeOK, stop[App] \in {"idle", "done"},
           \A p \in Stopping : ~InProgress(p)
    PROVE  \A p \in Stoppers : stop[p] \in {"idle", "done"}
BY DEF InProgress, Stoppers

\* A step that lets no further submission in keeps every wait sound.
LEMMA FewerHeld ==
    ASSUME \A o \in Owners : handle'[o] \in {"queued", "running"} =>
                                handle[o] \in {"queued", "running"}
    PROVE  /\ Held' \subseteq Held
           /\ HeldSync' \subseteq HeldSync
           /\ \A p \in Stoppers : WaitsFor(p)' \subseteq WaitsFor(p)
<1>1. Held' \subseteq Held
  BY DEF Held
<1>2. HeldSync' \subseteq HeldSync
  BY <1>1 DEF HeldSync
<1> QED
  BY <1>1, <1>2 DEF WaitsFor

LEMMA WaitsGoOn ==
    ASSUME Waits, UNCHANGED <<stop, awaited>>, state' = state,
           \A o \in Owners : handle'[o] \in {"queued", "running"} =>
                                handle[o] \in {"queued", "running"}
    PROVE  Waits'
<1>1. \A p \in Stoppers : WaitsFor(p)' \subseteq WaitsFor(p)
  BY FewerHeld
<1>2. \A p \in Stoppers : stop'[p] = "wait" => WaitsFor(p)' \subseteq awaited'[p]
  BY <1>1 DEF Waits
<1>3. stop'[App] = "done" => Held' = {}
  BY FewerHeld DEF Waits
<1>4. state' = "stopped" => \A a, b \in HeldSync' : a = b
  BY FewerHeld DEF Waits
<1> QED
  BY <1>2, <1>3, <1>4 DEF Waits

LEMMA BusInit == Init => Bus
<1> SUFFICES ASSUME Init PROVE Bus
  OBVIOUS
<1>1. TypeOK
  <2>1. /\ handle \in [Owners -> {"none", "queued", "running", "removed", "done"}]
        /\ stop \in [Stoppers -> {"idle", "join", "discard", "return", "collect", "wait", "done"}]
        /\ pending \in [Stoppers -> SUBSET Events]
        /\ awaited \in [Stoppers -> SUBSET Owners]
    BY DEF Init
  <2>2. starts \in 0..MaxStarts
    BY EventBusAssumption DEF Init
  <2> QED
    BY <2>1, <2>2 DEF Init, TypeOK, States
<1>2. Held = {}
  BY DEF Init, Held
<1>3. Transitions /\ Joins
  BY StoppersAreOwners DEF Init, Transitions, Joins, InProgress, Past, Stoppers
<1>4. Waits
  BY <1>2 DEF Init, Waits, HeldSync, Stoppers
<1>5. Cardinality(queue) = 0
  BY FS_EmptySet DEF Init
<1>6. Counts
  BY <1>5 DEF Init, Counts, InHand
<1>7. SealIsBarrier
  BY DEF Init, SealIsBarrier
<1> QED
  BY <1>1, <1>3, <1>4, <1>6, <1>7 DEF Bus
-----------------------------------------------------------------------------
(* The bus is started, fed and sealed                                      *)

LEMMA BusStart == ASSUME Bus, Start PROVE Bus'
<1> USE DEF items, loop, stops
<1>0. TypeOK /\ Transitions /\ Joins /\ Waits /\ Counts
  BY DEF Bus
<1>1. TypeOK'
  <2>1. starts' \in 0..MaxStarts
    BY <1>0, EventBusAssumption DEF Start, TypeOK
  <2>2. stop' \in [Stoppers -> {"idle", "join", "discard", "return", "collect", "wait", "done"}]
    BY <1>0 DEF Start, TypeOK
  <2> QED
    BY <1>0, <2>1, <2>2 DEF Start, TypeOK, States
<1>2. \A p \in Stopping : ~InProgress(p)
  BY <1>0 DEF Start, Transitions
<1>3. /\ stop'[App] = "idle"
      /\ \A p \in Stopping : stop'[p] = stop[p]
  BY <1>0, StoppersAreOwners DEF Start, TypeOK, Stoppers
<1>4. Transitions'
  BY <1>2, <1>3 DEF Start, Transitions, InProgress
<1>5. \A p \in Stoppers : stop'[p] \in {"idle", "done"}
  BY <1>2, <1>3, <1>0 DEF InProgress, Stoppers
<1>6. Joins'
  BY <1>5 DEF Start, Joins, Past
<1>7. Waits'
  BY <1>3, <1>5 DEF Start, Waits
<1>8. consumer = "none"
  BY <1>0 DEF Start, Joins
<1>9. Counts'
  BY <1>0, <1>5, <1>8, NobodyIsPast, <1>2 DEF Start, Counts, InHand, Stoppers
<1>10. SealIsBarrier'
  BY DEF Start, SealIsBarrier
<1> QED
  BY <1>1, <1>4, <1>6, <1>7, <1>9, <1>10 DEF Bus

LEMMA BusSend == ASSUME Bus, NEW e \in Events, SendEvent(e) PROVE Bus'
<1> USE DEF items, loop, stops
<1>0. TypeOK /\ Transitions /\ Joins /\ Waits /\ Counts
  BY DEF Bus
<1>1. TypeOK'
  BY <1>0 DEF SendEvent, TypeOK
<1>2. Transitions' /\ Joins'
  BY <1>0 DEF SendEvent, Transitions, Joins, InProgress, Past
<1>3. Waits'
  BY <1>0, WaitsGoOn DEF SendEvent
<1>4. Cardinality(queue') = Cardinality(queue) + 1
  BY <1>0, QueueIsFinite, FS_AddElement DEF SendEvent, Fresh, TypeOK
<1>5. Cardinality(queue) \in Nat
  BY <1>0, QueueIsFinite DEF TypeOK
<1>6. \A p \in Stoppers : pending[p] = {} \/ stop[p] = "return"
  BY <1>0 DEF Counts
<1>7. \A p \in Stoppers : e \notin pending[p]
  BY DEF SendEvent, Fresh
<1>8. unfinished' = Cardinality(queue') + sentinels' + InHand'
  BY <1>0, <1>4, <1>5 DEF SendEvent, Counts, InHand, TypeOK
<1>9. Counts'
  BY <1>0, <1>7, <1>8 DEF SendEvent, Counts
<1>10. SealIsBarrier'
  BY DEF SendEvent, Accepting, SealIsBarrier
<1> QED
  BY <1>1, <1>2, <1>3, <1>9, <1>10 DEF Bus

LEMMA BusDrain == ASSUME Bus, DrainSeals PROVE Bus'
<1> USE DEF items, loop, stops
<1>0. TypeOK /\ Transitions /\ Joins /\ Waits /\ Counts
  BY DEF Bus
<1>1. TypeOK'
  BY <1>0 DEF DrainSeals, TypeOK, States
<1>2. Transitions' /\ Joins'
  BY <1>0 DEF DrainSeals, Transitions, Joins, InProgress, Past
<1>3. Waits'
  BY <1>0 DEF DrainSeals, Waits, WaitsFor, HeldSync, Held
<1>4. Counts'
  BY <1>0 DEF DrainSeals, Counts, InHand
<1>5. Cardinality(queue) \in Nat /\ IsFiniteSet(queue)
  BY <1>0, QueueIsFinite DEF TypeOK
<1>6. Cardinality(queue) = 0 /\ consumer # "dispatch"
  BY <1>0, <1>5 DEF DrainSeals, Idle, Counts, InHand, TypeOK
<1>7. queue = {}
  BY <1>5, <1>6, FS_EmptySet
<1>8. SealIsBarrier'
  BY <1>6, <1>7 DEF DrainSeals, Idle, SealIsBarrier, Held
<1> QED
  BY <1>1, <1>2, <1>3, <1>4, <1>8 DEF Bus
-----------------------------------------------------------------------------
(* The consumer thread and the handlers                                    *)

LEMMA BusConsumer == ASSUME Bus, Consumer PROVE Bus'
<1> USE DEF items, loop, stops
<1>0. TypeOK /\ Transitions /\ Joins /\ Waits /\ Counts /\ SealIsBarrier
  BY DEF Bus
<1>q. Cardinality(queue) \in Nat /\ IsFiniteSet(queue)
  BY <1>0, QueueIsFinite DEF TypeOK
<1>1. CASE ConsumerChecks \/ ConsumerTimesOut
  <2>1. TypeOK'
    BY <1>0, <1>1 DEF ConsumerChecks, ConsumerTimesOut, TypeOK
  <2>2. Transitions' /\ Joins'
    BY <1>0, <1>1 DEF ConsumerChecks, ConsumerTimesOut, Transitions, Joins,
                      InProgress, Past
  <2>3. Waits'
    BY <1>0, <1>1, WaitsGoOn DEF ConsumerChecks, ConsumerTimesOut
  <2>4. Counts'
    BY <1>0, <1>1 DEF ConsumerChecks, ConsumerTimesOut, Counts, InHand
  <2>5. SealIsBarrier'
    BY <1>0, <1>1 DEF ConsumerChecks, ConsumerTimesOut, SealIsBarrier, Held
  <2> QED
    BY <2>1, <2>2, <2>3, <2>4, <2>5 DEF Bus
<1>2. CASE ConsumerEnds
  <2>1. unfinished' = Cardinality(queue') + sentinels' + InHand'
    BY <1>0, <1>q, <1>2 DEF ConsumerEnds, Counts, InHand, TypeOK
  <2>2. sentinels' \in Nat
    BY <1>0, <1>2 DEF ConsumerEnds, TypeOK
  <2>3. unfinished' \in Nat
    BY <1>q, <1>2, <2>1, <2>2 DEF ConsumerEnds, InHand
  <2>4. TypeOK'
    BY <1>0, <1>2, <2>2, <2>3 DEF ConsumerEnds, TypeOK
  <2>5. Transitions' /\ Joins'
    BY <1>0, <1>2 DEF ConsumerEnds, Transitions, Joins, InProgress, Past
  <2>6. Waits'
    BY <1>0, <1>2, WaitsGoOn DEF ConsumerEnds
  <2>7. Counts'
    BY <1>0, <1>2, <2>1 DEF ConsumerEnds, Counts
  <2>8. SealIsBarrier'
    BY <1>0, <1>2 DEF ConsumerEnds, SealIsBarrier, Held
  <2> QED
    BY <2>4, <2>5, <2>6, <2>7, <2>8 DEF Bus
<1>3. CASE TaskDone
  <2>1. unfinished' = Cardinality(queue') + sentinels' + InHand'
    BY <1>0, <1>q, <1>3 DEF TaskDone, Counts, InHand, TypeOK
  <2>2. unfinished' \in Nat
    BY <1>0, <1>q, <1>3, <2>1 DEF TaskDone, InHand, TypeOK
  <2>3. TypeOK'
    BY <1>0, <1>3, <2>2 DEF TaskDone, TypeOK
  <2>4. Transitions' /\ Joins'
    BY <1>0, <1>3 DEF TaskDone, Transitions, Joins, InProgress, Past
  <2>5. Waits'
    BY <1>0, <1>3, WaitsGoOn DEF TaskDone
  <2>6. Counts'
    BY <1>0, <1>3, <2>1 DEF TaskDone, Counts
  <2>7. SealIsBarrier'
    BY <1>0, <1>3 DEF TaskDone, SealIsBarrier, Held
  <2> QED
    BY <2>3, <2>4, <2>5, <2>6, <2>7 DEF Bus
<1>4. ASSUME NEW e \in Events, ConsumerTakes(e)
      PROVE  Bus'
  <2>1. Cardinality(queue') = Cardinality(queue) - 1
    BY <1>q, <1>4, FS_RemoveElement DEF ConsumerTakes
  <2>2. unfinished' = Cardinality(queue') + sentinels' + InHand'
    BY <1>0, <1>q, <1>4, <2>1 DEF ConsumerTakes, Counts, InHand, TypeOK
  <2>3. TypeOK'
    BY <1>0, <1>4 DEF ConsumerTakes, TypeOK
  <2>4. Transitions' /\ Joins'
    BY <1>0, <1>4 DEF ConsumerTakes, Transitions, Joins, InProgress, Past
  <2>5. Waits'
    BY <1>0, <1>4, WaitsGoOn DEF ConsumerTakes
  <2>6. Counts'
    BY <1>0, <1>4, <2>2 DEF ConsumerTakes, Counts
  <2>7. SealIsBarrier'
    BY <1>0, <1>4 DEF ConsumerTakes, SealIsBarrier
  <2> QED
    BY <2>3, <2>4, <2>5, <2>6, <2>7 DEF Bus
<1>5. ASSUME NEW h \in Handlers, Offer(h)
      PROVE  Bus'
  <2>1. TypeOK'
    BY <1>0, <1>5 DEF Offer, TypeOK
  <2>2. /\ UNCHANGED <<state, stop, pending, awaited, consumer, queue, sentinels,
                       unfinished>>
        /\ state # "running" => handle' = handle
    BY <1>5 DEF Offer
  <2>3. Joins' /\ Counts'
    BY <1>0, <2>2 DEF Joins, Past, Counts, InHand
  <2>4. state # "sealed"
    BY <1>0, <1>5 DEF Offer, SealIsBarrier
  <2>5. Transitions' /\ Waits'
    <3>1. CASE state = "running"
      <4>1. /\ stop[App] = "idle"
            /\ \A p \in Stopping : ~InProgress(p)
        BY <1>0, <3>1 DEF Transitions
      <4>2. \A p \in Stoppers : stop[p] # "wait"
        BY <4>1 DEF InProgress, Stoppers
      <4> QED
        BY <2>2, <3>1, <4>1, <4>2 DEF Transitions, Waits, InProgress
    <3>2. CASE state # "running"
      <4>1. handle' = handle
        BY <2>2, <3>2
      <4>2. Waits'
        BY <1>0, <2>2, <4>1, WaitsGoOn
      <4> QED
        BY <1>0, <2>2, <4>1, <4>2 DEF Transitions, InProgress
    <3> QED
      BY <3>1, <3>2
  <2>6. SealIsBarrier'
    BY <2>2, <2>4 DEF SealIsBarrier
  <2> QED
    BY <2>1, <2>3, <2>5, <2>6 DEF Bus
<1> QED
  BY <1>1, <1>2, <1>3, <1>4, <1>5 DEF Consumer

LEMMA BusHandler == ASSUME Bus, NEW o \in Owners, Handler(o) PROVE Bus'
<1> USE DEF items, loop, stops
<1>0. TypeOK /\ Transitions /\ Joins /\ Waits /\ Counts /\ SealIsBarrier
  BY DEF Bus
<1>1. /\ UNCHANGED <<state, stop, pending, awaited, consumer, queue, sentinels,
                     unfinished>>
      /\ \A a \in Owners : handle'[a] \in {"queued", "running"} =>
                              handle[a] \in {"queued", "running"}
  BY <1>0 DEF Handler, HandlerBegins, HandlerRemoved, HandlerPublished,
              Removable, TypeOK
<1>2. TypeOK'
  BY <1>0 DEF Handler, HandlerBegins, HandlerRemoved, HandlerPublished, TypeOK
<1>3. Joins' /\ Counts'
  BY <1>0, <1>1 DEF Joins, Past, Counts, InHand
<1>4. Waits'
  BY <1>0, <1>1, WaitsGoOn
<1>5. SealIsBarrier'
  BY <1>0, <1>1, FewerHeld DEF SealIsBarrier
<1>6. \A p \in Stopping : InProgress(p) => handle'[p] = "running"
  BY <1>0, StoppersAreOwners
     DEF Handler, HandlerBegins, HandlerRemoved, HandlerPublished, Removable,
         TypeOK, Transitions, InProgress, Stoppers
<1>7. Transitions'
  BY <1>0, <1>1, <1>6 DEF Transitions, InProgress
<1> QED
  BY <1>2, <1>3, <1>4, <1>5, <1>7 DEF Bus
-----------------------------------------------------------------------------
(* Stopping                                                                *)

LEMMA BusBeginStop == ASSUME Bus, NEW p \in Stoppers, BeginStop(p) PROVE Bus'
<1> USE DEF items, loop, stops
<1>0. TypeOK /\ Transitions /\ Joins /\ Waits /\ Counts
  BY DEF Bus
<1>1. /\ stop' = [stop EXCEPT ![p] = "join"]
      /\ stop \in [Stoppers -> {"idle", "join", "discard", "return", "collect", "wait", "done"}]
      /\ stop[p] = "idle"
      /\ state' = "stopping"
      /\ UNCHANGED <<queue, consumer, handle, pending, awaited>>
  BY <1>0 DEF BeginStop, TypeOK
<1>2. TypeOK'
  <2>1. sentinels' \in Nat /\ unfinished' \in Nat
    BY <1>0 DEF BeginStop, TypeOK
  <2>2. stop' \in [Stoppers -> {"idle", "join", "discard", "return", "collect", "wait", "done"}]
    BY <1>1
  <2> QED
    BY <1>0, <1>1, <2>1, <2>2 DEF BeginStop, TypeOK, States
<1>3. Transitions'
  <2>1. p \in Stopping => handle[p] = "running"
    BY StoppersAreOwners DEF BeginStop, MayStop
  <2>2. \A q \in Stopping : q # p => stop'[q] = stop[q]
    BY <1>1 DEF Stoppers
  <2> QED
    BY <1>0, <1>1, <2>1, <2>2 DEF Transitions, InProgress
<1>4. Joins'
  BY <1>0, <1>1 DEF Joins, Past
<1>5. WaitsFor(p)' = WaitsFor(p) /\ \A q \in Stoppers : WaitsFor(q)' = WaitsFor(q)
  BY <1>1 DEF WaitsFor, HeldSync, Held
<1>6. Held' = Held
  BY <1>1 DEF Held
<1>7. Waits'
  BY <1>0, <1>1, <1>5, <1>6 DEF Waits
<1>8. Cardinality(queue) \in Nat
  BY <1>0, QueueIsFinite DEF TypeOK
<1>9. unfinished' = Cardinality(queue') + sentinels' + InHand'
  BY <1>0, <1>1, <1>8 DEF BeginStop, Counts, InHand, TypeOK
<1>10. Counts'
  BY <1>0, <1>1, <1>9 DEF Counts
<1>11. SealIsBarrier'
  BY <1>1 DEF SealIsBarrier
<1> QED
  BY <1>2, <1>3, <1>4, <1>7, <1>10, <1>11 DEF Bus

\* What the steps between the join and the snapshot have in common.
LEMMA StopGoesOn ==
    ASSUME Bus, NEW p \in Stoppers, InProgress(p),
           NEW s \in {"discard", "return", "collect"},
           stop' = [stop EXCEPT ![p] = s], consumer = "none",
           UNCHANGED <<state, consumer, handle, awaited>>
    PROVE  Transitions' /\ Joins' /\ Waits' /\ SealIsBarrier'
<1>0. TypeOK /\ Transitions /\ Joins /\ Waits /\ SealIsBarrier
  BY DEF Bus
<1>1. /\ stop \in [Stoppers -> {"idle", "join", "discard", "return", "collect", "wait", "done"}]
      /\ App \in Stoppers /\ Stopping \subseteq Stoppers
  BY <1>0 DEF TypeOK, Stoppers
<1>2. Transitions'
  BY <1>0, <1>1 DEF Transitions, InProgress, Stoppers
<1>3. Joins'
  BY <1>0, <1>1 DEF Joins, Past
<1>4. Held' = Held /\ \A q \in Stoppers : WaitsFor(q)' = WaitsFor(q)
  BY DEF WaitsFor, HeldSync, Held
<1>5. HeldSync' = HeldSync
  BY <1>4 DEF HeldSync
<1>6. Waits'
  BY <1>0, <1>1, <1>4, <1>5 DEF Waits
<1>7. state # "sealed"
  BY <1>0 DEF Transitions, InProgress, Stoppers
<1>8. SealIsBarrier'
  BY <1>7 DEF SealIsBarrier
<1> QED
  BY <1>2, <1>3, <1>6, <1>8

LEMMA BusJoined == ASSUME Bus, NEW p \in Stoppers, Joined(p) PROVE Bus'
<1> USE DEF items, loop, stops
<1>0. TypeOK /\ Counts
  BY DEF Bus
<1>1. Transitions' /\ Joins' /\ Waits' /\ SealIsBarrier'
  BY StopGoesOn DEF Joined, InProgress
<1>2. TypeOK'
  BY <1>0 DEF Joined, TypeOK
<1>3. Counts'
  BY <1>0 DEF Joined, Counts, InHand, TypeOK
<1> QED
  BY <1>1, <1>2, <1>3 DEF Bus

LEMMA BusDiscardTakes == ASSUME Bus, NEW p \in Stoppers, DiscardTakes(p) PROVE Bus'
<1> USE DEF items, loop, stops
<1>0. TypeOK /\ Counts /\ Joins
  BY DEF Bus
<1>1. consumer = "none"
  BY <1>0 DEF DiscardTakes, Joins, Past
<1>2. Transitions' /\ Joins' /\ Waits' /\ SealIsBarrier'
  BY <1>1, StopGoesOn DEF DiscardTakes, InProgress
<1>3. Cardinality(queue) \in Nat /\ Cardinality({}) = 0
  BY <1>0, QueueIsFinite, FS_EmptySet DEF TypeOK
<1>4. unfinished' = 0
  BY <1>0, <1>1, <1>3 DEF DiscardTakes, Counts, InHand, TypeOK
<1>5. TypeOK'
  BY <1>0, <1>4 DEF DiscardTakes, TypeOK
<1>6. \A q \in Stoppers : stop[q] # "return" => pending[q] = {}
  BY <1>0 DEF Counts
<1>7. /\ \A q \in Stoppers : stop'[q] # "return" => pending'[q] = {}
      /\ \A q \in Stoppers : pending'[q] \intersect queue' = {}
  BY <1>0, <1>6 DEF DiscardTakes, TypeOK
<1>8. ASSUME NEW q \in Stoppers, NEW r \in Stoppers, q # r
      PROVE  pending'[q] \intersect pending'[r] = {}
  <2>1. \A s \in Stoppers : pending'[s] = IF s = p THEN queue ELSE pending[s]
    BY <1>0 DEF DiscardTakes, TypeOK
  <2>2. /\ pending[q] \intersect pending[r] = {}
        /\ pending[q] \intersect queue = {}
        /\ pending[r] \intersect queue = {}
    BY <1>0, <1>8 DEF Counts
  <2> QED
    BY <1>8, <2>1, <2>2
<1>9. Counts'
  BY <1>1, <1>3, <1>4, <1>7, <1>8 DEF DiscardTakes, Counts, InHand
<1> QED
  BY <1>2, <1>5, <1>9 DEF Bus

LEMMA BusDiscardReturns == ASSUME Bus, NEW p \in Stoppers, DiscardReturns(p) PROVE Bus'
<1> USE DEF items, loop, stops
<1>0. TypeOK /\ Counts /\ Joins
  BY DEF Bus
<1>1. consumer = "none"
  BY <1>0 DEF DiscardReturns, Joins, Past
<1>2. Transitions' /\ Joins' /\ Waits' /\ SealIsBarrier'
  BY <1>1, StopGoesOn DEF DiscardReturns, InProgress
<1>3. /\ queue \subseteq Events /\ pending[p] \subseteq Events
      /\ queue \intersect pending[p] = {}
  BY <1>0 DEF TypeOK, Counts
<1>4. /\ IsFiniteSet(queue) /\ Cardinality(queue) \in Nat
      /\ IsFiniteSet(pending[p]) /\ Cardinality(pending[p]) \in Nat
      /\ Cardinality(queue \intersect pending[p]) = 0
  BY <1>3, QueueIsFinite, FS_EmptySet
<1>5. Cardinality(queue \union pending[p]) =
          Cardinality(queue) + Cardinality(pending[p])
  <2>1. Cardinality(queue \union pending[p]) =
            Cardinality(queue) + Cardinality(pending[p])
                - Cardinality(queue \intersect pending[p])
    BY ONLY <1>4, FS_Union
  <2> QED
    BY <1>4, <2>1
<1>6. unfinished' = Cardinality(queue') + sentinels' + InHand'
  BY <1>0, <1>1, <1>4, <1>5 DEF DiscardReturns, Counts, InHand, TypeOK
<1>7. TypeOK'
  BY <1>0, <1>3, <1>4 DEF DiscardReturns, TypeOK
<1>8. \A s \in Stoppers : pending'[s] = IF s = p THEN {} ELSE pending[s]
  BY <1>0 DEF DiscardReturns, TypeOK
<1>9. \A q \in Stoppers : stop'[q] # "return" => pending'[q] = {}
  BY <1>0, <1>8 DEF DiscardReturns, Counts, TypeOK
<1>10. ASSUME NEW q \in Stoppers
       PROVE  pending'[q] \intersect queue' = {}
  <2>1. q # p => /\ pending[q] \intersect pending[p] = {}
                 /\ pending[q] \intersect queue = {}
    BY <1>0 DEF Counts
  <2> QED
    BY <1>8, <2>1 DEF DiscardReturns
<1>11. \A q, r \in Stoppers : q # r => pending'[q] \intersect pending'[r] = {}
  BY <1>0, <1>8 DEF Counts
<1>12. Counts'
  BY <1>6, <1>9, <1>10, <1>11 DEF Counts
<1> QED
  BY <1>2, <1>7, <1>12 DEF Bus

LEMMA BusCollect == ASSUME Bus, NEW p \in Stoppers, Collect(p) PROVE Bus'
<1> USE DEF items, loop, stops
<1>0. TypeOK /\ Transitions /\ Joins /\ Waits /\ Counts /\ SealIsBarrier
  BY DEF Bus
<1>1. /\ stop \in [Stoppers -> {"idle", "join", "discard", "return", "collect", "wait", "done"}]
      /\ awaited \in [Stoppers -> SUBSET Owners]
      /\ stop' = [stop EXCEPT ![p] = "wait"]
      /\ awaited' = [awaited EXCEPT ![p] = WaitsFor(p)]
      /\ stop[p] = "collect"
      /\ App \in Stoppers /\ Stopping \subseteq Stoppers
      /\ UNCHANGED <<state, consumer, queue, sentinels, unfinished, pending>>
  BY <1>0 DEF Collect, TypeOK, Stoppers
<1>2. consumer = "none"
  BY <1>0, <1>1 DEF Joins, Past
<1>3. \A o \in Owners : handle'[o] \in {"queued", "running"} =>
                            handle[o] \in {"queued", "running"}
  BY DEF Collect
<1>4. WaitsFor(p) \subseteq Owners
  BY DEF WaitsFor, HeldSync, Held
<1>5. TypeOK'
  <2>1. handle' \in [Owners -> {"none", "queued", "running", "removed", "done"}]
    BY <1>0 DEF Collect, TypeOK
  <2>2. awaited' \in [Stoppers -> SUBSET Owners]
    BY <1>1, <1>4
  <2> QED
    BY <1>0, <1>1, <2>1, <2>2 DEF Collect, TypeOK
<1>6. \A o \in Owners : handle[o] = "running" => handle'[o] = "running"
  BY DEF Collect
<1>7. Transitions'
  BY <1>0, <1>1, <1>6, StoppersAreOwners DEF Transitions, InProgress, Stoppers
<1>8. Joins'
  BY <1>0, <1>1, <1>2 DEF Joins, Past
<1>9. Waits'
  <2>1. /\ Held' \subseteq Held
        /\ HeldSync' \subseteq HeldSync
        /\ \A q \in Stoppers : WaitsFor(q)' \subseteq WaitsFor(q)
    BY <1>3, FewerHeld
  <2>2. ASSUME NEW q \in Stoppers, stop'[q] = "wait"
        PROVE  WaitsFor(q)' \subseteq awaited'[q]
    <3>1. CASE q = p
      BY <1>1, <2>1, <3>1
    <3>2. CASE q # p
      BY <1>0, <1>1, <2>1, <2>2, <3>2 DEF Waits
    <3> QED
      BY <3>1, <3>2
  <2>3. stop'[App] = "done" => Held' = {}
    BY <1>0, <1>1, <2>1 DEF Waits
  <2>4. state' = "stopped" => \A a, b \in HeldSync' : a = b
    BY <1>0, <1>1, <2>1 DEF Waits
  <2> QED
    BY <2>2, <2>3, <2>4 DEF Waits
<1>10. Counts'
  BY <1>0, <1>1 DEF Counts, InHand
<1>11. SealIsBarrier'
  BY <1>0, <1>1, <1>3, FewerHeld DEF SealIsBarrier
<1> QED
  BY <1>5, <1>7, <1>8, <1>9, <1>10, <1>11 DEF Bus

LEMMA BusStopReturns == ASSUME Bus, NEW p \in Stoppers, StopReturns(p) PROVE Bus'
<1> USE DEF items, loop, stops
<1>0. TypeOK /\ Transitions /\ Joins /\ Waits /\ Counts
  BY DEF Bus
<1>1. /\ stop \in [Stoppers -> {"idle", "join", "discard", "return", "collect", "wait", "done"}]
      /\ awaited \in [Stoppers -> SUBSET Owners]
      /\ stop' = [stop EXCEPT ![p] = "done"]
      /\ awaited' = [awaited EXCEPT ![p] = {}]
      /\ stop[p] = "wait" /\ state' = "stopped"
      /\ App \in Stoppers /\ Stopping \subseteq Stoppers
      /\ UNCHANGED <<consumer, queue, sentinels, unfinished, pending, handle>>
  BY <1>0 DEF StopReturns, TypeOK, Stoppers
<1>2. consumer = "none"
  BY <1>0, <1>1 DEF Joins, Past
<1>3. WaitsFor(p) \subseteq awaited[p] /\ \A o \in awaited[p] : handle[o] = "done"
  BY <1>0, <1>1 DEF StopReturns, Waits
<1>4. \A o \in Held : o \notin awaited[p]
  BY <1>3 DEF Held
<1>5. WaitsFor(p) = {}
  BY <1>3, <1>4 DEF WaitsFor, HeldSync
<1>6. p = App => Held = {}
  BY <1>5 DEF WaitsFor
<1>7. HeldSync \subseteq {p}
  BY <1>5, <1>6 DEF WaitsFor, HeldSync
<1>8. ASSUME NEW q \in Stopping, q # p
      PROVE  ~InProgress(q)
  <2>1. q \in Owners /\ q[2] \in Sync
    BY StoppersAreOwners, EventBusAssumption
  <2>2. q \notin HeldSync
    BY <1>7, <1>8
  <2>3. handle[q] # "running"
    BY <2>1, <2>2 DEF HeldSync, Held
  <2> QED
    BY <1>0, <2>3 DEF Transitions
<1>9. \A q \in Stopping : ~(stop'[q] \notin {"idle", "done"})
  BY <1>1, <1>8 DEF InProgress
<1>10. Transitions'
  BY <1>1, <1>9 DEF Transitions, InProgress
<1>11. Joins'
  BY <1>1, <1>2 DEF Joins
<1>12. Held' = Held /\ HeldSync' = HeldSync
       /\ \A q \in Stoppers : WaitsFor(q)' = WaitsFor(q)
  BY <1>1 DEF Held, HeldSync, WaitsFor
<1>13. Waits'
  <2>1. \A q \in Stoppers : stop'[q] = "wait" => WaitsFor(q)' \subseteq awaited'[q]
    BY <1>0, <1>1, <1>12 DEF Waits
  <2>2. stop'[App] = "done" => Held' = {}
    BY <1>0, <1>1, <1>6, <1>12 DEF Waits
  <2>3. \A a, b \in HeldSync' : a = b
    BY <1>7, <1>12
  <2> QED
    BY <2>1, <2>2, <2>3 DEF Waits
<1>14. TypeOK'
  BY <1>0, <1>1 DEF StopReturns, TypeOK, States
<1>15. Counts'
  BY <1>0, <1>1 DEF Counts, InHand
<1>16. SealIsBarrier'
  BY <1>1 DEF SealIsBarrier
<1> QED
  BY <1>10, <1>11, <1>13, <1>14, <1>15, <1>16 DEF Bus

LEMMA BusStep == Bus /\ [Next]_vars => Bus'
<1> SUFFICES ASSUME Bus, [Next]_vars PROVE Bus'
  OBVIOUS
<1>1. CASE Next
  BY <1>1, BusStart, BusSend, BusDrain, BusConsumer, BusHandler, BusBeginStop,
     BusJoined, BusDiscardTakes, BusDiscardReturns, BusCollect, BusStopReturns
     DEF Next, StopSteps
<1>2. CASE UNCHANGED vars
  BY <1>2 DEF vars, items, loop, stops, Bus, TypeOK, Transitions, Joins, Waits,
              Counts, SealIsBarrier, InProgress, Past, InHand, WaitsFor,
              HeldSync, Held
<1> QED
  BY <1>1, <1>2

LEMMA BusInvariant == Spec => []Bus
<1>1. QED
  BY BusInit, BusStep, PTL DEF Spec
-----------------------------------------------------------------------------
(* What follows                                                            *)

\* The state keeps its types; in particular task_done() is never called for
\* more tasks than were put.
THEOREM EventBusTypeOK == Spec => []TypeOK
<1>1. Bus => TypeOK
  BY DEF Bus
<1>2. QED
  BY <1>1, BusInvariant, PTL

\* A sealed bus has nothing in hand, and when stop_async() or a handler's
\* stop() has returned no other handler it should outlast waits or runs, for
\* any number of events, of handlers, and of handlers that stop the bus.
THEOREM EventBusBarriersHold == Spec => []BarriersHold
<1>1. ASSUME Bus
      PROVE  StoppedIsQuiet
  <2>1. Waits
    BY <1>1 DEF Bus
  <2>2. ASSUME NEW p \in Stopping, state = "stopped", handle[p] = "running"
        PROVE  HeldSync \subseteq {p}
    <3>1. p \in Owners /\ p[2] \in Sync
      BY StoppersAreOwners, EventBusAssumption
    <3>2. p \in HeldSync
      BY <2>2, <3>1 DEF HeldSync, Held
    <3> QED
      BY <2>1, <2>2, <3>2 DEF Waits
  <2> QED
    BY <2>1, <2>2 DEF StoppedIsQuiet, Waits
<1>2. Bus => BarriersHold
  BY <1>1 DEF BarriersHold, Bus
<1>3. QED
  BY <1>2, BusInvariant, PTL

\* An event that waits is never lost: stops and restarts only move it between
\* the queue, the hands of a stopper that puts it back, and the consumer.
THEOREM EventBusWaitingSurvive == Spec => WaitingSurvive
<1> DEFINE Waiting(e) == e \in queue \/ \E p \in Stoppers : e \in pending[p]
<1>1. ASSUME Bus, [Next]_vars, NEW e \in Events, Waiting(e)
      PROVE  e \in queue' \/ e \in taken' \/ \E p \in Stoppers : e \in pending'[p]
  <2> USE DEF items, loop, stops
  <2>0. TypeOK /\ Counts
    BY <1>1 DEF Bus
  <2>1. CASE UNCHANGED <<queue, pending>>
    BY <1>1, <2>1
  <2>2. ASSUME NEW p \in Stoppers, DiscardTakes(p)
        PROVE  e \in queue' \/ \E q \in Stoppers : e \in pending'[q]
    <3>1. pending[p] = {}
      BY <2>0, <2>2 DEF DiscardTakes, Counts
    <3>2. \A s \in Stoppers : pending'[s] = IF s = p THEN queue ELSE pending[s]
      BY <2>0, <2>2 DEF DiscardTakes, TypeOK
    <3> QED
      BY <1>1, <3>1, <3>2
  <2>3. ASSUME NEW p \in Stoppers, DiscardReturns(p)
        PROVE  e \in queue' \/ \E q \in Stoppers : e \in pending'[q]
    <3>1. \A s \in Stoppers : pending'[s] = IF s = p THEN {} ELSE pending[s]
      BY <2>0, <2>3 DEF DiscardReturns, TypeOK
    <3> QED
      BY <1>1, <2>3, <3>1 DEF DiscardReturns
  <2>4. ASSUME NEW f \in Events, ConsumerTakes(f) \/ SendEvent(f)
        PROVE  \/ e \in queue' \/ e \in taken'
               \/ \E q \in Stoppers : e \in pending'[q]
    BY <1>1, <2>4 DEF ConsumerTakes, SendEvent
  <2>5. CASE Start \/ DrainSeals
    BY <2>1, <2>5 DEF Start, DrainSeals
  <2>6. ASSUME NEW o \in Owners, Handler(o)
        PROVE  UNCHANGED <<queue, pending>>
    BY <2>6 DEF Handler, HandlerBegins, HandlerRemoved, HandlerPublished
  <2>7. ASSUME NEW p \in Stoppers,
               BeginStop(p) \/ Joined(p) \/ Collect(p) \/ StopReturns(p)
        PROVE  UNCHANGED <<queue, pending>>
    BY <2>7 DEF BeginStop, Joined, Collect, StopReturns
  <2>8. CASE Consumer
    <3>1. ASSUME NEW h \in Handlers, Offer(h)
          PROVE  UNCHANGED <<queue, pending>>
      BY <3>1 DEF Offer
    <3>2. CASE ConsumerChecks \/ ConsumerTimesOut \/ ConsumerEnds \/ TaskDone
      BY <2>1, <3>2 DEF ConsumerChecks, ConsumerTimesOut, ConsumerEnds, TaskDone
    <3> QED
      BY <2>1, <2>4, <2>8, <3>1, <3>2 DEF Consumer
  <2>9. CASE UNCHANGED vars
    BY <2>1, <2>9 DEF vars
  <2> QED
    BY <1>1, <2>1, <2>2, <2>3, <2>4, <2>5, <2>6, <2>7, <2>8, <2>9
       DEF Next, StopSteps
<1>2. ASSUME Bus, [Next]_vars
      PROVE  [\A e \in Events :
                 e \in queue \/ (\E p \in Stoppers : e \in pending[p]) =>
                    e \in queue' \/ e \in taken' \/ (\E p \in Stoppers : e \in pending'[p])]_vars
  BY <1>1, <1>2
<1>3. QED
  BY <1>2, BusInvariant, PTL DEF Spec, WaitingSurvive
=============================================================================
