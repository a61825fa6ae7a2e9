----------------------------- MODULE Scheduler -----------------------------
(***************************************************************************)
(* The job scheduler (app/scheduler): a catalogue of registrations, each   *)
(* with a generation, the execution registry that lets one generation of a *)
(* job run at a time, runs that begin on threads and continue on the main  *)
(* loop, the one-time jobs of plugins, hot reload and stop.                *)
(* A run is one call of start() and everything it hands over.  Sections    *)
(* under the scheduler's lock are one step; init() holds the main loop.    *)
(***************************************************************************)
EXTENDS Integers, FiniteSets

CONSTANTS
    Jobs,
    Once,           \* the one-time jobs that plugins add
    Coroutine,      \* jobs that are coroutine functions
    Endless,        \* managed consumers: coroutines that end by cancellation only
    Runs,           \* slots for concurrent calls of start()
    NoRun,
    MaxGen,         \* bound of the model: generations of a service
    MaxAdds,        \* bound of the model: generations of a one-time job
    MaxReloads,     \* bound of the model: hot reloads
    MaxLives        \* bound of the model: times the life cycle starts it

ASSUME SchedulerAssumption ==
    /\ Once \subseteq Jobs
    /\ Coroutine \subseteq Jobs
    /\ Endless \subseteq Coroutine
    /\ NoRun \notin Runs
    /\ {MaxGen, MaxAdds, MaxReloads, MaxLives} \subseteq Nat /\ MaxAdds <= MaxGen

VARIABLES
    state,          \* _lifecycle_state
    halted,         \* runtime_stop_state
    aps,            \* _scheduler is an APScheduler that runs
    trigger,        \* the jobs in its job store
    catalog,        \* _jobs: the generation registered, or 0
    generation,     \* _generations
    running,        \* the registrations <<job, generation>> marked running
    fresh,          \* those marked _once_pending
    updating,       \* update_plugin_job is between its two locked sections
    active,         \* _active_generations
    reserved,       \* _reservations: the run that reserved a job
    run,            \* the runs
    cancel,         \* runs with a cancellation on its way
    watched,        \* the handles the stop in progress waits for
    stopAt,         \* where stop_async() is
    reloadAt,       \* where on_config_changed() is
    initialising,   \* init() is between "starting" and "running"
    stops, reloads, lives   \* what has happened so far

registry == <<active, reserved>>
jobs     == <<catalog, generation, running, fresh, updating>>
plan     == <<aps, trigger>>
control  == <<state, halted, stopAt, reloadAt, initialising, stops, reloads, lives>>
vars     == <<control, plan, jobs, registry, run, cancel, watched>>

Gens == 0..MaxGen

\* due: about to enter start();  claimed: owns its generation;  body: a plain
\* function runs;  unwind: start() is at its finally;  pending, running: the
\* coroutine waits for the loop, runs;  ending: _finish_job waits for the
\* loop;  settling: it awaits progress updates;  writing: the final progress.
OnThread == {"due", "claimed", "body", "unwind"}
OnLoop   == {"pending", "running", "ending", "settling", "writing"}
Alive    == (OnThread \ {"due"}) \union OnLoop

Absent == [job |-> NoRun, gen |-> 0, at |-> "none", manual |-> FALSE]

TypeOK ==
    /\ state \in {"new", "starting", "running", "reloading", "stopping", "stopped"}
    /\ {halted, aps, initialising, updating} \subseteq BOOLEAN
    /\ trigger \subseteq Jobs
    /\ catalog \in [Jobs -> Gens] /\ generation \in [Jobs -> Gens]
    /\ \A j \in Jobs : catalog[j] \in {0, generation[j]}
    /\ running \subseteq Jobs \X Gens /\ fresh \subseteq Once \X Gens
    /\ active \in [Jobs -> SUBSET Gens]
    /\ reserved \in [Jobs -> Runs \union {NoRun}]
    /\ run \in [Runs -> [job : Jobs \union {NoRun}, gen : Gens,
                         at : OnThread \union OnLoop \union {"none"}, manual : BOOLEAN]]
    /\ cancel \subseteq Runs /\ watched \subseteq Runs
    /\ stopAt \in {"none", "join", "await"}
    /\ reloadAt \in {"none", "down", "join", "check"}
    /\ stops \in 0..MaxLives /\ reloads \in 0..MaxReloads /\ lives \in 0..MaxLives

Init ==
    /\ state = "new" /\ halted = FALSE
    /\ aps = FALSE /\ trigger = {}
    /\ catalog = [j \in Jobs |-> 0] /\ generation = [j \in Jobs |-> 0]
    /\ running = {} /\ fresh = {} /\ updating = FALSE
    /\ active = [j \in Jobs |-> {}] /\ reserved = [j \in Jobs |-> NoRun]
    /\ run = [r \in Runs |-> Absent]
    /\ cancel = {} /\ watched = {}
    /\ stopAt = "none" /\ reloadAt = "none" /\ initialising = FALSE
    /\ stops = 0 /\ reloads = 0 /\ lives = 0

Accepting == state \in {"starting", "running"}

\* The registration the catalogue holds for a run's job is the run's own.
Current(r) == catalog[run[r].job] = run[r].gen

Mark(r) == <<run[r].job, run[r].gen>>

\* _accepts_handle: also a job that a hot reload lets finish.
AcceptsHandle(r) ==
    Accepting \/ (state = "reloading" /\ Current(r) /\ Mark(r) \in running)

At(r, where) == run' = [run EXCEPT ![r].at = where]

\* The run is over: its thread has left start() and no handle is left.
Leave(r) ==
    /\ run' = [run EXCEPT ![r] = Absent]
    /\ cancel' = cancel \ {r}
    /\ watched' = watched \ {r}

Release(r) == active' = [active EXCEPT ![run[r].job] = @ \ {run[r].gen}]

\* Only the current registration is marked as finished.
MarkFinished(r) == running' = IF Current(r) THEN running \ {Mark(r)} ELSE running
-----------------------------------------------------------------------------
(* Triggers, manual starts and one-time jobs.                              *)

Enter(r, j, byHand) ==
    run' = [run EXCEPT ![r] = [job |-> j, gen |-> 0, at |-> "due", manual |-> byHand]]

Free(r) == run[r].at = "none"

\* A trigger is due: one instance per job; a date trigger is consumed first.
TriggerFires(r, j) ==
    /\ aps
    /\ Free(r)
    /\ j \in trigger
    /\ \A q \in Runs : run[q].job = j /\ ~run[q].manual => run[q].at \notin OnThread
    /\ Enter(r, j, FALSE)
    /\ trigger' = IF j \in Once THEN trigger \ {j} ELSE trigger
    /\ UNCHANGED <<control, aps, jobs, registry, cancel, watched>>

\* The service page of the API, on a worker thread of the web server.
StartByHand(r, j) ==
    /\ Free(r)
    /\ Enter(r, j, TRUE)
    /\ UNCHANGED <<control, plan, jobs, registry, cancel, watched>>

\* start_agent_task: reserve, then start.
ReserveAndStart(r, j) ==
    /\ Free(r)
    /\ j \in Jobs \ Once
    /\ Accepting
    /\ catalog[j] # 0 /\ active[j] = {} /\ <<j, catalog[j]>> \notin running
    /\ reserved[j] = NoRun
    /\ reserved' = [reserved EXCEPT ![j] = r]
    /\ Enter(r, j, TRUE)
    /\ UNCHANGED <<control, plan, jobs, active, cancel, watched>>

\* Faulty variant: what APScheduler no longer holds is taken for finished.
LiveOnceByTrigger(j) == catalog[j] # 0 /\ (j \in trigger \/ active[j] # {})

\* _is_plugin_once_job_pending
LiveOnce(j) ==
    /\ catalog[j] # 0
    /\ \/ <<j, catalog[j]>> \in fresh
       \/ j \in trigger
       \/ active[j] # {}
       \/ <<j, catalog[j]>> \in running

\* The plugin's one-time jobs that are over are pruned.
Register(j, gen) ==
    [k \in Jobs |-> IF k = j THEN gen
                   ELSE IF k \in Once /\ ~LiveOnce(k) THEN 0 ELSE catalog[k]]

\* add_plugin_once_job replaces a registration of the same id.
AddOnce(j) ==
    /\ j \in Once
    /\ aps /\ Accepting
    /\ generation[j] < MaxAdds
    /\ generation' = [generation EXCEPT ![j] = @ + 1]
    /\ catalog' = Register(j, generation'[j])
    /\ fresh' = fresh \union {<<j, generation'[j]>>}
    /\ trigger' = trigger \union {j}
    /\ UNCHANGED <<control, aps, running, updating, registry, run, cancel, watched>>

\* update_plugin_job after a plugin's configuration was saved, first section:
\* its services go, its live one-time jobs stay.  (With another instance of
\* the plugin they would be dropped.)
UpdateDetaches ==
    /\ aps
    /\ ~updating
    /\ \A j \in Jobs \ Once : generation[j] + 1 < MaxGen   \* leaves one for Initialise
    /\ updating' = TRUE
    /\ catalog' = [j \in Jobs |-> IF j \in Once /\ LiveOnce(j) THEN catalog[j] ELSE 0]
    /\ trigger' = {j \in trigger \intersect Once : LiveOnce(j)}
    /\ UNCHANGED <<control, aps, generation, running, fresh, registry, run, cancel, watched>>

NextGenerations == [j \in Jobs |-> IF j \in Once THEN generation[j] ELSE generation[j] + 1]

\* Second section: the services are registered; without APScheduler, which a
\* stop or a reload has taken down meanwhile, they have no trigger.
UpdateRegisters ==
    /\ updating
    /\ updating' = FALSE
    /\ generation' = NextGenerations
    /\ catalog' = [j \in Jobs |-> IF j \in Once THEN catalog[j] ELSE generation'[j]]
    /\ trigger' = IF aps THEN trigger \union (Jobs \ Once) ELSE trigger
    /\ UNCHANGED <<control, aps, running, fresh, registry, run, cancel, watched>>
-----------------------------------------------------------------------------
(* start().                                                                *)

\* Faulty variant: only the same generation keeps a run out.
OverlapsSame(j) == catalog[j] \in active[j] \/ <<j, catalog[j]>> \in running

Overlaps(j) == active[j] # {} \/ <<j, catalog[j]>> \in running

\* The reservation is held by another thread.
Reserved(r) == reserved[run[r].job] \notin {r, NoRun}

\* What every exit of start() does with a reservation of its own.
DropReservation(r) ==
    reserved' = [reserved EXCEPT ![run[r].job] = IF @ = r THEN NoRun ELSE @]

PrepareAdmits(r) ==
    /\ run[r].at = "due"
    /\ LET j == run[r].job  g == catalog[j] IN
         /\ Accepting /\ ~Reserved(r) /\ g # 0 /\ ~Overlaps(j)
         /\ active' = [active EXCEPT ![j] = @ \union {g}]
         /\ running' = running \union {<<j, g>>}
         /\ fresh' = fresh \ {<<j, g>>}
         /\ run' = [run EXCEPT ![r].at = "claimed", ![r].gen = g]
    /\ DropReservation(r)
    /\ UNCHANGED <<control, plan, catalog, generation, updating, cancel, watched>>

PrepareRefuses(r) ==
    /\ run[r].at = "due"
    /\ LET j == run[r].job IN ~Accepting \/ Reserved(r) \/ catalog[j] = 0 \/ Overlaps(j)
    /\ DropReservation(r)
    /\ Leave(r)
    /\ UNCHANGED <<control, plan, jobs, active>>

\* __start_coro: hand the coroutine to the main loop, or be refused.
SubmitCoroutine(r) ==
    /\ run[r].at = "claimed" /\ run[r].job \in Coroutine
    /\ At(r, IF AcceptsHandle(r) THEN "pending" ELSE "unwind")
    /\ UNCHANGED <<control, plan, jobs, registry, cancel, watched>>

\* invoke_background: the function is called while the scheduler accepts.
CallFunction(r) ==
    /\ run[r].at = "claimed" /\ run[r].job \notin Coroutine
    /\ At(r, IF Accepting THEN "body" ELSE "unwind")
    /\ UNCHANGED <<control, plan, jobs, registry, cancel, watched>>

FunctionReturns(r) ==
    /\ run[r].at = "body"
    /\ At(r, "unwind")
    /\ UNCHANGED <<control, plan, jobs, registry, cancel, watched>>

\* _finish_unsubmitted_job, on whatever thread.
FinishUnsubmitted(r) ==
    /\ MarkFinished(r)
    /\ Release(r)
    /\ Leave(r)
    /\ UNCHANGED <<control, plan, catalog, generation, fresh, updating, reserved>>

\* The finally of start(): _finish_job goes to the loop, or is done here.
Unwind(r) ==
    /\ run[r].at = "unwind"
    /\ IF AcceptsHandle(r)
       THEN /\ At(r, "ending")
            /\ UNCHANGED <<control, plan, jobs, registry, cancel, watched>>
       ELSE FinishUnsubmitted(r)
-----------------------------------------------------------------------------
(* The main loop.                                                          *)

LoopFree == ~initialising

CoroutineBegins(r) ==
    /\ LoopFree
    /\ run[r].at = "pending" /\ r \notin cancel
    /\ At(r, IF Accepting THEN "running" ELSE "settling")
    /\ UNCHANGED <<control, plan, jobs, registry, cancel, watched>>

\* Cancelled before the loop has begun it (on_unstarted_cancel).
NeverBegins(r) ==
    /\ LoopFree
    /\ run[r].at \in {"pending", "ending"} /\ r \in cancel
    /\ FinishUnsubmitted(r)

\* The coroutine ends, or the cancellation reaches it; its finally follows.
CoroutineEnds(r) ==
    /\ LoopFree
    /\ run[r].at = "running"
    /\ run[r].job \in Endless => r \in cancel
    /\ At(r, "settling")
    /\ cancel' = cancel \ {r}
    /\ UNCHANGED <<control, plan, jobs, registry, watched>>

FinishBegins(r) ==
    /\ LoopFree
    /\ run[r].at = "ending" /\ r \notin cancel
    /\ At(r, "settling")
    /\ UNCHANGED <<control, plan, jobs, registry, cancel, watched>>

\* _finish_job after the progress updates of this generation are in.
FinishSettles(r) ==
    /\ LoopFree
    /\ run[r].at = "settling"
    /\ IF Current(r)
       THEN /\ running' = running \ {Mark(r)}
            /\ At(r, "writing")
            /\ UNCHANGED <<registry, cancel, watched>>
       ELSE /\ Release(r)
            /\ Leave(r)
            /\ UNCHANGED <<running, reserved>>
    /\ UNCHANGED <<control, plan, catalog, generation, fresh, updating>>

\* A cancellation meets it while it awaits them: nothing after that await
\* is done.
FinishIsCancelled(r) ==
    /\ LoopFree
    /\ run[r].at = "settling" /\ r \in cancel
    /\ Leave(r)
    /\ UNCHANGED <<control, plan, jobs, registry>>

\* The final progress is written, or not: the generation is released.
FinishReleases(r) ==
    /\ LoopFree
    /\ run[r].at = "writing"
    /\ Release(r)
    /\ Leave(r)
    /\ UNCHANGED <<control, plan, jobs, reserved>>
-----------------------------------------------------------------------------
(* Life cycle.                                                             *)

\* init(), first half: the entry is open again, the old catalogue is there.
StartInit ==
    /\ state' = "starting"
    /\ initialising' = TRUE

\* Bound of the model: numbers are left for the registrations to come.
Room == \A j \in Jobs \ Once : generation[j] + (IF updating THEN 1 ELSE 0) < MaxGen

\* A lifespan starts the scheduler.  (A configuration change before the first
\* start finds no services bound, and init() raises: not modelled.)
Boot ==
    /\ state \in {"new", "stopped"}
    /\ stopAt = "none" /\ reloadAt = "none"
    /\ lives < MaxLives
    /\ Room
    /\ StartInit
    /\ lives' = lives + 1
    /\ halted' = FALSE
    /\ reserved' = [j \in Jobs |-> NoRun]
    /\ UNCHANGED <<stopAt, reloadAt, stops, reloads, plan, jobs, active, run, cancel, watched>>

\* init(), second half: _initialize_catalog and the start of APScheduler.
Initialise ==
    /\ initialising
    /\ initialising' = FALSE
    /\ state' = "running"
    /\ generation' = NextGenerations
    /\ catalog' = [j \in Jobs |-> IF j \in Once THEN 0 ELSE generation'[j]]
    /\ aps' = TRUE
    /\ trigger' = Jobs \ Once
    /\ UNCHANGED <<halted, stopAt, reloadAt, stops, reloads, lives, running, fresh, updating,
                   registry, run, cancel, watched>>

\* Faulty variant: the stop signal is not looked at.
MayReloadAlways == state \notin {"stopping", "reloading"}

MayReload == ~halted /\ state \notin {"stopping", "reloading"}

\* on_config_changed: _begin_reload.
BeginReload ==
    /\ LoopFree
    /\ reloadAt = "none"
    /\ MayReload
    /\ state # "new"
    /\ reloads < MaxReloads
    /\ Room
    /\ state' = "reloading"
    /\ reserved' = [j \in Jobs |-> NoRun]
    /\ reloadAt' = "down"
    /\ reloads' = reloads + 1
    /\ UNCHANGED <<halted, stopAt, initialising, stops, lives, plan, jobs, active, run, cancel, watched>>

\* _snapshot_and_shutdown takes the old scheduler down ...
ReloadTakesDown ==
    /\ reloadAt = "down"
    /\ IF state = "reloading"
       THEN aps' = FALSE /\ trigger' = {} /\ reloadAt' = "join"
       ELSE reloadAt' = "check" /\ UNCHANGED plan
    /\ UNCHANGED <<state, halted, stopAt, initialising, stops, reloads, lives,
                   jobs, registry, run, cancel, watched>>

\* Faulty variant: a reload waits for whatever the scheduler has started.
NothingRuns == \A r \in Runs : run[r].at = "none"

\* The threads of APScheduler's pool have come to their end.
PoolIsIdle == \A r \in Runs : run[r].at \in OnThread => run[r].manual

\* ... and waits for its pool.
ReloadJoins ==
    /\ reloadAt = "join"
    /\ PoolIsIdle
    /\ reloadAt' = "check"
    /\ UNCHANGED <<state, halted, stopAt, initialising, stops, reloads, lives, plan,
                   jobs, registry, run, cancel, watched>>

\* The state is checked again, and no stop can come before init().
ReloadInits ==
    /\ LoopFree
    /\ reloadAt = "check"
    /\ reloadAt' = "none"
    /\ IF state = "reloading" THEN StartInit ELSE UNCHANGED <<state, initialising>>
    /\ UNCHANGED <<halted, stopAt, stops, reloads, lives, plan, jobs, registry, run, cancel, watched>>

Handles == {r \in Runs : run[r].at \in OnLoop}

\* Faulty variant: a handle the loop has not begun is not waited for.
HandlesBegun == {r \in Handles : run[r].at # "pending"}

\* What a stop cancels and waits for.
StopWatches == Handles

\* The life cycle's stop signal and stop_async: _begin_stop, then cancel.
BeginStop ==
    /\ LoopFree
    /\ stopAt = "none"
    /\ state \in {"running", "reloading"}
    /\ stops < MaxLives
    /\ halted' = TRUE
    /\ state' = "stopping"
    /\ aps' = FALSE /\ trigger' = {}
    /\ reserved' = [j \in Jobs |-> NoRun]
    /\ watched' = StopWatches
    /\ cancel' = cancel \union StopWatches
    /\ stopAt' = "join"
    /\ stops' = stops + 1
    /\ UNCHANGED <<reloadAt, initialising, reloads, lives, jobs, active, run>>

StopJoins ==
    /\ stopAt = "join"
    /\ PoolIsIdle
    /\ stopAt' = "await"
    /\ UNCHANGED <<state, halted, reloadAt, initialising, stops, reloads, lives, plan,
                   jobs, registry, run, cancel, watched>>

StopReturns ==
    /\ LoopFree
    /\ stopAt = "await"
    /\ watched = {}
    /\ stopAt' = "none"
    /\ state' = "stopped"
    /\ UNCHANGED <<halted, reloadAt, initialising, stops, reloads, lives, plan,
                   jobs, registry, run, cancel, watched>>
-----------------------------------------------------------------------------
Thread(r) ==
    \/ PrepareAdmits(r) \/ PrepareRefuses(r) \/ SubmitCoroutine(r)
    \/ CallFunction(r) \/ FunctionReturns(r) \/ Unwind(r)

Loop(r) ==
    \/ CoroutineBegins(r) \/ NeverBegins(r) \/ CoroutineEnds(r)
    \/ FinishBegins(r) \/ FinishSettles(r) \/ FinishIsCancelled(r) \/ FinishReleases(r)

Reload == ReloadTakesDown \/ ReloadJoins \/ ReloadInits
Stop   == StopJoins \/ StopReturns

Next ==
    \/ \E r \in Runs : Thread(r) \/ Loop(r)
    \/ \E r \in Runs, j \in Jobs : TriggerFires(r, j) \/ StartByHand(r, j) \/ ReserveAndStart(r, j)
    \/ \E j \in Once : AddOnce(j)
    \/ UpdateDetaches \/ UpdateRegisters
    \/ Boot \/ Initialise
    \/ BeginReload \/ Reload
    \/ BeginStop \/ Stop

Spec == Init /\ [][Next]_vars

\* Threads, loop, reload and stop go on; functions return.
Fairness ==
    /\ \A r \in Runs : WF_vars(Thread(r)) /\ WF_vars(Loop(r))
    /\ WF_vars(Initialise)
    /\ WF_vars(Reload)
    /\ WF_vars(Stop)

FairSpec == Spec /\ Fairness
-----------------------------------------------------------------------------
\* Whatever is registered again in the meantime, a job's function is never
\* executed twice at once (ExecutionRegistry.claim_generation).
OneExecution ==
    \A r, q \in Runs :
       /\ r # q
       /\ run[r].at \in {"body", "running"} /\ run[q].at \in {"body", "running"}
       => run[r].job # run[q].job

\* A generation that is active belongs to a run that will still release it;
\* otherwise its job never runs again.
Owned == \A j \in Jobs : \A g \in active[j] :
            \E r \in Runs : run[r].job = j /\ run[r].gen = g /\ run[r].at \in Alive

NothingIsLeaked == stops = 0 => Owned

\* A generation that executes or is claimed has one owner, neither two nor
\* none.  (A stop may cancel a finish that waits for the progress updates and
\* so leak its generation: NothingIsLeaked is about the time before a stop.)
GenerationsAreOwned == OneExecution /\ NothingIsLeaked

\* When stop_async() has returned, neither APScheduler's pool nor the loop
\* executes a job; what other threads still do cannot begin a new one.
StoppedIsQuiet ==
    state = "stopped" =>
       /\ PoolIsIdle
       /\ \A r \in Runs : run[r].at \notin OnLoop

\* After the life cycle's stop nothing but the next lifespan starts it again,
\* a configuration change that was under way included.
StoppedStaysStopped == [][halted /\ halted' => ~(state' = "starting")]_vars

\* "a rebuild of the services only drops tasks registered by an instance that
\* was replaced" (docs/architecture-overview.md): until it begins, a one-time
\* job of a running plugin stays registered while the scheduler is not stopped.
\* The one step that does not keep to it is the new catalogue of a hot reload.
OnceIsKept ==
    [][\A j \in Once : <<j, catalog[j]>> \in fresh /\ ~halted =>
          catalog'[j] # 0 \/ state = "starting"]_vars

\* Every run ends, and a stop ends even consumers that never end themselves.
EveryStopReturns == stopAt = "join" ~> state = "stopped"

\* A hot reload ends with a scheduler that runs, unless a stop overtakes it.
EveryReloadEnds == reloadAt = "down" ~> state \in {"running", "stopping", "stopped"}

\* Every transition of the life cycle comes to its end.
EveryTransitionEnds == EveryStopReturns /\ EveryReloadEnds
=============================================================================
