-------------------------- MODULE SchedulerProofs --------------------------
(***************************************************************************)
(* Proofs about Scheduler for every set of jobs and of calls of start(),   *)
(* and every bound: the types of the state, the life cycle, the ownership  *)
(* of generations, and what a stop leaves behind.                          *)
(***************************************************************************)
EXTENDS Scheduler, TLAPS

\* Where the life cycle is, seen from its parts: init() runs exactly while the
\* scheduler is starting, stop_async() while it is stopping, and the stop
\* signal is up only from a stop to the next lifespan.
Phases ==
    /\ initialising => state = "starting" /\ reloadAt = "none"
    /\ stopAt # "none" => state = "stopping"
    /\ halted => state \in {"stopping", "stopped"}

\* The numbers that the registrations under way are going to take.
Due(b) == IF b THEN 1 ELSE 0
Numbered ==
    \A j \in Jobs \ Once :
       generation[j] + Due(updating) + Due(initialising \/ reloadAt # "none") <= MaxGen

\* A call of start() is for a job.
Called == \A r \in Runs : run[r].at # "none" => run[r].job \in Jobs

\* A one-time job that is pending has a number.
Counted == \A j \in Jobs : <<j, 0>> \notin fresh

Typing == TypeOK /\ Phases /\ Numbered /\ Called /\ Counted

\* A run that is past its claim holds its generation, and is the only one of
\* its job; until the first stop nothing is cancelled and nothing leaks.
Holding(r) == run[r].at \in Alive
Ownership ==
    /\ \A r \in Runs : Holding(r) => run[r].gen \in active[run[r].job]
    /\ \A r, q \in Runs : r # q /\ Holding(r) /\ Holding(q) => run[r].job # run[q].job
    /\ stops = 0 => cancel = {} /\ Owned

\* From _begin_stop on APScheduler is down, a handle is one the stop waits
\* for, and what has been waited for does not come back.
Stopping ==
    /\ state \in {"stopping", "stopped"} => ~aps
    /\ stopAt = "await" \/ state = "stopped" => PoolIsIdle
    /\ state = "stopping" => Handles \subseteq watched
    /\ state = "stopped" => Handles = {}
-----------------------------------------------------------------------------
(* What a step of one call of start() does                                 *)

Slot == [job : Jobs \union {NoRun}, gen : Gens,
         at : OnThread \union OnLoop \union {"none"}, manual : BOOLEAN]

Others(r) == \A q \in Runs \ {r} : run'[q] = run[q]

\* The run goes on, with its job and its generation: to the loop only while
\* the scheduler accepts a handle, and never back to a thread.
Goes(r) ==
    /\ run'[r] \in Slot
    /\ Holding(r) /\ run'[r].at \in Alive
    /\ run'[r].job = run[r].job /\ run'[r].gen = run[r].gen
    /\ run'[r].manual = run[r].manual
    /\ run'[r].at \in OnThread => run[r].at \in OnThread
    /\ run'[r].at \in OnLoop => run[r].at \in OnLoop \/ AcceptsHandle(r)
    /\ active' = active /\ watched' = watched /\ cancel' \subseteq cancel

\* The run is over; a generation it held is released, unless a cancellation
\* met it.
Ends(r) ==
    /\ run'[r] = Absent
    /\ \/ Holding(r) /\ Release(r)
       \/ active' = active /\ (Holding(r) => r \in cancel)
    /\ cancel' = cancel \ {r} /\ watched' = watched \ {r}

\* The run claims the generation that the catalogue holds.
Claims(r) ==
    LET j == run[r].job  g == catalog[j] IN
      /\ run[r].at = "due" /\ active[j] = {} /\ g # 0
      /\ run'[r] \in Slot
      /\ run'[r].at = "claimed" /\ run'[r].job = j /\ run'[r].gen = g
      /\ run'[r].manual = run[r].manual
      /\ active' = [active EXCEPT ![j] = @ \union {g}]
      /\ UNCHANGED <<cancel, watched>>

RunStep(r) ==
    /\ run[r].at # "none"
    /\ UNCHANGED <<control, plan, catalog, generation, updating>>
    /\ run' \in [Runs -> Slot]
    /\ running' \subseteq running \union {<<run[r].job, catalog[run[r].job]>>}
    /\ fresh' \subseteq fresh
    /\ reserved' \in [Jobs -> Runs \union {NoRun}]
    /\ Others(r)
    /\ Goes(r) \/ Ends(r) \/ Claims(r)

LEMMA AtMoves ==
    ASSUME Typing, NEW r \in Runs, NEW w \in OnThread \union OnLoop, At(r, w)
    PROVE  /\ run' \in [Runs -> Slot] /\ Others(r)
           /\ run'[r] \in Slot /\ run'[r].at = w
           /\ run'[r].job = run[r].job /\ run'[r].gen = run[r].gen
           /\ run'[r].manual = run[r].manual
<1>1. run \in [Runs -> Slot] /\ run[r] \in Slot
  BY DEF Typing, TypeOK, Slot
<1>2. /\ [run[r] EXCEPT !.at = w] \in Slot
      /\ [run[r] EXCEPT !.at = w].at = w
      /\ [run[r] EXCEPT !.at = w].job = run[r].job
      /\ [run[r] EXCEPT !.at = w].gen = run[r].gen
      /\ [run[r] EXCEPT !.at = w].manual = run[r].manual
  BY <1>1 DEF Slot
<1>3. run' = [run EXCEPT ![r] = [run[r] EXCEPT !.at = w]]
  BY <1>1 DEF At
<1> QED
  BY <1>1, <1>2, <1>3 DEF Others

LEMMA LeaveMoves ==
    ASSUME Typing, NEW r \in Runs, Leave(r)
    PROVE  /\ run' \in [Runs -> Slot] /\ Others(r)
           /\ run'[r] = Absent
           /\ cancel' = cancel \ {r} /\ watched' = watched \ {r}
<1>1. run \in [Runs -> Slot]
  BY DEF Typing, TypeOK, Slot
<1>2. Absent \in Slot
  BY SchedulerAssumption DEF Absent, Slot, Gens
<1>3. run' = [run EXCEPT ![r] = Absent]
  BY DEF Leave
<1> QED
  BY <1>1, <1>2, <1>3 DEF Leave, Others

LEMMA DropTyping ==
    ASSUME Typing, NEW r \in Runs, DropReservation(r)
    PROVE  reserved' \in [Jobs -> Runs \union {NoRun}]
BY DEF Typing, TypeOK, DropReservation

\* _finish_unsubmitted_job is one way for a run to end.
LEMMA UnsubmittedEnds ==
    ASSUME Typing, NEW r \in Runs, Holding(r), FinishUnsubmitted(r)
    PROVE  RunStep(r)
<1>1. /\ UNCHANGED <<control, plan, catalog, generation, fresh, updating, reserved>>
      /\ MarkFinished(r) /\ Release(r) /\ Leave(r)
  BY DEF FinishUnsubmitted
<1>2. running' \subseteq running
  BY <1>1 DEF MarkFinished
<1>3. reserved' \in [Jobs -> Runs \union {NoRun}]
  BY <1>1 DEF Typing, TypeOK
<1>4. Ends(r)
  BY <1>1, LeaveMoves DEF Ends
<1> QED
  BY <1>1, <1>2, <1>3, <1>4, LeaveMoves DEF RunStep, Holding, Alive, OnThread, OnLoop

\* A step that only moves the run along.
LEMMA MoveGoes ==
    ASSUME Typing, NEW r \in Runs, NEW w \in Alive, At(r, w), Holding(r),
           w \in OnThread => run[r].at \in OnThread,
           w \in OnLoop => run[r].at \in OnLoop \/ AcceptsHandle(r),
           running' \subseteq running, cancel' \subseteq cancel,
           UNCHANGED <<control, plan, catalog, generation, fresh, updating, registry, watched>>
    PROVE  RunStep(r)
<1>1. w \in OnThread \union OnLoop
  BY DEF Alive
<1>2. active' = active /\ reserved' = reserved
  BY DEF registry
<1>3. Goes(r)
  BY <1>1, <1>2, AtMoves DEF Goes
<1> QED
  BY <1>1, <1>2, <1>3, AtMoves DEF RunStep, Typing, TypeOK, Holding, Alive, OnThread, OnLoop

LEMMA ThreadStep ==
    ASSUME Typing, NEW r \in Runs, Thread(r)
    PROVE  RunStep(r)
<1> USE DEF jobs
<1>1. CASE PrepareAdmits(r)
  <2> DEFINE j == run[r].job
             g == catalog[j]
             c == [run[r] EXCEPT !.at = "claimed", !.gen = g]
  <2>1. /\ run[r].at = "due" /\ g # 0 /\ active[j] = {}
        /\ active' = [active EXCEPT ![j] = @ \union {g}]
        /\ running' = running \union {<<j, g>>}
        /\ fresh' = fresh \ {<<j, g>>}
        /\ DropReservation(r)
        /\ UNCHANGED <<control, plan, catalog, generation, updating, cancel, watched>>
    BY <1>1 DEF PrepareAdmits, Overlaps
  <2>2. run \in [Runs -> Slot] /\ run[r] \in Slot
    BY DEF Typing, TypeOK, Slot
  <2>3. j \in Jobs /\ g \in Gens
    BY <2>1 DEF Typing, TypeOK, Called
  <2>4. run' = [run EXCEPT ![r] = c]
    BY <1>1, <2>2 DEF PrepareAdmits
  <2>5. /\ c \in Slot /\ c.at = "claimed" /\ c.job = j /\ c.gen = g
        /\ c.manual = run[r].manual
    <3> HIDE DEF g
    <3> QED
      BY <2>2, <2>3 DEF Slot, OnThread
  <2> HIDE DEF c
  <2>6. run' \in [Runs -> Slot] /\ Others(r) /\ run'[r] = c
    BY <2>2, <2>4, <2>5 DEF Others
  <2>7. Claims(r)
    BY <2>1, <2>5, <2>6 DEF Claims
  <2> QED
    BY <2>1, <2>6, <2>7, DropTyping DEF RunStep
<1>2. CASE PrepareRefuses(r)
  <2>1. /\ run[r].at = "due" /\ DropReservation(r) /\ Leave(r)
        /\ UNCHANGED <<control, plan, jobs, active>>
    BY <1>2 DEF PrepareRefuses
  <2>2. ~Holding(r)
    BY <2>1 DEF Holding, Alive, OnThread, OnLoop
  <2>3. Ends(r)
    BY <2>1, <2>2, LeaveMoves DEF Ends
  <2> QED
    BY <2>1, <2>3, LeaveMoves, DropTyping DEF RunStep
<1>3. CASE SubmitCoroutine(r)
  <2>1. CASE AcceptsHandle(r)
    BY <1>3, <2>1, MoveGoes DEF SubmitCoroutine, Alive, OnThread, OnLoop, Holding
  <2>2. CASE ~AcceptsHandle(r)
    BY <1>3, <2>2, MoveGoes DEF SubmitCoroutine, Alive, OnThread, OnLoop, Holding
  <2> QED
    BY <2>1, <2>2
<1>4. CASE CallFunction(r)
  <2>1. CASE Accepting
    BY <1>4, <2>1, MoveGoes DEF CallFunction, Alive, OnThread, OnLoop, Holding
  <2>2. CASE ~Accepting
    BY <1>4, <2>2, MoveGoes DEF CallFunction, Alive, OnThread, OnLoop, Holding
  <2> QED
    BY <2>1, <2>2
<1>5. CASE FunctionReturns(r)
  BY <1>5, MoveGoes DEF FunctionReturns, Alive, OnThread, OnLoop, Holding
<1>6. CASE Unwind(r)
  <2>1. CASE AcceptsHandle(r)
    BY <1>6, <2>1, MoveGoes DEF Unwind, Alive, OnThread, OnLoop, Holding
  <2>2. CASE ~AcceptsHandle(r)
    BY <1>6, <2>2, UnsubmittedEnds DEF Unwind, Holding, Alive, OnThread, OnLoop
  <2> QED
    BY <2>1, <2>2
<1> QED
  BY <1>1, <1>2, <1>3, <1>4, <1>5, <1>6 DEF Thread

LEMMA LoopStep ==
    ASSUME Typing, NEW r \in Runs, Loop(r)
    PROVE  RunStep(r)
<1> USE DEF jobs
<1>1. CASE CoroutineBegins(r)
  BY <1>1, MoveGoes DEF CoroutineBegins, Alive, OnThread, OnLoop, Holding
<1>2. CASE NeverBegins(r)
  BY <1>2, UnsubmittedEnds DEF NeverBegins, Holding, Alive, OnThread, OnLoop
<1>3. CASE CoroutineEnds(r)
  BY <1>3, MoveGoes DEF CoroutineEnds, Alive, OnThread, OnLoop, Holding
<1>4. CASE FinishBegins(r)
  BY <1>4, MoveGoes DEF FinishBegins, Alive, OnThread, OnLoop, Holding
<1>5. CASE FinishSettles(r)
  <2>1. CASE Current(r)
    BY <1>5, <2>1, MoveGoes DEF FinishSettles, Alive, OnThread, OnLoop, Holding
  <2>2. CASE ~Current(r)
    <3>1. /\ run[r].at = "settling" /\ Release(r) /\ Leave(r)
          /\ UNCHANGED <<running, reserved, control, plan, catalog, generation, fresh, updating>>
      BY <1>5, <2>2 DEF FinishSettles
    <3>2. Ends(r)
      BY <3>1, LeaveMoves DEF Ends, Holding, Alive, OnThread, OnLoop
    <3> QED
      BY <3>1, <3>2, LeaveMoves DEF RunStep, Typing, TypeOK
  <2> QED
    BY <2>1, <2>2
<1>6. CASE FinishIsCancelled(r)
  <2>1. /\ run[r].at = "settling" /\ r \in cancel /\ Leave(r)
        /\ UNCHANGED <<control, plan, jobs, registry>>
    BY <1>6 DEF FinishIsCancelled
  <2>2. active' = active /\ reserved' = reserved
    BY <2>1 DEF registry
  <2>3. Ends(r)
    BY <2>1, <2>2, LeaveMoves DEF Ends
  <2> QED
    BY <2>1, <2>2, <2>3, LeaveMoves DEF RunStep, Typing, TypeOK
<1>7. CASE FinishReleases(r)
  <2>1. /\ run[r].at = "writing" /\ Release(r) /\ Leave(r)
        /\ UNCHANGED <<control, plan, jobs, reserved>>
    BY <1>7 DEF FinishReleases
  <2>2. Ends(r)
    BY <2>1, LeaveMoves DEF Ends, Holding, Alive, OnThread, OnLoop
  <2> QED
    BY <2>1, <2>2, LeaveMoves DEF RunStep, Typing, TypeOK
<1> QED
  BY <1>1, <1>2, <1>3, <1>4, <1>5, <1>6, <1>7 DEF Loop
-----------------------------------------------------------------------------
(* Types, and where the life cycle is                                      *)

LEMMA TypingInit == Init => Typing
<1> SUFFICES ASSUME Init PROVE Typing
  OBVIOUS
<1>1. Absent \in Slot /\ 0 \in Gens
  BY SchedulerAssumption DEF Absent, Slot, Gens
<1>2. run \in [Runs -> Slot]
  BY <1>1 DEF Init
<1>3. TypeOK
  <2>1. /\ catalog \in [Jobs -> Gens] /\ generation \in [Jobs -> Gens]
        /\ \A j \in Jobs : catalog[j] \in {0, generation[j]}
    BY <1>1 DEF Init
  <2>2. /\ active \in [Jobs -> SUBSET Gens]
        /\ reserved \in [Jobs -> Runs \union {NoRun}]
    BY DEF Init
  <2>3. /\ {halted, aps, initialising, updating} \subseteq BOOLEAN
        /\ trigger \subseteq Jobs /\ running \subseteq Jobs \X Gens
        /\ fresh \subseteq Once \X Gens /\ cancel \subseteq Runs /\ watched \subseteq Runs
    BY DEF Init
  <2>4. stops \in 0..MaxLives /\ reloads \in 0..MaxReloads /\ lives \in 0..MaxLives
    BY SchedulerAssumption DEF Init
  <2> QED
    BY <1>2, <2>1, <2>2, <2>3, <2>4 DEF Init, TypeOK, Slot
<1>4. Phases /\ Called /\ Counted
  BY DEF Init, Phases, Called, Counted, Absent
<1>5. Numbered
  BY SchedulerAssumption DEF Init, Numbered, Due
<1> QED
  BY <1>3, <1>4, <1>5 DEF Typing

LEMMA TypingRun ==
    ASSUME Typing, NEW r \in Runs, RunStep(r)
    PROVE  Typing'
<1>1. /\ state' = state /\ halted' = halted /\ stopAt' = stopAt /\ reloadAt' = reloadAt
      /\ initialising' = initialising /\ stops' = stops /\ reloads' = reloads /\ lives' = lives
      /\ aps' = aps /\ trigger' = trigger
      /\ catalog' = catalog /\ generation' = generation /\ updating' = updating
  BY DEF RunStep, control, plan
<1>2. Phases' /\ Numbered' /\ Counted'
  BY <1>1 DEF Typing, Phases, Numbered, Counted, RunStep
<1>3. run[r].at # "none"
  BY DEF RunStep
<1>4. run'[r].at # "none" => run'[r].job = run[r].job
  BY DEF RunStep, Goes, Ends, Claims, Absent
<1>5. Called'
  BY <1>3, <1>4 DEF Typing, Called, RunStep, Others, Absent
<1>6. active' \in [Jobs -> SUBSET Gens]
  BY DEF RunStep, Goes, Ends, Claims, Release, Typing, TypeOK, Called
<1>7. cancel' \subseteq Runs /\ watched' \subseteq Runs
  BY DEF RunStep, Goes, Ends, Claims, Typing, TypeOK
<1>8. running' \subseteq Jobs \X Gens /\ fresh' \subseteq Once \X Gens
  <2>1. run[r].job \in Jobs /\ catalog[run[r].job] \in Gens
    BY <1>3 DEF Typing, TypeOK, Called
  <2> QED
    BY <2>1 DEF RunStep, Typing, TypeOK
<1>9. TypeOK'
  BY <1>1, <1>6, <1>7, <1>8 DEF RunStep, Typing, TypeOK, Slot
<1> QED
  BY <1>2, <1>5, <1>9 DEF Typing

\* A new call of start().
LEMMA EnterMoves ==
    ASSUME Typing, NEW r \in Runs, NEW j \in Jobs, NEW h \in BOOLEAN, Free(r), Enter(r, j, h)
    PROVE  /\ run' \in [Runs -> Slot] /\ Others(r)
           /\ run'[r].at = "due" /\ run'[r].job = j /\ run'[r].manual = h
           /\ run[r].at = "none"
<1> DEFINE c == [job |-> j, gen |-> 0, at |-> "due", manual |-> h]
<1>1. run \in [Runs -> Slot]
  BY DEF Typing, TypeOK, Slot
<1>2. c \in Slot
  BY SchedulerAssumption DEF Slot, Gens, OnThread
<1>3. run' = [run EXCEPT ![r] = c]
  BY DEF Enter
<1> QED
  BY <1>1, <1>2, <1>3 DEF Others, Free

Entry(r, j) == TriggerFires(r, j) \/ StartByHand(r, j) \/ ReserveAndStart(r, j)

\* What it leaves alone: only a trigger of APScheduler starts one that is not
\* by hand.
LEMMA EntryStep ==
    ASSUME Typing, NEW r \in Runs, NEW j \in Jobs, Entry(r, j)
    PROVE  /\ run' \in [Runs -> Slot] /\ Others(r)
           /\ run'[r].at = "due" /\ run'[r].job = j
           /\ run'[r].manual \/ aps
           /\ run[r].at = "none"
           /\ trigger' \subseteq trigger
           /\ reserved' \in [Jobs -> Runs \union {NoRun}]
           /\ UNCHANGED <<control, aps, jobs, active, cancel, watched>>
<1>1. CASE TriggerFires(r, j)
  BY <1>1, EnterMoves DEF TriggerFires, registry, Typing, TypeOK
<1>2. CASE StartByHand(r, j)
  BY <1>2, EnterMoves DEF StartByHand, registry, plan, Typing, TypeOK
<1>3. CASE ReserveAndStart(r, j)
  BY <1>3, EnterMoves DEF ReserveAndStart, plan, Typing, TypeOK
<1> QED
  BY <1>1, <1>2, <1>3 DEF Entry

LEMMA TypingEntry ==
    ASSUME Typing, NEW r \in Runs, NEW j \in Jobs, Entry(r, j)
    PROVE  Typing'
<1>1. /\ state' = state /\ halted' = halted /\ stopAt' = stopAt /\ reloadAt' = reloadAt
      /\ initialising' = initialising /\ stops' = stops /\ reloads' = reloads /\ lives' = lives
      /\ aps' = aps /\ active' = active /\ cancel' = cancel /\ watched' = watched
      /\ catalog' = catalog /\ generation' = generation /\ updating' = updating
      /\ running' = running /\ fresh' = fresh
  BY EntryStep DEF control, jobs
<1>2. Phases' /\ Numbered' /\ Counted'
  BY <1>1 DEF Typing, Phases, Numbered, Counted
<1>3. Called'
  BY EntryStep DEF Typing, Called, Others
<1>4. TypeOK'
  BY <1>1, EntryStep DEF Typing, TypeOK, Slot
<1> QED
  BY <1>2, <1>3, <1>4 DEF Typing

\* Registrations: of a one-time job, and of a plugin's services.
LEMMA TypingJobs ==
    ASSUME Typing, (\E j \in Once : AddOnce(j)) \/ UpdateDetaches \/ UpdateRegisters
    PROVE  Typing'
<1>1. /\ UNCHANGED <<control, aps, running, registry, run, cancel, watched>>
      /\ trigger' \subseteq Jobs
  BY SchedulerAssumption DEF AddOnce, UpdateDetaches, UpdateRegisters, Typing, TypeOK
<1>2. /\ state' = state /\ halted' = halted /\ stopAt' = stopAt /\ reloadAt' = reloadAt
      /\ initialising' = initialising /\ stops' = stops /\ reloads' = reloads /\ lives' = lives
      /\ aps' = aps /\ active' = active /\ reserved' = reserved
      /\ cancel' = cancel /\ watched' = watched /\ running' = running /\ run' = run
  BY <1>1 DEF control, registry
<1>3. /\ generation \in [Jobs -> Gens] /\ catalog \in [Jobs -> Gens]
      /\ \A j \in Jobs : catalog[j] \in {0, generation[j]}
      /\ fresh \subseteq Once \X Gens /\ updating \in BOOLEAN
      /\ MaxGen \in Nat /\ MaxAdds \in Nat /\ MaxAdds <= MaxGen /\ Once \subseteq Jobs
  BY SchedulerAssumption DEF Typing, TypeOK
<1>4. /\ generation' \in [Jobs -> Gens] /\ catalog' \in [Jobs -> Gens]
      /\ \A j \in Jobs : catalog'[j] \in {0, generation'[j]}
      /\ fresh' \subseteq Once \X Gens /\ updating' \in BOOLEAN
      /\ Counted' /\ Numbered'
  <2>1. ASSUME NEW j \in Once, AddOnce(j)
        PROVE  <1>4!:
    <3>1. /\ generation[j] \in Nat /\ generation[j] < MaxAdds
          /\ generation' = [generation EXCEPT ![j] = @ + 1]
          /\ catalog' = Register(j, generation'[j])
          /\ fresh' = fresh \union {<<j, generation'[j]>>}
          /\ updating' = updating
      BY <1>3, <2>1 DEF AddOnce, Gens
    <3>2. generation'[j] \in Gens /\ generation'[j] # 0
      BY <1>3, <3>1 DEF Gens
    <3>3. generation' \in [Jobs -> Gens]
      BY <1>3, <3>1, <3>2
    <3>4. catalog' \in [Jobs -> Gens] /\ \A k \in Jobs : catalog'[k] \in {0, generation'[k]}
      BY <1>3, <3>1, <3>2, SchedulerAssumption DEF Register, Gens
    <3>5. Counted' /\ fresh' \subseteq Once \X Gens
      BY <1>3, <3>1, <3>2 DEF Typing, Counted
    <3>6. Numbered'
      BY <1>2, <1>3, <3>1 DEF Typing, Numbered, Due
    <3> QED
      BY <1>3, <3>1, <3>3, <3>4, <3>5, <3>6
  <2>2. CASE UpdateDetaches
    <3>1. /\ generation' = generation /\ fresh' = fresh /\ updating' = TRUE
          /\ catalog' = [j \in Jobs |-> IF j \in Once /\ LiveOnce(j) THEN catalog[j] ELSE 0]
          /\ \A j \in Jobs \ Once : generation[j] + 1 < MaxGen
      BY <2>2 DEF UpdateDetaches
    <3>2. Numbered'
      BY <1>2, <1>3, <3>1 DEF Numbered, Due, Gens
    <3> QED
      BY <1>3, <3>1, <3>2 DEF Typing, Counted, Gens
  <2>3. CASE UpdateRegisters
    <3>1. /\ generation' = NextGenerations /\ fresh' = fresh /\ updating /\ updating' = FALSE
          /\ catalog' = [j \in Jobs |-> IF j \in Once THEN catalog[j] ELSE generation'[j]]
      BY <2>3 DEF UpdateRegisters
    <3>2. \A j \in Jobs : /\ generation'[j] \in Gens
                          /\ j \in Once => generation'[j] = generation[j]
                          /\ j \notin Once => generation'[j] = generation[j] + 1
      BY <1>3, <3>1 DEF NextGenerations, Typing, Numbered, Due, Gens
    <3>3. generation' \in [Jobs -> Gens]
      BY <3>1, <3>2 DEF NextGenerations
    <3>4. Numbered'
      BY <1>2, <1>3, <3>1, <3>2 DEF Typing, Numbered, Due, Gens
    <3>5. catalog' \in [Jobs -> Gens] /\ \A j \in Jobs : catalog'[j] \in {0, generation'[j]}
      BY <1>3, <3>1, <3>2
    <3> QED
      BY <1>3, <3>1, <3>3, <3>4, <3>5 DEF Typing, Counted
  <2> QED
    BY <2>1, <2>2, <2>3
<1>5. Phases' /\ Called'
  BY <1>2 DEF Typing, Phases, Called
<1>6. TypeOK'
  BY <1>1, <1>2, <1>4 DEF Typing, TypeOK
<1> QED
  BY <1>4, <1>5, <1>6 DEF Typing

Lifecycle == \/ Boot \/ Initialise \/ BeginReload \/ Reload \/ BeginStop \/ Stop

\* The life cycle's steps: only init() makes registrations, and it takes the
\* numbers that Boot and _begin_reload left for it.
LEMMA TypingLife ==
    ASSUME Typing, Lifecycle
    PROVE  Typing'
<1> USE SchedulerAssumption DEF Typing
<1>1. UNCHANGED <<running, fresh, updating, active, run>>
  BY DEF Lifecycle, Boot, Initialise, BeginReload, Reload, BeginStop, Stop, ReloadTakesDown,
         ReloadJoins, ReloadInits, StopJoins, StopReturns, jobs, registry, plan
<1>2. \/ UNCHANGED <<catalog, generation>> /\ (initialising => initialising')
      \/ Initialise
  BY DEF Lifecycle, Boot, BeginReload, Reload, BeginStop, Stop, ReloadTakesDown,
         ReloadJoins, ReloadInits, StopJoins, StopReturns, StartInit, jobs
<1>3. Called' /\ Counted'
  BY <1>1 DEF Called, Counted
<1>4. /\ generation \in [Jobs -> Gens] /\ catalog \in [Jobs -> Gens]
      /\ \A j \in Jobs : catalog[j] \in {0, generation[j]}
      /\ updating \in BOOLEAN
  BY DEF TypeOK
<1>5. /\ generation' \in [Jobs -> Gens] /\ catalog' \in [Jobs -> Gens]
      /\ \A j \in Jobs : catalog'[j] \in {0, generation'[j]}
      /\ Numbered'
  <2>1. CASE Initialise
    <3>1. /\ initialising /\ ~initialising' /\ reloadAt' = reloadAt /\ reloadAt = "none"
          /\ generation' = NextGenerations
          /\ catalog' = [j \in Jobs |-> IF j \in Once THEN 0 ELSE generation'[j]]
      BY <2>1 DEF Initialise, Phases
    <3>2. \A j \in Jobs : /\ generation'[j] \in Gens
                          /\ j \in Once => generation'[j] = generation[j]
                          /\ j \notin Once => generation'[j] = generation[j] + 1
      BY <1>4, <3>1 DEF NextGenerations, Numbered, Due, Gens
    <3>3. generation' \in [Jobs -> Gens]
      BY <3>1, <3>2 DEF NextGenerations
    <3>4. Numbered'
      BY <1>1, <1>4, <3>1, <3>2 DEF Numbered, Due, Gens
    <3>5. catalog' \in [Jobs -> Gens] /\ \A j \in Jobs : catalog'[j] \in {0, generation'[j]}
      BY <1>4, <3>1, <3>2 DEF Gens
    <3> QED
      BY <3>3, <3>4, <3>5
  <2>2. CASE UNCHANGED <<catalog, generation>> /\ Room
    BY <1>1, <1>4, <2>2 DEF Room, Numbered, Due, Gens
  <2>3. CASE /\ UNCHANGED <<catalog, generation>>
             /\ (initialising' \/ reloadAt' # "none") => (initialising \/ reloadAt # "none")
    BY <1>1, <1>4, <2>3 DEF Numbered, Due, Gens
  <2>4. \/ Initialise \/ Room
        \/ (initialising' \/ reloadAt' # "none") => (initialising \/ reloadAt # "none")
    BY DEF Lifecycle, Boot, BeginReload, Reload, BeginStop, Stop, ReloadTakesDown,
           ReloadJoins, ReloadInits, StopJoins, StopReturns, StartInit
  <2> QED
    BY <1>2, <2>1, <2>2, <2>3, <2>4
<1>6. Phases'
  BY DEF Phases, Lifecycle, Boot, Initialise, BeginReload, Reload, BeginStop, Stop,
         ReloadTakesDown, ReloadJoins, ReloadInits, StopJoins, StopReturns, StartInit,
         MayReload, LoopFree
<1>7. /\ state' \in {"new", "starting", "running", "reloading", "stopping", "stopped"}
      /\ {halted', aps', initialising', updating'} \subseteq BOOLEAN
      /\ stopAt' \in {"none", "join", "await"}
      /\ reloadAt' \in {"none", "down", "join", "check"}
      /\ stops' \in 0..MaxLives /\ reloads' \in 0..MaxReloads /\ lives' \in 0..MaxLives
  <2>0. /\ MaxLives \in Nat /\ stops \in 0..MaxLives /\ lives \in 0..MaxLives
        /\ {halted, aps, initialising, updating} \subseteq BOOLEAN
    BY DEF TypeOK
  <2>1. CASE Boot
    <3>1. lives' \in 0..MaxLives
      BY <2>0, <2>1 DEF Boot
    <3> QED
      BY <1>1, <2>1, <3>1 DEF TypeOK, Boot, StartInit, plan
  <2>2. CASE Initialise
    BY <1>1, <2>2 DEF TypeOK, Initialise
  <2>3. CASE BeginReload
    BY <1>1, <2>3 DEF TypeOK, BeginReload, plan
  <2>4. CASE Reload
    BY <1>1, <2>4 DEF TypeOK, Reload, ReloadTakesDown, ReloadJoins, ReloadInits, StartInit, plan
  <2>5. CASE BeginStop
    <3>1. stops' \in 0..MaxLives
      BY <2>0, <2>5 DEF BeginStop
    <3> QED
      BY <1>1, <2>5, <3>1 DEF TypeOK, BeginStop
  <2>6. CASE Stop
    BY <1>1, <2>6 DEF TypeOK, Stop, StopJoins, StopReturns, plan
  <2> QED
    BY <2>1, <2>2, <2>3, <2>4, <2>5, <2>6 DEF Lifecycle
<1>8. /\ trigger' \subseteq Jobs
      /\ reserved' \in [Jobs -> Runs \union {NoRun}]
      /\ cancel' \subseteq Runs /\ watched' \subseteq Runs
  BY DEF TypeOK, Lifecycle, Boot, Initialise, BeginReload, Reload, BeginStop, Stop,
         ReloadTakesDown, ReloadJoins, ReloadInits, StopJoins, StopReturns, StartInit, plan,
         registry, StopWatches, Handles
<1>9. TypeOK'
  BY <1>1, <1>5, <1>7, <1>8 DEF TypeOK
<1> QED
  BY <1>3, <1>5, <1>6, <1>9

\* Every step of the scheduler is of one of these kinds.
LEMMA StepKinds ==
    ASSUME Typing, Next
    PROVE  \/ \E r \in Runs : RunStep(r)
           \/ \E r \in Runs, j \in Jobs : Entry(r, j)
           \/ (\E j \in Once : AddOnce(j)) \/ UpdateDetaches \/ UpdateRegisters
           \/ Lifecycle
BY ThreadStep, LoopStep DEF Next, Entry, Lifecycle

LEMMA TypingStep == Typing /\ [Next]_vars => Typing'
<1> SUFFICES ASSUME Typing, [Next]_vars PROVE Typing'
  OBVIOUS
<1>1. CASE Next
  BY <1>1, StepKinds, TypingRun, TypingEntry, TypingJobs, TypingLife
<1>2. CASE UNCHANGED vars
  BY <1>2 DEF Typing, TypeOK, Phases, Numbered, Called, Counted, vars, control, plan, jobs, registry
<1> QED
  BY <1>1, <1>2

LEMMA TypingInvariant == Spec => []Typing
<1>1. QED
  BY TypingInit, TypingStep, PTL DEF Spec

\* Types of the scheduler's state: in particular a registration carries the
\* last number of its job or none (ExecutionRegistry._generations), and the
\* registrations under way find numbers left for them.
THEOREM SchedulerTypeOK == Spec => []TypeOK
<1>1. Typing => TypeOK
  BY DEF Typing
<1>2. QED
  BY <1>1, TypingInvariant, PTL
-----------------------------------------------------------------------------
(* The owners of generations                                               *)

LEMMA OwnershipInit == Init => Ownership
BY DEF Init, Ownership, Holding, Alive, OnThread, OnLoop, Absent, Owned

\* A run that ends takes its own generation with it, and no other.
LEMMA OwnershipRun ==
    ASSUME Typing, Ownership, NEW r \in Runs, RunStep(r)
    PROVE  Ownership'
<1>0. /\ stops' = stops /\ active \in [Jobs -> SUBSET Gens]
      /\ run[r].job \in Jobs
      /\ \A q \in Runs : Holding(q) => run[q].job \in Jobs /\ run[q].gen \in active[run[q].job]
      /\ \A q \in Runs \ {r} : run'[q] = run[q]
  BY DEF RunStep, Others, control, Typing, TypeOK, Called, Ownership, Holding, Alive, OnThread, OnLoop
<1>1. CASE Goes(r)
  <2>1. \A q \in Runs : /\ Holding(q)' <=> Holding(q)
                        /\ run'[q].job = run[q].job \/ ~Holding(q)
                        /\ run'[q].gen = run[q].gen \/ ~Holding(q)
    BY <1>0, <1>1 DEF Goes, Holding
  <2>2. active' = active /\ (cancel = {} => cancel' = {})
    BY <1>1 DEF Goes
  <2>3. Owned => Owned'
    BY <2>1, <2>2 DEF Owned, Holding
  <2> QED
    BY <1>0, <2>1, <2>2, <2>3 DEF Ownership
<1>2. CASE Ends(r)
  <2>1. /\ ~Holding(r)' /\ (cancel = {} => cancel' = {})
        /\ \A q \in Runs \ {r} : Holding(q)' <=> Holding(q)
    BY <1>0, <1>2 DEF Ends, Holding, Absent, Alive, OnThread, OnLoop
  <2>2. \A j \in Jobs : j # run[r].job => active'[j] = active[j]
    BY <1>0, <1>2 DEF Ends, Release
  <2>3. \A j \in Jobs : active'[j] \subseteq active[j]
    BY <1>0, <1>2 DEF Ends, Release
  <2>4. ASSUME NEW q \in Runs, Holding(q)'
        PROVE  run'[q].gen \in active'[run'[q].job]
    <3>1. q # r /\ Holding(q) /\ run'[q] = run[q]
      BY <1>0, <2>1, <2>4
    <3>2. run[q].gen \in active[run[q].job] /\ run[q].job \in Jobs
      BY <1>0, <3>1
    <3>3. CASE Holding(r)
      <4>1. run[q].job # run[r].job
        BY <3>1, <3>3 DEF Ownership
      <4> QED
        BY <2>2, <3>1, <3>2, <4>1
    <3>4. CASE ~Holding(r)
      BY <1>2, <3>1, <3>2, <3>4 DEF Ends
    <3> QED
      BY <3>3, <3>4
  <2>5. \A p, q \in Runs : p # q /\ Holding(p)' /\ Holding(q)' => run'[p].job # run'[q].job
    BY <1>0, <2>1 DEF Ownership
  <2>6. ASSUME stops = 0
        PROVE  cancel' = {} /\ Owned'
    <3>1. cancel = {} /\ Owned
      BY <2>6 DEF Ownership
    <3>2. ASSUME NEW j \in Jobs, NEW g \in active'[j]
          PROVE  \E q \in Runs : run'[q].job = j /\ run'[q].gen = g /\ run'[q].at \in Alive
      <4>1. PICK q \in Runs : run[q].job = j /\ run[q].gen = g /\ run[q].at \in Alive
        BY <2>3, <3>1, <3>2 DEF Owned
      <4>2. CASE q # r
        BY <1>0, <4>1, <4>2
      <4>3. CASE q = r
        <5>1. Release(r)
          BY <1>2, <3>1, <4>1, <4>3 DEF Ends, Holding
        <5>2. g \notin active'[j]
          BY <1>0, <4>1, <4>3, <5>1 DEF Release
        <5> QED
          BY <3>2, <5>2
      <4> QED
        BY <4>2, <4>3
    <3> QED
      BY <2>1, <3>1, <3>2 DEF Owned
  <2> QED
    BY <1>0, <2>4, <2>5, <2>6 DEF Ownership
<1>3. CASE Claims(r)
  <2> DEFINE j == run[r].job
             g == catalog[j]
  <2>1. /\ run'[r].at = "claimed" /\ run'[r].job = j /\ run'[r].gen = g
        /\ active[j] = {} /\ active' = [active EXCEPT ![j] = @ \union {g}]
        /\ cancel' = cancel /\ run[r].at = "due"
    BY <1>3 DEF Claims
  <2>2. /\ ~Holding(r) /\ Holding(r)' /\ active'[j] = {g}
        /\ \A k \in Jobs : k # j => active'[k] = active[k]
    BY <1>0, <2>1 DEF Holding, Alive, OnThread, OnLoop
  <2> HIDE DEF g
  <2>3. \A q \in Runs : Holding(q) => run[q].job # j
    BY <1>0, <2>1
  <2>4. \A q \in Runs \ {r} : Holding(q)' <=> Holding(q)
    BY <1>0 DEF Holding
  <2>5. \A q \in Runs : Holding(q)' => run'[q].gen \in active'[run'[q].job]
    BY <1>0, <2>1, <2>2, <2>3, <2>4
  <2>6. \A p, q \in Runs : p # q /\ Holding(p)' /\ Holding(q)' => run'[p].job # run'[q].job
    BY <1>0, <2>1, <2>3, <2>4 DEF Ownership
  <2>7. Owned => Owned'
    <3> SUFFICES ASSUME Owned, NEW k \in Jobs, NEW h \in active'[k]
                 PROVE  \E q \in Runs : run'[q].job = k /\ run'[q].gen = h /\ run'[q].at \in Alive
      BY DEF Owned
    <3>1. CASE k = j
      BY <2>1, <2>2, <3>1 DEF Holding
    <3>2. CASE k # j
      <4>1. PICK q \in Runs : run[q].job = k /\ run[q].gen = h /\ run[q].at \in Alive
        BY <2>2, <3>2 DEF Owned
      <4>2. q # r
        BY <3>2, <4>1
      <4> QED
        BY <1>0, <4>1, <4>2
    <3> QED
      BY <3>1, <3>2
  <2> QED
    BY <1>0, <2>1, <2>5, <2>6, <2>7 DEF Ownership
<1> QED
  BY <1>1, <1>2, <1>3 DEF RunStep

\* A step that claims and releases nothing; only a stop sends cancellations.
LEMMA OwnershipKept ==
    ASSUME Ownership, active' = active,
           \A q \in Runs : run'[q] = run[q] \/ (~Holding(q) /\ ~Holding(q)'),
           (stops' = stops /\ cancel' = cancel) \/ stops' # 0
    PROVE  Ownership'
<1>1. \A q \in Runs : /\ Holding(q)' <=> Holding(q)
                      /\ Holding(q) => run'[q] = run[q]
  BY DEF Holding
<1>2. \A q \in Runs : Holding(q)' => run'[q].gen \in active'[run'[q].job]
  BY <1>1 DEF Ownership
<1>3. \A p, q \in Runs : p # q /\ Holding(p)' /\ Holding(q)' => run'[p].job # run'[q].job
  BY <1>1 DEF Ownership
<1>4. Owned => Owned'
  BY <1>1 DEF Owned, Holding
<1> QED
  BY <1>2, <1>3, <1>4 DEF Ownership

LEMMA OwnershipStep == Typing /\ Ownership /\ [Next]_vars => Ownership'
<1> SUFFICES ASSUME Typing, Ownership, [Next]_vars PROVE Ownership'
  OBVIOUS
<1>1. ASSUME NEW r \in Runs, RunStep(r)
      PROVE  Ownership'
  BY <1>1, OwnershipRun
<1>2. ASSUME NEW r \in Runs, NEW j \in Jobs, Entry(r, j)
      PROVE  Ownership'
  <2>1. \A q \in Runs : run'[q] = run[q] \/ (~Holding(q) /\ ~Holding(q)')
    BY <1>2, EntryStep DEF Others, Holding, Alive, OnThread, OnLoop
  <2> QED
    BY <1>2, <2>1, EntryStep, OwnershipKept DEF control
<1>3. CASE (\E j \in Once : AddOnce(j)) \/ UpdateDetaches \/ UpdateRegisters
  BY <1>3, OwnershipKept DEF AddOnce, UpdateDetaches, UpdateRegisters, control, registry
<1>4. CASE Lifecycle
  <2>1. active' = active /\ run' = run
    BY <1>4 DEF Lifecycle, Boot, Initialise, BeginReload, Reload, BeginStop, Stop,
         ReloadTakesDown, ReloadJoins, ReloadInits, StopJoins, StopReturns, registry
  <2>2. (stops' = stops /\ cancel' = cancel) \/ stops' # 0
    BY <1>4 DEF Lifecycle, Boot, Initialise, BeginReload, Reload, BeginStop, Stop,
         ReloadTakesDown, ReloadJoins, ReloadInits, StopJoins, StopReturns, Typing, TypeOK
  <2> QED
    BY <2>1, <2>2, OwnershipKept
<1>5. CASE UNCHANGED vars
  BY <1>5, OwnershipKept DEF vars, control, registry
<1> QED
  BY <1>1, <1>2, <1>3, <1>4, <1>5, StepKinds

LEMMA OwnershipInvariant == Spec => []Ownership
<1>1. QED
  BY OwnershipInit, OwnershipStep, TypingInvariant, PTL DEF Spec

\* Two calls never execute the function of one job at once, whatever is
\* registered again meanwhile, and until the first stop every active
\* generation has a run that will release it (claim_generation, _finish_job).
THEOREM SchedulerGenerationsAreOwned == Spec => []GenerationsAreOwned
<1>1. Ownership => GenerationsAreOwned
  BY DEF Ownership, GenerationsAreOwned, OneExecution, NothingIsLeaked, Holding, Alive, OnThread,
         OnLoop
<1>2. QED
  BY <1>1, OwnershipInvariant, PTL
-----------------------------------------------------------------------------
(* What a stop leaves behind                                               *)

LEMMA StoppingInit == Init => Stopping
BY DEF Init, Stopping

\* Who has left the pool does not come back to it, and only APScheduler sends
\* somebody there.
LEMMA PoolStays ==
    ASSUME PoolIsIdle,
           \A q \in Runs : run'[q].at \in OnThread /\ ~run'[q].manual =>
                              run[q].at \in OnThread /\ ~run[q].manual
    PROVE  PoolIsIdle'
BY DEF PoolIsIdle

LEMMA StoppingRun ==
    ASSUME Typing, Stopping, NEW r \in Runs, RunStep(r)
    PROVE  Stopping'
<1>1. /\ state' = state /\ aps' = aps /\ stopAt' = stopAt
      /\ \A q \in Runs \ {r} : run'[q] = run[q]
      /\ watched' = watched \/ (watched' = watched \ {r} /\ run'[r] = Absent)
  BY DEF RunStep, Others, Goes, Ends, Claims, control, plan
<1>2. /\ run'[r].at \in OnThread /\ ~run'[r].manual => run[r].at \in OnThread /\ ~run[r].manual
      /\ run'[r].at \in OnLoop => run[r].at \in OnLoop \/ AcceptsHandle(r)
  BY DEF RunStep, Goes, Ends, Claims, Absent, OnThread, OnLoop
<1>3. state \in {"stopping", "stopped"} => ~AcceptsHandle(r)
  BY DEF AcceptsHandle, Accepting
<1>4. PoolIsIdle => PoolIsIdle'
  BY <1>1, <1>2, PoolStays
<1>5. state \in {"stopping", "stopped"} => Handles' \subseteq Handles
  BY <1>1, <1>2, <1>3 DEF Handles
<1>6. run'[r] = Absent => r \notin Handles'
  BY DEF Handles, Absent, OnLoop
<1> QED
  BY <1>1, <1>4, <1>5, <1>6 DEF Stopping

\* A step that leaves the handles, the pool and the life cycle alone.
LEMMA StoppingKept ==
    ASSUME Stopping, UNCHANGED <<state, stopAt, run, watched>>,
           state \in {"stopping", "stopped"} => aps' = aps
    PROVE  Stopping'
BY DEF Stopping, PoolIsIdle, Handles

LEMMA StoppingLife ==
    ASSUME Typing, Stopping, Lifecycle
    PROVE  Stopping'
<1>1. CASE Boot \/ Initialise \/ BeginReload
  BY <1>1 DEF Boot, Initialise, BeginReload, StartInit, MayReload, Stopping, Typing, Phases
<1>2. CASE Reload
  <2>1. CASE ReloadTakesDown
    BY <2>1, StoppingKept DEF ReloadTakesDown, plan
  <2>2. CASE ReloadJoins
    BY <2>2, StoppingKept DEF ReloadJoins, plan
  <2>3. CASE ReloadInits
    <3>1. CASE state = "reloading"
      BY <2>3, <3>1 DEF ReloadInits, StartInit, Stopping, Typing, Phases
    <3>2. CASE state # "reloading"
      BY <2>3, <3>2, StoppingKept DEF ReloadInits, plan
    <3> QED
      BY <3>1, <3>2
  <2> QED
    BY <1>2, <2>1, <2>2, <2>3 DEF Reload
<1>3. CASE BeginStop
  BY <1>3 DEF BeginStop, StopWatches, Handles, Stopping
<1>4. CASE StopJoins
  BY <1>4 DEF StopJoins, Stopping, PoolIsIdle, Handles, plan
<1>5. CASE StopReturns
  <2>1. /\ state = "stopping" /\ stopAt = "await" /\ watched = {}
        /\ state' = "stopped" /\ stopAt' = "none" /\ UNCHANGED <<aps, run>>
    BY <1>5 DEF StopReturns, Typing, Phases, plan
  <2>2. Handles = {} /\ Handles' = Handles /\ PoolIsIdle' <=> PoolIsIdle
    BY <2>1 DEF Stopping, Handles, PoolIsIdle
  <2> QED
    BY <2>1, <2>2 DEF Stopping
<1> QED
  BY <1>1, <1>2, <1>3, <1>4, <1>5 DEF Lifecycle, Stop

LEMMA StoppingStep == Typing /\ Stopping /\ [Next]_vars => Stopping'
<1> SUFFICES ASSUME Typing, Stopping, [Next]_vars PROVE Stopping'
  OBVIOUS
<1>1. ASSUME NEW r \in Runs, RunStep(r)
      PROVE  Stopping'
  BY <1>1, StoppingRun
<1>2. ASSUME NEW r \in Runs, NEW j \in Jobs, Entry(r, j)
      PROVE  Stopping'
  <2>1. /\ state' = state /\ stopAt' = stopAt /\ aps' = aps /\ watched' = watched
        /\ \A q \in Runs \ {r} : run'[q] = run[q]
        /\ run'[r].at = "due" /\ (run'[r].manual \/ aps) /\ run[r].at = "none"
    BY <1>2, EntryStep DEF Others, control
  <2>2. Handles' = Handles
    BY <2>1 DEF Handles, OnLoop
  <2>3. ~aps /\ PoolIsIdle => PoolIsIdle'
    BY <2>1 DEF PoolIsIdle
  <2>4. stopAt = "await" \/ state = "stopped" => ~aps
    BY DEF Stopping, Typing, Phases
  <2> QED
    BY <2>1, <2>2, <2>3, <2>4 DEF Stopping
<1>3. CASE (\E j \in Once : AddOnce(j)) \/ UpdateDetaches \/ UpdateRegisters
  BY <1>3, StoppingKept DEF AddOnce, UpdateDetaches, UpdateRegisters, control
<1>4. CASE Lifecycle
  BY <1>4, StoppingLife
<1>5. CASE UNCHANGED vars
  BY <1>5, StoppingKept DEF vars, control, plan
<1> QED
  BY <1>1, <1>2, <1>3, <1>4, <1>5, StepKinds

LEMMA StoppingInvariant == Spec => []Stopping
<1>1. QED
  BY StoppingInit, StoppingStep, TypingInvariant, PTL DEF Spec

\* When stop_async() has returned, the pool is empty and the loop executes no
\* job, and neither gets one again before the next lifespan.
THEOREM SchedulerStoppedIsQuiet == Spec => []StoppedIsQuiet
<1>1. Stopping => StoppedIsQuiet
  BY DEF Stopping, StoppedIsQuiet, Handles
<1>2. QED
  BY <1>1, StoppingInvariant, PTL

\* While the stop signal is up nothing brings the scheduler back to starting:
\* on_config_changed looks at the state again before its init().
THEOREM SchedulerStoppedStaysStopped == Spec => StoppedStaysStopped
<1>1. Typing /\ [Next]_vars => (halted /\ halted' => ~(state' = "starting"))
  <2> SUFFICES ASSUME Typing, [Next]_vars, halted' PROVE state' # "starting"
    OBVIOUS
  <2>1. Phases'
    BY TypingStep DEF Typing
  <2> QED
    BY <2>1 DEF Phases
<1>2. QED
  BY <1>1, TypingInvariant, PTL DEF Spec, StoppedStaysStopped

\* A pending one-time job of a running plugin keeps its registration through
\* every step but the second half of init() (_is_plugin_once_job_pending).
THEOREM SchedulerOnceIsKept == Spec => OnceIsKept
<1> DEFINE Keeps == \A j \in Once : <<j, catalog[j]>> \in fresh /\ ~halted =>
                       catalog'[j] # 0 \/ state = "starting"
<1>1. Typing /\ [Next]_vars => Keeps
  <2> SUFFICES ASSUME Typing, [Next]_vars, NEW j \in Once, <<j, catalog[j]>> \in fresh
               PROVE  catalog'[j] # 0 \/ state = "starting"
    OBVIOUS
  <2>1. j \in Jobs /\ catalog[j] # 0 /\ LiveOnce(j)
    BY SchedulerAssumption DEF Typing, Counted, LiveOnce
  <2>2. CASE catalog' = catalog
    BY <2>1, <2>2
  <2>3. ASSUME NEW k \in Once, AddOnce(k)
        PROVE  catalog'[j] # 0
    <3>1. catalog' = Register(k, generation[k] + 1) /\ generation[k] \in Nat
      BY <2>3, SchedulerAssumption DEF AddOnce, Typing, TypeOK, Gens
    <3> QED
      BY <2>1, <3>1 DEF Register
  <2>4. CASE UpdateDetaches
    BY <2>1, <2>4 DEF UpdateDetaches
  <2>5. CASE UpdateRegisters
    BY <2>1, <2>5 DEF UpdateRegisters
  <2>6. CASE Lifecycle /\ catalog' # catalog
    BY <2>6 DEF Lifecycle, Boot, Initialise, BeginReload, Reload, BeginStop, Stop, Typing, Phases,
         ReloadTakesDown, ReloadJoins, ReloadInits, StopJoins, StopReturns, jobs
  <2>7. ASSUME NEW r \in Runs, RunStep(r)
        PROVE  catalog' = catalog
    BY <2>7 DEF RunStep
  <2>8. ASSUME NEW r \in Runs, NEW k \in Jobs, Entry(r, k)
        PROVE  catalog' = catalog
    BY <2>8, EntryStep DEF jobs
  <2>9. CASE UNCHANGED vars
    BY <2>2, <2>9 DEF vars, jobs
  <2> QED
    BY <2>2, <2>3, <2>4, <2>5, <2>6, <2>7, <2>8, <2>9, StepKinds
<1>2. QED
  BY <1>1, TypingInvariant, PTL DEF Spec, OnceIsKept
=============================================================================
