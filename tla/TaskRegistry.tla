---------------------------- MODULE TaskRegistry ----------------------------
(***************************************************************************)
(* The registry that owns the background tasks of a process                *)
(* (runtime/tasks.py).  Threads hand over coroutines (submit_threadsafe),  *)
(* the main loop turns each into a task or finds it withdrawn, callers may *)
(* cancel at any moment, and shutdown() closes what waits, cancels what    *)
(* may be cancelled and reports whether everything has ended.              *)
(* Sections under _state_lock are one step; the main loop runs one         *)
(* callback at a time, and two callbacks that other threads can interleave *)
(* with (submit_on_loop, shutdown) take two steps.                         *)
(***************************************************************************)
EXTENDS Integers, FiniteSets

CONSTANTS
    Subs,           \* coroutines handed over by threads
    Locals,         \* coroutines given to create() on the loop
    Kept,           \* those with cancel_on_shutdown = False
    Endless,        \* those that end only when they are cancelled
    MaxShutdowns,   \* bound of the model: calls of shutdown()
    NoSub

ASSUME TaskRegistryAssumption ==
    /\ Subs \intersect Locals = {}
    /\ NoSub \notin Subs \union Locals
    /\ MaxShutdowns \in Nat

Coroutines == Subs \union Locals

VARIABLES
    accepting,      \* _accepting
    table,          \* _threadsafe_submissions
    caller,         \* where submit_threadsafe or create is, per coroutine
    scheduled,      \* the submit_on_loop callbacks the loop has still to run
    tail,           \* the submission whose submit_on_loop is past the lock
    task,           \* the task of a coroutine
    cancelled,      \* the tasks that task.cancel() reached
    soon,           \* the task.cancel callbacks the loop has still to run
    future,         \* the caller's completion
    notify,         \* where cancel_registered_task is
    closed,         \* the coroutines close() was called on
    requested,      \* _shutdown_cancel_requested
    strikes,        \* how often shutdown() has cancelled a task
    phase,          \* where shutdown() is
    doomed,         \* the submissions it has taken out of the table
    watched,        \* the tasks it waits for
    verdict,        \* what the last shutdown() returned
    calls,          \* calls of shutdown()
    open            \* the loop accepts callbacks

tasks == <<task, cancelled, requested, strikes>>
asks  == <<caller, scheduled, tail, soon, notify>>
ends  == <<phase, doomed, watched, verdict, calls, open>>
vars  == <<accepting, table, asks, tasks, future, closed, ends>>

TypeOK ==
    /\ accepting \in BOOLEAN /\ open \in BOOLEAN /\ verdict \in BOOLEAN
    /\ table \subseteq Subs /\ scheduled \subseteq Subs /\ doomed \subseteq Subs
    /\ soon \subseteq Subs
    /\ tail \in Subs \union {NoSub}
    /\ caller \in [Coroutines -> {"idle", "call", "out", "raised"}]
    /\ task \in [Coroutines -> {"none", "ready", "running", "done"}]
    /\ future \in [Subs -> {"pending", "cancelled", "answered"}]
    /\ notify \in [Subs -> {"no", "due", "done"}]
    /\ cancelled \subseteq Coroutines /\ closed \subseteq Coroutines
    /\ requested \subseteq Coroutines /\ watched \subseteq Coroutines
    /\ strikes \in [Coroutines -> Nat]
    /\ phase \in {"idle", "close", "wait"}
    /\ calls \in 0..MaxShutdowns
    /\ accepting = FALSE => table = {}

Init ==
    /\ accepting = TRUE /\ open = TRUE /\ verdict = FALSE
    /\ table = {} /\ scheduled = {} /\ soon = {} /\ doomed = {}
    /\ tail = NoSub
    /\ caller = [c \in Coroutines |-> "idle"]
    /\ task = [c \in Coroutines |-> "none"]
    /\ future = [s \in Subs |-> "pending"]
    /\ notify = [s \in Subs |-> "no"]
    /\ cancelled = {} /\ closed = {} /\ requested = {} /\ watched = {}
    /\ strikes = [c \in Coroutines |-> 0]
    /\ phase = "idle" /\ calls = 0

\* The loop is between two callbacks.
LoopFree == tail = NoSub /\ phase # "close" /\ open

Unfinished == {c \in Coroutines : task[c] \in {"ready", "running"}}
-----------------------------------------------------------------------------
(* Submission.                                                             *)

\* The first section under the lock: admit or refuse.
Submit(s) ==
    /\ caller[s] = "idle"
    /\ caller' = [caller EXCEPT ![s] = IF accepting THEN "call" ELSE "raised"]
    /\ table' = IF accepting THEN table \union {s} ELSE table
    /\ closed' = IF accepting THEN closed ELSE closed \union {s}
    /\ UNCHANGED <<accepting, scheduled, tail, soon, notify, tasks, future, ends>>

\* call_soon_threadsafe; a closed loop raises and the submission is withdrawn.
Schedule(s) ==
    /\ caller[s] = "call"
    /\ caller' = [caller EXCEPT ![s] = IF open THEN "out" ELSE "raised"]
    /\ scheduled' = IF open THEN scheduled \union {s} ELSE scheduled
    /\ table' = IF open THEN table ELSE table \ {s}
    /\ closed' = IF ~open /\ s \in table THEN closed \union {s} ELSE closed
    /\ UNCHANGED <<accepting, tail, soon, notify, tasks, future, ends>>

\* Faulty variant: the submission is not popped when it becomes a task.
PublishKeeps(s) ==
    /\ LoopFree
    /\ s \in scheduled
    /\ scheduled' = scheduled \ {s}
    /\ task' = IF s \in table THEN [task EXCEPT ![s] = "ready"] ELSE task
    /\ tail' = IF s \in table THEN s ELSE NoSub
    /\ UNCHANGED <<accepting, table, caller, soon, notify, cancelled, requested, strikes,
                   future, closed, ends>>

\* submit_on_loop under the lock.
Publish(s) ==
    /\ LoopFree
    /\ s \in scheduled
    /\ scheduled' = scheduled \ {s}
    /\ table' = table \ {s}
    /\ LET present == s \in table
           lives   == present /\ future[s] # "cancelled" /\ accepting
       IN  /\ task' = IF lives THEN [task EXCEPT ![s] = "ready"] ELSE task
           /\ tail' = IF lives THEN s ELSE NoSub
           /\ closed' = IF present /\ ~lives THEN closed \union {s} ELSE closed
           /\ future' = IF present /\ future[s] # "cancelled" /\ ~accepting
                        THEN [future EXCEPT ![s] = "answered"] ELSE future
    /\ UNCHANGED <<accepting, caller, soon, notify, cancelled, requested, strikes, ends>>

\* Its rest: a caller that cancelled in between cancels the task.
PublishTail(s) ==
    /\ tail = s
    /\ tail' = NoSub
    /\ cancelled' = IF future[s] = "cancelled" /\ s \in Unfinished
                    THEN cancelled \union {s} ELSE cancelled
    /\ UNCHANGED <<accepting, table, caller, scheduled, soon, notify, task, requested, strikes,
                   future, closed, ends>>

\* create() on the loop, by any component.
Create(l) ==
    /\ LoopFree
    /\ caller[l] = "idle"
    /\ caller' = [caller EXCEPT ![l] = IF accepting THEN "out" ELSE "raised"]
    /\ task' = IF accepting THEN [task EXCEPT ![l] = "ready"] ELSE task
    /\ closed' = IF accepting THEN closed ELSE closed \union {l}
    /\ UNCHANGED <<accepting, table, scheduled, tail, soon, notify, cancelled, requested, strikes,
                   future, ends>>
-----------------------------------------------------------------------------
(* Cancellation by the caller.                                             *)

CallerCancels(s) ==
    /\ caller[s] = "out"
    /\ future[s] = "pending"
    /\ future' = [future EXCEPT ![s] = "cancelled"]
    /\ notify' = [notify EXCEPT ![s] = "due"]
    /\ UNCHANGED <<accepting, table, caller, scheduled, tail, soon, tasks, closed, ends>>

\* Faulty variant: only a submission that is still queued is withdrawn.
NotifyQueuedOnly(s) ==
    /\ notify[s] = "due"
    /\ notify' = [notify EXCEPT ![s] = "done"]
    /\ table' = table \ {s}
    /\ closed' = IF s \in table THEN closed \union {s} ELSE closed
    /\ UNCHANGED <<accepting, caller, scheduled, tail, soon, tasks, future, ends>>

\* cancel_registered_task, in the cancelling thread.
Notify(s) ==
    /\ notify[s] = "due"
    /\ notify' = [notify EXCEPT ![s] = "done"]
    /\ LET withdrawn == task[s] = "none" /\ s \in table IN
          /\ table' = IF withdrawn THEN table \ {s} ELSE table
          /\ closed' = IF withdrawn THEN closed \union {s} ELSE closed
    /\ soon' = IF s \in Unfinished /\ open THEN soon \union {s} ELSE soon
    /\ UNCHANGED <<accepting, caller, scheduled, tail, tasks, future, ends>>

CancelDelivered(s) ==
    /\ LoopFree
    /\ s \in soon
    /\ soon' = soon \ {s}
    /\ cancelled' = IF s \in Unfinished THEN cancelled \union {s} ELSE cancelled
    /\ UNCHANGED <<accepting, table, caller, scheduled, tail, notify, task, requested, strikes,
                   future, closed, ends>>
-----------------------------------------------------------------------------
(* Tasks.                                                                  *)

\* _discard, and mirror_completion for a caller that still waits.
Answer(c) == IF c \in Subs /\ future[c] = "pending"
             THEN [future EXCEPT ![c] = "answered"] ELSE future

\* The first step of a task; one cancelled before it ends without running.
TaskBegins(c) ==
    /\ LoopFree
    /\ task[c] = "ready"
    /\ task' = [task EXCEPT ![c] = IF c \in cancelled THEN "done" ELSE "running"]
    /\ requested' = IF c \in cancelled THEN requested \ {c} ELSE requested
    /\ future' = IF c \in cancelled THEN Answer(c) ELSE future
    /\ UNCHANGED <<accepting, table, asks, cancelled, strikes, closed, ends>>

TaskEnds(c) ==
    /\ LoopFree
    /\ task[c] = "running"
    /\ c \in Endless => c \in cancelled
    /\ task' = [task EXCEPT ![c] = "done"]
    /\ requested' = requested \ {c}
    /\ future' = Answer(c)
    /\ UNCHANGED <<accepting, table, asks, cancelled, strikes, closed, ends>>
-----------------------------------------------------------------------------
(* shutdown().                                                             *)

\* Under the lock: refuse new work and take what waits.
ShutdownSeals ==
    /\ LoopFree
    /\ phase = "idle"
    /\ calls < MaxShutdowns
    /\ accepting' = FALSE
    /\ doomed' = table
    /\ table' = {}
    /\ phase' = "close"
    /\ calls' = calls + 1
    /\ verdict' = FALSE
    /\ UNCHANGED <<asks, tasks, future, closed, watched, open>>

\* The unfinished tasks with cancel_on_shutdown.
Struck == Unfinished \ Kept

\* The tasks this shutdown cancels.
Targets == Struck \ requested

\* After it: close what was taken, cancel the tasks once, begin to wait.
ShutdownCancels ==
    /\ phase = "close"
    /\ phase' = "wait"
    /\ closed' = closed \union doomed
    /\ future' = [s \in Subs |-> IF s \in doomed /\ future[s] = "pending"
                                 THEN "cancelled" ELSE future[s]]
    /\ doomed' = {}
    /\ requested' = requested \union Targets
    /\ cancelled' = cancelled \union Targets
    /\ strikes' = [c \in Coroutines |-> IF c \in Targets THEN strikes[c] + 1 ELSE strikes[c]]
    /\ watched' = Unfinished
    /\ UNCHANGED <<accepting, table, asks, task, verdict, calls, open>>

\* Faulty variant: it answers for the tasks it has cancelled only.
ShutdownReturnsEarly ==
    /\ LoopFree
    /\ phase = "wait"
    /\ phase' = "idle"
    /\ verdict' = ((watched \intersect Unfinished) \ Kept = {})
    /\ watched' = {}
    /\ UNCHANGED <<accepting, table, asks, tasks, future, closed, doomed, calls, open>>

\* All have ended, or the budget is spent.
ShutdownReturns ==
    /\ LoopFree
    /\ phase = "wait"
    /\ phase' = "idle"
    /\ verdict' = (watched \intersect Unfinished = {})
    /\ watched' = {}
    /\ UNCHANGED <<accepting, table, asks, tasks, future, closed, doomed, calls, open>>

\* The runner cancels and awaits what is left, then closes the loop.
LoopCloses ==
    /\ LoopFree
    /\ ~accepting /\ phase = "idle"
    /\ Unfinished = {}
    /\ open' = FALSE
    /\ UNCHANGED <<accepting, table, asks, tasks, future, closed, phase, doomed, watched,
                   verdict, calls>>
-----------------------------------------------------------------------------
Thread(s) == Submit(s) \/ Schedule(s) \/ CallerCancels(s) \/ Notify(s)
OnLoop(s) == Publish(s) \/ PublishTail(s) \/ CancelDelivered(s)
Task(c)   == TaskBegins(c) \/ TaskEnds(c)

Next ==
    \/ \E s \in Subs : Thread(s) \/ OnLoop(s)
    \/ \E l \in Locals : Create(l)
    \/ \E c \in Coroutines : Task(c)
    \/ ShutdownSeals \/ ShutdownCancels \/ ShutdownReturns
    \/ LoopCloses

Spec == Init /\ [][Next]_vars

\* Threads finish the calls they began, and the loop runs what is ready.
Fairness ==
    /\ \A s \in Subs : WF_vars(Schedule(s)) /\ WF_vars(Notify(s))
    /\ \A s \in Subs : SF_vars(OnLoop(s))
    /\ \A c \in Coroutines : SF_vars(Task(c))
    /\ WF_vars(ShutdownCancels)

FairSpec == Spec /\ Fairness
-----------------------------------------------------------------------------
\* close() is never called on a coroutine that has become a task, whichever
\* of the loop, a cancelling caller and shutdown() comes first.
NeverClosedUnderATask == \A c \in closed : task[c] = "none"

\* When shutdown() has answered TRUE, no task of this registry is unfinished
\* and none appears later, from callbacks that were on their way included.
ShutdownIsTruthful == verdict => Unfinished = {} /\ table = {}

\* A task is cancelled by shutdown() once, however often that is repeated: a
\* second cancellation would interrupt its clean-up.
CancelledOnce == \A c \in Coroutines : strikes[c] <= 1

\* What was accepted is either run to its end or closed, never dropped.
EveryCoroutineIsConsumed ==
    \A s \in Subs \ Endless : caller[s] # "idle" ~> s \in closed \/ task[s] = "done"

\* A caller's cancellation takes effect wherever it meets the submission.
CancelIsEffective ==
    \A s \in Subs : notify[s] = "due" ~> s \in closed \/ task[s] = "done"

\* A caller that waits for its future is answered.
EveryCallerIsAnswered ==
    \A s \in Subs \ Endless : caller[s] = "out" ~> future[s] # "pending"

\* What a caller may rely on, whatever shutdown() meets: its coroutine is
\* consumed, its cancellation takes effect and its future is answered.
CallersAreServed == EveryCoroutineIsConsumed /\ CancelIsEffective /\ EveryCallerIsAnswered
=============================================================================
