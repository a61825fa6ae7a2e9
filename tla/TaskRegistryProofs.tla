------------------------- MODULE TaskRegistryProofs -------------------------
(***************************************************************************)
(* Theorems about TaskRegistry, for any number of callers, tasks and       *)
(* repeated shutdowns.                                                     *)
(***************************************************************************)
EXTENDS TaskRegistry, TLAPS

\* Who is where: what waits in the table or was taken out of it by shutdown
\* has no task; after the sealing nothing waits, before it nothing was taken.
Placed ==
    /\ \A s \in table \union doomed : task[s] = "none"
    /\ ~accepting => table = {}
    /\ accepting => doomed = {}
    /\ \A c \in Coroutines :
          caller[c] = "idle" => task[c] = "none" /\ c \notin closed \union table \union doomed

\* A closed coroutine has no task and never gets one.
Closed == \A c \in closed : task[c] = "none" /\ c \notin table

\* What a shutdown in progress, and one that has answered TRUE, may rely on.
Sealed ==
    /\ phase # "idle" => ~accepting
    /\ phase = "wait" => Unfinished \subseteq watched
    /\ verdict => ~accepting /\ Unfinished = {}

\* A task that was struck is remembered until it has ended.
Remembered ==
    \A c \in Coroutines :
       /\ strikes[c] \in {0, 1}
       /\ strikes[c] = 1 => c \in requested \/ task[c] = "done"
       /\ c \in requested => strikes[c] = 1

IInv == TypeOK /\ Placed /\ Closed /\ Sealed /\ Remembered

USE DEF Coroutines

LEMMA InitIInv == ASSUME Init PROVE IInv
  <1>1. TypeOK
    <2>1. accepting \in BOOLEAN /\ open \in BOOLEAN /\ verdict \in BOOLEAN
      BY Zenon DEF Init
    <2>2. accepting = FALSE => table = {}
      BY Zenon DEF Init
    <2>3. calls \in 0..MaxShutdowns
      BY TaskRegistryAssumption, SMT DEF Init
    <2> QED BY <2>1, <2>2, <2>3 DEF Init, TypeOK
  <1>2. Placed /\ Closed
    BY DEF Init, Placed, Closed
  <1>3. Sealed /\ Remembered
    BY DEF Init, Sealed, Remembered
  <1> QED BY <1>1, <1>2, <1>3 DEF IInv

LEMMA SubmitIInv == ASSUME IInv, NEW s \in Subs, Submit(s) PROVE IInv'
  BY TaskRegistryAssumption
     DEF Submit, IInv, TypeOK, Placed, Closed, Sealed, Remembered, Unfinished, tasks, ends

LEMMA ScheduleIInv == ASSUME IInv, NEW s \in Subs, Schedule(s) PROVE IInv'
  <1>1. TypeOK'
    BY TaskRegistryAssumption DEF Schedule, IInv, TypeOK, tasks, ends
  <1>2. (Placed /\ Closed)'
    BY DEF Schedule, IInv, TypeOK, Placed, Closed, tasks, ends
  <1>3. (Sealed /\ Remembered)'
    BY DEF Schedule, IInv, Sealed, Remembered, Unfinished, tasks, ends
  <1> QED BY <1>1, <1>2, <1>3 DEF IInv

LEMMA CallerCancelsIInv == ASSUME IInv, NEW s \in Subs, CallerCancels(s) PROVE IInv'
  BY TaskRegistryAssumption
     DEF CallerCancels, IInv, TypeOK, Placed, Closed, Sealed, Remembered, Unfinished, tasks, ends

LEMMA NotifyIInv == ASSUME IInv, NEW s \in Subs, Notify(s) PROVE IInv'
  BY TaskRegistryAssumption
     DEF Notify, IInv, TypeOK, Placed, Closed, Sealed, Remembered, Unfinished, tasks, ends

LEMMA PublishIInv == ASSUME IInv, NEW s \in Subs, Publish(s) PROVE IInv'
  <1> DEFINE lives == s \in table /\ future[s] # "cancelled" /\ accepting
  <1>1. /\ table' = table \ {s}
        /\ task' = IF lives THEN [task EXCEPT ![s] = "ready"] ELSE task
        /\ closed' = IF s \in table /\ ~lives THEN closed \union {s} ELSE closed
        /\ UNCHANGED <<accepting, caller, requested, strikes, phase, doomed, watched, verdict>>
    BY DEF Publish, ends
  <1>2. TypeOK'
    BY TaskRegistryAssumption DEF Publish, IInv, TypeOK, ends
  <1>3. CASE ~lives
    <2>1. (Placed /\ Closed)'
      BY <1>1, <1>3 DEF IInv, TypeOK, Placed, Closed
    <2>2. (Sealed /\ Remembered)'
      BY <1>1, <1>3 DEF IInv, Sealed, Remembered, Unfinished
    <2> QED BY <1>2, <2>1, <2>2 DEF IInv
  <1>4. CASE lives
    <2>1. phase = "idle" /\ ~verdict /\ doomed = {}
      BY <1>4 DEF IInv, TypeOK, Placed, Sealed
    <2>2. caller[s] # "idle" \/ task[s] = "none"
      BY DEF IInv, Placed
    <2>3. s \in Coroutines /\ s \notin closed
      BY <1>4 DEF IInv, Closed
    <2>4. (Placed /\ Closed)'
      BY <1>1, <1>4, <2>1, <2>3 DEF IInv, TypeOK, Placed, Closed, Publish
    <2>5. Sealed'
      BY <1>1, <2>1 DEF IInv, Sealed, TypeOK
    <2>6. Remembered'
      BY <1>1, <1>4 DEF IInv, TypeOK, Placed, Remembered
    <2> QED BY <1>2, <2>4, <2>5, <2>6 DEF IInv
  <1> QED BY <1>3, <1>4

LEMMA PublishTailIInv == ASSUME IInv, NEW s \in Subs, PublishTail(s) PROVE IInv'
  BY TaskRegistryAssumption
     DEF PublishTail, IInv, TypeOK, Placed, Closed, Sealed, Remembered, Unfinished, ends

LEMMA CancelDeliveredIInv == ASSUME IInv, NEW s \in Subs, CancelDelivered(s) PROVE IInv'
  BY TaskRegistryAssumption
     DEF CancelDelivered, IInv, TypeOK, Placed, Closed, Sealed, Remembered, Unfinished, ends

LEMMA CreateIInv == ASSUME IInv, NEW l \in Locals, Create(l) PROVE IInv'
  BY TaskRegistryAssumption
     DEF Create, IInv, TypeOK, Placed, Closed, Sealed, Remembered, Unfinished, ends

LEMMA TaskBeginsIInv == ASSUME IInv, NEW c \in Coroutines, TaskBegins(c) PROVE IInv'
  BY TaskRegistryAssumption
     DEF TaskBegins, Answer, IInv, TypeOK, Placed, Closed, Sealed, Remembered, Unfinished, asks, ends

LEMMA TaskEndsIInv == ASSUME IInv, NEW c \in Coroutines, TaskEnds(c) PROVE IInv'
  BY TaskRegistryAssumption
     DEF TaskEnds, Answer, IInv, TypeOK, Placed, Closed, Sealed, Remembered, Unfinished, asks, ends

LEMMA ShutdownSealsIInv == ASSUME IInv, ShutdownSeals PROVE IInv'
  <1>1. TypeOK'
    <2>1. (accepting \in BOOLEAN /\ open \in BOOLEAN /\ verdict \in BOOLEAN)'
      BY Zenon DEF ShutdownSeals, IInv, TypeOK
    <2>2. (accepting = FALSE => table = {})'
      BY Zenon DEF ShutdownSeals
    <2>3. calls' \in 0..MaxShutdowns
      BY TaskRegistryAssumption, SMT DEF ShutdownSeals, IInv, TypeOK
    <2> QED BY <2>1, <2>2, <2>3 DEF ShutdownSeals, IInv, TypeOK, asks, tasks
  <1>2. (Placed /\ Closed)'
    BY DEF ShutdownSeals, IInv, TypeOK, Placed, Closed, asks, tasks
  <1>3. (Sealed /\ Remembered)'
    BY DEF ShutdownSeals, IInv, Sealed, Remembered, Unfinished, asks, tasks
  <1> QED BY <1>1, <1>2, <1>3 DEF IInv

LEMMA ShutdownCancelsIInv == ASSUME IInv, ShutdownCancels PROVE IInv'
  <1>1. TypeOK'
    BY TaskRegistryAssumption
       DEF ShutdownCancels, Targets, Struck, Unfinished, IInv, TypeOK, asks
  <1>2. (Placed /\ Closed)'
    <2>1. ~accepting /\ table = {}
      BY DEF ShutdownCancels, IInv, Sealed, Placed
    <2> QED
      BY <2>1 DEF ShutdownCancels, IInv, TypeOK, Placed, Closed, asks
  <1>3. Sealed'
    BY DEF ShutdownCancels, IInv, Sealed, Unfinished, asks
  <1>4. Remembered'
    BY DEF ShutdownCancels, Targets, Struck, Unfinished, IInv, TypeOK, Remembered, asks
  <1> QED BY <1>1, <1>2, <1>3, <1>4 DEF IInv

LEMMA ShutdownReturnsIInv == ASSUME IInv, ShutdownReturns PROVE IInv'
  BY TaskRegistryAssumption
     DEF ShutdownReturns, IInv, TypeOK, Placed, Closed, Sealed, Remembered, Unfinished, asks, tasks

LEMMA LoopClosesIInv == ASSUME IInv, LoopCloses PROVE IInv'
  BY TaskRegistryAssumption
     DEF LoopCloses, IInv, TypeOK, Placed, Closed, Sealed, Remembered, Unfinished, asks, tasks

LEMMA StutterIInv == ASSUME IInv, UNCHANGED vars PROVE IInv'
  BY DEF vars, asks, tasks, ends, IInv, TypeOK, Placed, Closed, Sealed, Remembered, Unfinished

LEMMA NextIInv == ASSUME IInv, [Next]_vars PROVE IInv'
  <1>1. ASSUME NEW s \in Subs, Thread(s) PROVE IInv'
    BY <1>1, SubmitIInv, ScheduleIInv, CallerCancelsIInv, NotifyIInv DEF Thread
  <1>2. ASSUME NEW s \in Subs, OnLoop(s) PROVE IInv'
    BY <1>2, PublishIInv, PublishTailIInv, CancelDeliveredIInv DEF OnLoop
  <1>3. ASSUME NEW c \in Coroutines, Task(c) PROVE IInv'
    BY <1>3, TaskBeginsIInv, TaskEndsIInv DEF Task
  <1> QED
    BY <1>1, <1>2, <1>3, CreateIInv, ShutdownSealsIInv, ShutdownCancelsIInv,
       ShutdownReturnsIInv, LoopClosesIInv, StutterIInv DEF Next

LEMMA Inductive == Spec => []IInv
  BY InitIInv, NextIInv, PTL DEF Spec

\* Types, and no submission waits after the sealing (runtime/tasks.py:280).
THEOREM RegistryTypeOK == Spec => []TypeOK
  BY Inductive, PTL DEF IInv

\* close() never meets a coroutine that has become a task, for any number of
\* callers, cancellations and shutdowns (submit_threadsafe, shutdown).
THEOREM RegistryNeverClosesATask == Spec => []NeverClosedUnderATask
  <1>1. IInv => NeverClosedUnderATask
    BY DEF IInv, Closed, NeverClosedUnderATask
  <1> QED BY <1>1, Inductive, PTL

\* A TRUE of shutdown() is final (runtime/tasks.py, end of shutdown).
THEOREM RegistryShutdownIsTruthful == Spec => []ShutdownIsTruthful
  <1>1. IInv => ShutdownIsTruthful
    BY DEF IInv, Placed, Sealed, ShutdownIsTruthful
  <1> QED BY <1>1, Inductive, PTL

\* shutdown() cancels each task at most once (_shutdown_cancel_requested).
THEOREM RegistryCancelsOnce == Spec => []CancelledOnce
  <1>1. IInv => CancelledOnce
    BY DEF IInv, Remembered, CancelledOnce
  <1> QED BY <1>1, Inductive, PTL
=============================================================================
