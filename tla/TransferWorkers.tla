--------------------------- MODULE TransferWorkers ---------------------------
(***************************************************************************)
(* The process that executes transfers: the admission of a source file,    *)
(* the memory queue and its worker threads, the foreground path that runs  *)
(* a transfer in the caller's thread, the recovery scan that claims rows   *)
(* nobody leases, the durable step runner (observe before replaying), the  *)
(* settlement, what users decide, and the crash that leaves only the       *)
(* ledger and the half-done effects behind.                                *)
(***************************************************************************)
EXTENDS TransferLedger

CONSTANTS
    QueueWorkers,  \* threads that take tasks from the queue
    Foreground,    \* threads that execute a transfer for their caller
    NoTask,
    MaxCrashes, MaxStalls, MaxFaults, MaxRequests  \* bounds of the instance

ASSUME WorkerAssumption ==
    /\ QueueWorkers \cap Foreground = {}
    /\ NoTask \notin Tasks
    /\ {MaxCrashes, MaxStalls, MaxFaults, MaxRequests} \subseteq Nat

VARIABLES
    world,       \* the external effect of each operation, outside the database
    queue,       \* _queue: tasks with the lease token they were claimed with
    owned,       \* _owned_leases: the tokens that the heartbeat renews
    submitting,  \* task admitted but not yet claimed, under the lifecycle lock
    recovering,  \* claimed by the recovery scan and not yet enqueued
    pc, job, key,   \* per thread: where it is, its task and its lease token
    op, seen,       \* the operation it is at and the attempt token it holds
    crashes, stalls, faults, requests

threadVars == <<pc, job, key, op, seen>>
queueVars  == <<queue, owned, submitting, recovering>>
budgetVars == <<crashes, stalls, faults, requests>>
vars == <<ledgerVars, world, queueVars, threadVars, budgetVars>>

Workers == QueueWorkers \cup Foreground
Effect  == {"untouched", "partial", "applied"}
Item    == [task : Tasks, key : Tokens]
NoItem  == [task |-> NoTask, key |-> NoToken]
Pc == {"idle", "admit", "claim", "plan", "steps", "begin", "resume",
       "observe", "restart", "execute", "caught", "retry", "complete",
       "review", "settle", "failing", "finish", "leave"}

TypeOK ==
    /\ LedgerTypeOK
    /\ world \in [Tasks -> [Steps -> Effect]]
    /\ queue \subseteq Item
    /\ owned \in [Tasks -> Tokens \cup {NoToken}]
    /\ submitting \in Tasks \cup {NoTask}
    /\ recovering \in Item \cup {NoItem}
    /\ pc   \in [Workers -> Pc]
    /\ job  \in [Workers -> Tasks \cup {NoTask}]
    /\ key  \in [Workers -> Tokens \cup {NoToken}]
    /\ op   \in [Workers -> 1..NSteps + 1]
    /\ seen \in [Workers -> Tokens \cup {NoToken}]
    /\ crashes \in 0..MaxCrashes /\ stalls \in 0..MaxStalls
    /\ faults \in 0..MaxFaults   /\ requests \in 0..MaxRequests

Pristine == [s \in Steps |-> "untouched"]

MemoryInit ==
    /\ queue = {} /\ owned = [t \in Tasks |-> NoToken]
    /\ submitting = NoTask /\ recovering = NoItem
    /\ pc  = [w \in Workers |-> "idle"]
    /\ job = [w \in Workers |-> NoTask]
    /\ key = [w \in Workers |-> NoToken]
    /\ op  = [w \in Workers |-> 1]
    /\ seen = [w \in Workers |-> NoToken]

Init ==
    /\ LedgerInit /\ MemoryInit
    /\ world = [t \in Tasks |-> Pristine]
    /\ crashes = 0 /\ stalls = 0 /\ faults = 0 /\ requests = 0

-----------------------------------------------------------------------------
\* Helpers.

\* Tokens that someone still refers to; a new uuid4 is none of them.
Holders(t) ==
    {token[t], owned[t], recovering.key} \cup {attempt[t][s] : s \in Steps}
      \cup {i.key : i \in queue} \cup {key[w] : w \in Workers} \cup {seen[w] : w \in Workers}
NewToken(t, k) == k \in Tokens \ Holders(t) /\ \A j \in Tokens \ Holders(t) : k <= j

\* The job view holds every task that is queued or executing.
InView(t) ==
    \/ submitting = t
    \/ \E i \in queue : i.task = t
    \/ \E w \in Workers : job[w] = t

\* _resident_tasks: queue items from put until their worker finishes them.
Resident(t, k) ==
    \/ [task |-> t, key |-> k] \in queue
    \/ \E w \in QueueWorkers : job[w] = t /\ key[w] = k

Own(t, k)    == owned' = [owned EXCEPT ![t] = k]
Forget(t, k) == owned' = [owned EXCEPT ![t] = IF @ = k THEN NoToken ELSE @]
Goto(w, l)   == pc' = [pc EXCEPT ![w] = l]
Step(w, from, to) == pc[w] = from /\ Goto(w, to)
Hold(w, a)   == seen' = [seen EXCEPT ![w] = a]
Stay == UNCHANGED <<job, key, op, seen>>
Quiet == UNCHANGED <<world, queueVars, budgetVars>>
Mine(w) == job[w] # NoTask /\ Owns(job[w], key[w])

\* A new row has a new plan, none of whose operations has had an effect.
Admit(t) == InsertRow(t) /\ world' = [world EXCEPT ![t] = Pristine]

-----------------------------------------------------------------------------
\* Admission: put_to_queue, serialized by the lifecycle lock, and the
\* foreground path, which no lock covers.

Persist(t) ==
    \/ Admit(t)
    \/ exec[t] # "absent" /\ UNCHANGED <<ledgerVars, world>>

SubmitAdmit(t) ==
    /\ submitting = NoTask /\ ~InView(t)
    /\ requests < MaxRequests /\ requests' = requests + 1
    /\ Persist(t)
    /\ submitting' = t
    /\ UNCHANGED <<queue, owned, recovering, threadVars, crashes, stalls, faults>>

SubmitClaim ==
    /\ submitting # NoTask
    /\ \E k \in Tokens :
          /\ NewToken(submitting, k)
          /\ ClaimRow(submitting, k)
          /\ Own(submitting, k)
          /\ queue' = queue \cup {[task |-> submitting, key |-> k]}
    /\ submitting' = NoTask
    /\ UNCHANGED <<world, recovering, threadVars, budgetVars>>

SubmitLost ==
    /\ submitting # NoTask /\ ~Claimable(submitting)
    /\ submitting' = NoTask
    /\ UNCHANGED <<ledgerVars, world, queue, owned, recovering, threadVars, budgetVars>>

ForegroundTake(w, t) ==
    /\ w \in Foreground /\ Step(w, "idle", "admit") /\ ~InView(t)
    /\ requests < MaxRequests /\ requests' = requests + 1
    /\ job' = [job EXCEPT ![w] = t]
    /\ UNCHANGED <<ledgerVars, world, queueVars, key, op, seen, crashes, stalls, faults>>

ForegroundAdmit(w) ==
    /\ Step(w, "admit", "claim")
    /\ Persist(job[w])
    /\ Stay /\ UNCHANGED <<queueVars, budgetVars>>

ForegroundClaim(w) ==
    /\ Step(w, "claim", "plan")
    /\ \E k \in Tokens :
          /\ NewToken(job[w], k)
          /\ ClaimRow(job[w], k)
          /\ Own(job[w], k)
          /\ key' = [key EXCEPT ![w] = k]
    /\ UNCHANGED <<world, queue, submitting, recovering, job, op, seen, budgetVars>>

ForegroundLost(w) ==
    /\ Step(w, "claim", "leave") /\ ~Claimable(job[w])
    /\ Stay /\ Quiet /\ UNCHANGED ledgerVars

-----------------------------------------------------------------------------
\* Recovery: one scanning thread claims within the capacity of the workers
\* and hands each claim to the queue.

OwnedCount == Cardinality({t \in Tasks : owned[t] # NoToken})

RecoverClaim(t) ==
    /\ recovering = NoItem /\ OwnedCount < Cardinality(QueueWorkers)
    /\ \E k \in Tokens :
          /\ NewToken(t, k)
          /\ ClaimRow(t, k)
          /\ Own(t, k)
          /\ recovering' = [task |-> t, key |-> k]
    /\ UNCHANGED <<world, queue, submitting, threadVars, budgetVars>>

\* Mutant: a task that a worker has already taken is not counted.
OccupiedInQueue(t) == \E i \in queue : i.task = t

Occupied(t) == \E k \in Tokens : Resident(t, k)

RecoverEnqueue ==
    /\ recovering # NoItem /\ submitting = NoTask
    /\ owned[recovering.task] = recovering.key
    /\ ~Occupied(recovering.task)
    /\ queue' = queue \cup {recovering}
    /\ recovering' = NoItem
    /\ UNCHANGED <<ledgerVars, world, owned, submitting, threadVars, budgetVars>>

\* Mutant: the claim is released and the heartbeat goes on renewing it.
GiveBackKeepsMirror(t, k) ==
    /\ ReleaseRow(t, k)
    /\ recovering' = NoItem
    /\ UNCHANGED <<world, queue, owned, submitting, threadVars>>

GiveBack(t, k) ==
    /\ ReleaseRow(t, k) /\ Forget(t, k)
    /\ recovering' = NoItem
    /\ UNCHANGED <<world, queue, submitting, threadVars>>

\* Another claim of the source still executes, or the lease was lost.
RecoverRefused ==
    /\ recovering # NoItem /\ submitting = NoTask
    /\ Occupied(recovering.task) \/ owned[recovering.task] # recovering.key
    /\ GiveBack(recovering.task, recovering.key)
    /\ UNCHANGED budgetVars

\* The source cannot be read for now, or the replay raises.
RecoverFails ==
    /\ recovering # NoItem
    /\ faults < MaxFaults /\ faults' = faults + 1
    /\ GiveBack(recovering.task, recovering.key)
    /\ UNCHANGED <<crashes, stalls, requests>>

\* The source is gone and nothing was ever started for it.
RecoverAbandon ==
    /\ recovering # NoItem
    /\ exec[recovering.task] = "not_started" /\ NeverStarted(recovering.task)
    /\ AbandonRow(recovering.task, recovering.key)
    /\ Forget(recovering.task, recovering.key)
    /\ recovering' = NoItem
    /\ UNCHANGED <<world, queue, submitting, threadVars, budgetVars>>

-----------------------------------------------------------------------------
\* A thread from its task to the steps of the plan.

Take(w) ==
    /\ w \in QueueWorkers /\ pc[w] = "idle"
    /\ \E i \in queue :
          /\ queue' = queue \ {i}
          /\ job' = [job EXCEPT ![w] = i.task]
          /\ key' = [key EXCEPT ![w] = i.key]
          /\ Goto(w, IF owned[i.task] = i.key THEN "plan" ELSE "finish")
    /\ UNCHANGED <<ledgerVars, world, owned, submitting, recovering, op, seen, budgetVars>>

Mirrored(w) == owned[job[w]] = key[w]

PlanStored(w) ==
    /\ Step(w, "plan", "steps") /\ Mirrored(w)
    /\ IF planned[job[w]] THEN exec[job[w]] # "settling" /\ UNCHANGED ledgerVars
                          ELSE StorePlan(job[w], key[w])
    /\ Stay /\ Quiet

\* A checkpointed result is settled again; its steps are not.
PlanSettling(w) ==
    /\ Step(w, "plan", "settle") /\ Mirrored(w)
    /\ exec[job[w]] = "settling"
    /\ Stay /\ Quiet /\ UNCHANGED ledgerVars

PlanDeferred(w) ==
    /\ Step(w, "plan", "finish") /\ Mirrored(w)
    /\ DeferPlanning(job[w], key[w])
    /\ Stay /\ Quiet

\* Planning ends without a plan and without an exception.
PlanFails(w) ==
    /\ Step(w, "plan", "finish") /\ ~planned[job[w]]
    /\ faults < MaxFaults /\ faults' = faults + 1
    /\ Stay /\ UNCHANGED <<ledgerVars, world, queueVars, crashes, stalls, requests>>

\* Mutant: an operation left STARTED is executed without being observed.
AfterPrepareReplays == [absent |-> "begin", prepared |-> "begin", failed |-> "resume",
                        started |-> "restart", succeeded |-> "steps"]

AfterPrepare == [absent |-> "begin", prepared |-> "begin", failed |-> "resume",
                 started |-> "observe", succeeded |-> "steps"]

Prepare(w) ==
    /\ pc[w] = "steps" /\ op[w] <= NSteps
    /\ PrepareStep(job[w], key[w], op[w])
    /\ LET was == step[job[w]][op[w]]
       IN  /\ was # "manual_review" /\ Goto(w, AfterPrepare[was])
           /\ op' = [op EXCEPT ![w] = IF was = "succeeded" THEN @ + 1 ELSE @]
    /\ Hold(w, attempt[job[w]][op[w]])
    /\ UNCHANGED <<job, key>> /\ Quiet

Begin(w) ==
    /\ Step(w, "begin", "execute")
    /\ StartStep(job[w], key[w], op[w])
    /\ Hold(w, key[w])
    /\ UNCHANGED <<job, key, op>> /\ Quiet

Resume(w) ==
    /\ Step(w, "resume", "execute")
    /\ ResumeStep(job[w], key[w], op[w])
    /\ Hold(w, key[w])
    /\ UNCHANGED <<job, key, op>> /\ Quiet

Restart(w) ==
    /\ Step(w, "restart", "execute")
    /\ RestartStep(job[w], key[w], op[w], seen[w])
    /\ Hold(w, key[w])
    /\ UNCHANGED <<job, key, op>> /\ Quiet

-----------------------------------------------------------------------------
\* The external operation, outside every transaction, and what follows it.

EffectLands(w) ==
    /\ pc[w] = "execute" /\ world[job[w]][op[w]] # "applied"
    /\ \E e \in Effect \ {"untouched", world[job[w]][op[w]]} :
          world' = [world EXCEPT ![job[w]][op[w]] = e]
    /\ UNCHANGED <<ledgerVars, queueVars, threadVars, budgetVars>>

ExecuteReturns(w) ==
    /\ Step(w, "execute", "complete") /\ world[job[w]][op[w]] = "applied"
    /\ Stay /\ Quiet /\ UNCHANGED ledgerVars

ExecuteRaises(w) ==
    /\ Step(w, "execute", "caught")
    /\ Stay /\ Quiet /\ UNCHANGED ledgerVars

\* An observation tells the truth or that it cannot tell.
Verdicts(e) == IF e = "partial" THEN {"unknown"} ELSE {e, "unknown"}

\* Mutant: an observation that cannot tell counts as done.
ObserveOptimistic(w) ==
    /\ pc[w] \in {"observe", "caught"}
    /\ \E v \in Verdicts(world[job[w]][op[w]]) :
          Goto(w, IF v # "untouched" THEN "complete"
                  ELSE IF pc[w] = "observe" THEN "restart" ELSE "retry")
    /\ Stay /\ Quiet /\ UNCHANGED ledgerVars

\* After an exception, and for an operation that an earlier owner left STARTED.
Observe(w) ==
    /\ pc[w] \in {"observe", "caught"}
    /\ \E v \in Verdicts(world[job[w]][op[w]]) :
          Goto(w, IF v = "applied" THEN "complete"
                  ELSE IF v = "unknown" THEN "review"
                  ELSE IF pc[w] = "observe" THEN "restart" ELSE "retry")
    /\ Stay /\ Quiet /\ UNCHANGED ledgerVars

\* Mutant: a completed operation is passed over twice.
CompleteTwice(w) ==
    /\ Step(w, "complete", "steps")
    /\ CompleteStep(job[w], key[w], op[w], seen[w])
    /\ op' = [op EXCEPT ![w] = @ + 2]
    /\ UNCHANGED <<job, key, seen>> /\ Quiet

Complete(w) ==
    /\ Step(w, "complete", "steps")
    /\ CompleteStep(job[w], key[w], op[w], seen[w])
    /\ op' = [op EXCEPT ![w] = @ + 1]
    /\ UNCHANGED <<job, key, seen>> /\ Quiet

SendToReview(w) ==
    /\ Step(w, "review", "finish")
    /\ ReviewStep(job[w], key[w], op[w], seen[w])
    /\ Stay /\ Quiet

\* Mutant: one retry too many.
ExhaustedLate(t) == retries[t] > MaxRetries

Exhausted(t) == retries[t] >= MaxRetries

Defer(w) ==
    /\ Step(w, "retry", "finish") /\ ~Exhausted(job[w])
    /\ DeferStep(job[w], key[w], op[w], seen[w])
    /\ Stay /\ Quiet

Exhaust(w) ==
    /\ Step(w, "retry", "settle") /\ Exhausted(job[w])
    /\ ExhaustStep(job[w], key[w], op[w], seen[w])
    /\ Stay /\ Quiet

\* Mutant: a run that ended early reports a success.
CheckpointEarly(w) ==
    /\ Step(w, "steps", "settle")
    /\ \E o \in {"succeeded", "failed"} :
          CheckpointResult(job[w], key[w], op[w] - 1, o)
    /\ Stay /\ Quiet

\* The executor reports a success after its last operation; a run that
\* declines (an overwrite that is refused) ends early, with a failure.
Checkpoint(w) ==
    /\ Step(w, "steps", "settle")
    /\ \E o \in {"succeeded", "failed"} :
          /\ o = "succeeded" => op[w] > NSteps
          /\ CheckpointResult(job[w], key[w], op[w] - 1, o)
    /\ Stay /\ Quiet

Settle(w) ==
    /\ Step(w, "settle", "finish")
    /\ SettleSuccess(job[w], key[w]) \/ SettleFailure(job[w], key[w])
    /\ Stay /\ Quiet

-----------------------------------------------------------------------------
\* Losing the lease, unhandled exceptions and the end of a task.

Committing == {"steps", "begin", "resume", "restart", "complete", "review", "retry", "settle"}

\* The CAS matches no row: TransferExecutionLeaseLostError, or the mirror
\* says so before (_assert_owned_lease).
Fenced(w) ==
    /\ \/ pc[w] \in Committing /\ ~Mine(w)
       \/ pc[w] = "plan" /\ (~Mirrored(w) \/ (~planned[job[w]] /\ ~Mine(w)))
    /\ Goto(w, "finish")
    /\ Stay /\ Quiet /\ UNCHANGED ledgerVars

\* Any other exception outside the execution of an operation.
Raise(w) ==
    /\ pc[w] \in Committing \cup {"plan", "observe"}
    /\ Goto(w, "failing")
    /\ faults < MaxFaults /\ faults' = faults + 1
    /\ Stay /\ UNCHANGED <<ledgerVars, world, queueVars, crashes, stalls, requests>>

Isolate(w) ==
    /\ Step(w, "failing", "finish")
    /\ IF Isolable(job[w], key[w]) THEN IsolateRow(job[w], key[w]) ELSE UNCHANGED ledgerVars
    /\ Stay /\ Quiet

Finish(w) ==
    /\ Step(w, "finish", "leave")
    /\ ReleaseRow(job[w], key[w]) /\ Forget(job[w], key[w])
    /\ Stay /\ UNCHANGED <<world, queue, submitting, recovering, budgetVars>>

Leave(w) ==
    /\ Step(w, "leave", "idle")
    /\ job'  = [job  EXCEPT ![w] = NoTask]
    /\ key'  = [key  EXCEPT ![w] = NoToken]
    /\ op'   = [op   EXCEPT ![w] = 1]
    /\ Hold(w, NoToken)
    /\ Quiet /\ UNCHANGED ledgerVars

-----------------------------------------------------------------------------
\* Users.  Whoever answers a review does what the messages ask: finish the
\* operation by hand before APPLIED, roll it back before NOT_APPLIED.

Request == requests < MaxRequests /\ requests' = requests + 1
Aside == UNCHANGED <<queueVars, threadVars, crashes, stalls, faults>>

Retry(t)   == Request /\ RequestRetry(t) /\ Aside /\ UNCHANGED world
Discard(t) == Request /\ (DiscardFailed(t) \/ DiscardReview(t)) /\ Aside /\ UNCHANGED world

Resolve(t, s) ==
    /\ Request /\ Aside
    /\ \/ ResolveStep(t, s, "succeeded") /\ world' = [world EXCEPT ![t][s] = "applied"]
       \/ ResolveStep(t, s, "failed")    /\ world' = [world EXCEPT ![t][s] = "untouched"]

ResolveUnhandled(t) == Request /\ ResolveIsolated(t) /\ Aside /\ UNCHANGED world

-----------------------------------------------------------------------------
\* Time, the heartbeat and crashes.

\* The heartbeat keeps a lease of the mirror alive unless it stalls.
LeaseExpires(t) ==
    /\ live[t] /\ live' = [live EXCEPT ![t] = FALSE]
    /\ IF owned[t] = token[t] THEN stalls < MaxStalls /\ stalls' = stalls + 1
                              ELSE stalls' = stalls
    /\ UNCHANGED <<rowVars, token, stepVars, world, queueVars, threadVars, crashes, faults, requests>>

HeartbeatFails(t) ==
    /\ owned[t] # NoToken /\ ~Owns(t, owned[t])
    /\ owned' = [owned EXCEPT ![t] = NoToken]
    /\ UNCHANGED <<ledgerVars, world, queue, submitting, recovering, threadVars, budgetVars>>

RetryDue(t) ==
    /\ exec[t] = "retry_wait" /\ ~due[t]
    /\ due' = [due EXCEPT ![t] = TRUE]
    /\ UNCHANGED <<exec, planned, retries, outcome, settled, leaseVars, stepVars,
                   world, queueVars, threadVars, budgetVars>>

Crash ==
    /\ crashes < MaxCrashes /\ crashes' = crashes + 1
    /\ queue' = {} /\ owned' = [t \in Tasks |-> NoToken]
    /\ submitting' = NoTask /\ recovering' = NoItem
    /\ pc'  = [w \in Workers |-> "idle"]
    /\ job' = [w \in Workers |-> NoTask]
    /\ key' = [w \in Workers |-> NoToken]
    /\ op'  = [w \in Workers |-> 1]
    /\ seen' = [w \in Workers |-> NoToken]
    /\ UNCHANGED <<ledgerVars, world, stalls, faults, requests>>

-----------------------------------------------------------------------------
Planning(w)  == PlanStored(w) \/ PlanSettling(w) \/ PlanDeferred(w)
Running(w)   == Prepare(w) \/ Begin(w) \/ Resume(w) \/ Restart(w)
Executing(w) == ExecuteReturns(w) \/ ExecuteRaises(w)
Recording(w) == Complete(w) \/ SendToReview(w) \/ Defer(w) \/ Exhaust(w)
Ending(w)    == Checkpoint(w) \/ Settle(w) \/ Fenced(w) \/ Isolate(w) \/ Finish(w) \/ Leave(w)
Starting(w)  == ForegroundAdmit(w) \/ ForegroundClaim(w) \/ ForegroundLost(w) \/ Take(w)
Progress(w)  ==
    \/ Starting(w) \/ Planning(w) \/ Running(w) \/ Executing(w)
    \/ Observe(w) \/ Recording(w) \/ Ending(w)
Mishap(w) == EffectLands(w) \/ PlanFails(w) \/ Raise(w)
Submitting == SubmitClaim \/ SubmitLost
Recovering == RecoverEnqueue \/ RecoverRefused \/ RecoverAbandon
Asking(t) == Retry(t) \/ Discard(t) \/ ResolveUnhandled(t) \/ \E s \in Steps : Resolve(t, s)

Next ==
    \/ \E w \in Workers : Progress(w) \/ Mishap(w)
    \/ \E w \in Workers, t \in Tasks : ForegroundTake(w, t)
    \/ \E t \in Tasks : SubmitAdmit(t) \/ RecoverClaim(t) \/ Asking(t)
    \/ \E t \in Tasks : LeaseExpires(t) \/ HeartbeatFails(t) \/ RetryDue(t)
    \/ Submitting \/ Recovering \/ RecoverFails \/ Crash

Spec == Init /\ [][Next]_vars

\* Threads keep running, an operation returns or raises, the scan and the
\* heartbeat are periodic, clocks advance.  Nothing makes a user answer, an
\* effect land or a source disappear.
Fairness ==
    /\ \A w \in Workers : WF_vars(Progress(w))
    /\ WF_vars(Submitting) /\ WF_vars(RecoverEnqueue \/ RecoverRefused)
    /\ \A t \in Tasks : SF_vars(RecoverClaim(t))
    /\ \A t \in Tasks : WF_vars(HeartbeatFails(t)) /\ WF_vars(RetryDue(t))
    /\ \A t \in Tasks : WF_vars(live[t] /\ owned[t] # token[t] /\ LeaseExpires(t))

FairSpec == Spec /\ Fairness

-----------------------------------------------------------------------------
\* Properties.

\* Where the ledger must be when the owner of the live lease is at w's place.
Expected(w) ==
    LET t == job[w]  k == key[w]  s == op[w]
        doing == ActiveLease(t, k) /\ step[t][s] = "started" /\ attempt[t][s] = seen[w]
    IN  CASE pc[w] = "steps"   -> CanRun(t, k)
          [] pc[w] = "begin"   -> ActiveLease(t, k) /\ step[t][s] = "prepared"
          [] pc[w] = "resume"  -> CanRun(t, k) /\ step[t][s] = "failed"
          [] pc[w] = "settle"  -> exec[t] = "settling" /\ outcome[t] # "none"
          [] pc[w] \in {"observe", "restart", "complete", "review"} -> doing
          [] pc[w] \in {"execute", "caught", "retry"} -> doing /\ exec[t] = "running"
          [] OTHER -> TRUE

\* A thread that still owns the lease of its task is never refused by a state
\* or attempt condition of the repository: only the loss of the lease stops it.
OwnerIsNeverRefused == \A w \in Workers : Mine(w) => Expected(w)

\* What waits for a user is leased by nobody, and a task in manual review has
\* exactly one row to answer, without which no request could release it.
ParkedIsAnswerable ==
    \A t \in Tasks :
        /\ exec[t] \in {"absent", "failed", "manual_review"} => token[t] = NoToken
        /\ Cardinality(UnderReview(t)) + (IF review[t] = "manual_review" THEN 1 ELSE 0)
             = IF exec[t] = "manual_review" THEN 1 ELSE 0

\* A row in settling can be settled again from its checkpoint alone: a success
\* has every operation recorded, and no operation is left half recorded.  The
\* ledger compares the operations with the rows, not with the plan, so that it
\* rests on the executor's order (Checkpoint).
SettlingIsReplayable ==
    \A t \in Tasks : exec[t] = "settling" =>
        /\ outcome[t] = "succeeded" => \A s \in Steps : step[t][s] = "succeeded"
        /\ outcome[t] # "none"
        /\ \A s \in Steps : step[t][s] \in {"absent", "succeeded", "failed"}

\* An operation recorded as succeeded has really taken effect, whoever
\* executed, observed or confirmed it.
RecordsAreTrue ==
    \A t \in Tasks, s \in Steps : step[t][s] = "succeeded" => world[t][s] = "applied"

\* Every lease that the heartbeat renews has somebody in charge of its task:
\* otherwise it would be renewed forever and hold a recovery slot.
RenewedLeasesAreHeld ==
    \A t \in Tasks : owned[t] # NoToken =>
        \/ recovering = [task |-> t, key |-> owned[t]]
        \/ [task |-> t, key |-> owned[t]] \in queue
        \/ \E w \in Workers : job[w] = t /\ key[w] = owned[t]

\* A source is queued or executing at most once among the queue workers, even
\* after its lease is lost: recovery claims the row, but the claim waits until
\* the old thread has left.  NoBlindReplay rests on it.
OneResidentPerTask ==
    \A t \in Tasks :
        Cardinality({i \in queue : i.task = t}) + Cardinality({w \in QueueWorkers : job[w] = t}) <= 1

\* An operation is only ever executed while its effect is absent: a partial or
\* complete effect of an earlier attempt is never replayed blindly.
NoBlindReplay ==
    [][\A w \in Workers : pc[w] # "execute" /\ pc'[w] = "execute" =>
           world[job[w]][op[w]] = "untouched"]_vars

\* The retry count of a task passes the limit by unhandled exceptions alone:
\* each of them adds at most one (isolation), planning deferrals and retries of
\* operations stop at the limit.
RetriesAreBudgeted == \A t \in Tasks : retries[t] <= MaxRetries + faults

\* What a user or an observer sees of a task: what it is waiting for, and the
\* operations the ledger records as done.
Phase(t) ==
    CASE exec[t] \in {"not_started", "running", "retry_wait"} -> "owed"
      [] exec[t] = "absent"        -> "none"
      [] exec[t] = "manual_review" -> "review"
      [] exec[t] = "failed"        -> "failed"
      [] OTHER -> IF outcome[t] = "succeeded" THEN "succeeded" ELSE "declined"

Promise == INSTANCE TransferPromise WITH
    phase    <- [t \in Tasks |-> Phase(t)],
    effect   <- world,
    recorded <- [t \in Tasks |-> {s \in Steps : step[t][s] = "succeeded"}]

\* As long as the heartbeat keeps every lease it renews, the threads, the
\* recovery scan and the crashes implement TransferPromise: effects land in
\* plan order and only while owed, and a success is settled only when complete.
ImplementsPromise == Promise!Spec

\* Once admitted, a transfer is settled, abandoned or handed to a user.
EveryTransferConcludes == \A t \in Tasks : exec[t] \in Active ~> exec[t] \notin Active

\* __handle_transfer_execution_error catches what the replaceable entry point
\* raises "so that a failure nobody recorded is not replayed forever": whoever
\* handles such an exception with its lease leaves the task to a user.  A task
\* retried after a settled failure keeps its execution_payload, which the
\* UPDATE of isolate_unhandled_failure excludes.
UnhandledFailureIsNotReplayed ==
    [][\A w \in Workers :
           Isolate(w) /\ Mine(w) /\ exec[job[w]] \in {"not_started", "running", "retry_wait"}
               => exec'[job[w]] = "manual_review"]_vars
=============================================================================
