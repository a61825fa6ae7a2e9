-------------------------- MODULE SubscriptionSearch --------------------------
(***************************************************************************)
(* The persistent queue of subscription searches: requests become tasks,   *)
(* one per subscription, grouped in a batch per request; the consumer of a *)
(* process claims a task with a lease, searches page by page behind a      *)
(* checkpoint and settles the task; a lease may run out under a slow       *)
(* search, a batch may be cancelled, a process may stop or die.            *)
(* Every repository transaction is one action.                             *)
(***************************************************************************)
EXTENDS Integers, FiniteSets

CONSTANTS Processes,  \* the processes on the database, one consumer in each
          Subs,       \* the subscriptions
          Requests,   \* batch -> the sets of subscriptions it may be for
          MaxTasks,   \* tasks over a run
          NoTask,     \* the task of an idle consumer
          MaxPages,   \* the last version of a checkpoint
          MaxSetbacks \* deferrals, crashes, stops and leases that run out under
                      \* a search, over a run

ASSUME SearchAssumption ==
  /\ {MaxTasks, MaxPages, MaxSetbacks} \subseteq Nat
  /\ DOMAIN Requests \subseteq Nat
  /\ \A b \in DOMAIN Requests : Requests[b] \subseteq SUBSET Subs

Batches == DOMAIN Requests  \* numbered in the order they are made
Tasks == Batches \X Subs
Ended == {"completed", "failed", "cancelled", "skipped"}
Active == {"queued", "running"}
TaskStates == Ended \union Active \union {"none"}
Closed == {"completed", "failed", "cancelled"}
Tokens == 1..(Cardinality(Processes) + MaxTasks + 1)
None == -1

VARIABLES
  tasks,     \* task -> its row: state, cancel_requested, lease, due, manual
  batches,   \* batch -> its row: state and cancel_requested
  sessions,  \* task -> version of its search checkpoint, or None
  worker,    \* process -> its consumer: step, task, token, checkpoint, verdict
  stopping,  \* the processes that are stopping
  setbacks

vars == <<tasks, batches, sessions, worker, stopping, setbacks>>

NoRow == [state |-> "none", cancel |-> FALSE, token |-> 0, expired |-> FALSE,
          due |-> FALSE, manual |-> FALSE]
Idle == [pc |-> "idle", task |-> NoTask, token |-> 0, manual |-> FALSE,
         seen |-> None, verdict |-> "none"]

TypeOK ==
  /\ tasks \in [Tasks -> [state : TaskStates, cancel : BOOLEAN, expired : BOOLEAN,
                          token : Tokens \union {0}, due : BOOLEAN, manual : BOOLEAN]]
  /\ batches \in [Batches -> [state : TaskStates \union {"cancelling"},
                              cancel : BOOLEAN]]
  /\ sessions \in [Tasks -> None..MaxPages]
  /\ worker \in [Processes ->
       [pc : {"idle", "claimed", "searching", "settling"},
        task : Tasks \union {NoTask}, token : Tokens \union {0}, manual : BOOLEAN,
        seen : None..MaxPages, verdict : Ended \union {"none", "release", "defer"}]]
  /\ stopping \subseteq Processes
  /\ setbacks \in 0..MaxSetbacks

Init ==
  /\ tasks = [t \in Tasks |-> NoRow]
  /\ batches = [b \in Batches |-> [state |-> "none", cancel |-> FALSE]]
  /\ sessions = [t \in Tasks |-> None]
  /\ worker = [p \in Processes |-> Idle]
  /\ stopping = {}
  /\ setbacks = 0

-----------------------------------------------------------------------------
(* Rows and aggregates.                                                    *)

StatesOf(b, ts) == {ts[t].state : t \in {b} \X Subs} \ {"none"}

\* What the rows of a batch say its state is.
Aggregate(b, ts, cancel) ==
  LET states == StatesOf(b, ts) IN
  IF states \subseteq Ended
  THEN IF "failed" \in states THEN "failed"
       ELSE IF "cancelled" \in states \/ cancel THEN "cancelled"
       ELSE IF "skipped" \in states THEN "skipped" ELSE "completed"
  ELSE IF cancel THEN "cancelling"
  ELSE IF "running" \in states THEN "running" ELSE "queued"

Refresh(bs, ts, changed) ==
  [b \in Batches |-> IF b \in changed
                     THEN [bs[b] EXCEPT !.state = Aggregate(b, ts, bs[b].cancel)]
                     ELSE bs[b]]

Over(row, state) ==
  [row EXCEPT !.state = state, !.token = 0, !.expired = FALSE]

\* Cancelled tasks whose lease has run out.
Lapsed == {t \in Tasks : tasks[t].state = "running" /\ tasks[t].cancel
                         /\ tasks[t].expired}
Swept == [t \in Tasks |-> IF t \in Lapsed THEN Over(tasks[t], "cancelled")
                                          ELSE tasks[t]]
SweptBatches == Refresh(batches, Swept, {t[1] : t \in Lapsed})
SweptSessions == [t \in Tasks |-> IF t \in Lapsed THEN None ELSE sessions[t]]

\* A token that no row and no consumer refers to; uuid4 in the code, here the
\* smallest number that is free.
Referred == {tasks[t].token : t \in Tasks} \union {worker[p].token : p \in Processes}
NewToken(k) == k \in Tokens \ Referred /\ \A j \in Tokens \ Referred : k <= j

-----------------------------------------------------------------------------
(* Requests.                                                               *)

\* The active task of a subscription, whose active_key a new request meets.
Holding(s, ts) == {t \in Tasks : t[2] = s /\ ts[t].state \in Active}

\* A request makes a task for each subscription that has none active and joins
\* the active task of the others. What a user asks for is due at once and brings
\* the task forward; what the schedule asks for is spread over the next minute.
Enqueue(b, S, manual) ==
  LET joined == UNION {Holding(s, Swept) : s \in S}
      fresh == {t \in {b} \X S : Holding(t[2], Swept) = {}}
      rows == [t \in Tasks |->
        IF t \in fresh
        THEN [NoRow EXCEPT !.state = "queued", !.due = manual, !.manual = manual]
        ELSE IF t \in joined
        THEN [Swept[t] EXCEPT !.due = @ \/ manual, !.manual = @ \/ manual]
        ELSE Swept[t]]
  IN /\ batches[b].state = "none"
     /\ \A a \in Batches : a < b => batches[a].state # "none"
     /\ Cardinality({t \in Tasks : rows[t].state # "none"}) <= MaxTasks
     /\ tasks' = rows
     /\ batches' = [SweptBatches EXCEPT
                      ![b].state = IF fresh = {} THEN "completed" ELSE "queued"]
     /\ sessions' = SweptSessions
     /\ UNCHANGED <<worker, stopping, setbacks>>

\* The user stops a batch: what waits ends, what runs is told to.
RequestCancel(b) ==
  LET rows == [t \in Tasks |->
        IF t[1] # b THEN tasks[t]
        ELSE CASE tasks[t].state = "queued" ->
                    [Over(tasks[t], "cancelled") EXCEPT !.cancel = TRUE]
               [] tasks[t].state = "running" -> [tasks[t] EXCEPT !.cancel = TRUE]
               [] OTHER -> tasks[t]]
  IN /\ batches[b].state \notin Closed \union {"none"}
     /\ tasks' = rows
     /\ batches' = Refresh([batches EXCEPT ![b].cancel = TRUE], rows, {b})
     /\ sessions' = [t \in Tasks |-> IF t[1] = b /\ rows[t].state = "cancelled"
                                     THEN None ELSE sessions[t]]
     /\ UNCHANGED <<worker, stopping, setbacks>>

-----------------------------------------------------------------------------
(* The consumer of a process.                                              *)

ClaimableQueued(row) == ~row.cancel /\ row.due /\ row.state = "queued"
Claimable(row) ==
  /\ ~row.cancel /\ row.due
  /\ row.state = "queued" \/ (row.state = "running" /\ row.expired)

Candidates == {t \in Tasks : Claimable(Swept[t])}
\* Requests of a user go before those of the schedule.
FirstCandidates ==
  LET users == {t \in Candidates : tasks[t].manual}
  IN IF users # {} THEN users ELSE Candidates

\* A poll ends cancelled tasks nobody works on and claims the next one.
Claim(p) ==
  /\ worker[p].pc = "idle" /\ p \notin stopping
  /\ sessions' = SweptSessions
  /\ \/ /\ Candidates = {}
        /\ tasks' = Swept /\ batches' = SweptBatches
        /\ UNCHANGED worker
     \/ \E t \in FirstCandidates, k \in Tokens :
          /\ NewToken(k)
          /\ tasks' = [Swept EXCEPT ![t].state = "running", ![t].token = k,
                                    ![t].expired = FALSE]
          /\ batches' = [SweptBatches EXCEPT ![t[1]].state =
                           IF @ \in {"queued", "running"} THEN "running" ELSE @]
          /\ worker' = [worker EXCEPT ![p] =
               [Idle EXCEPT !.pc = "claimed", !.task = t, !.token = k,
                            !.manual = tasks[t].manual]]
  /\ UNCHANGED <<stopping, setbacks>>

Setback == setbacks < MaxSetbacks /\ setbacks' = setbacks + 1

Decide(p, verdict) ==
  /\ IF verdict = "defer" THEN Setback ELSE UNCHANGED setbacks
  /\ worker' = [worker EXCEPT ![p] =
       [Idle EXCEPT !.pc = "settling", !.task = worker[p].task,
                    !.token = worker[p].token, !.verdict = verdict]]

\* What keeps a claimed task from being searched: it was cancelled, its
\* subscription is gone, paused, too new, or in use by the matcher.
Decline(p) ==
  /\ worker[p].pc = "claimed"
  /\ \/ Decide(p, "cancelled")
     \/ ~tasks[worker[p].task].cancel /\ ~worker[p].manual /\ Decide(p, "skipped")
     \/ ~tasks[worker[p].task].cancel /\ Decide(p, "defer")
  /\ UNCHANGED <<tasks, batches, sessions, stopping>>

\* The search resumes from the checkpoint it reads.
Begin(p) ==
  /\ worker[p].pc = "claimed" /\ ~tasks[worker[p].task].cancel
  /\ worker' = [worker EXCEPT ![p].pc = "searching",
                              ![p].seen = sessions[worker[p].task]]
  /\ UNCHANGED <<tasks, batches, sessions, stopping, setbacks>>

HeldByAnyone(t, token) ==
  tasks[t].state = "running" /\ ~tasks[t].expired /\ ~tasks[t].cancel
\* The lease of a task is still its worker's.
Held(t, token) == tasks[t].token = token /\ ~tasks[t].expired /\ ~tasks[t].cancel

CancelSeen(p) == tasks[worker[p].task].cancel \/ p \in stopping

\* A page is done: its checkpoint is stored in place of the one last seen, or
\* the search ends because it has lost its claim.
Checkpoint(p) ==
  LET t == worker[p].task
      stored == Held(t, worker[p].token)
                /\ (worker[p].seen = None \/ worker[p].seen = sessions[t])
  IN /\ worker[p].pc = "searching" /\ sessions[t] < MaxPages
     /\ \/ /\ stored
           /\ sessions' = [sessions EXCEPT ![t] = @ + 1]
           /\ worker' = [worker EXCEPT ![p].seen = sessions[t] + 1]
           /\ UNCHANGED setbacks
        \/ /\ ~stored
           /\ Decide(p, IF p \in stopping THEN "release"
                        ELSE IF CancelSeen(p) THEN "cancelled" ELSE "failed")
           /\ UNCHANGED sessions
     /\ UNCHANGED <<tasks, batches, stopping>>

\* The search returns. A finished round first deletes its checkpoint; a stop, a
\* cancellation or the time limit ends it early, unless a download has begun.
Return(p) ==
  LET t == worker[p].task
      mine == Held(t, worker[p].token) /\ worker[p].seen = sessions[t]
  IN /\ worker[p].pc = "searching"
     /\ \/ /\ Decide(p, "completed")
           /\ sessions' = IF mine THEN [sessions EXCEPT ![t] = None] ELSE sessions
        \/ /\ \/ Decide(p, "completed")
              \/ Decide(p, "failed")
              \/ p \notin stopping /\ Decide(p, "cancelled")
              \/ p \in stopping /\ Decide(p, "release")
              \/ ~CancelSeen(p) /\ Decide(p, "defer")
           /\ UNCHANGED sessions
     /\ UNCHANGED <<tasks, batches, stopping>>

\* The rows after a settlement; a task that is not this claim's any more is left.
Settled(t, token, verdict) ==
  IF tasks[t].state # "running" \/ tasks[t].token # token THEN tasks
  ELSE [tasks EXCEPT ![t] =
          IF verdict \in Ended THEN Over(@, verdict)
          ELSE IF @.cancel \/ batches[t[1]].cancel THEN Over(@, "cancelled")
          ELSE IF verdict = "release" THEN Over(@, "queued")
          ELSE [Over(@, "queued") EXCEPT !.due = FALSE]]

Settle(p) ==
  LET t == worker[p].task
      rows == Settled(t, worker[p].token, worker[p].verdict)
  IN /\ worker[p].pc = "settling"
     /\ tasks' = rows
     /\ batches' = IF rows = tasks THEN batches ELSE Refresh(batches, rows, {t[1]})
     /\ sessions' = IF rows # tasks /\ rows[t].state \in Ended
                    THEN [sessions EXCEPT ![t] = None] ELSE sessions
     /\ worker' = [worker EXCEPT ![p] = Idle]
     /\ UNCHANGED <<stopping, setbacks>>

-----------------------------------------------------------------------------
(* Time, stops and crashes.                                                *)

Due(t) ==
  /\ tasks[t].state = "queued" /\ ~tasks[t].due
  /\ tasks' = [tasks EXCEPT ![t].due = TRUE]
  /\ UNCHANGED <<batches, sessions, worker, stopping, setbacks>>

Alive(t) == \E p \in Processes : /\ worker[p].pc # "idle"
                                 /\ worker[p].task = t
                                 /\ worker[p].token = tasks[t].token

LeaseExpires(t) ==
  /\ tasks[t].state = "running" /\ ~tasks[t].expired
  /\ IF Alive(t) THEN Setback ELSE UNCHANGED setbacks
  /\ tasks' = [tasks EXCEPT ![t].expired = TRUE]
  /\ UNCHANGED <<batches, sessions, worker, stopping>>

Stop(p) ==
  /\ p \notin stopping /\ Setback
  /\ stopping' = stopping \union {p}
  /\ UNCHANGED <<tasks, batches, sessions, worker>>

Start(p) ==
  /\ p \in stopping /\ worker[p].pc = "idle"
  /\ stopping' = stopping \ {p}
  /\ UNCHANGED <<tasks, batches, sessions, worker, setbacks>>

Crash(p) ==
  /\ worker[p].pc # "idle" /\ Setback
  /\ worker' = [worker EXCEPT ![p] = Idle]
  /\ stopping' = stopping \ {p}
  /\ UNCHANGED <<tasks, batches, sessions>>

Next ==
  \/ \E b \in Batches, manual \in BOOLEAN :
       \E S \in Requests[b] : Enqueue(b, S, manual)
  \/ \E b \in Batches : RequestCancel(b)
  \/ \E p \in Processes : \/ Claim(p) \/ Decline(p) \/ Begin(p) \/ Checkpoint(p)
                          \/ Return(p) \/ Settle(p)
                          \/ Stop(p) \/ Start(p) \/ Crash(p)
  \/ \E t \in Tasks : Due(t) \/ LeaseExpires(t)

Fairness ==
  /\ \A p \in Processes : /\ WF_vars(Claim(p)) /\ WF_vars(Start(p))
                          /\ WF_vars(Decline(p) \/ Begin(p))
                          /\ WF_vars(Return(p)) /\ WF_vars(Settle(p))
  /\ \A t \in Tasks : WF_vars(Due(t)) /\ WF_vars(LeaseExpires(t))

Spec == Init /\ [][Next]_vars /\ Fairness

-----------------------------------------------------------------------------
(* What the queue promises.                                                *)

\* A batch always says what its tasks say, though each transaction writes only
\* the part of the aggregate it has changed (_refresh_batch and claim_next).
BatchesTell ==
  \A b \in Batches :
    batches[b].state # "none" =>
      batches[b].state = Aggregate(b, tasks, batches[b].cancel)

\* A subscription has one active task, and a checkpoint outlives no task: a
\* late page of a worker that lost its task must not bring it back.
OneActiveTask == \A t, u \in Tasks :
  t[2] = u[2] /\ tasks[t].state \in Active /\ tasks[u].state \in Active => t = u
CheckpointsAreLive ==
  \A t \in Tasks : sessions[t] # None => tasks[t].state \in Active

\* The worker that holds a claim has seen the last checkpoint: no earlier worker
\* of the task has written one behind its back (SearchSessionOper.save).
HoldersAreCurrent ==
  \A p \in {q \in Processes : worker[q].pc = "searching"} :
    LET t == worker[p].task IN
    tasks[t].token = worker[p].token /\ ~tasks[t].expired /\ ~tasks[t].cancel
      => worker[p].seen = sessions[t]

\* The queue stays consistent across claims, cancellations, expired leases, late
\* workers and crashes: aggregates, active keys, checkpoints and claims agree.
QueueIsConsistent ==
  TypeOK /\ BatchesTell /\ OneActiveTask /\ CheckpointsAreLive /\ HoldersAreCurrent

\* Every task that is queued or running ends, whatever crashes, stops, expires or
\* is cancelled: an abandoned claim is taken over (claim_next) or, when its batch
\* was cancelled, ended by the next request or poll (_finish_expired_cancellations).
EveryTaskEnds ==
  \A t \in Tasks : tasks[t].state \in Active ~> tasks[t].state \in Ended
=============================================================================
