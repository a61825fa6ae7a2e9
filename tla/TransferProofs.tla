---------------------------- MODULE TransferProofs ----------------------------
(***************************************************************************)
(* Proofs about TransferWorkers for every set of sources, plan length,     *)
(* number of threads and value of the bounds: its types, who is in charge  *)
(* of a lease that is renewed, and who is resident for a task.             *)
(***************************************************************************)
EXTENDS TransferWorkers, FiniteSetTheorems, TLAPS

-----------------------------------------------------------------------------
(* The operators of the ledger keep the types of its rows                  *)

LEMMA FreshRowTyping ==
    ASSUME LedgerTypeOK, NEW t \in Tasks, NEW e \in ExecState, FreshRow(t, e)
    PROVE  LedgerTypeOK'
<1>1. /\ exec' \in [Tasks -> ExecState]
      /\ outcome' \in [Tasks -> Outcome]
      /\ review' \in [Tasks -> {"absent", "manual_review", "failed"}]
  BY DEF FreshRow, LedgerTypeOK, Outcome
<1>2. /\ planned' \in [Tasks -> BOOLEAN] /\ live' \in [Tasks -> BOOLEAN]
      /\ due' \in [Tasks -> BOOLEAN] /\ settled' \in [Tasks -> BOOLEAN]
  BY DEF FreshRow, LedgerTypeOK
<1>3. token' \in [Tasks -> Tokens \cup {NoToken}] /\ retries' \in [Tasks -> Nat]
  BY DEF FreshRow, LedgerTypeOK
<1>4. step' \in [Tasks -> [Steps -> StepState]]
  BY DEF FreshRow, LedgerTypeOK, StepState
<1>5. attempt' \in [Tasks -> [Steps -> Tokens \cup {NoToken}]]
  BY DEF FreshRow, LedgerTypeOK
<1> QED
  BY <1>1, <1>2, <1>3, <1>4, <1>5 DEF LedgerTypeOK

LEMMA DeleteRowTyping ==
    ASSUME LedgerTypeOK, NEW t \in Tasks, DeleteRow(t)
    PROVE  LedgerTypeOK'
<1>1. "absent" \in ExecState
  BY DEF ExecState
<1> QED
  BY <1>1, FreshRowTyping DEF DeleteRow

LEMMA InsertRowTyping ==
    ASSUME LedgerTypeOK, NEW t \in Tasks, InsertRow(t)
    PROVE  LedgerTypeOK'
<1>1. "not_started" \in ExecState
  BY DEF ExecState, Active
<1> QED
  BY <1>1, FreshRowTyping DEF InsertRow

LEMMA ClaimRowTyping ==
    ASSUME LedgerTypeOK, NEW t \in Tasks, NEW k \in Tokens, ClaimRow(t, k)
    PROVE  LedgerTypeOK'
BY DEF LedgerTypeOK, ClaimRow, rowVars, stepVars

LEMMA ReleaseRowTyping ==
    ASSUME LedgerTypeOK, NEW t \in Tasks, NEW k, ReleaseRow(t, k)
    PROVE  LedgerTypeOK'
BY DEF LedgerTypeOK, ReleaseRow, DropLease, rowVars, stepVars, leaseVars

LEMMA StorePlanTyping ==
    ASSUME LedgerTypeOK, NEW t \in Tasks, NEW k, StorePlan(t, k)
    PROVE  LedgerTypeOK'
BY DEF LedgerTypeOK, StorePlan, leaseVars, stepVars

LEMMA DeferPlanningTyping ==
    ASSUME LedgerTypeOK, NEW t \in Tasks, NEW k, DeferPlanning(t, k)
    PROVE  LedgerTypeOK'
BY DEF LedgerTypeOK, DeferPlanning, DropLease, stepVars, ExecState, Active

LEMMA BecomeRunningTyping ==
    ASSUME LedgerTypeOK, NEW t \in Tasks, BecomeRunning(t)
    PROVE  /\ exec' \in [Tasks -> ExecState] /\ due' \in [Tasks -> BOOLEAN]
           /\ UNCHANGED <<planned, retries, outcome, settled, token, live>>
BY DEF LedgerTypeOK, BecomeRunning, leaseVars, ExecState, Active

LEMMA MoveStepTyping ==
    ASSUME LedgerTypeOK, NEW t \in Tasks, NEW s \in Steps, NEW to \in StepState,
           NEW a \in Tokens \cup {NoToken}, MoveStep(t, s, to, a)
    PROVE  /\ step' \in [Tasks -> [Steps -> StepState]]
           /\ attempt' \in [Tasks -> [Steps -> Tokens \cup {NoToken}]]
           /\ UNCHANGED review
BY DEF LedgerTypeOK, MoveStep

LEMMA PrepareStepTyping ==
    ASSUME LedgerTypeOK, NEW t \in Tasks, NEW k, NEW s \in Steps, PrepareStep(t, k, s)
    PROVE  LedgerTypeOK'
<1>1. step' \in [Tasks -> [Steps -> StepState]]
  BY DEF PrepareStep, LedgerTypeOK, StepState
<1>2. UNCHANGED <<attempt, review>> /\ BecomeRunning(t)
  BY DEF PrepareStep
<1> QED
  BY <1>1, <1>2, BecomeRunningTyping DEF LedgerTypeOK

LEMMA StartStepTyping ==
    ASSUME LedgerTypeOK, NEW t \in Tasks, NEW k \in Tokens, NEW s \in Steps, StartStep(t, k, s)
    PROVE  LedgerTypeOK'
<1>1. "started" \in StepState /\ k \in Tokens \cup {NoToken}
  BY DEF StepState
<1>2. MoveStep(t, s, "started", k) /\ UNCHANGED <<rowVars, leaseVars>>
  BY DEF StartStep
<1> QED
  BY <1>1, <1>2, MoveStepTyping DEF LedgerTypeOK, rowVars, leaseVars

LEMMA RestartStepTyping ==
    ASSUME LedgerTypeOK, NEW t \in Tasks, NEW k \in Tokens, NEW s \in Steps, NEW a,
           RestartStep(t, k, s, a)
    PROVE  LedgerTypeOK'
<1>1. "started" \in StepState /\ k \in Tokens \cup {NoToken}
  BY DEF StepState
<1>2. MoveStep(t, s, "started", k) /\ UNCHANGED <<rowVars, leaseVars>>
  BY DEF RestartStep
<1> QED
  BY <1>1, <1>2, MoveStepTyping DEF LedgerTypeOK, rowVars, leaseVars

LEMMA ResumeStepTyping ==
    ASSUME LedgerTypeOK, NEW t \in Tasks, NEW k \in Tokens, NEW s \in Steps, ResumeStep(t, k, s)
    PROVE  LedgerTypeOK'
<1>1. "started" \in StepState /\ k \in Tokens \cup {NoToken}
  BY DEF StepState
<1>2. MoveStep(t, s, "started", k) /\ BecomeRunning(t)
  BY DEF ResumeStep
<1> QED
  BY <1>1, <1>2, MoveStepTyping, BecomeRunningTyping DEF LedgerTypeOK

LEMMA CompleteStepTyping ==
    ASSUME LedgerTypeOK, NEW t \in Tasks, NEW k, NEW s \in Steps, NEW a,
           CompleteStep(t, k, s, a)
    PROVE  LedgerTypeOK'
<1>1. "succeeded" \in StepState /\ NoToken \in Tokens \cup {NoToken}
  BY DEF StepState
<1>2. MoveStep(t, s, "succeeded", NoToken) /\ UNCHANGED <<rowVars, leaseVars>>
  BY DEF CompleteStep
<1> QED
  BY <1>1, <1>2, MoveStepTyping DEF LedgerTypeOK, rowVars, leaseVars

LEMMA DeferStepTyping ==
    ASSUME LedgerTypeOK, NEW t \in Tasks, NEW k, NEW s \in Steps, NEW a, DeferStep(t, k, s, a)
    PROVE  LedgerTypeOK'
<1>1. "failed" \in StepState /\ NoToken \in Tokens \cup {NoToken}
  BY DEF StepState
<1>2. MoveStep(t, s, "failed", NoToken)
  BY DEF DeferStep
<1>3. /\ step' \in [Tasks -> [Steps -> StepState]]
      /\ attempt' \in [Tasks -> [Steps -> Tokens \cup {NoToken}]]
      /\ UNCHANGED review
  BY <1>1, <1>2, MoveStepTyping
<1>4. /\ exec' \in [Tasks -> ExecState] /\ due' \in [Tasks -> BOOLEAN]
      /\ retries' \in [Tasks -> Nat]
      /\ token' \in [Tasks -> Tokens \cup {NoToken}] /\ live' \in [Tasks -> BOOLEAN]
      /\ UNCHANGED <<planned, outcome, settled>>
  BY DEF DeferStep, DropLease, LedgerTypeOK, ExecState, Active
<1> QED
  BY <1>3, <1>4 DEF LedgerTypeOK

LEMMA ExhaustStepTyping ==
    ASSUME LedgerTypeOK, NEW t \in Tasks, NEW k, NEW s \in Steps, NEW a, ExhaustStep(t, k, s, a)
    PROVE  LedgerTypeOK'
<1>1. "failed" \in StepState /\ NoToken \in Tokens \cup {NoToken}
  BY DEF StepState
<1>2. MoveStep(t, s, "failed", NoToken)
  BY DEF ExhaustStep
<1>3. /\ step' \in [Tasks -> [Steps -> StepState]]
      /\ attempt' \in [Tasks -> [Steps -> Tokens \cup {NoToken}]]
      /\ UNCHANGED review
  BY <1>1, <1>2, MoveStepTyping
<1>4. /\ exec' \in [Tasks -> ExecState] /\ due' \in [Tasks -> BOOLEAN]
      /\ outcome' \in [Tasks -> Outcome]
      /\ UNCHANGED <<planned, retries, settled, token, live>>
  BY DEF ExhaustStep, LedgerTypeOK, ExecState, Active, Outcome, leaseVars
<1> QED
  BY <1>3, <1>4 DEF LedgerTypeOK

LEMMA ReviewStepTyping ==
    ASSUME LedgerTypeOK, NEW t \in Tasks, NEW k, NEW s \in Steps, NEW a, ReviewStep(t, k, s, a)
    PROVE  LedgerTypeOK'
<1>1. "manual_review" \in StepState /\ NoToken \in Tokens \cup {NoToken}
  BY DEF StepState
<1>2. MoveStep(t, s, "manual_review", NoToken)
  BY DEF ReviewStep
<1>3. /\ step' \in [Tasks -> [Steps -> StepState]]
      /\ attempt' \in [Tasks -> [Steps -> Tokens \cup {NoToken}]]
      /\ UNCHANGED review
  BY <1>1, <1>2, MoveStepTyping
<1>4. /\ exec' \in [Tasks -> ExecState]
      /\ token' \in [Tasks -> Tokens \cup {NoToken}] /\ live' \in [Tasks -> BOOLEAN]
      /\ UNCHANGED <<planned, due, retries, outcome, settled>>
  BY DEF ReviewStep, DropLease, LedgerTypeOK, ExecState
<1> QED
  BY <1>3, <1>4 DEF LedgerTypeOK

LEMMA CheckpointResultTyping ==
    ASSUME LedgerTypeOK, NEW t \in Tasks, NEW k, NEW n, NEW o \in {"succeeded", "failed"},
           CheckpointResult(t, k, n, o)
    PROVE  LedgerTypeOK'
BY DEF LedgerTypeOK, CheckpointResult, leaseVars, stepVars, ExecState, Active, Outcome

LEMMA SettlementTyping ==
    ASSUME LedgerTypeOK, NEW t \in Tasks, NEW k, SettleSuccess(t, k) \/ SettleFailure(t, k)
    PROVE  LedgerTypeOK'
<1>1. CASE SettleSuccess(t, k)
  BY <1>1, DeleteRowTyping DEF SettleSuccess
<1>2. CASE SettleFailure(t, k)
  BY <1>2 DEF LedgerTypeOK, SettleFailure, DropLease, stepVars, ExecState
<1> QED
  BY <1>1, <1>2

LEMMA IsolateRowTyping ==
    ASSUME LedgerTypeOK, NEW t \in Tasks, NEW k, IsolateRow(t, k)
    PROVE  LedgerTypeOK'
BY DEF LedgerTypeOK, IsolateRow, DropLease, ExecState

LEMMA RequestTyping ==
    ASSUME LedgerTypeOK, NEW t \in Tasks,
           RequestRetry(t) \/ DiscardFailed(t) \/ DiscardReview(t) \/ ResolveIsolated(t)
    PROVE  LedgerTypeOK'
<1>1. CASE RequestRetry(t)
  BY <1>1 DEF LedgerTypeOK, RequestRetry, DropLease, stepVars, ExecState, Active
<1>2. CASE DiscardFailed(t) \/ DiscardReview(t)
  BY <1>2, DeleteRowTyping DEF DiscardFailed, DiscardReview
<1>3. CASE ResolveIsolated(t)
  BY <1>3 DEF LedgerTypeOK, ResolveIsolated, ReturnToRetry, leaseVars, ExecState, Active
<1> QED
  BY <1>1, <1>2, <1>3

LEMMA ResolveStepTyping ==
    ASSUME LedgerTypeOK, NEW t \in Tasks, NEW s \in Steps, NEW to \in StepState,
           ResolveStep(t, s, to)
    PROVE  LedgerTypeOK'
BY DEF LedgerTypeOK, ResolveStep, ReturnToRetry, leaseVars, ExecState, Active

-----------------------------------------------------------------------------
(* What each place in a thread's program says of its task, token, operation *)

Committed == {"plan", "steps", "begin", "resume", "observe", "restart", "execute",
              "caught", "retry", "complete", "review", "settle", "failing", "finish"}
Acting == {"begin", "resume", "observe", "restart", "execute", "caught", "retry",
           "complete", "review"}

PlacedAt(w, l) ==
    /\ l # "idle" => job[w] \in Tasks
    /\ l \in Committed => key[w] \in Tokens
    /\ l \in Acting => op[w] \in Steps

ThreadOK ==
    /\ pc   \in [Workers -> Pc]
    /\ job  \in [Workers -> Tasks \cup {NoTask}]
    /\ key  \in [Workers -> Tokens \cup {NoToken}]
    /\ op   \in [Workers -> 1..NSteps + 1]
    /\ seen \in [Workers -> Tokens \cup {NoToken}]
    /\ \A w \in Workers : PlacedAt(w, pc[w])

WorldOK == world \in [Tasks -> [Steps -> Effect]]

MemoryOK ==
    /\ queue \subseteq Item
    /\ owned \in [Tasks -> Tokens \cup {NoToken}]
    /\ submitting \in Tasks \cup {NoTask}
    /\ recovering \in Item \cup {NoItem}

BudgetOK ==
    /\ crashes \in 0..MaxCrashes /\ stalls \in 0..MaxStalls
    /\ faults \in 0..MaxFaults   /\ requests \in 0..MaxRequests

Typing == LedgerTypeOK /\ WorldOK /\ MemoryOK /\ ThreadOK /\ BudgetOK

LEMMA GotoTyping ==
    ASSUME ThreadOK, NEW w \in Workers, NEW l \in Pc, PlacedAt(w, l),
           Goto(w, l), UNCHANGED <<job, key, op>>,
           seen' \in [Workers -> Tokens \cup {NoToken}]
    PROVE  ThreadOK'
BY DEF ThreadOK, PlacedAt, Goto

LEMMA HoldTyping ==
    ASSUME ThreadOK, NEW w \in Workers, NEW a \in Tokens \cup {NoToken}, Hold(w, a)
    PROVE  seen' \in [Workers -> Tokens \cup {NoToken}]
BY DEF ThreadOK, Hold

LEMMA ClaimTyping ==
    ASSUME MemoryOK, NEW t \in Tasks, NEW k \in Tokens, Own(t, k)
    PROVE  owned' \in [Tasks -> Tokens \cup {NoToken}]
BY DEF MemoryOK, Own

LEMMA ForgetTyping ==
    ASSUME MemoryOK, NEW t \in Tasks, NEW k, Forget(t, k)
    PROVE  owned' \in [Tasks -> Tokens \cup {NoToken}]
BY DEF MemoryOK, Forget

LEMMA AdmitTyping ==
    ASSUME LedgerTypeOK, WorldOK, NEW t \in Tasks, Persist(t)
    PROVE  LedgerTypeOK' /\ WorldOK'
<1>1. CASE Admit(t)
  <2>1. LedgerTypeOK'
    BY <1>1, InsertRowTyping DEF Admit
  <2>2. Pristine \in [Steps -> Effect]
    BY DEF Pristine, Effect
  <2>3. WorldOK'
    BY <1>1, <2>2 DEF Admit, WorldOK
  <2> QED
    BY <2>1, <2>3
<1>2. CASE UNCHANGED <<ledgerVars, world>>
  BY <1>2 DEF ledgerVars, LedgerTypeOK, WorldOK
<1> QED
  BY <1>1, <1>2 DEF Persist

\* An item of the queue, or the claim of the scan, is a task with its token.
LEMMA RecoveringIsItem ==
    ASSUME MemoryOK, recovering # NoItem
    PROVE  recovering.task \in Tasks /\ recovering.key \in Tokens
BY DEF MemoryOK, Item
-----------------------------------------------------------------------------
(* Type correctness, one lemma per kind of step                            *)

LEMMA QuietTyping ==
    ASSUME Typing, Quiet
    PROVE  WorldOK' /\ MemoryOK' /\ BudgetOK'
BY DEF Typing, Quiet, queueVars, budgetVars, WorldOK, MemoryOK, BudgetOK

LEMMA LedgerUnchangedTyping ==
    ASSUME LedgerTypeOK, UNCHANGED ledgerVars
    PROVE  LedgerTypeOK'
BY DEF LedgerTypeOK, ledgerVars

\* What a thread knows where it stands.
LEMMA PlaceTyping ==
    ASSUME ThreadOK, NEW w \in Workers
    PROVE  /\ pc[w] \in Pc
           /\ pc[w] # "idle" => job[w] \in Tasks
           /\ pc[w] \in Committed => key[w] \in Tokens
           /\ pc[w] \in Acting => op[w] \in Steps
           /\ key[w] \in Tokens \cup {NoToken} /\ seen[w] \in Tokens \cup {NoToken}
           /\ op[w] \in 1..NSteps + 1
BY DEF ThreadOK, PlacedAt

\* A step that only moves the thread keeps what its place needs.
LEMMA StayTyping ==
    ASSUME Typing, NEW w \in Workers, NEW l \in Pc, Goto(w, l), Stay,
           pc[w] # "idle", l \in Committed => pc[w] \in Committed,
           l \in Acting => pc[w] \in Acting
    PROVE  ThreadOK'
<1>1. ThreadOK /\ PlacedAt(w, l)
  BY PlaceTyping DEF Typing, PlacedAt
<1>2. seen' \in [Workers -> Tokens \cup {NoToken}] /\ UNCHANGED <<job, key, op>>
  BY <1>1 DEF Stay, ThreadOK
<1> QED
  BY <1>1, <1>2, GotoTyping

LEMMA TypingPlan ==
    ASSUME Typing, NEW w \in Workers, Planning(w)
    PROVE  Typing'
<1> USE DEF Committed, Acting, Pc
<1>1. ThreadOK /\ LedgerTypeOK
  BY DEF Typing
<1>2. pc[w] = "plan" /\ Stay /\ Quiet
  BY DEF Planning, PlanStored, PlanSettling, PlanDeferred, Step
<1>3. job[w] \in Tasks
  BY <1>1, <1>2, PlaceTyping
<1>4. ThreadOK'
  <2>1. \/ Goto(w, "steps") \/ Goto(w, "settle") \/ Goto(w, "finish")
    BY DEF Planning, PlanStored, PlanSettling, PlanDeferred, Step
  <2> QED
    BY <1>2, <2>1, StayTyping
<1>5. LedgerTypeOK'
  BY <1>1, <1>3, StorePlanTyping, DeferPlanningTyping, LedgerUnchangedTyping
     DEF Planning, PlanStored, PlanSettling, PlanDeferred
<1> QED
  BY <1>2, <1>4, <1>5, QuietTyping DEF Typing

LEMMA TypingPrepare ==
    ASSUME Typing, NEW w \in Workers, Prepare(w)
    PROVE  Typing'
<1>1. ThreadOK /\ LedgerTypeOK /\ NSteps \in Nat
  BY LedgerAssumption DEF Typing
<1>2. /\ pc[w] = "steps" /\ op[w] <= NSteps /\ PrepareStep(job[w], key[w], op[w])
      /\ Hold(w, attempt[job[w]][op[w]]) /\ UNCHANGED <<job, key>> /\ Quiet
  BY DEF Prepare
<1>3. job[w] \in Tasks /\ key[w] \in Tokens /\ op[w] \in Steps
  BY <1>1, <1>2, PlaceTyping DEF Committed, Steps
<1>4. seen' \in [Workers -> Tokens \cup {NoToken}]
  <2>1. attempt[job[w]][op[w]] \in Tokens \cup {NoToken}
    BY <1>1, <1>3 DEF LedgerTypeOK
  <2> QED
    BY <1>1, <1>2, <2>1, HoldTyping
<1>5. ThreadOK'
  <2> DEFINE was == step[job[w]][op[w]]
  <2>1. was \in StepState \ {"manual_review"}
    BY <1>1, <1>3 DEF LedgerTypeOK, Prepare
  <2>2. CASE was = "succeeded"
    <3>1. Goto(w, "steps")
      BY <2>2 DEF Prepare, AfterPrepare
    <3>2. op' = [op EXCEPT ![w] = op[w] + 1]
      BY <2>2 DEF Prepare
    <3>3. op[w] + 1 \in 1..NSteps + 1
      BY <1>1, <1>3 DEF Steps
    <3> QED
      BY <1>1, <1>2, <1>3, <1>4, <3>1, <3>2, <3>3
         DEF ThreadOK, PlacedAt, Goto, Pc, Committed, Acting
  <2>3. CASE was # "succeeded"
    <3>1. Goto(w, AfterPrepare[was]) /\ op' = [op EXCEPT ![w] = op[w]]
      BY <2>3 DEF Prepare
    <3>2. AfterPrepare[was] \in {"begin", "resume", "observe"}
      BY <2>1, <2>3 DEF AfterPrepare, StepState
    <3>3. UNCHANGED op
      BY <1>1, <3>1 DEF ThreadOK
    <3>4. AfterPrepare[was] \in Pc /\ PlacedAt(w, AfterPrepare[was])
      BY <1>3, <3>2 DEF Pc, PlacedAt
    <3> HIDE DEF was
    <3> QED
      BY <1>1, <1>2, <1>4, <3>1, <3>3, <3>4, GotoTyping
  <2> QED
    BY <2>2, <2>3
<1>6. LedgerTypeOK'
  BY <1>1, <1>2, <1>3, PrepareStepTyping
<1> QED
  BY <1>2, <1>5, <1>6, QuietTyping DEF Typing

LEMMA TypingBegin ==
    ASSUME Typing, NEW w \in Workers, Begin(w) \/ Resume(w) \/ Restart(w)
    PROVE  Typing'
<1>1. ThreadOK /\ LedgerTypeOK
  BY DEF Typing
<1>2. /\ pc[w] \in {"begin", "resume", "restart"} /\ Goto(w, "execute")
      /\ Hold(w, key[w]) /\ UNCHANGED <<job, key, op>> /\ Quiet
  BY DEF Begin, Resume, Restart, Step
<1>3. job[w] \in Tasks /\ key[w] \in Tokens /\ op[w] \in Steps
  BY <1>1, <1>2, PlaceTyping DEF Committed, Acting
<1>4. ThreadOK'
  <2>1. "execute" \in Pc /\ PlacedAt(w, "execute")
    BY <1>3 DEF Pc, PlacedAt
  <2>2. seen' \in [Workers -> Tokens \cup {NoToken}]
    BY <1>1, <1>2, <1>3, HoldTyping
  <2> QED
    BY <1>1, <1>2, <2>1, <2>2, GotoTyping
<1>5. LedgerTypeOK'
  BY <1>1, <1>3, StartStepTyping, ResumeStepTyping, RestartStepTyping
     DEF Begin, Resume, Restart
<1> QED
  BY <1>2, <1>4, <1>5, QuietTyping DEF Typing
LEMMA TypingExecute ==
    ASSUME Typing, NEW w \in Workers, Executing(w) \/ Observe(w) \/ EffectLands(w)
    PROVE  Typing'
<1>1. ThreadOK /\ LedgerTypeOK /\ WorldOK
  BY DEF Typing
<1>2. pc[w] \in {"execute", "observe", "caught"} /\ UNCHANGED ledgerVars
  BY DEF Executing, ExecuteReturns, ExecuteRaises, Observe, EffectLands, Step
<1>3. LedgerTypeOK'
  BY <1>1, <1>2, LedgerUnchangedTyping
<1>4. CASE EffectLands(w)
  <2>1. job[w] \in Tasks /\ op[w] \in Steps
    BY <1>1, <1>2, PlaceTyping DEF Acting
  <2>2. WorldOK'
    BY <1>1, <1>4, <2>1 DEF EffectLands, WorldOK
  <2>3. ThreadOK' /\ MemoryOK' /\ BudgetOK'
    BY <1>4 DEF EffectLands, Typing, threadVars, queueVars, budgetVars,
                ThreadOK, PlacedAt, MemoryOK, BudgetOK
  <2> QED
    BY <1>3, <2>2, <2>3 DEF Typing
<1>5. CASE Executing(w) \/ Observe(w)
  <2>1. PICK l \in {"complete", "caught", "review", "restart", "retry"} : Goto(w, l)
    BY <1>5 DEF Executing, ExecuteReturns, ExecuteRaises, Observe, Step
  <2>2. Stay /\ Quiet
    BY <1>5 DEF Executing, ExecuteReturns, ExecuteRaises, Observe
  <2>3. ThreadOK'
    BY <1>2, <2>1, <2>2, StayTyping DEF Pc, Committed, Acting
  <2> QED
    BY <1>3, <2>2, <2>3, QuietTyping DEF Typing
<1> QED
  BY <1>4, <1>5

LEMMA TypingRecord ==
    ASSUME Typing, NEW w \in Workers, Recording(w)
    PROVE  Typing'
<1>1. ThreadOK /\ LedgerTypeOK /\ NSteps \in Nat
  BY LedgerAssumption DEF Typing
<1>2. pc[w] \in {"complete", "review", "retry"} /\ Quiet
  BY DEF Recording, Complete, SendToReview, Defer, Exhaust, Step
<1>3. job[w] \in Tasks /\ key[w] \in Tokens /\ op[w] \in Steps
  BY <1>1, <1>2, PlaceTyping DEF Committed, Acting
<1>4. LedgerTypeOK'
  BY <1>1, <1>3, CompleteStepTyping, ReviewStepTyping, DeferStepTyping, ExhaustStepTyping
     DEF Recording, Complete, SendToReview, Defer, Exhaust
<1>5. CASE Complete(w)
  <2>1. /\ Goto(w, "steps") /\ op' = [op EXCEPT ![w] = op[w] + 1]
        /\ UNCHANGED <<job, key, seen>>
    BY <1>5 DEF Complete, Step
  <2>2. op[w] + 1 \in 1..NSteps + 1
    BY <1>1, <1>3 DEF Steps
  <2>3. ThreadOK'
    BY <1>1, <1>3, <2>1, <2>2 DEF ThreadOK, PlacedAt, Goto, Pc, Committed, Acting
  <2> QED
    BY <1>2, <1>4, <2>3, QuietTyping DEF Typing
<1>6. CASE SendToReview(w) \/ Defer(w) \/ Exhaust(w)
  <2>1. Stay /\ (Goto(w, "finish") \/ Goto(w, "settle"))
    BY <1>6 DEF SendToReview, Defer, Exhaust, Step
  <2>2. ThreadOK'
    BY <1>2, <2>1, StayTyping DEF Pc, Committed, Acting
  <2> QED
    BY <1>2, <1>4, <2>2, QuietTyping DEF Typing
<1> QED
  BY <1>5, <1>6 DEF Recording

LEMMA TypingConclude ==
    ASSUME Typing, NEW w \in Workers, Checkpoint(w) \/ Settle(w) \/ Fenced(w) \/ Isolate(w)
    PROVE  Typing'
<1>1. ThreadOK /\ LedgerTypeOK
  BY DEF Typing
<1>2. /\ pc[w] \in Committed /\ pc[w] # "idle" /\ Stay /\ Quiet
      /\ Goto(w, "settle") \/ Goto(w, "finish")
  BY DEF Checkpoint, Settle, Fenced, Isolate, Step, Committing, Committed
<1>3. job[w] \in Tasks
  BY <1>1, <1>2, PlaceTyping
<1>4. ThreadOK'
  BY <1>2, StayTyping DEF Pc, Committed, Acting
<1>5. LedgerTypeOK'
  BY <1>1, <1>3, CheckpointResultTyping, SettlementTyping, IsolateRowTyping,
     LedgerUnchangedTyping DEF Checkpoint, Settle, Fenced, Isolate
<1> QED
  BY <1>2, <1>4, <1>5, QuietTyping DEF Typing

LEMMA TypingFinish ==
    ASSUME Typing, NEW w \in Workers, Finish(w)
    PROVE  Typing'
<1>1. ThreadOK /\ LedgerTypeOK /\ MemoryOK
  BY DEF Typing
<1>2. /\ pc[w] = "finish" /\ Goto(w, "leave") /\ Stay
      /\ ReleaseRow(job[w], key[w]) /\ Forget(job[w], key[w])
      /\ UNCHANGED <<world, queue, submitting, recovering, budgetVars>>
  BY DEF Finish, Step
<1>3. job[w] \in Tasks
  BY <1>1, <1>2, PlaceTyping
<1>4. ThreadOK'
  BY <1>2, StayTyping DEF Pc, Committed, Acting
<1>5. LedgerTypeOK'
  BY <1>1, <1>2, <1>3, ReleaseRowTyping
<1>6. owned' \in [Tasks -> Tokens \cup {NoToken}]
  BY <1>1, <1>2, <1>3, ForgetTyping
<1>7. WorldOK' /\ MemoryOK' /\ BudgetOK'
  BY <1>2, <1>6 DEF Typing, WorldOK, MemoryOK, BudgetOK, budgetVars
<1> QED
  BY <1>4, <1>5, <1>7 DEF Typing

LEMMA TypingLeave ==
    ASSUME Typing, NEW w \in Workers, Leave(w)
    PROVE  Typing'
<1>1. ThreadOK /\ LedgerTypeOK /\ NSteps \in Nat
  BY LedgerAssumption DEF Typing
<1>2. 1 \in 1..NSteps + 1
  BY <1>1
<1>3. ThreadOK'
  BY <1>1, <1>2 DEF Leave, Step, Goto, Hold, ThreadOK, PlacedAt, Pc, Committed, Acting
<1>4. LedgerTypeOK' /\ Quiet
  BY <1>1, LedgerUnchangedTyping DEF Leave
<1> QED
  BY <1>3, <1>4, QuietTyping DEF Typing
LEMMA TypingStart ==
    ASSUME Typing, NEW w \in Workers, Starting(w)
    PROVE  Typing'
<1>1. ThreadOK /\ LedgerTypeOK /\ MemoryOK /\ WorldOK /\ BudgetOK
  BY DEF Typing
<1>2. CASE ForegroundAdmit(w)
  <2>1. pc[w] = "admit" /\ Goto(w, "claim") /\ Stay /\ UNCHANGED <<queueVars, budgetVars>>
    BY <1>2 DEF ForegroundAdmit, Step
  <2>2. job[w] \in Tasks /\ Persist(job[w])
    BY <1>1, <1>2, <2>1, PlaceTyping DEF ForegroundAdmit
  <2>3. ThreadOK'
    BY <2>1, StayTyping DEF Pc, Committed, Acting
  <2>4. MemoryOK' /\ BudgetOK'
    BY <1>1, <2>1 DEF MemoryOK, BudgetOK, queueVars, budgetVars
  <2> QED
    BY <1>1, <2>2, <2>3, <2>4, AdmitTyping DEF Typing
<1>3. CASE ForegroundClaim(w)
  <2>1. /\ pc[w] = "claim" /\ Goto(w, "plan")
        /\ UNCHANGED <<world, queue, submitting, recovering, job, op, seen, budgetVars>>
    BY <1>3 DEF ForegroundClaim, Step
  <2>2. job[w] \in Tasks
    BY <1>1, <2>1, PlaceTyping
  <2>3. PICK k \in Tokens : ClaimRow(job[w], k) /\ Own(job[w], k) /\ key' = [key EXCEPT ![w] = k]
    BY <1>3 DEF ForegroundClaim
  <2>4. LedgerTypeOK' /\ owned' \in [Tasks -> Tokens \cup {NoToken}]
    BY <1>1, <2>2, <2>3, ClaimRowTyping, ClaimTyping
  <2>5. ThreadOK'
    BY <1>1, <2>1, <2>2, <2>3 DEF ThreadOK, PlacedAt, Goto, Pc, Committed, Acting
  <2>6. WorldOK' /\ MemoryOK' /\ BudgetOK'
    BY <1>1, <2>1, <2>4 DEF WorldOK, MemoryOK, BudgetOK, budgetVars
  <2> QED
    BY <2>4, <2>5, <2>6 DEF Typing
<1>4. CASE ForegroundLost(w)
  <2>1. pc[w] = "claim" /\ Goto(w, "leave") /\ Stay /\ Quiet /\ UNCHANGED ledgerVars
    BY <1>4 DEF ForegroundLost, Step
  <2>2. ThreadOK'
    BY <2>1, StayTyping DEF Pc, Committed, Acting
  <2> QED
    BY <1>1, <2>1, <2>2, LedgerUnchangedTyping, QuietTyping DEF Typing
<1>5. CASE Take(w)
  <2>1. PICK i \in queue : /\ queue' = queue \ {i}
                           /\ job' = [job EXCEPT ![w] = i.task]
                           /\ key' = [key EXCEPT ![w] = i.key]
                           /\ Goto(w, IF owned[i.task] = i.key THEN "plan" ELSE "finish")
    BY <1>5 DEF Take
  <2>2. i.task \in Tasks /\ i.key \in Tokens
    BY <1>1 DEF MemoryOK, Item
  <2>3. UNCHANGED <<ledgerVars, world, owned, submitting, recovering, op, seen, budgetVars>>
    BY <1>5 DEF Take
  <2>4. ThreadOK'
    BY <1>1, <2>1, <2>2, <2>3 DEF ThreadOK, PlacedAt, Goto, Pc, Committed, Acting
  <2>5. LedgerTypeOK'
    BY <1>1, <2>3, LedgerUnchangedTyping
  <2>6. WorldOK' /\ MemoryOK' /\ BudgetOK'
    BY <1>1, <2>1, <2>3 DEF WorldOK, MemoryOK, BudgetOK, budgetVars
  <2> QED
    BY <2>4, <2>5, <2>6 DEF Typing
<1> QED
  BY <1>2, <1>3, <1>4, <1>5 DEF Starting

LEMMA TypingForegroundTake ==
    ASSUME Typing, NEW w \in Workers, NEW t \in Tasks, ForegroundTake(w, t)
    PROVE  Typing'
<1>1. ThreadOK'
  BY DEF Typing, ForegroundTake, Step, Goto, ThreadOK, PlacedAt, Pc, Committed, Acting
<1>2. LedgerTypeOK' /\ WorldOK' /\ MemoryOK'
  BY LedgerUnchangedTyping DEF Typing, ForegroundTake, WorldOK, MemoryOK, queueVars
<1>3. BudgetOK'
  BY WorkerAssumption DEF Typing, ForegroundTake, BudgetOK
<1> QED
  BY <1>1, <1>2, <1>3 DEF Typing

LEMMA TypingFault ==
    ASSUME Typing, NEW w \in Workers, PlanFails(w) \/ Raise(w)
    PROVE  Typing'
<1>1. /\ pc[w] \in Committed /\ pc[w] # "idle" /\ Stay
      /\ Goto(w, "failing") \/ Goto(w, "finish")
      /\ faults < MaxFaults /\ faults' = faults + 1
      /\ UNCHANGED <<ledgerVars, world, queueVars, crashes, stalls, requests>>
  BY DEF PlanFails, Raise, Step, Committing, Committed
<1>2. ThreadOK'
  BY <1>1, StayTyping DEF Pc, Committed, Acting
<1>3. LedgerTypeOK' /\ WorldOK' /\ MemoryOK'
  BY <1>1, LedgerUnchangedTyping DEF Typing, WorldOK, MemoryOK, queueVars
<1>4. BudgetOK'
  BY <1>1, WorkerAssumption DEF Typing, BudgetOK
<1> QED
  BY <1>2, <1>3, <1>4 DEF Typing

LEMMA ThreadsUnchangedTyping ==
    ASSUME Typing, UNCHANGED threadVars
    PROVE  ThreadOK'
BY DEF Typing, ThreadOK, PlacedAt, threadVars

LEMMA TypingSubmit ==
    ASSUME Typing, Submitting \/ \E t \in Tasks : SubmitAdmit(t)
    PROVE  Typing'
<1>1. LedgerTypeOK /\ MemoryOK /\ WorldOK /\ BudgetOK
  BY DEF Typing
<1>2. UNCHANGED threadVars
  BY DEF Submitting, SubmitClaim, SubmitLost, SubmitAdmit
<1>3. ThreadOK'
  BY <1>2, ThreadsUnchangedTyping
<1>4. ASSUME NEW t \in Tasks, SubmitAdmit(t)
      PROVE  Typing'
  <2>1. LedgerTypeOK' /\ WorldOK'
    BY <1>1, <1>4, AdmitTyping DEF SubmitAdmit
  <2>2. MemoryOK'
    BY <1>1, <1>4 DEF SubmitAdmit, MemoryOK
  <2>3. BudgetOK'
    BY <1>1, <1>4, WorkerAssumption DEF SubmitAdmit, BudgetOK
  <2> QED
    BY <1>3, <2>1, <2>2, <2>3 DEF Typing
<1>5. CASE SubmitClaim
  <2>1. submitting \in Tasks
    BY <1>1, <1>5 DEF SubmitClaim, MemoryOK
  <2>2. PICK k \in Tokens : /\ ClaimRow(submitting, k) /\ Own(submitting, k)
                            /\ queue' = queue \cup {[task |-> submitting, key |-> k]}
    BY <1>5 DEF SubmitClaim
  <2>3. LedgerTypeOK' /\ owned' \in [Tasks -> Tokens \cup {NoToken}]
    BY <1>1, <2>1, <2>2, ClaimRowTyping, ClaimTyping
  <2>4. queue' \subseteq Item
    BY <1>1, <2>1, <2>2 DEF MemoryOK, Item
  <2>5. WorldOK' /\ MemoryOK' /\ BudgetOK'
    BY <1>1, <1>5, <2>3, <2>4 DEF SubmitClaim, WorldOK, MemoryOK, BudgetOK, budgetVars
  <2> QED
    BY <1>3, <2>3, <2>5 DEF Typing
<1>6. CASE SubmitLost
  <2>1. LedgerTypeOK'
    BY <1>1, <1>6, LedgerUnchangedTyping DEF SubmitLost
  <2>2. WorldOK' /\ MemoryOK' /\ BudgetOK'
    BY <1>1, <1>6 DEF SubmitLost, WorldOK, MemoryOK, BudgetOK, budgetVars
  <2> QED
    BY <1>3, <2>1, <2>2 DEF Typing
<1> QED
  BY <1>4, <1>5, <1>6 DEF Submitting
LEMMA TypingRecoverClaim ==
    ASSUME Typing, NEW t \in Tasks, RecoverClaim(t)
    PROVE  Typing'
<1>1. LedgerTypeOK /\ MemoryOK /\ WorldOK /\ BudgetOK
  BY DEF Typing
<1>2. PICK k \in Tokens : ClaimRow(t, k) /\ Own(t, k) /\ recovering' = [task |-> t, key |-> k]
  BY DEF RecoverClaim
<1>3. UNCHANGED <<world, queue, submitting, threadVars, budgetVars>>
  BY DEF RecoverClaim
<1>4. LedgerTypeOK' /\ owned' \in [Tasks -> Tokens \cup {NoToken}]
  BY <1>1, <1>2, ClaimRowTyping, ClaimTyping
<1>5. recovering' \in Item
  BY <1>2 DEF Item
<1>6. WorldOK' /\ MemoryOK' /\ BudgetOK'
  BY <1>1, <1>3, <1>4, <1>5 DEF WorldOK, MemoryOK, BudgetOK, budgetVars
<1> QED
  BY <1>3, <1>4, <1>6, ThreadsUnchangedTyping DEF Typing

LEMMA TypingRecover ==
    ASSUME Typing, Recovering \/ RecoverFails
    PROVE  Typing'
<1> DEFINE t == recovering.task
           k == recovering.key
<1>1. LedgerTypeOK /\ MemoryOK /\ WorldOK /\ BudgetOK
  BY DEF Typing
<1>2. recovering # NoItem
  BY DEF Recovering, RecoverEnqueue, RecoverRefused, RecoverAbandon, RecoverFails
<1>3. t \in Tasks /\ k \in Tokens
  BY <1>1, <1>2, RecoveringIsItem
<1>4. UNCHANGED <<world, submitting, threadVars, crashes, stalls, requests>>
  BY DEF Recovering, RecoverEnqueue, RecoverRefused, RecoverAbandon, RecoverFails,
         GiveBack, budgetVars
<1>5. ThreadOK' /\ WorldOK'
  BY <1>1, <1>4, ThreadsUnchangedTyping DEF WorldOK
<1>6. BudgetOK'
  <2>1. \/ UNCHANGED faults
        \/ faults < MaxFaults /\ faults' = faults + 1
    BY DEF Recovering, RecoverEnqueue, RecoverRefused, RecoverAbandon, RecoverFails, budgetVars
  <2> QED
    BY <1>1, <1>4, <2>1, WorkerAssumption DEF BudgetOK
<1>7. CASE RecoverEnqueue
  <2>1. LedgerTypeOK'
    BY <1>1, <1>7, LedgerUnchangedTyping DEF RecoverEnqueue
  <2>2. MemoryOK'
    BY <1>1, <1>2, <1>7 DEF RecoverEnqueue, MemoryOK
  <2> QED
    BY <1>5, <1>6, <2>1, <2>2 DEF Typing
<1>8. CASE RecoverRefused \/ RecoverAbandon \/ RecoverFails
  <2>1. /\ ReleaseRow(t, k) \/ AbandonRow(t, k)
        /\ Forget(t, k) /\ recovering' = NoItem /\ UNCHANGED queue
    BY <1>8 DEF RecoverRefused, RecoverAbandon, RecoverFails, GiveBack
  <2>2. LedgerTypeOK'
    BY <1>1, <1>3, <2>1, ReleaseRowTyping, DeleteRowTyping DEF AbandonRow
  <2>3. owned' \in [Tasks -> Tokens \cup {NoToken}]
    BY <1>1, <1>3, <2>1, ForgetTyping
  <2>4. MemoryOK'
    BY <1>1, <1>4, <2>1, <2>3 DEF MemoryOK
  <2> QED
    BY <1>5, <1>6, <2>2, <2>4 DEF Typing
<1> QED
  BY <1>7, <1>8 DEF Recovering

LEMMA TypingAsk ==
    ASSUME Typing, NEW t \in Tasks, Asking(t)
    PROVE  Typing'
<1>1. LedgerTypeOK /\ MemoryOK /\ WorldOK /\ BudgetOK
  BY DEF Typing
<1>2. Request /\ Aside
  BY DEF Asking, Retry, Discard, ResolveUnhandled, Resolve
<1>3. ThreadOK' /\ MemoryOK'
  BY <1>1, <1>2, ThreadsUnchangedTyping DEF Aside, MemoryOK, queueVars
<1>4. BudgetOK'
  BY <1>1, <1>2, WorkerAssumption DEF Request, Aside, BudgetOK
<1>5. CASE Retry(t) \/ Discard(t) \/ ResolveUnhandled(t)
  <2>1. LedgerTypeOK' /\ UNCHANGED world
    BY <1>1, <1>5, RequestTyping DEF Retry, Discard, ResolveUnhandled
  <2> QED
    BY <1>1, <1>3, <1>4, <2>1 DEF Typing, WorldOK
<1>6. ASSUME NEW s \in Steps, Resolve(t, s)
      PROVE  Typing'
  <2>1. \/ ResolveStep(t, s, "succeeded") /\ world' = [world EXCEPT ![t][s] = "applied"]
        \/ ResolveStep(t, s, "failed")    /\ world' = [world EXCEPT ![t][s] = "untouched"]
    BY <1>6 DEF Resolve
  <2>2. "succeeded" \in StepState /\ "failed" \in StepState
    BY DEF StepState
  <2>3. LedgerTypeOK'
    BY <1>1, <2>1, <2>2, ResolveStepTyping
  <2>4. WorldOK'
    BY <1>1, <2>1 DEF WorldOK, Effect
  <2> QED
    BY <1>3, <1>4, <2>3, <2>4 DEF Typing
<1> QED
  BY <1>5, <1>6 DEF Asking

LEMMA TypingTime ==
    ASSUME Typing, NEW t \in Tasks, LeaseExpires(t) \/ HeartbeatFails(t) \/ RetryDue(t)
    PROVE  Typing'
<1>1. LedgerTypeOK /\ MemoryOK /\ WorldOK /\ BudgetOK
  BY DEF Typing
<1>2. UNCHANGED <<world, queue, submitting, recovering, threadVars, crashes, faults, requests>>
  BY DEF LeaseExpires, HeartbeatFails, RetryDue, queueVars, budgetVars
<1>3. LedgerTypeOK'
  <2>1. CASE LeaseExpires(t)
    BY <1>1, <2>1 DEF LeaseExpires, LedgerTypeOK, rowVars, stepVars
  <2>2. CASE HeartbeatFails(t)
    BY <1>1, <2>2, LedgerUnchangedTyping DEF HeartbeatFails
  <2>3. CASE RetryDue(t)
    BY <1>1, <2>3 DEF RetryDue, LedgerTypeOK, leaseVars, stepVars
  <2> QED
    BY <2>1, <2>2, <2>3
<1>4. owned' \in [Tasks -> Tokens \cup {NoToken}]
  BY <1>1 DEF LeaseExpires, HeartbeatFails, RetryDue, MemoryOK, queueVars
<1>5. stalls' \in 0..MaxStalls
  BY <1>1, WorkerAssumption DEF LeaseExpires, HeartbeatFails, RetryDue, BudgetOK, budgetVars
<1>6. WorldOK' /\ MemoryOK' /\ BudgetOK'
  BY <1>1, <1>2, <1>4, <1>5 DEF WorldOK, MemoryOK, BudgetOK
<1> QED
  BY <1>2, <1>3, <1>6, ThreadsUnchangedTyping DEF Typing

LEMMA TypingCrash ==
    ASSUME Typing, Crash
    PROVE  Typing'
<1>1. LedgerTypeOK /\ MemoryOK /\ WorldOK /\ BudgetOK
  BY DEF Typing
<1>2. LedgerTypeOK' /\ WorldOK' /\ BudgetOK'
  BY <1>1, LedgerUnchangedTyping, WorkerAssumption DEF Crash, WorldOK, BudgetOK
<1>3. MemoryOK'
  BY DEF Crash, MemoryOK
<1>4. 1 \in 1..NSteps + 1
  BY LedgerAssumption
<1>5. ThreadOK'
  BY <1>4 DEF Crash, ThreadOK, PlacedAt, Pc, Committed, Acting
<1> QED
  BY <1>2, <1>3, <1>5 DEF Typing

LEMMA TypingInit == Init => Typing
<1> SUFFICES ASSUME Init PROVE Typing
  OBVIOUS
<1>1. LedgerTypeOK
  BY LedgerAssumption DEF Init, LedgerInit, LedgerTypeOK, ExecState, Outcome, StepState
<1>2. WorldOK /\ MemoryOK
  BY DEF Init, MemoryInit, Pristine, Effect, WorldOK, MemoryOK
<1>3. ThreadOK
  BY LedgerAssumption DEF Init, MemoryInit, ThreadOK, PlacedAt, Pc, Committed, Acting
<1>4. BudgetOK
  BY WorkerAssumption DEF Init, BudgetOK
<1> QED
  BY <1>1, <1>2, <1>3, <1>4 DEF Typing

LEMMA TypingStep == Typing /\ [Next]_vars => Typing'
<1> SUFFICES ASSUME Typing, [Next]_vars PROVE Typing'
  OBVIOUS
<1>1. ASSUME NEW w \in Workers, Progress(w) \/ Mishap(w)
      PROVE  Typing'
  BY <1>1, TypingPlan, TypingPrepare, TypingBegin, TypingExecute, TypingRecord,
     TypingConclude, TypingFinish, TypingLeave, TypingStart, TypingFault
     DEF Progress, Mishap, Running, Ending
<1>2. CASE UNCHANGED vars
  BY <1>2, LedgerUnchangedTyping, ThreadsUnchangedTyping
     DEF vars, Typing, WorldOK, MemoryOK, BudgetOK, queueVars, budgetVars
<1> QED
  BY <1>1, <1>2, TypingForegroundTake, TypingSubmit, TypingRecoverClaim, TypingRecover,
     TypingAsk, TypingTime, TypingCrash DEF Next

LEMMA TypingInvariant == Spec => []Typing
<1>1. QED
  BY TypingInit, TypingStep, PTL DEF Spec

\* Every thread, the scan, the queue and the ledger keep values of their
\* types, and a thread past its admission has a task and its lease token.
THEOREM TransferTypeOK == Spec => []TypeOK
<1>1. Typing => TypeOK
  BY DEF Typing, ThreadOK, WorldOK, MemoryOK, BudgetOK, TypeOK
<1>2. QED
  BY <1>1, TypingInvariant, PTL

-----------------------------------------------------------------------------
(* The leases that the heartbeat renews                                    *)

\* A thread that leaves has forgotten the lease of its task.
InCharge(t, k) ==
    \/ recovering = [task |-> t, key |-> k]
    \/ [task |-> t, key |-> k] \in queue
    \/ \E w \in Workers : job[w] = t /\ key[w] = k /\ pc[w] # "leave"

Charged ==
    /\ \A t \in Tasks : owned[t] # NoToken => InCharge(t, owned[t])
    /\ \A w \in Workers : pc[w] \in {"idle", "admit", "claim"} => key[w] = NoToken

\* A thread that goes on with its task, its token and its lease.
LEMMA ChargedMove ==
    ASSUME Charged, Typing, NEW v \in Workers, NEW l, Goto(v, l), l # "leave",
           l \in {"idle", "admit", "claim"} => pc[v] \in {"idle", "admit", "claim"},
           UNCHANGED <<recovering, owned, queue, job, key>>
    PROVE  Charged'
<1>1. \A w \in Workers : pc'[w] = IF w = v THEN l ELSE pc[w]
  BY DEF Typing, ThreadOK, Goto
<1> QED
  BY <1>1 DEF Charged, InCharge

LEMMA ChargedSame ==
    ASSUME Charged, UNCHANGED <<pc, recovering, owned, queue, job, key>>
    PROVE  Charged'
BY DEF Charged, InCharge

LEMMA ChargedForeground ==
    ASSUME Charged, Typing, NEW v \in Workers,
           \/ ForegroundAdmit(v) \/ ForegroundLost(v) \/ ForegroundClaim(v)
           \/ \E t \in Tasks : ForegroundTake(v, t)
    PROVE  Charged'
<1>1. CASE ForegroundAdmit(v)
  BY <1>1, ChargedMove DEF ForegroundAdmit, Step, Stay, queueVars
<1>2. CASE ForegroundLost(v)
  <2>1. pc[v] = "claim" /\ UNCHANGED <<recovering, owned, queue, job, key>>
    BY <1>2 DEF ForegroundLost, Step, Stay, Quiet, queueVars
  <2>2. \A w \in Workers : pc'[w] = IF w = v THEN "leave" ELSE pc[w]
    BY <1>2 DEF ForegroundLost, Step, Goto, Typing, ThreadOK
  <2> QED
    BY <2>1, <2>2 DEF Charged, InCharge
<1>3. CASE ForegroundClaim(v)
  <2>1. PICK k \in Tokens : Own(job[v], k) /\ key' = [key EXCEPT ![v] = k]
    BY <1>3 DEF ForegroundClaim
  <2>2. pc[v] = "claim" /\ UNCHANGED <<recovering, queue, job>> /\ job[v] \in Tasks
    BY <1>3, PlaceTyping DEF ForegroundClaim, Step, Typing
  <2>3. \A w \in Workers : /\ pc'[w] = IF w = v THEN "plan" ELSE pc[w]
                           /\ key'[w] = IF w = v THEN k ELSE key[w]
    BY <1>3, <2>1 DEF ForegroundClaim, Step, Goto, Typing, ThreadOK
  <2>4. \A t \in Tasks : owned'[t] = IF t = job[v] THEN k ELSE owned[t]
    BY <2>1 DEF Own, Typing, MemoryOK
  <2>5. key[v] = NoToken
    BY <2>2 DEF Charged
  <2> QED
    BY <2>2, <2>3, <2>4, <2>5 DEF Charged, InCharge
<1>4. ASSUME NEW t \in Tasks, ForegroundTake(v, t)
      PROVE  Charged'
  <2>1. pc[v] = "idle" /\ UNCHANGED <<recovering, owned, queue, key>>
    BY <1>4 DEF ForegroundTake, Step, queueVars
  <2>2. \A w \in Workers : /\ pc'[w] = IF w = v THEN "admit" ELSE pc[w]
                           /\ job'[w] = IF w = v THEN t ELSE job[w]
    BY <1>4 DEF ForegroundTake, Step, Goto, Typing, ThreadOK
  <2>3. key[v] = NoToken
    BY <2>1 DEF Charged
  <2> QED
    BY <2>1, <2>2, <2>3 DEF Charged, InCharge
<1> QED
  BY <1>1, <1>2, <1>3, <1>4

LEMMA ChargedThread ==
    ASSUME Charged, Typing, NEW v \in Workers,
           \/ Planning(v) \/ Running(v) \/ Executing(v) \/ Observe(v) \/ Recording(v)
           \/ Checkpoint(v) \/ Settle(v) \/ Fenced(v) \/ Isolate(v) \/ Mishap(v)
    PROVE  Charged'
<1>1. UNCHANGED <<recovering, owned, queue, job, key>>
  BY DEF Planning, PlanStored, PlanSettling, PlanDeferred, Running, Prepare, Begin, Resume,
         Restart, Executing, ExecuteReturns, ExecuteRaises, Observe, Recording, Complete,
         SendToReview, Defer, Exhaust, Checkpoint, Settle, Fenced, Isolate, Mishap,
         EffectLands, PlanFails, Raise, Stay, Quiet, queueVars, threadVars
<1>2. CASE Prepare(v)
  <2>1. PICK was : was # "manual_review" /\ Goto(v, AfterPrepare[was]) /\ was = step[job[v]][op[v]]
    BY <1>2 DEF Prepare
  <2>2. pc[v] = "steps" /\ op[v] \in Steps /\ job[v] \in Tasks
    BY <1>2, PlaceTyping, LedgerAssumption DEF Prepare, Typing, Steps
  <2>3. was \in StepState
    BY <2>1, <2>2 DEF Typing, LedgerTypeOK
  <2>4. AfterPrepare[was] \notin {"idle", "admit", "claim", "leave"}
    BY <2>1, <2>3 DEF AfterPrepare, StepState
  <2> QED
    BY <1>1, <2>1, <2>4, ChargedMove
<1>3. CASE EffectLands(v)
  BY <1>1, <1>3, ChargedSame DEF EffectLands, threadVars
<1>4. CASE Observe(v)
  <2>1. \E l \in {"complete", "review", "restart", "retry"} : Goto(v, l)
    BY <1>4 DEF Observe
  <2> QED
    BY <1>1, <2>1, ChargedMove
<1>5. CASE \/ Planning(v) \/ Begin(v) \/ Resume(v) \/ Restart(v) \/ Executing(v) \/ Recording(v)
           \/ Checkpoint(v) \/ Settle(v) \/ Fenced(v) \/ Isolate(v) \/ PlanFails(v) \/ Raise(v)
  <2>1. \E l \in Committed : Goto(v, l)
    BY <1>5 DEF Planning, PlanStored, PlanSettling, PlanDeferred, Begin, Resume, Restart,
                Executing, ExecuteReturns, ExecuteRaises, Recording, Complete, SendToReview,
                Defer, Exhaust, Checkpoint, Settle, Fenced, Isolate, PlanFails, Raise,
                Step, Committed
  <2> QED
    BY <1>1, <2>1, ChargedMove DEF Committed
<1> QED
  BY <1>2, <1>3, <1>4, <1>5 DEF Running, Mishap

\* The ends of a thread's task: it takes one over from the queue, forgets its
\* lease before it leaves, and leaves nothing behind.
LEMMA ChargedEnds ==
    ASSUME Charged, Typing, NEW v \in Workers, Take(v) \/ Finish(v) \/ Leave(v)
    PROVE  Charged'
<1>1. CASE Take(v)
  <2>1. PICK i \in queue : /\ queue' = queue \ {i}
                           /\ job' = [job EXCEPT ![v] = i.task]
                           /\ key' = [key EXCEPT ![v] = i.key]
                           /\ Goto(v, IF owned[i.task] = i.key THEN "plan" ELSE "finish")
    BY <1>1 DEF Take
  <2>2. pc[v] = "idle" /\ UNCHANGED <<recovering, owned>> /\ key[v] = NoToken
    BY <1>1 DEF Take, Charged
  <2>3. \A w \in Workers : /\ pc'[w] # pc[w] => w = v /\ pc'[w] \in {"plan", "finish"}
                           /\ job'[w] = IF w = v THEN i.task ELSE job[w]
                           /\ key'[w] = IF w = v THEN i.key ELSE key[w]
    BY <2>1 DEF Goto, Typing, ThreadOK
  <2>4. pc'[v] \in {"plan", "finish"}
    BY <2>1 DEF Goto, Typing, ThreadOK
  <2>5. \A t \in Tasks : [task |-> t, key |-> owned[t]] = i => t = i.task /\ owned[t] = i.key
    OBVIOUS
  <2> QED
    BY <2>1, <2>2, <2>3, <2>4, <2>5 DEF Charged, InCharge
<1>2. CASE Finish(v)
  <2>1. /\ pc[v] = "finish" /\ Forget(job[v], key[v]) /\ job[v] \in Tasks
        /\ UNCHANGED <<queue, recovering, job, key>>
    BY <1>2, PlaceTyping DEF Finish, Step, Stay, Typing
  <2>2. \A w \in Workers : pc'[w] = IF w = v THEN "leave" ELSE pc[w]
    BY <1>2 DEF Finish, Step, Goto, Typing, ThreadOK
  <2>3. \A t \in Tasks : owned'[t] = IF t = job[v] /\ owned[t] = key[v] THEN NoToken ELSE owned[t]
    BY <2>1 DEF Forget, Typing, MemoryOK
  <2> QED
    BY <2>1, <2>2, <2>3 DEF Charged, InCharge
<1>3. CASE Leave(v)
  <2>1. pc[v] = "leave" /\ UNCHANGED <<queue, recovering, owned>>
    BY <1>3 DEF Leave, Step, Quiet, queueVars
  <2>2. \A w \in Workers : /\ pc'[w] = IF w = v THEN "idle" ELSE pc[w]
                           /\ job'[w] = IF w = v THEN NoTask ELSE job[w]
                           /\ key'[w] = IF w = v THEN NoToken ELSE key[w]
    BY <1>3 DEF Leave, Step, Goto, Typing, ThreadOK
  <2> QED
    BY <2>1, <2>2 DEF Charged, InCharge
<1> QED
  BY <1>1, <1>2, <1>3

\* Submission, the recovery scan, the heartbeat and the crash.
LEMMA ChargedMemory ==
    ASSUME Charged, Typing,
           \/ Submitting \/ Recovering \/ RecoverFails \/ Crash
           \/ \E t \in Tasks : \/ SubmitAdmit(t) \/ RecoverClaim(t) \/ Asking(t)
                               \/ LeaseExpires(t) \/ HeartbeatFails(t) \/ RetryDue(t)
    PROVE  Charged'
<1>1. CASE Crash
  BY <1>1 DEF Crash, Charged
<1>2. CASE \/ SubmitLost
           \/ \E t \in Tasks : SubmitAdmit(t) \/ Asking(t) \/ LeaseExpires(t) \/ RetryDue(t)
  <2>1. UNCHANGED <<pc, recovering, owned, queue, job, key>>
    BY <1>2 DEF SubmitLost, SubmitAdmit, Asking, Retry, Discard, ResolveUnhandled, Resolve,
                Aside, LeaseExpires, RetryDue, threadVars, queueVars
  <2> QED
    BY <2>1, ChargedSame
<1>3. CASE SubmitClaim
  <2>1. PICK k \in Tokens : /\ Own(submitting, k)
                            /\ queue' = queue \cup {[task |-> submitting, key |-> k]}
    BY <1>3 DEF SubmitClaim
  <2>2. UNCHANGED <<recovering, pc, job, key>> /\ submitting \in Tasks
    BY <1>3 DEF SubmitClaim, threadVars, Typing, MemoryOK
  <2>3. \A t \in Tasks : owned'[t] = IF t = submitting THEN k ELSE owned[t]
    BY <2>1 DEF Own, Typing, MemoryOK
  <2> QED
    BY <2>1, <2>2, <2>3 DEF Charged, InCharge
<1>4. ASSUME NEW t \in Tasks, RecoverClaim(t)
      PROVE  Charged'
  <2>1. PICK k \in Tokens : Own(t, k) /\ recovering' = [task |-> t, key |-> k]
    BY <1>4 DEF RecoverClaim
  <2>2. UNCHANGED <<queue, pc, job, key>> /\ recovering = NoItem
    BY <1>4 DEF RecoverClaim, threadVars
  <2>3. \A u \in Tasks : owned'[u] = IF u = t THEN k ELSE owned[u]
    BY <2>1 DEF Own, Typing, MemoryOK
  <2>4. \A u \in Tasks : recovering # [task |-> u, key |-> owned[u]]
    BY <2>2, WorkerAssumption DEF NoItem
  <2> QED
    BY <2>1, <2>2, <2>3, <2>4 DEF Charged, InCharge
<1>5. CASE RecoverEnqueue
  <2>1. queue' = queue \cup {recovering} /\ UNCHANGED <<owned, pc, job, key>>
    BY <1>5 DEF RecoverEnqueue, threadVars
  <2> QED
    BY <2>1 DEF Charged, InCharge
<1>6. CASE RecoverRefused \/ RecoverFails \/ RecoverAbandon
  <2>1. /\ recovering # NoItem /\ Forget(recovering.task, recovering.key)
        /\ UNCHANGED <<queue, pc, job, key>>
    BY <1>6 DEF RecoverRefused, RecoverFails, RecoverAbandon, GiveBack, threadVars
  <2>2. \A t \in Tasks : owned'[t] = IF t = recovering.task /\ owned[t] = recovering.key
                                     THEN NoToken ELSE owned[t]
    BY <2>1, RecoveringIsItem DEF Forget, Typing, MemoryOK
  <2>3. \A t \in Tasks : recovering = [task |-> t, key |-> owned[t]]
                            => t = recovering.task /\ owned[t] = recovering.key
    OBVIOUS
  <2> QED
    BY <2>1, <2>2, <2>3 DEF Charged, InCharge
<1>7. ASSUME NEW t \in Tasks, HeartbeatFails(t)
      PROVE  Charged'
  <2>1. UNCHANGED <<queue, recovering, pc, job, key>>
    BY <1>7 DEF HeartbeatFails, threadVars
  <2>2. \A u \in Tasks : owned'[u] = IF u = t THEN NoToken ELSE owned[u]
    BY <1>7 DEF HeartbeatFails, Typing, MemoryOK
  <2> QED
    BY <2>1, <2>2 DEF Charged, InCharge
<1> QED
  BY <1>1, <1>2, <1>3, <1>4, <1>5, <1>6, <1>7 DEF Submitting, Recovering

LEMMA ChargedInvariant == Spec => []Charged
<1>1. Init => Charged
  BY DEF Init, MemoryInit, Charged
<1>2. Charged /\ Typing /\ [Next]_vars => Charged'
  <2> SUFFICES ASSUME Charged, Typing, [Next]_vars PROVE Charged'
    OBVIOUS
  <2>1. CASE UNCHANGED vars
    BY <2>1, ChargedSame DEF vars, threadVars, queueVars
  <2>2. ASSUME NEW w \in Workers, Progress(w) \/ Mishap(w)
        PROVE  Charged'
    BY <2>2, ChargedForeground, ChargedThread, ChargedEnds DEF Progress, Starting, Ending
  <2> QED
    BY <2>1, <2>2, ChargedForeground, ChargedMemory DEF Next
<1>3. QED
  BY <1>1, <1>2, TypingInvariant, PTL DEF Spec

\* Every lease that the heartbeat renews has a thread, a queue item or the scan
\* in charge: __forget_owned_lease runs on every way out, so that no lease is
\* renewed for nobody, holding the task and a recovery slot for ever.
THEOREM TransferRenewedLeasesAreHeld == Spec => []RenewedLeasesAreHeld
<1>1. Charged => RenewedLeasesAreHeld
  BY DEF Charged, InCharge, RenewedLeasesAreHeld
<1>2. QED
  BY <1>1, ChargedInvariant, PTL

-----------------------------------------------------------------------------
(* One resident per task                                                   *)

\* Nobody among the queue workers, and nothing in the queue, has the task u.
Vacant(u) ==
    /\ \A i \in queue : i.task # u
    /\ \A w \in QueueWorkers : job[w] # u

Alone ==
    /\ \A i, j \in queue : i.task = j.task => i = j
    /\ \A i \in queue, w \in QueueWorkers : job[w] # i.task
    /\ \A v, w \in QueueWorkers : job[v] = job[w] /\ job[v] # NoTask => v = w
    /\ submitting # NoTask => Vacant(submitting)
    /\ \A w \in QueueWorkers : job[w] # NoTask => key[w] \in Tokens

LEMMA AloneSame ==
    ASSUME Alone, UNCHANGED <<queue, submitting, job, key>>
    PROVE  Alone'
BY DEF Alone, Vacant

LEMMA AloneThread ==
    ASSUME Alone, Typing, NEW v \in Workers, Progress(v) \/ Mishap(v)
    PROVE  Alone'
<1>1. CASE \/ Planning(v) \/ Running(v) \/ Executing(v) \/ Observe(v) \/ Recording(v)
           \/ Checkpoint(v) \/ Settle(v) \/ Fenced(v) \/ Isolate(v) \/ Mishap(v)
           \/ ForegroundAdmit(v) \/ ForegroundLost(v) \/ Finish(v)
  <2>1. UNCHANGED <<queue, submitting, job, key>>
    BY <1>1 DEF Planning, PlanStored, PlanSettling, PlanDeferred, Running, Prepare, Begin,
           Resume, Restart, Executing, ExecuteReturns, ExecuteRaises, Observe, Recording,
           Complete, SendToReview, Defer, Exhaust, Checkpoint, Settle, Fenced, Isolate, Mishap,
           EffectLands, PlanFails, Raise, ForegroundAdmit, ForegroundLost, Finish,
           Stay, Quiet, queueVars, threadVars
  <2> QED
    BY <2>1, AloneSame
<1>2. CASE ForegroundClaim(v)
  <2>1. PICK k \in Tokens : key' = [key EXCEPT ![v] = k]
    BY <1>2 DEF ForegroundClaim
  <2>2. UNCHANGED <<queue, submitting, job>>
    BY <1>2 DEF ForegroundClaim
  <2>3. \A w \in Workers : key'[w] = IF w = v THEN k ELSE key[w]
    BY <2>1 DEF Typing, ThreadOK
  <2> QED
    BY <2>2, <2>3 DEF Alone, Vacant, Workers
<1>3. CASE Take(v)
  <2>1. PICK i \in queue : /\ queue' = queue \ {i}
                           /\ job' = [job EXCEPT ![v] = i.task]
                           /\ key' = [key EXCEPT ![v] = i.key]
    BY <1>3 DEF Take
  <2>2. UNCHANGED submitting /\ i.key \in Tokens
    BY <1>3 DEF Take, Typing, MemoryOK, Item
  <2>3. \A w \in Workers : /\ job'[w] = IF w = v THEN i.task ELSE job[w]
                           /\ key'[w] = IF w = v THEN i.key ELSE key[w]
    BY <2>1 DEF Typing, ThreadOK
  <2> QED
    BY <2>1, <2>2, <2>3 DEF Alone, Vacant, Workers
<1>4. CASE Leave(v)
  <2>1. UNCHANGED <<queue, submitting>>
    BY <1>4 DEF Leave, Quiet, queueVars
  <2>2. \A w \in Workers : /\ job'[w] = IF w = v THEN NoTask ELSE job[w]
                           /\ key'[w] = IF w = v THEN NoToken ELSE key[w]
    BY <1>4 DEF Leave, Typing, ThreadOK
  <2>3. \A i \in queue : i.task # NoTask
    BY WorkerAssumption DEF Typing, MemoryOK, Item
  <2> QED
    BY <2>1, <2>2, <2>3 DEF Alone, Vacant, Workers
<1> QED
  BY <1>1, <1>2, <1>3, <1>4 DEF Progress, Mishap, Starting, Ending

\* What enters the queue is nobody's: put_to_queue asks the job view, and the
\* recovery waits until no thread is resident for the task any more.
LEMMA AloneMemory ==
    ASSUME Alone, Typing,
           \/ Submitting \/ Recovering \/ RecoverFails \/ Crash
           \/ \E w \in Workers, t \in Tasks : ForegroundTake(w, t)
           \/ \E t \in Tasks : \/ SubmitAdmit(t) \/ RecoverClaim(t) \/ Asking(t)
                               \/ LeaseExpires(t) \/ HeartbeatFails(t) \/ RetryDue(t)
    PROVE  Alone'
<1>1. CASE Crash
  BY <1>1 DEF Crash, Alone, Vacant, Workers
<1>2. CASE \/ RecoverRefused \/ RecoverFails \/ RecoverAbandon
           \/ \E t \in Tasks : \/ RecoverClaim(t) \/ Asking(t) \/ LeaseExpires(t)
                               \/ HeartbeatFails(t) \/ RetryDue(t)
  <2>1. UNCHANGED <<queue, submitting, job, key>>
    BY <1>2 DEF RecoverRefused, RecoverFails, RecoverAbandon, GiveBack, RecoverClaim, Asking,
                Retry, Discard, ResolveUnhandled, Resolve, Aside, LeaseExpires,
                HeartbeatFails, RetryDue, threadVars, queueVars
  <2> QED
    BY <2>1, AloneSame
<1>3. ASSUME NEW t \in Tasks, SubmitAdmit(t)
      PROVE  Alone'
  <2>1. ~InView(t) /\ submitting' = t /\ UNCHANGED <<queue, job, key>>
    BY <1>3 DEF SubmitAdmit, threadVars
  <2>2. Vacant(t)
    BY <2>1 DEF InView, Vacant, Workers
  <2> QED
    BY <2>1, <2>2 DEF Alone, Vacant
<1>4. CASE SubmitClaim \/ SubmitLost
  <2>1. submitting # NoTask /\ submitting' = NoTask /\ UNCHANGED <<job, key>>
    BY <1>4 DEF SubmitClaim, SubmitLost, threadVars
  <2>2. \/ UNCHANGED queue
        \/ \E k \in Tokens : queue' = queue \cup {[task |-> submitting, key |-> k]}
    BY <1>4 DEF SubmitClaim, SubmitLost
  <2> QED
    BY <2>1, <2>2 DEF Alone, Vacant
<1>5. CASE RecoverEnqueue
  <2>1. /\ recovering # NoItem /\ submitting = NoTask /\ ~Occupied(recovering.task)
        /\ queue' = queue \cup {recovering} /\ UNCHANGED <<submitting, job, key>>
    BY <1>5 DEF RecoverEnqueue, threadVars
  <2>2. recovering.task # NoTask
    BY <2>1, RecoveringIsItem, WorkerAssumption DEF Typing
  <2>3. \A i \in queue : i = [task |-> i.task, key |-> i.key] /\ i.key \in Tokens
    BY DEF Typing, MemoryOK, Item
  <2>4. Vacant(recovering.task)
    BY <2>1, <2>2, <2>3 DEF Occupied, Resident, Vacant, Alone
  <2> QED
    BY <2>1, <2>4 DEF Alone, Vacant
<1>6. ASSUME NEW v \in Workers, NEW t \in Tasks, ForegroundTake(v, t)
      PROVE  Alone'
  <2>1. v \notin QueueWorkers /\ UNCHANGED <<queue, submitting, key>>
    BY <1>6, WorkerAssumption DEF ForegroundTake, queueVars
  <2>2. \A w \in QueueWorkers : job'[w] = job[w]
    BY <1>6, <2>1 DEF ForegroundTake, Typing, ThreadOK, Workers
  <2> QED
    BY <2>1, <2>2 DEF Alone, Vacant
<1> QED
  BY <1>1, <1>2, <1>3, <1>4, <1>5, <1>6 DEF Submitting, Recovering

LEMMA AloneInvariant == Spec => []Alone
<1>1. Init => Alone
  BY DEF Init, MemoryInit, Alone, Workers
<1>2. Alone /\ Typing /\ [Next]_vars => Alone'
  <2>1. Alone /\ UNCHANGED vars => Alone'
    BY AloneSame DEF vars, threadVars, queueVars
  <2> QED
    BY <2>1, AloneThread, AloneMemory DEF Next
<1>3. QED
  BY <1>1, <1>2, TypingInvariant, PTL DEF Spec

LEMMA AtMostOne ==
    ASSUME NEW S, \A x, y \in S : x = y
    PROVE  Cardinality(S) \in {0, 1} /\ (Cardinality(S) = 1 => S # {})
<1>1. CASE S = {}
  BY <1>1, FS_EmptySet
<1>2. CASE S # {}
  <2>1. PICK x : S = {x}
    BY <1>2
  <2> QED
    BY <1>2, <2>1, FS_Singleton
<1> QED
  BY <1>1, <1>2

\* A source is queued or executing at most once among the queue workers: a
\* task recovered after a lost lease waits until the old thread has left
\* (_resident_tasks), although its row can be claimed long before.
THEOREM TransferOneResidentPerTask == Spec => []OneResidentPerTask
<1>1. Typing /\ Alone => OneResidentPerTask
  <2> SUFFICES ASSUME Typing, Alone, NEW t \in Tasks
               PROVE  Cardinality({i \in queue : i.task = t})
                        + Cardinality({w \in QueueWorkers : job[w] = t}) <= 1
    BY DEF OneResidentPerTask
  <2> DEFINE Q == {i \in queue : i.task = t}
             W == {w \in QueueWorkers : job[w] = t}
  <2>1. \A x, y \in Q : x = y
    BY DEF Alone
  <2>2. \A x, y \in W : x = y
    BY WorkerAssumption DEF Alone
  <2>3. Q = {} \/ W = {}
    BY DEF Alone
  <2> HIDE DEF Q, W
  <2>4. /\ Cardinality(Q) \in {0, 1} /\ (Cardinality(Q) = 1 => Q # {})
        /\ Cardinality(W) \in {0, 1} /\ (Cardinality(W) = 1 => W # {})
    BY <2>1, <2>2, AtMostOne
  <2>5. Cardinality(Q) + Cardinality(W) <= 1
    BY <2>3, <2>4
  <2> QED
    BY <2>5 DEF Q, W
<1>2. QED
  BY <1>1, TypingInvariant, AloneInvariant, PTL
=============================================================================
