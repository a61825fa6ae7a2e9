-------------------------- MODULE TransferLeaseProofs --------------------------
(***************************************************************************)
(* What the lease of a transfer protects, proved for every set of sources, *)
(* plan length, number of threads and value of the bounds: a thread that   *)
(* still owns its lease finds the row as it left it, so the ledger refuses *)
(* it nothing, records only what happened and checkpoints only what can be *)
(* settled again.  Then what waits for a user, that no operation is tried  *)
(* on top of an earlier effect where transfers run in the queue, and how   *)
(* often an operation is executed at all.                                  *)
(***************************************************************************)
EXTENDS TransferProofs, TransferBudget

\* Nothing about the transfer of u changes, except that its retry falls due.
RowSame(u) ==
    /\ exec'[u] = exec[u] /\ planned'[u] = planned[u] /\ retries'[u] = retries[u]
    /\ outcome'[u] = outcome[u] /\ token'[u] = token[u] /\ live'[u] = live[u]
    /\ step'[u] = step[u] /\ attempt'[u] = attempt[u]

Elsewhere(t) == \A u \in Tasks \ {t} : RowSame(u)

\* A write fenced by token k: nobody else gets the lease by it.
Written(t, k) ==
    /\ Owns(t, k) /\ Elsewhere(t)
    /\ live'[t] => token'[t] = token[t]

\* A write to a row that no live lease protects and that leases it to nobody.
Seized(t) == Elsewhere(t) /\ ~live'[t]

\* Operations are recorded in the order of the plan.
InOrder(t) ==
    \A s \in Steps, r \in Steps :
        r < s /\ step[t][s] # "absent" => step[t][r] = "succeeded"

Replayable(t) ==
    exec[t] = "settling" =>
        /\ outcome[t] = "succeeded" => \A s \in Steps : step[t][s] = "succeeded"
        /\ outcome[t] # "none"
        /\ \A s \in Steps : step[t][s] \in {"absent", "succeeded", "failed"}

RowOK(t) ==
    /\ live[t] => token[t] \in Tokens
    /\ exec[t] \notin Active => token[t] = NoToken
    /\ exec[t] \in {"running", "settling"} => planned[t]
    /\ Replayable(t)
    /\ InOrder(t)

-----------------------------------------------------------------------------
(* The operators of the ledger                                             *)

LEMMA FreshRowSeizes ==
    ASSUME LedgerTypeOK, NEW t \in Tasks, NEW e \in {"absent", "not_started"}, FreshRow(t, e)
    PROVE  Seized(t) /\ RowOK(t)' /\ retries'[t] = 0 /\ \A s \in Steps : step'[t][s] = "absent"
<1>1. Seized(t)
  BY DEF LedgerTypeOK, FreshRow, Seized, Elsewhere, RowSame
<1>2. /\ live'[t] = FALSE /\ token'[t] = NoToken /\ exec'[t] = e /\ retries'[t] = 0
      /\ step'[t] = [s \in Steps |-> "absent"]
  BY DEF LedgerTypeOK, FreshRow
<1> QED
  BY <1>1, <1>2 DEF RowOK, Replayable, InOrder, Active

LEMMA ClaimRowLeases ==
    ASSUME LedgerTypeOK, NEW t \in Tasks, NEW k \in Tokens, RowOK(t), ClaimRow(t, k)
    PROVE  /\ Elsewhere(t) /\ RowOK(t)' /\ token'[t] = k
           /\ exec[t] \in Active /\ UNCHANGED <<exec, planned, retries, outcome, step, attempt>>
<1>1. UNCHANGED <<exec, planned, retries, outcome, step, attempt>> /\ exec[t] \in Active
  BY DEF ClaimRow, Claimable, rowVars, stepVars
<1>2. Elsewhere(t) /\ token'[t] = k
  BY <1>1 DEF LedgerTypeOK, ClaimRow, Elsewhere, RowSame
<1> QED
  BY <1>1, <1>2 DEF RowOK, Replayable, InOrder

LEMMA ReleaseRowWrites ==
    ASSUME LedgerTypeOK, NEW t \in Tasks, NEW k, RowOK(t), ReleaseRow(t, k)
    PROVE  /\ Written(t, k) \/ \A u \in Tasks : RowSame(u)
           /\ RowOK(t)' /\ UNCHANGED <<exec, planned, retries, outcome, step, attempt>>
<1>1. UNCHANGED <<exec, planned, retries, outcome, step, attempt>>
  BY DEF ReleaseRow, rowVars, stepVars
<1>2. CASE Owns(t, k)
  <2>1. Elsewhere(t) /\ ~live'[t] /\ token'[t] = NoToken
    BY <1>1, <1>2 DEF LedgerTypeOK, ReleaseRow, DropLease, Elsewhere, RowSame
  <2> QED
    BY <1>1, <1>2, <2>1 DEF Written, RowOK, Replayable, InOrder
<1>3. CASE ~Owns(t, k)
  BY <1>1, <1>3 DEF ReleaseRow, leaseVars, RowSame, RowOK, Replayable, InOrder
<1> QED
  BY <1>2, <1>3

LEMMA StorePlanWrites ==
    ASSUME LedgerTypeOK, NEW t \in Tasks, NEW k, RowOK(t), StorePlan(t, k)
    PROVE  /\ Written(t, k) /\ RowOK(t)' /\ planned'[t]
           /\ UNCHANGED <<exec, retries, outcome, step, attempt, token, live>>
<1>1. UNCHANGED <<exec, retries, outcome, step, attempt, token, live>>
  BY DEF StorePlan, leaseVars, stepVars
<1>2. Written(t, k) /\ planned'[t]
  BY <1>1 DEF LedgerTypeOK, StorePlan, Written, Elsewhere, RowSame
<1> QED
  BY <1>1, <1>2 DEF RowOK, Replayable, InOrder

LEMMA DeferPlanningWrites ==
    ASSUME LedgerTypeOK, NEW t \in Tasks, NEW k, RowOK(t), DeferPlanning(t, k)
    PROVE  /\ Written(t, k) /\ RowOK(t)'
           /\ retries[t] < MaxRetries /\ retries'[t] = retries[t] + 1 /\ UNCHANGED step
<1>1. UNCHANGED <<planned, outcome, step, attempt>> /\ retries[t] < MaxRetries
  BY DEF DeferPlanning, stepVars
<1>2. /\ Written(t, k) /\ exec'[t] = "retry_wait" /\ retries'[t] = retries[t] + 1
      /\ ~live'[t] /\ token'[t] = NoToken
  BY <1>1 DEF LedgerTypeOK, DeferPlanning, DropLease, Written, Elsewhere, RowSame
<1> QED
  BY <1>1, <1>2 DEF RowOK, Replayable, InOrder, Active

\* An operation is prepared once all those before it have succeeded.
LEMMA PrepareStepWrites ==
    ASSUME LedgerTypeOK, NEW t \in Tasks, NEW k, NEW s \in Steps, RowOK(t),
           PrepareStep(t, k, s), \A r \in Steps : r < s => step[t][r] = "succeeded"
    PROVE  /\ Written(t, k) /\ RowOK(t)'
           /\ exec'[t] = "running" /\ planned'[t] /\ live'[t] /\ token'[t] = k
           /\ step'[t][s] = IF step[t][s] = "absent" THEN "prepared" ELSE step[t][s]
           /\ \A r \in Steps : r # s => step'[t][r] = step[t][r]
           /\ UNCHANGED <<planned, retries, outcome, token, live, attempt>>
<1>1. /\ UNCHANGED <<planned, retries, outcome, token, live, attempt>>
      /\ planned[t] /\ Owns(t, k)
  BY DEF PrepareStep, BecomeRunning, leaseVars, CanRun
<1>2. /\ step'[t][s] = IF step[t][s] = "absent" THEN "prepared" ELSE step[t][s]
      /\ \A r \in Steps : r # s => step'[t][r] = step[t][r]
      /\ \A u \in Tasks : u # t => step'[u] = step[u]
      /\ exec'[t] = "running" /\ \A u \in Tasks : u # t => exec'[u] = exec[u]
  BY DEF LedgerTypeOK, PrepareStep, BecomeRunning
<1>3. Written(t, k)
  BY <1>1, <1>2 DEF Written, Elsewhere, RowSame
<1>4. InOrder(t)'
  BY <1>2 DEF RowOK, InOrder, Steps
<1>5. RowOK(t)'
  BY <1>1, <1>2, <1>4 DEF RowOK, Replayable, Active, Owns
<1> QED
  BY <1>1, <1>2, <1>3, <1>5 DEF Owns
LEMMA MoveStepMoves ==
    ASSUME LedgerTypeOK, NEW t \in Tasks, NEW s \in Steps, NEW to, NEW a, MoveStep(t, s, to, a)
    PROVE  /\ step'[t][s] = to /\ attempt'[t][s] = a
           /\ \A r \in Steps : r # s => step'[t][r] = step[t][r]
           /\ \A u \in Tasks : u # t => step'[u] = step[u] /\ attempt'[u] = attempt[u]
BY DEF LedgerTypeOK, MoveStep

LEMMA BecomeRunningMoves ==
    ASSUME LedgerTypeOK, NEW t \in Tasks, BecomeRunning(t)
    PROVE  /\ exec'[t] = "running" /\ \A u \in Tasks : u # t => exec'[u] = exec[u]
           /\ UNCHANGED <<planned, retries, outcome, token, live>>
BY DEF LedgerTypeOK, BecomeRunning, leaseVars

\* An operation that is recorded stays where the plan puts it.
LEMMA MovedInOrder ==
    ASSUME LedgerTypeOK, NEW t \in Tasks, NEW s \in Steps, InOrder(t),
           step[t][s] \notin {"absent", "succeeded"},
           \A r \in Steps : r # s => step'[t][r] = step[t][r]
    PROVE  InOrder(t)'
BY DEF InOrder, Steps

\* StartStep, RestartStep and ResumeStep: an attempt begins.
LEMMA AttemptWrites ==
    ASSUME LedgerTypeOK, NEW t \in Tasks, NEW k, NEW s \in Steps, RowOK(t),
           StartStep(t, k, s) \/ ResumeStep(t, k, s) \/ \E a : RestartStep(t, k, s, a)
    PROVE  /\ Written(t, k) /\ RowOK(t)'
           /\ token'[t] = k /\ live'[t] /\ step'[t][s] = "started" /\ attempt'[t][s] = k
           /\ exec'[t] = "running" \/ exec'[t] = exec[t]
           /\ \A r \in Steps : r # s => step'[t][r] = step[t][r]
           /\ UNCHANGED <<retries, outcome>>
<1>1. /\ Owns(t, k) /\ UNCHANGED <<planned, retries, outcome, token, live>>
      /\ step[t][s] \in {"prepared", "started", "failed"}
      /\ MoveStep(t, s, "started", k)
  BY DEF StartStep, RestartStep, ResumeStep, BecomeRunning, rowVars, leaseVars,
         Attempting, ActiveLease, CanRun
<1>2. /\ step'[t][s] = "started" /\ attempt'[t][s] = k
      /\ \A r \in Steps : r # s => step'[t][r] = step[t][r]
      /\ \A u \in Tasks : u # t => step'[u] = step[u] /\ attempt'[u] = attempt[u]
  BY <1>1, MoveStepMoves
<1>3. /\ (exec'[t] = "running" /\ planned[t]) \/ (exec'[t] = exec[t] /\ exec[t] # "settling")
      /\ \A u \in Tasks : u # t => exec'[u] = exec[u]
  <2>1. CASE StartStep(t, k, s) \/ \E a : RestartStep(t, k, s, a)
    BY <2>1 DEF StartStep, RestartStep, rowVars, Attempting, ActiveLease
  <2>2. CASE ResumeStep(t, k, s)
    BY <2>2, BecomeRunningMoves DEF ResumeStep, CanRun
  <2> QED
    BY <2>1, <2>2
<1>4. Written(t, k)
  BY <1>1, <1>2, <1>3 DEF Written, Elsewhere, RowSame
<1>5. InOrder(t)'
  BY <1>1, <1>2, MovedInOrder DEF RowOK
<1>6. RowOK(t)'
  BY <1>1, <1>2, <1>3, <1>5 DEF RowOK, Replayable, Active, Owns
<1> QED
  BY <1>1, <1>2, <1>3, <1>4, <1>6 DEF Owns

LEMMA CompleteStepWrites ==
    ASSUME LedgerTypeOK, NEW t \in Tasks, NEW k, NEW s \in Steps, NEW a, RowOK(t),
           CompleteStep(t, k, s, a)
    PROVE  /\ Written(t, k) /\ RowOK(t)' /\ step'[t][s] = "succeeded"
           /\ \A r \in Steps : r # s => step'[t][r] = step[t][r]
           /\ UNCHANGED <<exec, planned, retries, outcome, token, live>>
<1>1. /\ Owns(t, k) /\ UNCHANGED <<exec, planned, retries, outcome, token, live>>
      /\ step[t][s] = "started" /\ exec[t] # "settling"
      /\ MoveStep(t, s, "succeeded", NoToken)
  BY DEF CompleteStep, rowVars, leaseVars, Attempting, ActiveLease
<1>2. /\ step'[t][s] = "succeeded"
      /\ \A r \in Steps : r # s => step'[t][r] = step[t][r]
      /\ \A u \in Tasks : u # t => step'[u] = step[u] /\ attempt'[u] = attempt[u]
  BY <1>1, MoveStepMoves
<1>3. Written(t, k)
  BY <1>1, <1>2 DEF Written, Elsewhere, RowSame
<1>4. InOrder(t)'
  BY <1>1, <1>2, MovedInOrder DEF RowOK
<1> QED
  BY <1>1, <1>2, <1>3, <1>4 DEF RowOK, Replayable

LEMMA DeferStepWrites ==
    ASSUME LedgerTypeOK, NEW t \in Tasks, NEW k, NEW s \in Steps, NEW a, RowOK(t),
           DeferStep(t, k, s, a)
    PROVE  /\ Written(t, k) /\ RowOK(t)' /\ step'[t][s] = "failed"
           /\ \A r \in Steps : r # s => step'[t][r] = step[t][r]
           /\ retries'[t] = retries[t] + 1
<1>1. /\ Owns(t, k) /\ UNCHANGED <<planned, outcome>> /\ step[t][s] = "started"
      /\ MoveStep(t, s, "failed", NoToken)
  BY DEF DeferStep, Attempting, ActiveLease
<1>2. /\ step'[t][s] = "failed"
      /\ \A r \in Steps : r # s => step'[t][r] = step[t][r]
      /\ \A u \in Tasks : u # t => step'[u] = step[u] /\ attempt'[u] = attempt[u]
  BY <1>1, MoveStepMoves
<1>3. /\ exec'[t] = "retry_wait" /\ retries'[t] = retries[t] + 1
      /\ ~live'[t] /\ token'[t] = NoToken
      /\ \A u \in Tasks : u # t => /\ exec'[u] = exec[u] /\ retries'[u] = retries[u]
                                   /\ token'[u] = token[u] /\ live'[u] = live[u]
  BY DEF LedgerTypeOK, DeferStep, DropLease
<1>4. Written(t, k)
  BY <1>1, <1>2, <1>3 DEF Written, Elsewhere, RowSame
<1>5. InOrder(t)'
  BY <1>1, <1>2, MovedInOrder DEF RowOK
<1> QED
  BY <1>1, <1>2, <1>3, <1>4, <1>5 DEF RowOK, Replayable, Active

\* The budget is spent: only this operation is neither absent nor recorded.
LEMMA ExhaustStepWrites ==
    ASSUME LedgerTypeOK, NEW t \in Tasks, NEW k, NEW s \in Steps, NEW a, RowOK(t),
           ExhaustStep(t, k, s, a)
    PROVE  /\ Written(t, k) /\ RowOK(t)' /\ step'[t][s] = "failed"
           /\ \A r \in Steps : r # s => step'[t][r] = step[t][r]
           /\ exec'[t] = "settling" /\ outcome'[t] = "failed" /\ UNCHANGED retries
<1>1. /\ Owns(t, k) /\ UNCHANGED <<planned, retries, token, live>>
      /\ step[t][s] = "started" /\ exec[t] = "running"
      /\ MoveStep(t, s, "failed", NoToken)
  BY DEF ExhaustStep, Attempting, ActiveLease, leaseVars
<1>2. /\ step'[t][s] = "failed"
      /\ \A r \in Steps : r # s => step'[t][r] = step[t][r]
      /\ \A u \in Tasks : u # t => step'[u] = step[u] /\ attempt'[u] = attempt[u]
  BY <1>1, MoveStepMoves
<1>3. /\ exec'[t] = "settling" /\ outcome'[t] = "failed"
      /\ \A u \in Tasks : u # t => exec'[u] = exec[u] /\ outcome'[u] = outcome[u]
  BY DEF LedgerTypeOK, ExhaustStep
<1>4. Written(t, k)
  BY <1>1, <1>2, <1>3 DEF Written, Elsewhere, RowSame
<1>5. InOrder(t)'
  BY <1>1, <1>2, MovedInOrder DEF RowOK
<1>6. \A r \in Steps : r # s => step[t][r] \in {"absent", "succeeded"}
  BY <1>1 DEF RowOK, InOrder, Steps
<1>7. Replayable(t)'
  BY <1>2, <1>3, <1>6 DEF Replayable
<1> QED
  BY <1>1, <1>2, <1>3, <1>4, <1>5, <1>7 DEF RowOK, Active

LEMMA ReviewStepWrites ==
    ASSUME LedgerTypeOK, NEW t \in Tasks, NEW k, NEW s \in Steps, NEW a, RowOK(t),
           ReviewStep(t, k, s, a)
    PROVE  /\ Written(t, k) /\ RowOK(t)' /\ step'[t][s] = "manual_review"
           /\ \A r \in Steps : r # s => step'[t][r] = step[t][r]
           /\ UNCHANGED retries
<1>1. /\ Owns(t, k) /\ UNCHANGED <<planned, retries, outcome>>
      /\ step[t][s] = "started" /\ MoveStep(t, s, "manual_review", NoToken)
  BY DEF ReviewStep, Attempting, ActiveLease
<1>2. /\ step'[t][s] = "manual_review"
      /\ \A r \in Steps : r # s => step'[t][r] = step[t][r]
      /\ \A u \in Tasks : u # t => step'[u] = step[u] /\ attempt'[u] = attempt[u]
  BY <1>1, MoveStepMoves
<1>3. /\ exec'[t] = "manual_review" /\ ~live'[t] /\ token'[t] = NoToken
      /\ \A u \in Tasks : u # t => /\ exec'[u] = exec[u] /\ token'[u] = token[u]
                                   /\ live'[u] = live[u]
  BY DEF LedgerTypeOK, ReviewStep, DropLease
<1>4. Written(t, k)
  BY <1>1, <1>2, <1>3 DEF Written, Elsewhere, RowSame
<1>5. InOrder(t)'
  BY <1>1, <1>2, MovedInOrder DEF RowOK
<1> QED
  BY <1>1, <1>2, <1>3, <1>4, <1>5 DEF RowOK, Replayable, Active
LEMMA CheckpointResultWrites ==
    ASSUME LedgerTypeOK, NEW t \in Tasks, NEW k, NEW n \in Nat, NEW o \in {"succeeded", "failed"},
           RowOK(t), CheckpointResult(t, k, n, o), o = "succeeded" => n = NSteps
    PROVE  /\ Written(t, k) /\ RowOK(t)' /\ exec'[t] = "settling" /\ outcome'[t] = o
           /\ UNCHANGED <<retries, step>>
<1>1. /\ Owns(t, k) /\ planned[t] /\ UNCHANGED <<planned, retries, token, live, step, attempt>>
      /\ \A s \in Steps : step[t][s] = IF s <= n THEN "succeeded" ELSE "absent"
  BY DEF CheckpointResult, CanRun, leaseVars, stepVars
<1>2. /\ exec'[t] = "settling" /\ outcome'[t] = o
      /\ \A u \in Tasks : u # t => exec'[u] = exec[u] /\ outcome'[u] = outcome[u]
  BY DEF LedgerTypeOK, CheckpointResult
<1>3. Written(t, k)
  BY <1>1, <1>2 DEF Written, Elsewhere, RowSame
<1>4. \A s \in Steps : step[t][s] \in {"absent", "succeeded"}
  BY <1>1
<1>5. o = "succeeded" => \A s \in Steps : step[t][s] = "succeeded"
  BY <1>1, LedgerAssumption DEF Steps
<1>6. Replayable(t)'
  BY <1>1, <1>2, <1>4, <1>5 DEF Replayable
<1> QED
  BY <1>1, <1>2, <1>3, <1>6 DEF RowOK, InOrder, Active

LEMMA SettlementWrites ==
    ASSUME LedgerTypeOK, NEW t \in Tasks, NEW k, RowOK(t), SettleSuccess(t, k) \/ SettleFailure(t, k)
    PROVE  /\ Written(t, k) /\ RowOK(t)' /\ ~live'[t]
           /\ retries'[t] = 0 \/ retries'[t] = retries[t]
           /\ \A s \in Steps : step'[t][s] \in {"absent", step[t][s]}
<1>1. CASE SettleSuccess(t, k)
  <2>1. Owns(t, k) /\ FreshRow(t, "absent")
    BY <1>1 DEF SettleSuccess, DeleteRow
  <2> QED
    BY <2>1, FreshRowSeizes DEF Written, Seized
<1>2. CASE SettleFailure(t, k)
  <2>1. Owns(t, k) /\ UNCHANGED <<planned, retries, outcome, step, attempt>>
    BY <1>2 DEF SettleFailure, stepVars
  <2>2. /\ exec'[t] = "failed" /\ ~live'[t] /\ token'[t] = NoToken
        /\ \A u \in Tasks : u # t => /\ exec'[u] = exec[u] /\ token'[u] = token[u]
                                     /\ live'[u] = live[u]
    BY <1>2 DEF LedgerTypeOK, SettleFailure, DropLease
  <2> QED
    BY <2>1, <2>2 DEF Written, Elsewhere, RowSame, RowOK, Replayable, InOrder
<1> QED
  BY <1>1, <1>2

LEMMA IsolateRowWrites ==
    ASSUME LedgerTypeOK, NEW t \in Tasks, NEW k, RowOK(t), IsolateRow(t, k)
    PROVE  /\ Written(t, k) /\ RowOK(t)' /\ ~live'[t]
           /\ retries'[t] = retries[t] + 1 /\ UNCHANGED step
<1>1. Owns(t, k) /\ UNCHANGED <<planned, outcome, step, attempt>>
  BY DEF IsolateRow, Isolable
<1>2. /\ exec'[t] = "manual_review" /\ retries'[t] = retries[t] + 1
      /\ ~live'[t] /\ token'[t] = NoToken
      /\ \A u \in Tasks : u # t => /\ exec'[u] = exec[u] /\ retries'[u] = retries[u]
                                   /\ token'[u] = token[u] /\ live'[u] = live[u]
  BY DEF LedgerTypeOK, IsolateRow, DropLease
<1> QED
  BY <1>1, <1>2 DEF Written, Elsewhere, RowSame, RowOK, Replayable, InOrder

LEMMA RetryRequestSeizes ==
    ASSUME LedgerTypeOK, NEW t \in Tasks, RowOK(t), RequestRetry(t)
    PROVE  Seized(t) /\ RowOK(t)' /\ UNCHANGED <<retries, step>>
<1>1. UNCHANGED <<planned, retries, outcome, step, attempt>>
  BY DEF RequestRetry, stepVars
<1>2. /\ exec'[t] = "retry_wait" /\ ~live'[t] /\ token'[t] = NoToken
      /\ \A u \in Tasks : u # t => /\ exec'[u] = exec[u] /\ token'[u] = token[u]
                                   /\ live'[u] = live[u]
  BY DEF LedgerTypeOK, RequestRetry, DropLease
<1> QED
  BY <1>1, <1>2 DEF Seized, Elsewhere, RowSame, RowOK, Replayable, InOrder, Active

LEMMA ReturnSeizes ==
    ASSUME LedgerTypeOK, NEW t \in Tasks, RowOK(t), ReturnToRetry(t),
           \A u \in Tasks : u # t => step'[u] = step[u] /\ attempt'[u] = attempt[u],
           InOrder(t)'
    PROVE  Seized(t) /\ RowOK(t)'
<1>1. UNCHANGED <<planned, retries, outcome, token, live>> /\ token[t] = NoToken
  BY DEF ReturnToRetry, leaseVars
<1>2. exec'[t] = "retry_wait" /\ \A u \in Tasks : u # t => exec'[u] = exec[u]
  BY DEF LedgerTypeOK, ReturnToRetry
<1>3. ~live[t]
  BY <1>1, LedgerAssumption DEF RowOK
<1>4. Seized(t)
  BY <1>1, <1>2, <1>3, Zenon DEF Seized, Elsewhere, RowSame, LedgerTypeOK
<1> QED
  BY <1>1, <1>2, <1>3, <1>4 DEF RowOK, Replayable, Active

LEMMA ResolveStepSeizes ==
    ASSUME LedgerTypeOK, NEW t \in Tasks, NEW s \in Steps, NEW to, RowOK(t), ResolveStep(t, s, to)
    PROVE  /\ Seized(t) /\ RowOK(t)' /\ step'[t][s] = to /\ UNCHANGED retries
           /\ \A r \in Steps : r # s => step'[t][r] = step[t][r]
<1>1. /\ step[t][s] = "manual_review" /\ UNCHANGED attempt
      /\ ReturnToRetry(t) /\ UNCHANGED retries
  BY DEF ResolveStep, UnderReview, ReturnToRetry
<1>2. /\ step'[t][s] = to
      /\ \A r \in Steps : r # s => step'[t][r] = step[t][r]
      /\ \A u \in Tasks : u # t => step'[u] = step[u]
  BY DEF LedgerTypeOK, ResolveStep
<1>3. InOrder(t)'
  BY <1>1, <1>2, MovedInOrder DEF RowOK
<1> QED
  BY <1>1, <1>2, <1>3, ReturnSeizes

LEMMA ResolveIsolatedSeizes ==
    ASSUME LedgerTypeOK, NEW t \in Tasks, RowOK(t), ResolveIsolated(t)
    PROVE  Seized(t) /\ RowOK(t)' /\ UNCHANGED <<retries, step>>
<1>1. ReturnToRetry(t) /\ UNCHANGED <<step, attempt, retries>>
  BY DEF ResolveIsolated, ReturnToRetry
<1> QED
  BY <1>1, ReturnSeizes DEF RowOK, InOrder
-----------------------------------------------------------------------------
(* The inductive invariant                                                 *)

\* A token identifies one thread, queue item or claim of the scan.
Unique ==
    /\ \A v, w \in Workers : v # w /\ key[v] \in Tokens => key[v] # key[w]
    /\ \A i \in queue, w \in Workers : i.key # key[w]
    /\ \A i, j \in queue : i.key = j.key => i = j
    /\ recovering # NoItem => /\ \A w \in Workers : recovering.key # key[w]
                              /\ \A i \in queue : recovering.key # i.key

\* What the ledger promises of a task, whoever holds its lease.
TaskOK(t) ==
    /\ RowOK(t)
    /\ \A s \in Steps : step[t][s] = "succeeded" => world[t][s] = "applied"
    /\ retries[t] <= MaxRetries + faults

\* What a thread may rely on while the lease is its own.
OwnerOK(w) ==
    Mine(w) =>
        /\ Expected(w)
        /\ pc[w] \in Acting => exec[job[w]] = "running"
        /\ \A s \in Steps : s < op[w] => step[job[w]][s] = "succeeded"
        /\ pc[w] = "complete" => world[job[w]][op[w]] = "applied"
        /\ pc[w] = "failing" => retries[job[w]] < MaxRetries + faults

WorkerOK(w) ==
    /\ OwnerOK(w)
    /\ pc[w] \in {"idle", "admit", "claim", "plan"} => op[w] = 1

Leased ==
    /\ Typing /\ Unique
    /\ \A t \in Tasks : TaskOK(t)
    /\ \A w \in Workers : WorkerOK(w)

ThreadSame(w) ==
    /\ pc'[w] = pc[w] /\ job'[w] = job[w] /\ key'[w] = key[w]
    /\ op'[w] = op[w] /\ seen'[w] = seen[w]

AppliedKept(t) == \A s \in Steps : world[t][s] = "applied" => world'[t][s] = "applied"

LEMMA BoundsAreNumbers ==
    ASSUME Typing
    PROVE  /\ MaxRetries \in Nat /\ faults \in Nat /\ NSteps \in Nat
           /\ \A t \in Tasks : retries[t] \in Nat
BY LedgerAssumption, WorkerAssumption DEF Typing, LedgerTypeOK, BudgetOK

LEMMA UniqueFrame ==
    ASSUME Unique, UNCHANGED <<queue, recovering, key>>
    PROVE  Unique'
BY DEF Unique

LEMMA TaskFrame ==
    ASSUME Typing, NEW t \in Tasks, TaskOK(t), RowSame(t), AppliedKept(t),
           faults' \in Nat, faults <= faults'
    PROVE  TaskOK(t)'
<1>1. RowOK(t)'
  BY DEF TaskOK, RowOK, RowSame, Replayable, InOrder
<1>2. \A s \in Steps : step'[t][s] = "succeeded" => world'[t][s] = "applied"
  BY DEF TaskOK, RowSame, AppliedKept
<1>3. retries'[t] <= MaxRetries + faults'
  BY BoundsAreNumbers DEF TaskOK, RowSame
<1> QED
  BY <1>1, <1>2, <1>3 DEF TaskOK

LEMMA WorkerFrame ==
    ASSUME Typing, NEW w \in Workers, WorkerOK(w), ThreadSame(w),
           Mine(w)' => Mine(w) /\ RowSame(job[w]) /\ AppliedKept(job[w]),
           faults' \in Nat, faults <= faults'
    PROVE  WorkerOK(w)'
<1>1. SUFFICES ASSUME Mine(w)' PROVE OwnerOK(w)'
  BY DEF WorkerOK, OwnerOK, ThreadSame
<1>2. Mine(w) /\ RowSame(job[w]) /\ AppliedKept(job[w]) /\ OwnerOK(w)
  BY <1>1 DEF WorkerOK
<1>3. job[w] \in Tasks
  BY <1>2 DEF Mine, Typing, ThreadOK
<1>4. pc[w] \in Acting => op[w] \in Steps
  BY PlaceTyping DEF Typing
<1>5. Expected(w)'
  BY <1>2 DEF OwnerOK, Expected, ThreadSame, RowSame, CanRun, ActiveLease, Owns, Mine
<1>6. /\ pc'[w] \in Acting => exec'[job'[w]] = "running"
      /\ \A s \in Steps : s < op'[w] => step'[job'[w]][s] = "succeeded"
  BY <1>2 DEF OwnerOK, ThreadSame, RowSame
<1>7. pc'[w] = "complete" => world'[job'[w]][op'[w]] = "applied"
  BY <1>2, <1>4 DEF OwnerOK, ThreadSame, AppliedKept, Acting
<1>8. pc'[w] = "failing" => retries'[job'[w]] < MaxRetries + faults'
  BY <1>2, <1>3, BoundsAreNumbers DEF OwnerOK, ThreadSame, RowSame
<1> QED
  BY <1>5, <1>6, <1>7, <1>8 DEF OwnerOK

\* A write to the row of t leaves the owners of all other rows alone, and
\* the owner of t either made it or has lost its lease.
LEMMA Undisturbed ==
    ASSUME Typing, NEW w \in Workers, NEW t \in Tasks, WorkerOK(w), ThreadSame(w),
           Elsewhere(t), \A u \in Tasks \ {t} : AppliedKept(u),
           live'[t] => token'[t] # key[w],
           faults' \in Nat, faults <= faults'
    PROVE  WorkerOK(w)'
<1>1. Mine(w)' => Mine(w) /\ RowSame(job[w]) /\ AppliedKept(job[w])
  <2>1. SUFFICES ASSUME Mine(w)' PROVE Mine(w) /\ RowSame(job[w]) /\ AppliedKept(job[w])
    OBVIOUS
  <2>2. job[w] \in Tasks /\ live'[job[w]] /\ token'[job[w]] = key[w]
    BY <2>1 DEF Mine, Owns, ThreadSame, Typing, ThreadOK
  <2>3. job[w] # t
    BY <2>2
  <2> QED
    BY <2>1, <2>2, <2>3 DEF Elsewhere, RowSame, Mine, Owns, ThreadSame
<1> QED
  BY <1>1, WorkerFrame

LEMMA TasksElsewhere ==
    ASSUME Leased, NEW t \in Tasks, Elsewhere(t), \A u \in Tasks \ {t} : AppliedKept(u),
           faults' \in Nat, faults <= faults', TaskOK(t)'
    PROVE  \A u \in Tasks : TaskOK(u)'
BY TaskFrame DEF Leased, Elsewhere
-----------------------------------------------------------------------------
(* The steps of a thread on its own task                                   *)

\* A thread that writes nothing but the row it leases keeps the invariant if
\* it keeps its own part of it.
LEMMA ThreadWrites ==
    ASSUME Leased, Typing', NEW v \in Workers, NEW t \in Tasks, NEW k \in Tokens,
           job[v] = t, key[v] = k,
           Written(t, k) \/ \A u \in Tasks : RowSame(u),
           \A w \in Workers \ {v} : ThreadSame(w),
           UNCHANGED <<queue, recovering, key, world>>, faults <= faults',
           TaskOK(t)', WorkerOK(v)'
    PROVE  Leased'
<1>1. Typing /\ Unique /\ \A w \in Workers : WorkerOK(w)
  BY DEF Leased
<1>2. Elsewhere(t) /\ \A u \in Tasks : AppliedKept(u)
  BY DEF Written, Elsewhere, AppliedKept
<1>3. faults' \in Nat
  BY BoundsAreNumbers, WorkerAssumption DEF Typing, BudgetOK
<1>4. \A u \in Tasks : TaskOK(u)'
  BY <1>2, <1>3, TasksElsewhere
<1>5. ASSUME NEW w \in Workers, w # v
      PROVE  WorkerOK(w)'
  <2>1. CASE Written(t, k)
    <3>1. k # key[w]
      BY <1>1, <1>5 DEF Unique
    <3>2. live'[t] => token'[t] # key[w]
      BY <2>1, <3>1 DEF Written, Owns
    <3> QED
      BY <1>1, <1>2, <1>3, <1>5, <3>2, Undisturbed
  <2>2. CASE \A u \in Tasks : RowSame(u)
    <3>1. Mine(w)' => Mine(w) /\ RowSame(job[w]) /\ AppliedKept(job[w])
      BY <1>1, <1>2, <1>5, <2>2 DEF Mine, Owns, ThreadSame, RowSame, Typing, ThreadOK
    <3> QED
      BY <1>1, <1>3, <1>5, <3>1, WorkerFrame
  <2> QED
    BY <2>1, <2>2
<1> QED
  BY <1>1, <1>4, <1>5, UniqueFrame DEF Leased

\* What such a thread finds, and what Stay leaves of it.
LEMMA OwnerFinds ==
    ASSUME Leased, NEW v \in Workers, NEW t \in Tasks, NEW k \in Tokens,
           job[v] = t, key[v] = k
    PROVE  /\ t # NoTask /\ k # NoToken
           /\ LedgerTypeOK /\ TaskOK(t) /\ RowOK(t) /\ WorkerOK(v) /\ OwnerOK(v)
           /\ Mine(v) <=> Owns(t, k)
           /\ Owns(t, k) => exec[t] \in Active
<1>1. /\ LedgerTypeOK /\ TaskOK(t) /\ WorkerOK(v)
  BY DEF Leased, Typing
<1>2. t # NoTask /\ k # NoToken
  BY LedgerAssumption, WorkerAssumption
<1>3. RowOK(t) /\ OwnerOK(v)
  BY <1>1 DEF TaskOK, WorkerOK
<1> QED
  BY <1>1, <1>2, <1>3 DEF Mine, Owns, RowOK

LEMMA OthersStay ==
    ASSUME Typing, NEW v \in Workers, NEW l, Goto(v, l), Stay
    PROVE  /\ \A w \in Workers \ {v} : ThreadSame(w)
           /\ pc'[v] = l /\ UNCHANGED <<job, key, op, seen>>
BY DEF Typing, ThreadOK, Goto, Stay, ThreadSame

LEMMA OthersHold ==
    ASSUME Typing, NEW v \in Workers, NEW l, NEW a, Goto(v, l), Hold(v, a),
           UNCHANGED <<job, key, op>>
    PROVE  /\ \A w \in Workers \ {v} : ThreadSame(w)
           /\ pc'[v] = l /\ seen'[v] = a /\ UNCHANGED <<job, key, op>>
BY DEF Typing, ThreadOK, Goto, Hold, ThreadSame

LEMMA QuietKeeps ==
    ASSUME Leased, Quiet
    PROVE  /\ UNCHANGED <<queue, recovering, owned, world, faults>> /\ faults <= faults'
           /\ Typing /\ faults \in Nat /\ faults' \in Nat
BY BoundsAreNumbers DEF Leased, Quiet, queueVars, budgetVars

LEMMA LedgerSame ==
    ASSUME UNCHANGED ledgerVars
    PROVE  \A t \in Tasks : RowSame(t)
BY DEF ledgerVars, RowSame

LEMMA TaskUnchanged ==
    ASSUME Leased, UNCHANGED ledgerVars, UNCHANGED world, faults <= faults', faults' \in Nat,
           NEW t \in Tasks
    PROVE  TaskOK(t)'
<1>1. Typing /\ TaskOK(t) /\ RowSame(t) /\ AppliedKept(t)
  BY LedgerSame DEF Leased, AppliedKept
<1> QED
  BY <1>1, TaskFrame

LEMMA LeasedPlan ==
    ASSUME Leased, Typing', NEW v \in Workers, NEW t \in Tasks, NEW k \in Tokens,
           job[v] = t, key[v] = k, Planning(v)
    PROVE  Leased'
<1>1. pc[v] = "plan" /\ Stay /\ Quiet
  BY DEF Planning, PlanStored, PlanSettling, PlanDeferred, Step
<1>2. /\ t # NoTask /\ LedgerTypeOK /\ TaskOK(t) /\ RowOK(t) /\ WorkerOK(v)
      /\ Owns(t, k) => exec[t] \in Active
  BY OwnerFinds
<1>3. /\ UNCHANGED <<queue, recovering, world, faults>> /\ faults <= faults'
      /\ Typing /\ faults' \in Nat
  BY <1>1, QuietKeeps
<1>4. op[v] = 1
  BY <1>1, <1>2 DEF WorkerOK
<1>5. CASE PlanStored(v)
  <2>1. /\ \A w \in Workers \ {v} : ThreadSame(w)
        /\ pc'[v] = "steps" /\ UNCHANGED <<job, key, op, seen>>
    BY <1>1, <1>3, <1>5, OthersStay DEF PlanStored, Step
  <2>2. CASE planned[t] /\ exec[t] # "settling" /\ UNCHANGED ledgerVars
    <3>1. TaskOK(t)'
      BY <1>3, <2>2, TaskUnchanged
    <3>2. Mine(v)' => CanRun(t, k)'
      BY <1>2, <2>1, <2>2 DEF Mine, CanRun, Owns, ledgerVars, Active
    <3>3. WorkerOK(v)'
      BY <1>4, <2>1, <3>2 DEF WorkerOK, OwnerOK, Expected, Acting, Steps
    <3> QED
      BY <1>1, <1>3, <2>1, <2>2, <3>1, <3>3, LedgerSame, ThreadWrites
  <2>3. CASE ~planned[t] /\ StorePlan(t, k)
    <3>1. /\ Written(t, k) /\ RowOK(t)' /\ planned'[t]
          /\ UNCHANGED <<exec, retries, outcome, step, attempt, token, live>>
      BY <1>2, <2>3, StorePlanWrites
    <3>2. TaskOK(t)'
      BY <1>2, <1>3, <3>1 DEF TaskOK
    <3>3. exec[t] \in Active /\ exec[t] # "settling" /\ Owns(t, k)
      BY <1>2, <2>3, <3>1 DEF Written, RowOK
    <3>4. CanRun(t, k)'
      BY <2>1, <3>1, <3>3 DEF CanRun, Owns, Active
    <3>5. WorkerOK(v)'
      BY <1>4, <2>1, <3>4 DEF WorkerOK, OwnerOK, Expected, Acting, Steps
    <3> QED
      BY <1>1, <1>3, <2>1, <3>1, <3>2, <3>5, ThreadWrites
  <2> QED
    BY <1>5, <2>2, <2>3 DEF PlanStored
<1>6. CASE PlanSettling(v)
  <2>1. /\ \A w \in Workers \ {v} : ThreadSame(w)
        /\ pc'[v] = "settle" /\ UNCHANGED <<job, key, op, seen>>
    BY <1>1, <1>3, <1>6, OthersStay DEF PlanSettling, Step
  <2>2. exec[t] = "settling" /\ UNCHANGED ledgerVars
    BY <1>6 DEF PlanSettling
  <2>3. TaskOK(t)'
    BY <1>3, <2>2, TaskUnchanged
  <2>4. exec'[t] = "settling" /\ outcome'[t] # "none"
    BY <1>2, <2>2 DEF RowOK, Replayable, ledgerVars
  <2>5. WorkerOK(v)'
    BY <1>4, <2>1, <2>4 DEF WorkerOK, OwnerOK, Expected, Acting, Steps
  <2> QED
    BY <1>1, <1>3, <2>1, <2>2, <2>3, <2>5, LedgerSame, ThreadWrites
<1>7. CASE PlanDeferred(v)
  <2>1. /\ \A w \in Workers \ {v} : ThreadSame(w)
        /\ pc'[v] = "finish" /\ UNCHANGED <<job, key, op, seen>>
    BY <1>1, <1>3, <1>7, OthersStay DEF PlanDeferred, Step
  <2>2. /\ Written(t, k) /\ RowOK(t)' /\ UNCHANGED step
        /\ retries[t] < MaxRetries /\ retries'[t] = retries[t] + 1
    BY <1>2, <1>7, DeferPlanningWrites DEF PlanDeferred
  <2>3. TaskOK(t)'
    BY <1>2, <1>3, <2>2, BoundsAreNumbers DEF TaskOK
  <2>4. WorkerOK(v)'
    BY <1>4, <2>1 DEF WorkerOK, OwnerOK, Expected, Acting, Steps
  <2> QED
    BY <1>1, <1>3, <2>1, <2>2, <2>3, <2>4, ThreadWrites
<1> QED
  BY <1>5, <1>6, <1>7 DEF Planning
LEMMA LeasedPrepare ==
    ASSUME Leased, Typing', NEW v \in Workers, NEW t \in Tasks, NEW k \in Tokens, NEW s \in Steps,
           job[v] = t, key[v] = k, op[v] = s, Prepare(v)
    PROVE  Leased'
<1> DEFINE was == step[t][s]
<1>1. /\ pc[v] = "steps" /\ PrepareStep(t, k, s) /\ Quiet
      /\ was # "manual_review" /\ Goto(v, AfterPrepare[was])
      /\ op' = [op EXCEPT ![v] = IF was = "succeeded" THEN @ + 1 ELSE @]
      /\ Hold(v, attempt[t][s]) /\ UNCHANGED <<job, key>>
  BY DEF Prepare
<1>2. /\ LedgerTypeOK /\ TaskOK(t) /\ RowOK(t) /\ OwnerOK(v)
      /\ Mine(v) <=> Owns(t, k)
  BY OwnerFinds
<1>3. /\ UNCHANGED <<queue, recovering, world, faults>> /\ faults <= faults'
      /\ Typing /\ faults' \in Nat
  BY <1>1, QuietKeeps
<1>4. \A r \in Steps : r < s => step[t][r] = "succeeded"
  BY <1>1, <1>2 DEF OwnerOK, PrepareStep, CanRun
<1>5. /\ Written(t, k) /\ RowOK(t)' /\ exec'[t] = "running" /\ planned'[t]
      /\ live'[t] /\ token'[t] = k
      /\ step'[t][s] = IF was = "absent" THEN "prepared" ELSE was
      /\ \A r \in Steps : r # s => step'[t][r] = step[t][r]
      /\ UNCHANGED <<retries, attempt>>
  BY <1>1, <1>2, <1>4, PrepareStepWrites
<1>6. TaskOK(t)'
  BY <1>2, <1>3, <1>5 DEF TaskOK
<1>7. /\ \A w \in Workers \ {v} : ThreadSame(w)
      /\ pc'[v] = AfterPrepare[was] /\ seen'[v] = attempt[t][s]
      /\ op'[v] = IF was = "succeeded" THEN s + 1 ELSE s
  BY <1>1, <1>3 DEF Typing, ThreadOK, ThreadSame, Goto, Hold
<1>8. job'[v] = t /\ key'[v] = k
  BY <1>1
<1>9. CanRun(t, k)' /\ ActiveLease(t, k)'
  BY <1>5 DEF CanRun, ActiveLease, Owns
<1>10. was \in StepState
  BY <1>2 DEF LedgerTypeOK
<1>11. WorkerOK(v)'
  <2>1. CASE was = "succeeded"
    <3>1. pc'[v] = "steps"
      BY <1>7, <2>1 DEF AfterPrepare
    <3>2. \A r \in Steps : r < s + 1 => step'[t][r] = "succeeded"
      BY <1>4, <1>5, <2>1 DEF Steps
    <3> QED
      BY <1>7, <1>8, <1>9, <2>1, <3>1, <3>2 DEF WorkerOK, OwnerOK, Expected, Acting
  <2>2. CASE was # "succeeded"
    <3>1. \/ was \in {"absent", "prepared"} /\ pc'[v] = "begin"
          \/ was = "failed" /\ pc'[v] = "resume"
          \/ was = "started" /\ pc'[v] = "observe"
      BY <1>1, <1>7, <1>10, <2>2 DEF AfterPrepare, StepState
    <3>2. \A r \in Steps : r < s => step'[t][r] = "succeeded"
      BY <1>4, <1>5 DEF Steps
    <3>3. op'[v] = s
      BY <1>7, <2>2
    <3>4. Expected(v)'
      BY <1>5, <1>7, <1>8, <1>9, <3>1, <3>3 DEF Expected
    <3> QED
      BY <1>5, <1>8, <3>1, <3>2, <3>3, <3>4 DEF WorkerOK, OwnerOK
  <2> QED
    BY <2>1, <2>2
<1> QED
  BY <1>1, <1>3, <1>5, <1>6, <1>7, <1>11, ThreadWrites

LEMMA LeasedBegin ==
    ASSUME Leased, Typing', NEW v \in Workers, NEW t \in Tasks, NEW k \in Tokens, NEW s \in Steps,
           job[v] = t, key[v] = k, op[v] = s, Begin(v) \/ Resume(v) \/ Restart(v)
    PROVE  Leased'
<1>1. /\ pc[v] \in {"begin", "resume", "restart"} /\ Goto(v, "execute")
      /\ StartStep(t, k, s) \/ ResumeStep(t, k, s) \/ RestartStep(t, k, s, seen[v])
      /\ Hold(v, k) /\ UNCHANGED <<job, key, op>> /\ Quiet
  BY DEF Begin, Resume, Restart, Step
<1>2. /\ LedgerTypeOK /\ TaskOK(t) /\ RowOK(t) /\ OwnerOK(v)
      /\ Mine(v) <=> Owns(t, k)
  BY OwnerFinds
<1>3. /\ UNCHANGED <<queue, recovering, world, faults>> /\ faults <= faults'
      /\ Typing /\ faults' \in Nat
  BY <1>1, QuietKeeps
<1>4. StartStep(t, k, s) \/ ResumeStep(t, k, s) \/ \E a : RestartStep(t, k, s, a)
  BY <1>1
<1>5. /\ Written(t, k) /\ RowOK(t)' /\ token'[t] = k /\ live'[t]
      /\ step'[t][s] = "started" /\ attempt'[t][s] = k
      /\ exec'[t] = "running" \/ exec'[t] = exec[t]
      /\ \A r \in Steps : r # s => step'[t][r] = step[t][r]
      /\ UNCHANGED <<retries, outcome>>
  BY <1>2, <1>4, AttemptWrites
<1>6. TaskOK(t)'
  BY <1>2, <1>3, <1>5 DEF TaskOK
<1>7. /\ \A w \in Workers \ {v} : ThreadSame(w)
      /\ pc'[v] = "execute" /\ seen'[v] = k /\ UNCHANGED <<job, key, op>>
  BY <1>1, <1>3, OthersHold
<1>8. /\ exec[t] = "running"
      /\ \A r \in Steps : r < s => step[t][r] = "succeeded"
  BY <1>1, <1>2, <1>5 DEF OwnerOK, Acting, Written
<1>9. ActiveLease(t, k)' /\ exec'[t] = "running"
  BY <1>5, <1>8 DEF ActiveLease, Owns
<1>10. \A r \in Steps : r < s => step'[t][r] = "succeeded"
  BY <1>5, <1>8 DEF Steps
<1>11. WorkerOK(v)'
  BY <1>5, <1>7, <1>9, <1>10 DEF WorkerOK, OwnerOK, Expected, Acting
<1> QED
  BY <1>1, <1>3, <1>5, <1>6, <1>7, <1>11, ThreadWrites

\* Returning, raising and observing write nothing; only an effect that is
\* there is taken for done.
LEMMA LeasedObserve ==
    ASSUME Leased, Typing', NEW v \in Workers, NEW t \in Tasks, NEW k \in Tokens, NEW s \in Steps,
           job[v] = t, key[v] = k, op[v] = s, Executing(v) \/ Observe(v)
    PROVE  Leased'
<1>1. /\ Stay /\ Quiet /\ UNCHANGED ledgerVars
      /\ pc[v] \in {"execute", "observe", "caught"}
  BY DEF Executing, ExecuteReturns, ExecuteRaises, Observe, Step
<1>2. PICK l : /\ Goto(v, l)
               /\ l \in {"complete", "caught", "review", "restart", "retry"}
               /\ l = "complete" => world[t][s] = "applied"
               /\ l \in {"caught", "retry"} => pc[v] \in {"execute", "caught"}
  BY DEF Executing, ExecuteReturns, ExecuteRaises, Observe, Step, Verdicts
<1>3. OwnerOK(v)
  BY OwnerFinds
<1>4. /\ UNCHANGED <<queue, recovering, world, faults>> /\ faults <= faults'
      /\ Typing /\ faults' \in Nat
  BY <1>1, QuietKeeps
<1>5. TaskOK(t)'
  BY <1>1, <1>4, TaskUnchanged
<1>6. /\ \A w \in Workers \ {v} : ThreadSame(w)
      /\ pc'[v] = l /\ UNCHANGED <<job, key, op, seen>>
  BY <1>1, <1>2, <1>4, OthersStay
<1>7. Mine(v)' => Mine(v)
  BY <1>1, <1>6 DEF Mine, Owns, ledgerVars
<1>8. ASSUME Mine(v)
      PROVE  /\ exec[t] = "running" /\ ActiveLease(t, k)
             /\ step[t][s] = "started" /\ attempt[t][s] = seen[v]
             /\ \A r \in Steps : r < s => step[t][r] = "succeeded"
  <2>1. OwnerOK(v) /\ Expected(v) /\ pc[v] \in Acting
    BY <1>1, <1>3, <1>8 DEF OwnerOK, Acting
  <2>2. exec[t] = "running" /\ \A r \in Steps : r < s => step[t][r] = "succeeded"
    BY <1>8, <2>1 DEF OwnerOK
  <2>3. ActiveLease(t, k) /\ step[t][s] = "started" /\ attempt[t][s] = seen[v]
    BY <1>1, <2>1 DEF Expected
  <2> QED
    BY <2>2, <2>3
<1>9. Mine(v)' => Expected(v)'
  BY <1>1, <1>2, <1>6, <1>7, <1>8 DEF Expected, ActiveLease, Owns, ledgerVars
<1>10. OwnerOK(v)'
  BY <1>1, <1>2, <1>4, <1>6, <1>7, <1>8, <1>9 DEF OwnerOK, ledgerVars
<1>11. WorkerOK(v)'
  BY <1>2, <1>6, <1>10 DEF WorkerOK
<1> QED
  BY <1>1, <1>4, <1>5, <1>6, <1>11, LedgerSame, ThreadWrites
LEMMA LeasedRecord ==
    ASSUME Leased, Typing', NEW v \in Workers, NEW t \in Tasks, NEW k \in Tokens, NEW s \in Steps,
           job[v] = t, key[v] = k, op[v] = s, Recording(v)
    PROVE  Leased'
<1>1. pc[v] \in {"complete", "review", "retry"} /\ Quiet
  BY DEF Recording, Complete, SendToReview, Defer, Exhaust, Step
<1>2. /\ LedgerTypeOK /\ TaskOK(t) /\ RowOK(t) /\ OwnerOK(v)
      /\ Mine(v) <=> Owns(t, k)
  BY OwnerFinds
<1>3. /\ UNCHANGED <<queue, recovering, world, faults>> /\ faults <= faults'
      /\ Typing /\ faults' \in Nat
  BY <1>1, QuietKeeps
<1>4. ASSUME Mine(v)
      PROVE  exec[t] = "running" /\ \A r \in Steps : r < s => step[t][r] = "succeeded"
  BY <1>1, <1>2, <1>4 DEF OwnerOK, Acting
<1>5. CASE Complete(v)
  <2>1. /\ Goto(v, "steps") /\ CompleteStep(t, k, s, seen[v])
        /\ op' = [op EXCEPT ![v] = @ + 1] /\ UNCHANGED <<job, key, seen>>
        /\ pc[v] = "complete"
    BY <1>5 DEF Complete, Step
  <2>2. /\ Written(t, k) /\ RowOK(t)' /\ step'[t][s] = "succeeded"
        /\ \A r \in Steps : r # s => step'[t][r] = step[t][r]
        /\ UNCHANGED <<exec, planned, retries, outcome, token, live>>
    BY <1>2, <2>1, CompleteStepWrites
  <2>3. Mine(v) /\ world[t][s] = "applied" /\ planned[t]
    BY <1>2, <1>4, <2>1, <2>2 DEF OwnerOK, Written, RowOK
  <2>4. TaskOK(t)'
    BY <1>2, <1>3, <2>2, <2>3 DEF TaskOK
  <2>5. /\ \A w \in Workers \ {v} : ThreadSame(w)
        /\ pc'[v] = "steps" /\ op'[v] = s + 1 /\ UNCHANGED <<job, key, seen>>
    BY <1>3, <2>1 DEF Typing, ThreadOK, ThreadSame, Goto
  <2>6. CanRun(t, k)'
    BY <1>4, <2>2, <2>3 DEF CanRun, Written, Owns
  <2>7. \A r \in Steps : r < s + 1 => step'[t][r] = "succeeded"
    BY <1>4, <2>2, <2>3 DEF Steps
  <2>8. WorkerOK(v)'
    BY <2>5, <2>6, <2>7 DEF WorkerOK, OwnerOK, Expected, Acting
  <2> QED
    BY <1>1, <1>3, <2>2, <2>4, <2>5, <2>8, ThreadWrites
<1>6. ASSUME NEW l \in {"finish", "settle"}, Goto(v, l), Stay,
             Written(t, k), RowOK(t)', step'[t][s] # "succeeded",
             \A r \in Steps : r # s => step'[t][r] = step[t][r],
             retries'[t] <= MaxRetries + faults,
             l = "settle" => exec'[t] = "settling" /\ outcome'[t] = "failed"
      PROVE  Leased'
  <2>1. /\ \A w \in Workers \ {v} : ThreadSame(w)
        /\ pc'[v] = l /\ UNCHANGED <<job, key, op, seen>>
    BY <1>3, <1>6, OthersStay
  <2>2. TaskOK(t)'
    BY <1>2, <1>3, <1>6 DEF TaskOK
  <2>3. \A r \in Steps : Mine(v) /\ r < s => step'[t][r] = "succeeded"
    BY <1>4, <1>6 DEF Steps
  <2>4. Mine(v)
    BY <1>2, <1>6 DEF Written
  <2>5. WorkerOK(v)'
    BY <1>6, <2>1, <2>3, <2>4 DEF WorkerOK, OwnerOK, Expected, Acting
  <2> QED
    BY <1>3, <1>6, <2>1, <2>2, <2>5, ThreadWrites
<1>7. retries[t] <= MaxRetries + faults /\ MaxRetries \in Nat /\ faults \in Nat /\ retries[t] \in Nat
  BY <1>2, <1>3, BoundsAreNumbers DEF TaskOK
<1>8. CASE SendToReview(v)
  BY <1>2, <1>6, <1>7, <1>8, ReviewStepWrites DEF SendToReview, Step
<1>9. CASE Defer(v)
  <2>1. /\ Goto(v, "finish") /\ Stay /\ DeferStep(t, k, s, seen[v])
        /\ ~(retries[t] >= MaxRetries)
    BY <1>9 DEF Defer, Step, Exhausted
  <2>2. /\ Written(t, k) /\ RowOK(t)' /\ step'[t][s] = "failed"
        /\ \A r \in Steps : r # s => step'[t][r] = step[t][r]
        /\ retries'[t] = retries[t] + 1
    BY <1>2, <2>1, DeferStepWrites
  <2>3. retries'[t] <= MaxRetries + faults
    BY <1>7, <2>1, <2>2
  <2> QED
    BY <1>6, <2>1, <2>2, <2>3
<1>10. CASE Exhaust(v)
  <2>1. Goto(v, "settle") /\ Stay /\ ExhaustStep(t, k, s, seen[v])
    BY <1>10 DEF Exhaust, Step
  <2>2. /\ Written(t, k) /\ RowOK(t)' /\ step'[t][s] = "failed"
        /\ \A r \in Steps : r # s => step'[t][r] = step[t][r]
        /\ exec'[t] = "settling" /\ outcome'[t] = "failed" /\ UNCHANGED retries
    BY <1>2, <2>1, ExhaustStepWrites
  <2> QED
    BY <1>6, <1>7, <2>1, <2>2
<1> QED
  BY <1>5, <1>8, <1>9, <1>10 DEF Recording

LEMMA LeasedCheckpoint ==
    ASSUME Leased, Typing', NEW v \in Workers, NEW t \in Tasks, NEW k \in Tokens, NEW n \in 1..NSteps + 1,
           job[v] = t, key[v] = k, op[v] = n, Checkpoint(v)
    PROVE  Leased'
<1>1. PICK o \in {"succeeded", "failed"} :
         /\ o = "succeeded" => op[v] > NSteps
         /\ CheckpointResult(t, k, n - 1, o)
  BY DEF Checkpoint
<1>2. Goto(v, "settle") /\ Stay /\ Quiet
  BY DEF Checkpoint, Step
<1>3. /\ LedgerTypeOK /\ TaskOK(t) /\ RowOK(t) /\ OwnerOK(v)
      /\ Mine(v) <=> Owns(t, k)
  BY OwnerFinds
<1>4. /\ UNCHANGED <<queue, recovering, world, faults>> /\ faults <= faults'
      /\ Typing /\ faults' \in Nat
  BY <1>2, QuietKeeps
<1>5. n - 1 \in Nat /\ (o = "succeeded" => n - 1 = NSteps)
  BY <1>1, LedgerAssumption
<1>6. /\ Written(t, k) /\ RowOK(t)' /\ exec'[t] = "settling" /\ outcome'[t] = o
      /\ UNCHANGED <<retries, step>>
  BY <1>1, <1>3, <1>5, CheckpointResultWrites
<1>7. TaskOK(t)'
  BY <1>3, <1>4, <1>6 DEF TaskOK
<1>8. /\ \A w \in Workers \ {v} : ThreadSame(w)
      /\ pc'[v] = "settle" /\ UNCHANGED <<job, key, op, seen>>
  BY <1>2, <1>4, OthersStay
<1>9. \A r \in Steps : r < n => step[t][r] = "succeeded"
  BY <1>3, <1>6 DEF OwnerOK, Written
<1>10. WorkerOK(v)'
  BY <1>6, <1>8, <1>9 DEF WorkerOK, OwnerOK, Expected, Acting
<1> QED
  BY <1>2, <1>4, <1>6, <1>7, <1>8, <1>10, ThreadWrites
LEMMA LeasedConclude ==
    ASSUME Leased, Typing', NEW v \in Workers, NEW t \in Tasks, NEW k \in Tokens,
           job[v] = t, key[v] = k, Settle(v) \/ Fenced(v) \/ Isolate(v)
    PROVE  Leased'
<1>1. Goto(v, "finish") /\ Stay /\ Quiet
  BY DEF Settle, Fenced, Isolate, Step
<1>2. /\ LedgerTypeOK /\ TaskOK(t) /\ RowOK(t) /\ OwnerOK(v)
      /\ Mine(v) <=> Owns(t, k)
  BY OwnerFinds
<1>3. /\ UNCHANGED <<queue, recovering, world, faults>> /\ faults <= faults'
      /\ Typing /\ faults \in Nat /\ faults' \in Nat
  BY <1>1, QuietKeeps
<1>4. /\ \A w \in Workers \ {v} : ThreadSame(w)
      /\ pc'[v] = "finish" /\ UNCHANGED <<job, key, op, seen>>
  BY <1>1, <1>3, OthersStay
<1>5. CASE UNCHANGED ledgerVars
  <2>1. TaskOK(t)'
    BY <1>3, <1>5, TaskUnchanged
  <2>2. WorkerOK(v)'
    BY <1>2, <1>4, <1>5 DEF WorkerOK, OwnerOK, Expected, Acting, Mine, Owns, ledgerVars
  <2> QED
    BY <1>1, <1>3, <1>4, <1>5, <2>1, <2>2, LedgerSame, ThreadWrites
<1>6. ASSUME Written(t, k), RowOK(t)', ~live'[t],
             \A s \in Steps : step'[t][s] \in {"absent", step[t][s]},
             retries'[t] <= MaxRetries + faults
      PROVE  Leased'
  <2>1. TaskOK(t)'
    BY <1>2, <1>3, <1>6 DEF TaskOK
  <2>2. WorkerOK(v)'
    BY <1>4, <1>6 DEF WorkerOK, OwnerOK, Mine, Owns
  <2> QED
    BY <1>1, <1>3, <1>4, <1>6, <2>1, <2>2, ThreadWrites
<1>7. /\ retries[t] <= MaxRetries + faults /\ MaxRetries \in Nat /\ retries[t] \in Nat
      /\ 0 <= MaxRetries + faults
  BY <1>2, <1>3, BoundsAreNumbers DEF TaskOK
<1>8. CASE Settle(v)
  <2>1. SettleSuccess(t, k) \/ SettleFailure(t, k)
    BY <1>8 DEF Settle
  <2>2. /\ Written(t, k) /\ RowOK(t)' /\ ~live'[t]
        /\ retries'[t] = 0 \/ retries'[t] = retries[t]
        /\ \A s \in Steps : step'[t][s] \in {"absent", step[t][s]}
    BY <1>2, <2>1, SettlementWrites
  <2> QED
    BY <1>6, <1>7, <2>2
<1>9. CASE Isolate(v) /\ IsolateRow(t, k)
  <2>1. /\ Written(t, k) /\ RowOK(t)' /\ ~live'[t]
        /\ retries'[t] = retries[t] + 1 /\ UNCHANGED step
    BY <1>2, <1>9, IsolateRowWrites
  <2>2. retries[t] < MaxRetries + faults
    BY <1>2, <1>9, <2>1 DEF Isolate, Step, OwnerOK, Written
  <2>3. retries'[t] <= MaxRetries + faults
    BY <1>3, <1>7, <2>1, <2>2
  <2> QED
    BY <1>6, <2>1, <2>3
<1> QED
  BY <1>5, <1>8, <1>9 DEF Fenced, Isolate

LEMMA LeasedFinish ==
    ASSUME Leased, Typing', NEW v \in Workers, NEW t \in Tasks, NEW k \in Tokens,
           job[v] = t, key[v] = k, Finish(v)
    PROVE  Leased'
<1>1. /\ Goto(v, "leave") /\ Stay /\ ReleaseRow(t, k)
      /\ UNCHANGED <<world, queue, recovering, budgetVars>>
  BY DEF Finish, Step
<1>2. LedgerTypeOK /\ TaskOK(t) /\ RowOK(t) /\ OwnerOK(v)
  BY OwnerFinds
<1>3. /\ UNCHANGED faults /\ Typing /\ faults \in Nat /\ faults <= faults'
  BY <1>1, BoundsAreNumbers DEF Leased, budgetVars
<1>4. /\ \A w \in Workers \ {v} : ThreadSame(w)
      /\ pc'[v] = "leave" /\ UNCHANGED <<job, key, op, seen>>
  BY <1>1, <1>3, OthersStay
<1>5. /\ Written(t, k) \/ \A u \in Tasks : RowSame(u)
      /\ RowOK(t)' /\ UNCHANGED <<exec, planned, retries, outcome, step, attempt>>
  BY <1>1, <1>2, ReleaseRowWrites
<1>6. TaskOK(t)'
  BY <1>1, <1>2, <1>3, <1>5 DEF TaskOK
<1>7. Mine(v)' => Mine(v)
  BY <1>4, <1>5 DEF Mine, Owns, Written, RowSame
<1>8. WorkerOK(v)'
  BY <1>2, <1>4, <1>5, <1>7 DEF WorkerOK, OwnerOK, Expected, Acting
<1> QED
  BY <1>1, <1>3, <1>4, <1>5, <1>6, <1>8, ThreadWrites

LEMMA LeasedFault ==
    ASSUME Leased, Typing', NEW v \in Workers, NEW t \in Tasks, NEW k \in Tokens,
           job[v] = t, key[v] = k, PlanFails(v) \/ Raise(v)
    PROVE  Leased'
<1>1. PICK l \in {"finish", "failing"} : Goto(v, l)
  BY DEF PlanFails, Raise, Step
<1>2. /\ Stay /\ UNCHANGED <<ledgerVars, world, queueVars>> /\ faults' = faults + 1
  BY DEF PlanFails, Raise
<1>3. TaskOK(t) /\ OwnerOK(v)
  BY OwnerFinds
<1>4. /\ Typing /\ faults \in Nat /\ faults' \in Nat /\ faults <= faults'
      /\ MaxRetries \in Nat /\ retries[t] \in Nat
  BY <1>2, BoundsAreNumbers DEF Leased
<1>5. /\ \A w \in Workers \ {v} : ThreadSame(w)
      /\ pc'[v] = l /\ UNCHANGED <<job, key, op, seen>>
  BY <1>1, <1>2, <1>4, OthersStay
<1>6. TaskOK(t)'
  BY <1>2, <1>4, TaskUnchanged
<1>7. retries'[t] < MaxRetries + faults'
  BY <1>2, <1>3, <1>4 DEF TaskOK, ledgerVars
<1>8. Mine(v)' => Mine(v)
  BY <1>2, <1>5 DEF Mine, Owns, ledgerVars
<1>9. WorkerOK(v)'
  BY <1>2, <1>3, <1>5, <1>7, <1>8 DEF WorkerOK, OwnerOK, Expected, Acting, ledgerVars
<1> QED
  BY <1>2, <1>4, <1>5, <1>6, <1>9, LedgerSame, ThreadWrites DEF queueVars
-----------------------------------------------------------------------------
(* Threads that take a task or leave it                                    *)

\* The row of t changes hands or falls to nobody.  A thread v that changes its
\* own place as well must keep its own part.
LEMMA RowChangesHands ==
    ASSUME Leased, Typing', NEW t \in Tasks, Elsewhere(t),
           \A u \in Tasks \ {t} : AppliedKept(u), UNCHANGED faults,
           \A w \in Workers : WorkerOK(w)' \/ (ThreadSame(w) /\ (live'[t] => token'[t] # key[w])),
           TaskOK(t)', Unique'
    PROVE  Leased'
<1>1. Typing /\ faults' \in Nat /\ faults <= faults' /\ \A w \in Workers : WorkerOK(w)
  BY BoundsAreNumbers DEF Leased
<1>2. \A u \in Tasks : TaskOK(u)'
  BY <1>1, TasksElsewhere
<1>3. \A w \in Workers : WorkerOK(w)'
  BY <1>1, Undisturbed
<1> QED
  BY <1>2, <1>3 DEF Leased

LEMMA RowsStay ==
    ASSUME Leased, Typing', \A u \in Tasks : RowSame(u) /\ AppliedKept(u),
           \A w \in Workers : WorkerOK(w)' \/ ThreadSame(w),
           faults' \in Nat, faults <= faults', Unique'
    PROVE  Leased'
<1>1. Typing /\ (\A w \in Workers : WorkerOK(w)) /\ \A u \in Tasks : TaskOK(u)
  BY DEF Leased
<1>2. \A u \in Tasks : TaskOK(u)'
  BY <1>1, TaskFrame
<1>3. ASSUME NEW w \in Workers, ThreadSame(w)
      PROVE  WorkerOK(w)'
  <2>1. ASSUME Mine(w)'
        PROVE  Mine(w) /\ RowSame(job[w]) /\ AppliedKept(job[w])
    <3>1. job[w] \in Tasks
      BY <1>1, <1>3, <2>1 DEF Mine, ThreadSame, Typing, ThreadOK
    <3>2. RowSame(job[w]) /\ AppliedKept(job[w])
      BY <3>1
    <3> QED
      BY <1>3, <2>1, <3>2 DEF Mine, Owns, ThreadSame, RowSame
  <2> QED
    BY <1>1, <1>3, <2>1, WorkerFrame
<1> QED
  BY <1>2, <1>3 DEF Leased

LEMMA NewTokenIsNew ==
    ASSUME NEW t \in Tasks, NEW k, NewToken(t, k)
    PROVE  /\ k \in Tokens /\ recovering.key # k
           /\ \A w \in Workers : key[w] # k
           /\ \A i \in queue : i.key # k
BY DEF NewToken, Holders

LEMMA PersistSeizes ==
    ASSUME Leased, Typing', NEW t \in Tasks, Persist(t), UNCHANGED faults
    PROVE  /\ TaskOK(t)' /\ Elsewhere(t) /\ \A u \in Tasks \ {t} : AppliedKept(u)
           /\ ~live'[t] \/ UNCHANGED <<ledgerVars, world>>
<1>1. /\ LedgerTypeOK /\ WorldOK /\ faults \in Nat /\ MaxRetries \in Nat
      /\ 0 <= MaxRetries + faults'
  BY BoundsAreNumbers DEF Leased, Typing
<1>2. CASE Admit(t)
  <2>1. Seized(t) /\ RowOK(t)' /\ retries'[t] = 0 /\ \A s \in Steps : step'[t][s] = "absent"
    BY <1>1, <1>2, FreshRowSeizes DEF Admit, InsertRow
  <2>2. \A u \in Tasks \ {t} : world'[u] = world[u]
    BY <1>1, <1>2 DEF Admit, WorldOK
  <2> QED
    BY <1>1, <2>1, <2>2 DEF TaskOK, Seized, AppliedKept
<1>3. CASE UNCHANGED <<ledgerVars, world>>
  <2>1. TaskOK(t)'
    BY <1>1, <1>3, TaskUnchanged
  <2> QED
    BY <1>3, <2>1, LedgerSame DEF Elsewhere, AppliedKept
<1> QED
  BY <1>2, <1>3 DEF Persist

LEMMA LeasedForegroundAdmit ==
    ASSUME Leased, Typing', NEW v \in Workers, NEW t \in Tasks, job[v] = t, ForegroundAdmit(v)
    PROVE  Leased'
<1>1. /\ pc[v] = "admit" /\ Goto(v, "claim") /\ Stay /\ Persist(t)
      /\ UNCHANGED <<queueVars, budgetVars>>
  BY DEF ForegroundAdmit, Step
<1>2. Typing /\ Unique /\ WorkerOK(v)
  BY DEF Leased
<1>3. /\ \A w \in Workers \ {v} : ThreadSame(w)
      /\ pc'[v] = "claim" /\ UNCHANGED <<job, key, op, seen>>
  BY <1>1, <1>2, OthersStay
<1>4. /\ TaskOK(t)' /\ Elsewhere(t) /\ \A u \in Tasks \ {t} : AppliedKept(u)
      /\ ~live'[t] \/ UNCHANGED <<ledgerVars, world>>
  BY <1>1, PersistSeizes DEF budgetVars
<1>5. op[v] = 1
  BY <1>1, <1>2 DEF WorkerOK
<1>6. WorkerOK(v)'
  BY <1>3, <1>5 DEF WorkerOK, OwnerOK, Expected, Acting, Steps
<1>7. Unique' /\ UNCHANGED faults
  BY <1>1, <1>2, <1>3, UniqueFrame DEF queueVars, budgetVars
<1>8. CASE ~live'[t]
  BY <1>3, <1>4, <1>6, <1>7, <1>8, RowChangesHands
<1>9. CASE UNCHANGED <<ledgerVars, world>>
  <2>1. \A u \in Tasks : RowSame(u) /\ AppliedKept(u)
    BY <1>9, LedgerSame DEF AppliedKept
  <2>2. faults' \in Nat /\ faults <= faults'
    BY <1>2, <1>7, BoundsAreNumbers
  <2> QED
    BY <1>3, <1>6, <1>7, <2>1, <2>2, RowsStay
<1> QED
  BY <1>4, <1>8, <1>9

LEMMA LeasedForegroundClaim ==
    ASSUME Leased, Typing', NEW v \in Workers, NEW t \in Tasks, job[v] = t, ForegroundClaim(v)
    PROVE  Leased'
<1>1. /\ pc[v] = "claim" /\ Goto(v, "plan")
      /\ UNCHANGED <<world, queue, recovering, job, op, seen, budgetVars>>
  BY DEF ForegroundClaim, Step
<1>2. PICK k \in Tokens : NewToken(t, k) /\ ClaimRow(t, k) /\ key' = [key EXCEPT ![v] = k]
  BY DEF ForegroundClaim
<1>3. /\ Typing /\ LedgerTypeOK /\ ThreadOK /\ Unique /\ WorkerOK(v) /\ TaskOK(t) /\ RowOK(t)
  BY DEF Leased, Typing, TaskOK
<1>4. /\ recovering.key # k /\ \A w \in Workers : key[w] # k
      /\ \A i \in queue : i.key # k
  BY <1>2, NewTokenIsNew
<1>5. /\ Elsewhere(t) /\ RowOK(t)' /\ token'[t] = k
      /\ UNCHANGED <<retries, step>>
  BY <1>2, <1>3, ClaimRowLeases
<1>6. TaskOK(t)' /\ UNCHANGED faults
  BY <1>1, <1>3, <1>5 DEF TaskOK, budgetVars
<1>7. /\ key'[v] = k /\ \A w \in Workers \ {v} : key'[w] = key[w]
      /\ pc'[v] = "plan" /\ \A w \in Workers \ {v} : ThreadSame(w)
  BY <1>1, <1>2, <1>3 DEF ThreadOK, Goto, ThreadSame
<1>8. Unique'
  BY <1>1, <1>3, <1>4, <1>7 DEF Unique
<1>9. op'[v] = 1
  BY <1>1, <1>3 DEF WorkerOK
<1>10. WorkerOK(v)'
  BY <1>7, <1>9 DEF WorkerOK, OwnerOK, Expected, Acting, Steps
<1>11. \A u \in Tasks \ {t} : AppliedKept(u)
  BY <1>1 DEF AppliedKept
<1> QED
  BY <1>4, <1>5, <1>6, <1>7, <1>8, <1>10, <1>11, RowChangesHands
\* A thread that takes a task, declines one or leaves it writes nothing.
LEMMA LeasedMove ==
    ASSUME Leased, Typing', NEW v \in Workers, UNCHANGED <<ledgerVars, world, faults>>,
           \A w \in Workers \ {v} : ThreadSame(w), Unique', WorkerOK(v)'
    PROVE  Leased'
<1>1. \A u \in Tasks : RowSame(u) /\ AppliedKept(u)
  BY LedgerSame DEF AppliedKept
<1>2. faults' \in Nat /\ faults <= faults'
  BY BoundsAreNumbers DEF Leased
<1> QED
  BY <1>1, <1>2, RowsStay

LEMMA LeasedForegroundTake ==
    ASSUME Leased, Typing', NEW v \in Workers, NEW t \in Tasks,
           ForegroundTake(v, t) \/ ForegroundLost(v)
    PROVE  Leased'
<1>1. /\ pc[v] \in {"idle", "claim"}
      /\ Goto(v, "admit") \/ Goto(v, "leave")
      /\ UNCHANGED <<ledgerVars, world, faults, queue, recovering, key, op, seen>>
      /\ UNCHANGED job \/ job' = [job EXCEPT ![v] = t]
  BY DEF ForegroundTake, ForegroundLost, Step, Stay, Quiet, queueVars, budgetVars
<1>2. Typing /\ ThreadOK /\ Unique /\ WorkerOK(v)
  BY DEF Leased, Typing
<1>3. op'[v] = 1
  BY <1>1, <1>2 DEF WorkerOK, ForegroundTake, ForegroundLost, Step
<1>4. /\ pc'[v] \in {"admit", "leave"}
      /\ \A w \in Workers \ {v} : ThreadSame(w)
  BY <1>1, <1>2 DEF ThreadOK, Goto, ThreadSame
<1>5. WorkerOK(v)'
  BY <1>3, <1>4 DEF WorkerOK, OwnerOK, Expected, Acting, Steps
<1>6. Unique'
  BY <1>1, <1>2, UniqueFrame
<1> QED
  BY <1>1, <1>4, <1>5, <1>6, LeasedMove

\* The token of the item that leaves the queue becomes the thread's.
LEMMA LeasedTake ==
    ASSUME Leased, Typing', NEW v \in Workers, Take(v)
    PROVE  Leased'
<1>1. PICK i \in queue : /\ queue' = queue \ {i}
                         /\ job' = [job EXCEPT ![v] = i.task]
                         /\ key' = [key EXCEPT ![v] = i.key]
                         /\ Goto(v, "plan") \/ Goto(v, "finish")
  BY DEF Take
<1>2. /\ pc[v] = "idle"
      /\ UNCHANGED <<ledgerVars, world, owned, recovering, op, seen, faults>>
  BY DEF Take, budgetVars
<1>3. Typing /\ ThreadOK /\ Unique /\ WorkerOK(v)
  BY DEF Leased, Typing
<1>4. /\ pc'[v] \in {"plan", "finish"} /\ key'[v] = i.key
      /\ \A w \in Workers \ {v} : key'[w] = key[w]
      /\ \A w \in Workers \ {v} : ThreadSame(w)
  BY <1>1, <1>2, <1>3 DEF ThreadOK, Goto, ThreadSame
<1>5. op'[v] = 1
  BY <1>2, <1>3 DEF WorkerOK
<1>6. WorkerOK(v)'
  BY <1>4, <1>5 DEF WorkerOK, OwnerOK, Expected, Acting, Steps
<1>7. Unique'
  BY <1>1, <1>2, <1>3, <1>4 DEF Unique
<1> QED
  BY <1>2, <1>4, <1>6, <1>7, LeasedMove

LEMMA LeasedLeave ==
    ASSUME Leased, Typing', NEW v \in Workers, Leave(v)
    PROVE  Leased'
<1>1. /\ job' = [job EXCEPT ![v] = NoTask] /\ key' = [key EXCEPT ![v] = NoToken]
      /\ op' = [op EXCEPT ![v] = 1] /\ Hold(v, NoToken) /\ Goto(v, "idle")
      /\ UNCHANGED <<ledgerVars, world, faults, queue, recovering>>
  BY DEF Leave, Step, Quiet, queueVars, budgetVars
<1>2. Typing /\ ThreadOK /\ Unique /\ MemoryOK
  BY DEF Leased, Typing
<1>3. /\ job'[v] = NoTask /\ key'[v] = NoToken /\ op'[v] = 1
      /\ \A w \in Workers \ {v} : key'[w] = key[w]
      /\ \A w \in Workers \ {v} : ThreadSame(w)
  BY <1>1, <1>2 DEF ThreadOK, Goto, Hold, ThreadSame
<1>4. WorkerOK(v)'
  BY <1>3 DEF WorkerOK, OwnerOK, Mine
<1>5. NoToken \notin Tokens
  BY LedgerAssumption
<1>6. /\ \A i \in queue : i.key \in Tokens
      /\ recovering # NoItem => recovering.key \in Tokens
  BY <1>2, RecoveringIsItem DEF MemoryOK, Item
<1>7. Unique'
  BY <1>1, <1>2, <1>3, <1>5, <1>6 DEF Unique
<1> QED
  BY <1>1, <1>3, <1>4, <1>7, LeasedMove

\* Effects only grow while an operation executes.
LEMMA LeasedEffect ==
    ASSUME Leased, Typing', NEW v \in Workers, NEW t \in Tasks, NEW s \in Steps,
           job[v] = t, op[v] = s, EffectLands(v)
    PROVE  Leased'
<1>1. /\ world[t][s] # "applied" /\ UNCHANGED <<ledgerVars, queueVars, threadVars, budgetVars>>
  BY DEF EffectLands
<1>2. PICK e : world' = [world EXCEPT ![t][s] = e]
  BY DEF EffectLands
<1>3. Typing /\ WorldOK /\ Unique
  BY DEF Leased, Typing
<1>4. \A u \in Tasks : RowSame(u) /\ AppliedKept(u)
  BY <1>1, <1>2, <1>3, LedgerSame DEF AppliedKept, WorldOK
<1>5. faults' \in Nat /\ faults <= faults'
  BY <1>1, <1>3, BoundsAreNumbers DEF budgetVars
<1>6. Unique' /\ \A w \in Workers : ThreadSame(w)
  BY <1>1, <1>3, UniqueFrame DEF queueVars, threadVars, ThreadSame
<1> QED
  BY <1>4, <1>5, <1>6, RowsStay
-----------------------------------------------------------------------------
(* Admission, recovery, users, time and crashes                            *)

LEMMA ThreadsSame ==
    ASSUME UNCHANGED threadVars
    PROVE  UNCHANGED key /\ \A w \in Workers : ThreadSame(w)
BY DEF threadVars, ThreadSame

\* A claim under a token that nobody refers to.
LEMMA ClaimTakesOver ==
    ASSUME Leased, Typing', NEW t \in Tasks, NEW k \in Tokens, NewToken(t, k), ClaimRow(t, k),
           UNCHANGED <<threadVars, world, faults>>, Unique'
    PROVE  Leased'
<1>1. TaskOK(t) /\ RowOK(t) /\ LedgerTypeOK
  BY DEF Leased, Typing, TaskOK
<1>2. Elsewhere(t) /\ RowOK(t)' /\ token'[t] = k /\ UNCHANGED <<retries, step>>
  BY <1>1, ClaimRowLeases
<1>3. TaskOK(t)'
  BY <1>1, <1>2 DEF TaskOK
<1>4. \A w \in Workers : ThreadSame(w) /\ token'[t] # key[w]
  BY <1>2, NewTokenIsNew, ThreadsSame
<1>5. \A u \in Tasks \ {t} : AppliedKept(u)
  BY DEF AppliedKept
<1> QED
  BY <1>2, <1>3, <1>4, <1>5, RowChangesHands

LEMMA LeasedSubmit ==
    ASSUME Leased, Typing', Submitting \/ \E t \in Tasks : SubmitAdmit(t)
    PROVE  Leased'
<1>1. UNCHANGED <<threadVars, faults, recovering>>
  BY DEF Submitting, SubmitClaim, SubmitLost, SubmitAdmit, budgetVars
<1>2. Unique /\ Typing /\ MemoryOK /\ UNCHANGED key /\ \A w \in Workers : ThreadSame(w)
  BY <1>1, ThreadsSame DEF Leased, Typing
<1>3. ASSUME NEW t \in Tasks, SubmitAdmit(t)
      PROVE  Leased'
  <2>1. /\ TaskOK(t)' /\ Elsewhere(t) /\ \A u \in Tasks \ {t} : AppliedKept(u)
        /\ ~live'[t] \/ UNCHANGED <<ledgerVars, world>>
    BY <1>1, <1>3, PersistSeizes DEF SubmitAdmit
  <2>2. Unique'
    BY <1>1, <1>2, <1>3, UniqueFrame DEF SubmitAdmit
  <2>3. CASE ~live'[t]
    BY <1>1, <1>2, <2>1, <2>2, <2>3, RowChangesHands
  <2>4. CASE UNCHANGED <<ledgerVars, world>>
    <3>1. \A u \in Tasks : RowSame(u) /\ AppliedKept(u)
      BY <2>4, LedgerSame DEF AppliedKept
    <3>2. faults' \in Nat /\ faults <= faults'
      BY <1>1, <1>2, BoundsAreNumbers
    <3> QED
      BY <1>2, <2>2, <3>1, <3>2, RowsStay
  <2> QED
    BY <2>1, <2>3, <2>4
<1>4. CASE SubmitClaim
  <2>1. PICK t \in Tasks : submitting = t
    BY <1>2, <1>4 DEF SubmitClaim, MemoryOK
  <2>2. PICK k \in Tokens : /\ NewToken(t, k) /\ ClaimRow(t, k)
                            /\ queue' = queue \cup {[task |-> t, key |-> k]}
    BY <1>4, <2>1 DEF SubmitClaim
  <2>3. Unique'
    BY <1>1, <1>2, <2>2, NewTokenIsNew DEF Unique
  <2>4. UNCHANGED world
    BY <1>4 DEF SubmitClaim
  <2> QED
    BY <1>1, <2>2, <2>3, <2>4, ClaimTakesOver
<1>5. CASE SubmitLost
  <2>1. UNCHANGED <<ledgerVars, world, queue>>
    BY <1>5 DEF SubmitLost
  <2>2. Unique'
    BY <1>1, <1>2, <2>1, UniqueFrame
  <2>3. \A u \in Tasks : RowSame(u) /\ AppliedKept(u)
    BY <2>1, LedgerSame DEF AppliedKept
  <2>4. faults' \in Nat /\ faults <= faults'
    BY <1>1, <1>2, BoundsAreNumbers
  <2> QED
    BY <1>2, <2>2, <2>3, <2>4, RowsStay
<1> QED
  BY <1>3, <1>4, <1>5 DEF Submitting

LEMMA LeasedRecoverClaim ==
    ASSUME Leased, Typing', NEW t \in Tasks, RecoverClaim(t)
    PROVE  Leased'
<1>1. /\ UNCHANGED <<world, queue, threadVars, faults>> /\ Unique
  BY DEF RecoverClaim, budgetVars, Leased
<1>2. PICK k \in Tokens : /\ NewToken(t, k) /\ ClaimRow(t, k)
                          /\ recovering' = [task |-> t, key |-> k]
  BY DEF RecoverClaim
<1>3. Unique'
  BY <1>1, <1>2, NewTokenIsNew, ThreadsSame DEF Unique
<1> QED
  BY <1>1, <1>2, <1>3, ClaimTakesOver

\* The scan hands its claim to the queue, or gives up the lease it still has.
LEMMA LeasedRecover ==
    ASSUME Leased, Typing', Recovering \/ RecoverFails
    PROVE  Leased'
<1>1. recovering # NoItem /\ Typing /\ MemoryOK /\ Unique
  BY DEF Recovering, RecoverEnqueue, RecoverRefused, RecoverAbandon, RecoverFails,
         Leased, Typing
<1>2. PICK t \in Tasks, k \in Tokens : recovering.task = t /\ recovering.key = k
  BY <1>1, RecoveringIsItem
<1>3. UNCHANGED <<world, threadVars>> /\ recovering' = NoItem
  BY DEF Recovering, RecoverEnqueue, RecoverRefused, RecoverAbandon, RecoverFails, GiveBack
<1>4. UNCHANGED key /\ \A w \in Workers : ThreadSame(w) /\ k # key[w]
  BY <1>1, <1>2, <1>3, ThreadsSame DEF Unique
<1>5. \A u \in Tasks : AppliedKept(u)
  BY <1>3 DEF AppliedKept
<1>6. UNCHANGED queue \/ queue' = queue \cup {recovering}
  BY DEF Recovering, RecoverEnqueue, RecoverRefused, RecoverAbandon, RecoverFails, GiveBack
<1>7. Unique'
  BY <1>1, <1>3, <1>4, <1>6 DEF Unique
<1>8. faults' \in Nat /\ faults \in Nat /\ faults <= faults'
  BY <1>1, BoundsAreNumbers
     DEF Recovering, RecoverEnqueue, RecoverRefused, RecoverAbandon, RecoverFails, budgetVars
<1>9. LedgerTypeOK /\ TaskOK(t) /\ RowOK(t) /\ retries[t] \in Nat /\ MaxRetries \in Nat
  BY <1>1, BoundsAreNumbers DEF Leased, Typing, TaskOK
<1>10. CASE UNCHANGED ledgerVars
  BY <1>4, <1>5, <1>7, <1>8, <1>10, LedgerSame, RowsStay
<1>11. ASSUME Written(t, k) \/ \A u \in Tasks : RowSame(u), TaskOK(t)'
       PROVE  Leased'
  <2>1. CASE Written(t, k)
    <3>1. \A w \in Workers : WorkerOK(w)'
      BY <1>1, <1>4, <1>5, <1>8, <2>1, Undisturbed DEF Written, Owns, Leased
    <3>2. \A u \in Tasks : TaskOK(u)'
      BY <1>5, <1>8, <1>11, <2>1, TasksElsewhere DEF Written
    <3> QED
      BY <1>7, <3>1, <3>2 DEF Leased
  <2>2. CASE \A u \in Tasks : RowSame(u)
    BY <1>4, <1>5, <1>7, <1>8, <2>2, RowsStay
  <2> QED
    BY <1>11, <2>1, <2>2
<1>12. CASE ReleaseRow(t, k)
  <2>1. /\ Written(t, k) \/ \A u \in Tasks : RowSame(u)
        /\ RowOK(t)' /\ UNCHANGED <<retries, step>>
    BY <1>9, <1>12, ReleaseRowWrites
  <2>2. TaskOK(t)'
    BY <1>3, <1>8, <1>9, <2>1 DEF TaskOK
  <2> QED
    BY <1>11, <2>1, <2>2
<1>13. CASE AbandonRow(t, k)
  <2>1. Owns(t, k) /\ FreshRow(t, "absent")
    BY <1>13 DEF AbandonRow, DeleteRow
  <2>2. Seized(t) /\ RowOK(t)' /\ retries'[t] = 0 /\ \A s \in Steps : step'[t][s] = "absent"
    BY <1>9, <2>1, FreshRowSeizes
  <2>3. retries'[t] <= MaxRetries + faults'
    <3>1. retries'[t] = 0
      BY <2>2
    <3>2. MaxRetries \in Nat /\ faults' \in Nat
      BY <1>8, <1>9
    <3>3. \A m, n \in Nat : 0 <= m + n
      OBVIOUS
    <3> QED
      BY ONLY <3>1, <3>2, <3>3, Zenon
  <2>4. Written(t, k)
    BY <2>1, <2>2 DEF Seized, Written
  <2>5. TaskOK(t)'
    BY <2>2, <2>3 DEF TaskOK
  <2> QED
    BY <1>11, <2>4, <2>5
<1> QED
  BY <1>2, <1>10, <1>12, <1>13
     DEF Recovering, RecoverEnqueue, RecoverRefused, RecoverAbandon, RecoverFails, GiveBack
LEMMA LeasedAsk ==
    ASSUME Leased, Typing', NEW t \in Tasks, Asking(t)
    PROVE  Leased'
<1>1. Aside /\ UNCHANGED <<faults, queue, recovering, threadVars>>
  BY DEF Asking, Retry, Discard, ResolveUnhandled, Resolve, Aside, queueVars
<1>2. /\ Typing /\ LedgerTypeOK /\ WorldOK /\ Unique /\ TaskOK(t) /\ RowOK(t)
      /\ retries[t] \in Nat /\ MaxRetries \in Nat /\ faults \in Nat
  BY BoundsAreNumbers DEF Leased, Typing, TaskOK
<1>3. UNCHANGED key /\ \A w \in Workers : ThreadSame(w)
  BY <1>1, ThreadsSame
<1>4. Unique'
  BY <1>1, <1>2, <1>3, UniqueFrame
<1>5. ASSUME Seized(t), TaskOK(t)', \A u \in Tasks \ {t} : world'[u] = world[u]
      PROVE  Leased'
  BY <1>1, <1>3, <1>4, <1>5, RowChangesHands DEF Seized, AppliedKept
<1>6. CASE Retry(t) \/ ResolveUnhandled(t)
  <2>1. (RequestRetry(t) \/ ResolveIsolated(t)) /\ UNCHANGED world
    BY <1>6 DEF Retry, ResolveUnhandled
  <2>2. Seized(t) /\ RowOK(t)' /\ UNCHANGED <<retries, step>>
    BY <1>2, <2>1, RetryRequestSeizes, ResolveIsolatedSeizes
  <2>3. TaskOK(t)'
    BY <1>1, <1>2, <2>1, <2>2 DEF TaskOK
  <2> QED
    BY <1>5, <2>1, <2>2, <2>3
<1>7. CASE Discard(t)
  <2>1. FreshRow(t, "absent") /\ UNCHANGED world
    BY <1>7 DEF Discard, DiscardFailed, DiscardReview, DeleteRow
  <2>2. Seized(t) /\ RowOK(t)' /\ retries'[t] = 0 /\ \A s \in Steps : step'[t][s] = "absent"
    BY <1>2, <2>1, FreshRowSeizes
  <2>3. retries'[t] <= MaxRetries + faults'
    BY <1>1, <1>2, <2>2
  <2>4. TaskOK(t)'
    BY <2>2, <2>3 DEF TaskOK
  <2> QED
    BY <1>5, <2>1, <2>2, <2>4
<1>8. ASSUME NEW s \in Steps, Resolve(t, s)
      PROVE  Leased'
  <2>1. PICK to, e : /\ ResolveStep(t, s, to) /\ world' = [world EXCEPT ![t][s] = e]
                     /\ to = "succeeded" => e = "applied"
    BY <1>8 DEF Resolve
  <2>2. /\ Seized(t) /\ RowOK(t)' /\ step'[t][s] = to /\ UNCHANGED retries
        /\ \A r \in Steps : r # s => step'[t][r] = step[t][r]
    BY <1>2, <2>1, ResolveStepSeizes
  <2>3. /\ world'[t][s] = e /\ \A r \in Steps : r # s => world'[t][r] = world[t][r]
        /\ \A u \in Tasks \ {t} : world'[u] = world[u]
    BY <1>2, <2>1 DEF WorldOK
  <2>4. TaskOK(t)'
    BY <1>1, <1>2, <2>1, <2>2, <2>3 DEF TaskOK
  <2> QED
    BY <1>5, <2>2, <2>3, <2>4
<1> QED
  BY <1>6, <1>7, <1>8 DEF Asking

LEMMA LeasedTime ==
    ASSUME Leased, Typing', NEW t \in Tasks, LeaseExpires(t) \/ HeartbeatFails(t) \/ RetryDue(t)
    PROVE  Leased'
<1>1. /\ UNCHANGED <<exec, planned, retries, outcome, step, attempt, token>>
      /\ UNCHANGED <<world, queue, recovering, threadVars, faults>>
  BY DEF LeaseExpires, HeartbeatFails, RetryDue, rowVars, leaseVars, stepVars,
         ledgerVars, queueVars, budgetVars
<1>2. Typing /\ LedgerTypeOK /\ Unique /\ TaskOK(t)
  BY DEF Leased, Typing
<1>3. Unique' /\ \A w \in Workers : ThreadSame(w)
  BY <1>1, <1>2, UniqueFrame, ThreadsSame
<1>4. \A u \in Tasks : AppliedKept(u)
  BY <1>1 DEF AppliedKept
<1>5. faults' \in Nat /\ faults <= faults'
  BY <1>1, <1>2, BoundsAreNumbers
<1>6. CASE LeaseExpires(t)
  <2>1. ~live'[t] /\ \A u \in Tasks : u # t => live'[u] = live[u]
    BY <1>2, <1>6 DEF LeaseExpires, LedgerTypeOK
  <2>2. Elsewhere(t)
    BY <1>1, <2>1 DEF Elsewhere, RowSame
  <2>3. TaskOK(t)'
    BY <1>1, <1>2, <2>1 DEF TaskOK, RowOK, Replayable, InOrder
  <2> QED
    BY <1>1, <1>3, <1>4, <2>1, <2>2, <2>3, RowChangesHands
<1>7. CASE HeartbeatFails(t) \/ RetryDue(t)
  <2>1. \A u \in Tasks : RowSame(u)
    BY <1>1, <1>7 DEF HeartbeatFails, RetryDue, RowSame, ledgerVars, leaseVars
  <2> QED
    BY <1>3, <1>4, <1>5, <2>1, RowsStay
<1> QED
  BY <1>6, <1>7

\* A crash leaves the ledger and the effects; every thread starts afresh.
LEMMA LeasedCrash ==
    ASSUME Leased, Typing', Crash
    PROVE  Leased'
<1>1. /\ UNCHANGED <<ledgerVars, world, faults>> /\ queue' = {} /\ recovering' = NoItem
      /\ \A w \in Workers : job'[w] = NoTask /\ key'[w] = NoToken /\ op'[w] = 1
  BY DEF Crash
<1>2. \A w \in Workers : WorkerOK(w)'
  BY <1>1 DEF WorkerOK, OwnerOK, Mine
<1>3. Unique'
  BY <1>1, LedgerAssumption DEF Unique
<1>4. \A u \in Tasks : RowSame(u) /\ AppliedKept(u)
  BY <1>1, LedgerSame DEF AppliedKept
<1>5. faults' \in Nat /\ faults <= faults'
  BY <1>1, BoundsAreNumbers DEF Leased
<1> QED
  BY <1>2, <1>3, <1>4, <1>5, RowsStay

LEMMA LeasedInit == Init => Leased
<1> SUFFICES ASSUME Init PROVE Leased
  OBVIOUS
<1>1. Typing
  BY TypingInit
<1>2. \A w \in Workers : WorkerOK(w)
  BY DEF Init, MemoryInit, WorkerOK, OwnerOK, Mine
<1>3. Unique
  BY LedgerAssumption DEF Init, MemoryInit, Unique
<1>4. ASSUME NEW t \in Tasks
      PROVE  TaskOK(t)
  <2>1. /\ exec[t] = "absent" /\ live[t] = FALSE /\ token[t] = NoToken
        /\ \A s \in Steps : step[t][s] = "absent"
    BY DEF Init, LedgerInit
  <2>2. retries[t] <= MaxRetries + faults
    BY LedgerAssumption DEF Init, LedgerInit
  <2> QED
    BY <2>1, <2>2 DEF TaskOK, RowOK, Replayable, InOrder
<1> QED
  BY <1>1, <1>2, <1>3, <1>4 DEF Leased
LEMMA LeasedProgress ==
    ASSUME Leased, Typing', NEW v \in Workers, Progress(v) \/ Mishap(v)
    PROVE  Leased'
<1>1. ThreadOK
  BY DEF Leased, Typing
<1>2. CASE Take(v) \/ ForegroundLost(v) \/ Leave(v)
  <2>1. CASE Take(v) \/ Leave(v)
    BY <2>1, LeasedTake, LeasedLeave
  <2>2. CASE ForegroundLost(v)
    <3>1. job[v] \in Tasks
      BY <1>1, <2>2, PlaceTyping DEF ForegroundLost, Step
    <3> QED
      BY <2>2, <3>1, LeasedForegroundTake
  <2> QED
    BY <1>2, <2>1, <2>2
<1>3. CASE ForegroundAdmit(v) \/ ForegroundClaim(v)
  <2>1. pc[v] # "idle"
    BY <1>3 DEF ForegroundAdmit, ForegroundClaim, Step
  <2>2. PICK t \in Tasks : job[v] = t
    BY <1>1, <2>1, PlaceTyping
  <2> QED
    BY <1>3, <2>2, LeasedForegroundAdmit, LeasedForegroundClaim
<1>4. ASSUME pc[v] \in Committed,
             \/ Planning(v) \/ Checkpoint(v) \/ Settle(v) \/ Fenced(v) \/ Isolate(v)
             \/ Finish(v) \/ PlanFails(v) \/ Raise(v)
      PROVE  Leased'
  <2>1. PICK t \in Tasks, k \in Tokens, n \in 1..NSteps + 1 : job[v] = t /\ key[v] = k /\ op[v] = n
    BY <1>1, <1>4, PlaceTyping DEF Committed
  <2> QED
    BY <1>4, <2>1, LeasedPlan, LeasedCheckpoint, LeasedConclude, LeasedFinish, LeasedFault
<1>5. ASSUME pc[v] \in Committed, op[v] \in Steps,
             \/ Running(v) \/ Executing(v) \/ Observe(v) \/ Recording(v) \/ EffectLands(v)
      PROVE  Leased'
  <2>1. PICK t \in Tasks, k \in Tokens, s \in Steps : job[v] = t /\ key[v] = k /\ op[v] = s
    BY <1>1, <1>5, PlaceTyping DEF Committed
  <2> QED
    BY <1>5, <2>1, LeasedPrepare, LeasedBegin, LeasedObserve, LeasedRecord, LeasedEffect
       DEF Running
<1>6. CASE \/ Planning(v) \/ Checkpoint(v) \/ Settle(v) \/ Fenced(v) \/ Isolate(v)
           \/ Finish(v) \/ PlanFails(v) \/ Raise(v)
  <2>1. pc[v] \in Committed
    BY <1>6 DEF Planning, PlanStored, PlanSettling, PlanDeferred, Checkpoint, Settle, Fenced,
                Isolate, Finish, PlanFails, Raise, Step, Committing, Committed
  <2> QED
    BY <1>4, <1>6, <2>1
<1>7. CASE Prepare(v)
  <2>1. pc[v] \in Committed /\ op[v] \in Steps
    BY <1>1, <1>7, PlaceTyping, LedgerAssumption DEF Prepare, Committed, Steps
  <2> QED
    BY <1>5, <1>7, <2>1 DEF Running
<1>8. CASE \/ Begin(v) \/ Resume(v) \/ Restart(v) \/ Executing(v) \/ Observe(v)
           \/ Recording(v) \/ EffectLands(v)
  <2>1. pc[v] \in Acting
    BY <1>8 DEF Begin, Resume, Restart, Executing, ExecuteReturns, ExecuteRaises, Observe,
                Recording, Complete, SendToReview, Defer, Exhaust, EffectLands, Step, Acting
  <2>2. pc[v] \in Committed /\ op[v] \in Steps
    BY <1>1, <2>1, PlaceTyping DEF Acting, Committed
  <2> QED
    BY <1>5, <1>8, <2>2 DEF Running
<1> QED
  BY <1>2, <1>3, <1>6, <1>7, <1>8 DEF Progress, Mishap, Starting, Running, Ending

LEMMA LeasedStep == Leased /\ [Next]_vars => Leased'
<1> SUFFICES ASSUME Leased, [Next]_vars PROVE Leased'
  OBVIOUS
<1>1. Typing'
  BY TypingStep DEF Leased
<1>2. ASSUME NEW w \in Workers, NEW t \in Tasks, ForegroundTake(w, t)
      PROVE  Leased'
  BY <1>1, <1>2, LeasedForegroundTake
<1>3. CASE UNCHANGED vars
  <2>1. /\ UNCHANGED <<ledgerVars, world, faults, threadVars, queue, recovering>>
    BY <1>3 DEF vars, queueVars, budgetVars
  <2>2. \A u \in Tasks : RowSame(u) /\ AppliedKept(u)
    BY <2>1, LedgerSame DEF AppliedKept
  <2>3. Unique' /\ \A w \in Workers : ThreadSame(w)
    BY <2>1, ThreadsSame, UniqueFrame DEF Leased
  <2>4. faults' \in Nat /\ faults <= faults'
    BY <2>1, BoundsAreNumbers DEF Leased
  <2> QED
    BY <1>1, <2>2, <2>3, <2>4, RowsStay
<1> QED
  BY <1>1, <1>2, <1>3, LeasedProgress, LeasedSubmit, LeasedRecoverClaim, LeasedRecover,
     LeasedAsk, LeasedTime, LeasedCrash DEF Next

LEMMA LeasedInvariant == Spec => []Leased
<1>1. QED
  BY LeasedInit, LeasedStep, PTL DEF Spec

\* An operation recorded as succeeded has really taken effect, through any
\* number of owners, crashes, expired leases, retries and reviews: complete_step
\* compares the attempt token, and only what was observed is confirmed.
THEOREM TransferRecordsAreTrue == Spec => []RecordsAreTrue
<1>1. Leased => RecordsAreTrue
  BY DEF Leased, TaskOK, RecordsAreTrue
<1>2. QED
  BY <1>1, LeasedInvariant, PTL

\* A thread that still owns the lease of its task is refused by no state or
\* attempt condition of the repository: a CAS that matches no row always means
\* that the lease is lost, as TransferExecutionLeaseLostError says.
THEOREM TransferOwnerIsNeverRefused == Spec => []OwnerIsNeverRefused
<1>1. Leased => OwnerIsNeverRefused
  BY DEF Leased, WorkerOK, OwnerOK, OwnerIsNeverRefused
<1>2. QED
  BY <1>1, LeasedInvariant, PTL

\* A checkpointed result can be settled again from the ledger alone, which is
\* all that _replay_settling reads after a crash.
THEOREM TransferSettlingIsReplayable == Spec => []SettlingIsReplayable
<1>1. Leased => SettlingIsReplayable
  BY DEF Leased, TaskOK, RowOK, Replayable, SettlingIsReplayable
<1>2. QED
  BY <1>1, LeasedInvariant, PTL

\* Failures of a transfer are retried within the budget; only a fault outside
\* the operations, which isolate_unhandled_failure counts as well, goes beyond.
THEOREM TransferRetriesAreBudgeted == Spec => []RetriesAreBudgeted
<1>1. Leased => RetriesAreBudgeted
  BY DEF Leased, TaskOK, RetriesAreBudgeted
<1>2. QED
  BY <1>1, LeasedInvariant, PTL

-----------------------------------------------------------------------------
(* What waits for a user                                                   *)

\* A task in manual review has one row to answer, any other task none.
ReviewOK(t) ==
    /\ exec[t] # "manual_review" =>
           UnderReview(t) = {} /\ review[t] # "manual_review"
    /\ exec[t] = "manual_review" =>
           \/ UnderReview(t) = {} /\ review[t] = "manual_review"
           \/ review[t] # "manual_review" /\ \E s \in Steps : UnderReview(t) = {s}

Reviewed == \A t \in Tasks : ReviewOK(t)

LEMMA ReviewedSame ==
    ASSUME Reviewed, UNCHANGED <<exec, step, review>>
    PROVE  Reviewed'
BY DEF Reviewed, ReviewOK, UnderReview

\* A row that is not under review before nor after, whatever else changes.
LEMMA ReviewedRow ==
    ASSUME Reviewed, NEW t \in Tasks, exec'[t] # "manual_review", review'[t] # "manual_review",
           \A s \in Steps : step'[t][s] # "manual_review",
           \A u \in Tasks \ {t} : exec'[u] = exec[u] /\ step'[u] = step[u] /\ review'[u] = review[u]
    PROVE  Reviewed'
BY DEF Reviewed, ReviewOK, UnderReview

LEMMA FreshRowReviewed ==
    ASSUME LedgerTypeOK, Reviewed, NEW t \in Tasks, NEW e \in {"absent", "not_started"},
           FreshRow(t, e)
    PROVE  Reviewed'
<1>1. /\ exec'[t] = e /\ review'[t] = "absent" /\ \A s \in Steps : step'[t][s] = "absent"
      /\ \A u \in Tasks \ {t} : exec'[u] = exec[u] /\ step'[u] = step[u] /\ review'[u] = review[u]
  BY DEF FreshRow, LedgerTypeOK
<1> QED
  BY <1>1, ReviewedRow

\* The transactions of an owner that ask for no review.
LEMMA OwnerReviewed ==
    ASSUME LedgerTypeOK, Reviewed, NEW t \in Tasks, NEW k, NEW s \in Steps,
           \/ PrepareStep(t, k, s) \/ StartStep(t, k, s) \/ ResumeStep(t, k, s)
           \/ \E a : \/ RestartStep(t, k, s, a) \/ CompleteStep(t, k, s, a)
                     \/ DeferStep(t, k, s, a) \/ ExhaustStep(t, k, s, a)
    PROVE  Reviewed'
<1>1. exec[t] \in {"running", "not_started", "retry_wait"} /\ UNCHANGED review
  BY DEF PrepareStep, StartStep, ResumeStep, RestartStep, CompleteStep, DeferStep, ExhaustStep,
         Attempting, ActiveLease, CanRun, MoveStep
<1>2. review[t] # "manual_review" /\ \A r \in Steps : step[t][r] # "manual_review"
  BY <1>1 DEF Reviewed, ReviewOK, UnderReview
<1>3. exec'[t] # "manual_review" /\ \A u \in Tasks \ {t} : exec'[u] = exec[u]
  BY <1>1 DEF LedgerTypeOK, PrepareStep, BecomeRunning, StartStep, ResumeStep, RestartStep,
              CompleteStep, DeferStep, ExhaustStep, rowVars
<1>4. CASE PrepareStep(t, k, s)
  <2>1. /\ step \in [Tasks -> [Steps -> StepState]]
        /\ step' = [step EXCEPT ![t][s] = IF @ = "absent" THEN "prepared" ELSE @]
        /\ review' = review
    BY <1>4 DEF PrepareStep, LedgerTypeOK
  <2>2. \A r \in Steps : step'[t][r] # "manual_review"
    BY <1>2, <2>1
  <2>3. \A u \in Tasks \ {t} : step'[u] = step[u]
    BY <2>1
  <2> QED
    BY <1>1, <1>2, <1>3, <2>1, <2>2, <2>3, ReviewedRow
<1>5. CASE ~PrepareStep(t, k, s)
  <2>1. PICK to, a : to \in {"started", "succeeded", "failed"} /\ MoveStep(t, s, to, a)
    BY <1>5 DEF StartStep, ResumeStep, RestartStep, CompleteStep, DeferStep, ExhaustStep
  <2>2. \A r \in Steps : step'[t][r] # "manual_review"
    BY <1>2, <2>1, MoveStepMoves
  <2>3. \A u \in Tasks \ {t} : step'[u] = step[u]
    BY <2>1, MoveStepMoves
  <2> QED
    BY <1>1, <1>2, <1>3, <2>2, <2>3, ReviewedRow
<1> QED
  BY <1>4, <1>5

LEMMA ReviewStepReviewed ==
    ASSUME LedgerTypeOK, Reviewed, NEW t \in Tasks, NEW k, NEW s \in Steps, NEW a,
           ReviewStep(t, k, s, a)
    PROVE  Reviewed'
<1>1. exec[t] # "manual_review" /\ UNCHANGED review
  BY DEF ReviewStep, Attempting, ActiveLease, MoveStep
<1>2. /\ exec'[t] = "manual_review" /\ \A u \in Tasks \ {t} : exec'[u] = exec[u]
      /\ MoveStep(t, s, "manual_review", NoToken)
  BY DEF ReviewStep, LedgerTypeOK
<1>3. /\ step'[t][s] = "manual_review" /\ \A r \in Steps : r # s => step'[t][r] = step[t][r]
      /\ \A u \in Tasks \ {t} : step'[u] = step[u]
  BY <1>2, MoveStepMoves
<1>4. review[t] # "manual_review" /\ \A r \in Steps : step[t][r] # "manual_review"
  BY <1>1 DEF Reviewed, ReviewOK, UnderReview
<1>5. UnderReview(t)' = {s}
  BY <1>3, <1>4 DEF UnderReview
<1>6. ReviewOK(t)'
  BY <1>1, <1>2, <1>4, <1>5 DEF ReviewOK
<1> QED
  BY <1>1, <1>2, <1>3, <1>6 DEF Reviewed, ReviewOK, UnderReview

\* Plan, claim, checkpoint, failure, isolation and retry write no step.
LEMMA RowReviewed ==
    ASSUME LedgerTypeOK, Reviewed, NEW t \in Tasks, NEW k,
           \/ StorePlan(t, k) \/ DeferPlanning(t, k) \/ SettleFailure(t, k)
           \/ (\E n, o : CheckpointResult(t, k, n, o)) \/ RequestRetry(t)
           \/ ClaimRow(t, k) \/ ReleaseRow(t, k) \/ IsolateRow(t, k)
    PROVE  Reviewed'
<1>1. CASE StorePlan(t, k) \/ ClaimRow(t, k) \/ ReleaseRow(t, k)
  BY <1>1, ReviewedSame DEF StorePlan, ClaimRow, ReleaseRow, rowVars, stepVars
<1>2. CASE \/ DeferPlanning(t, k) \/ SettleFailure(t, k) \/ RequestRetry(t)
           \/ \E n, o : CheckpointResult(t, k, n, o)
  <2>1. /\ exec[t] # "manual_review" /\ exec'[t] # "manual_review" /\ UNCHANGED <<step, review>>
        /\ \A u \in Tasks \ {t} : exec'[u] = exec[u]
    BY <1>2 DEF LedgerTypeOK, DeferPlanning, SettleFailure, RequestRetry, CheckpointResult,
                CanRun, stepVars
  <2>2. review[t] # "manual_review" /\ \A s \in Steps : step[t][s] # "manual_review"
    BY <2>1 DEF Reviewed, ReviewOK, UnderReview
  <2> QED
    BY <2>1, <2>2, ReviewedRow
<1>3. CASE IsolateRow(t, k)
  <2>1. /\ exec[t] # "manual_review" /\ exec'[t] = "manual_review" /\ UNCHANGED step
        /\ review'[t] = "manual_review"
        /\ \A u \in Tasks \ {t} : exec'[u] = exec[u] /\ review'[u] = review[u]
    BY <1>3 DEF LedgerTypeOK, IsolateRow, Isolable
  <2> QED
    BY <2>1 DEF Reviewed, ReviewOK, UnderReview
<1> QED
  BY <1>1, <1>2, <1>3

\* The answer of a user leaves nothing to answer.
LEMMA AnswerReviewed ==
    ASSUME LedgerTypeOK, Reviewed, NEW t \in Tasks,
           ResolveIsolated(t) \/ \E s \in Steps, to \in {"succeeded", "failed"} : ResolveStep(t, s, to)
    PROVE  Reviewed'
<1>1. /\ exec[t] = "manual_review" /\ exec'[t] = "retry_wait"
      /\ \A u \in Tasks \ {t} : exec'[u] = exec[u]
  BY DEF LedgerTypeOK, ResolveIsolated, ResolveStep, ReturnToRetry
<1>2. CASE ResolveIsolated(t)
  <2>1. /\ UNCHANGED step /\ review[t] = "manual_review" /\ review'[t] = "failed"
        /\ \A u \in Tasks \ {t} : review'[u] = review[u]
    BY <1>2 DEF LedgerTypeOK, ResolveIsolated
  <2>2. \A r \in Steps : step[t][r] # "manual_review"
    BY <1>1, <2>1 DEF Reviewed, ReviewOK, UnderReview
  <2> QED
    BY <1>1, <2>1, <2>2, ReviewedRow
<1>3. ASSUME NEW s \in Steps, NEW to \in {"succeeded", "failed"}, ResolveStep(t, s, to)
      PROVE  Reviewed'
  <2>1. /\ UNCHANGED review /\ s \in UnderReview(t) /\ step'[t][s] = to
        /\ \A r \in Steps : r # s => step'[t][r] = step[t][r]
        /\ \A u \in Tasks \ {t} : step'[u] = step[u]
    BY <1>3 DEF LedgerTypeOK, ResolveStep
  <2>2. review[t] # "manual_review" /\ UnderReview(t) = {s}
    BY <1>1, <2>1 DEF Reviewed, ReviewOK
  <2>3. \A r \in Steps : step'[t][r] # "manual_review"
    BY <2>1, <2>2 DEF UnderReview
  <2> QED
    BY <1>1, <2>1, <2>2, <2>3, ReviewedRow
<1> QED
  BY <1>2, <1>3

LEMMA ReviewedThread ==
    ASSUME Reviewed, Typing, NEW v \in Workers, Progress(v) \/ Mishap(v)
    PROVE  Reviewed'
<1> USE DEF Typing
<1>1. CASE UNCHANGED ledgerVars
  BY <1>1, ReviewedSame DEF ledgerVars
<1>2. CASE Take(v) \/ ForegroundLost(v) \/ Executing(v) \/ Observe(v) \/ Fenced(v) \/ Leave(v)
           \/ Mishap(v) \/ PlanSettling(v)
  BY <1>1, <1>2 DEF Take, ForegroundLost, Executing, ExecuteReturns, ExecuteRaises, Observe,
                    Fenced, Leave, Mishap, EffectLands, PlanFails, Raise, PlanSettling
<1>3. CASE ForegroundAdmit(v)
  <2>1. job[v] \in Tasks /\ Persist(job[v])
    BY <1>3, PlaceTyping DEF ForegroundAdmit, Step
  <2> QED
    BY <1>1, <2>1, FreshRowReviewed DEF Persist, Admit, InsertRow
<1>4. CASE ForegroundClaim(v)
  <2>1. job[v] \in Tasks /\ \E k \in Tokens : ClaimRow(job[v], k)
    BY <1>4, PlaceTyping DEF ForegroundClaim, Step
  <2> QED
    BY <2>1, RowReviewed
<1>5. CASE PlanStored(v) \/ PlanDeferred(v) \/ Checkpoint(v) \/ Settle(v) \/ Isolate(v) \/ Finish(v)
  <2>1. job[v] \in Tasks
    BY <1>5, PlaceTyping DEF PlanStored, PlanDeferred, Checkpoint, Settle, Isolate, Finish, Step
  <2>2. CASE PlanStored(v) \/ PlanDeferred(v)
    BY <1>1, <2>1, <2>2, RowReviewed DEF PlanStored, PlanDeferred
  <2>3. CASE Checkpoint(v)
    BY <2>1, <2>3, RowReviewed DEF Checkpoint
  <2>4. CASE Settle(v)
    <3>1. CASE SettleSuccess(job[v], key[v])
      BY <2>1, <3>1, FreshRowReviewed DEF SettleSuccess, DeleteRow
    <3> QED
      BY <2>1, <2>4, <3>1, RowReviewed DEF Settle
  <2>5. CASE Isolate(v) \/ Finish(v)
    BY <1>1, <2>1, <2>5, RowReviewed DEF Isolate, Finish
  <2> QED
    BY <1>5, <2>2, <2>3, <2>4, <2>5
<1>6. CASE Running(v) \/ Recording(v)
  <2>1. job[v] \in Tasks /\ op[v] \in Steps
    BY <1>6, PlaceTyping, LedgerAssumption
       DEF Running, Prepare, Begin, Resume, Restart, Recording, Complete, SendToReview, Defer,
           Exhaust, Step, Acting, Steps
  <2>2. CASE SendToReview(v)
    BY <2>1, <2>2, ReviewStepReviewed DEF SendToReview
  <2>3. CASE ~SendToReview(v)
    BY <1>6, <2>1, <2>3, OwnerReviewed
       DEF Running, Prepare, Begin, Resume, Restart, Recording, Complete, Defer, Exhaust
  <2> QED
    BY <2>2, <2>3
<1> QED
  BY <1>2, <1>3, <1>4, <1>5, <1>6 DEF Progress, Starting, Planning, Ending

LEMMA ReviewedMemory ==
    ASSUME Reviewed, Typing,
           \/ Submitting \/ Recovering \/ RecoverFails \/ Crash
           \/ \E w \in Workers, t \in Tasks : ForegroundTake(w, t)
           \/ \E t \in Tasks : \/ SubmitAdmit(t) \/ RecoverClaim(t) \/ Asking(t)
                               \/ LeaseExpires(t) \/ HeartbeatFails(t) \/ RetryDue(t)
    PROVE  Reviewed'
<1> USE DEF Typing
<1>1. CASE \/ Crash \/ SubmitLost \/ RecoverEnqueue
           \/ \E w \in Workers, t \in Tasks : ForegroundTake(w, t)
           \/ \E t \in Tasks : LeaseExpires(t) \/ HeartbeatFails(t) \/ RetryDue(t)
  BY <1>1, ReviewedSame DEF Crash, SubmitLost, RecoverEnqueue, ForegroundTake, LeaseExpires,
                            HeartbeatFails, RetryDue, ledgerVars, rowVars, stepVars
<1>2. ASSUME NEW t \in Tasks, SubmitAdmit(t)
      PROVE  Reviewed'
  BY <1>2, FreshRowReviewed, ReviewedSame DEF SubmitAdmit, Persist, Admit, InsertRow, ledgerVars
<1>3. CASE SubmitClaim
  BY <1>3, RowReviewed DEF SubmitClaim, MemoryOK
<1>4. ASSUME NEW t \in Tasks, RecoverClaim(t)
      PROVE  Reviewed'
  BY <1>4, RowReviewed DEF RecoverClaim
<1>5. CASE RecoverRefused \/ RecoverFails
  BY <1>5, RecoveringIsItem, RowReviewed DEF RecoverRefused, RecoverFails, GiveBack
<1>6. CASE RecoverAbandon
  BY <1>6, RecoveringIsItem, FreshRowReviewed DEF RecoverAbandon, AbandonRow, DeleteRow
<1>7. ASSUME NEW t \in Tasks, Asking(t)
      PROVE  Reviewed'
  <2>1. CASE Retry(t)
    BY <2>1, RowReviewed DEF Retry
  <2>2. CASE Discard(t)
    BY <2>2, FreshRowReviewed DEF Discard, DiscardFailed, DiscardReview, DeleteRow
  <2>3. CASE ResolveUnhandled(t) \/ \E s \in Steps : Resolve(t, s)
    BY <2>3, AnswerReviewed DEF ResolveUnhandled, Resolve
  <2> QED
    BY <1>7, <2>1, <2>2, <2>3 DEF Asking
<1> QED
  BY <1>1, <1>2, <1>3, <1>4, <1>5, <1>6, <1>7 DEF Submitting, Recovering

LEMMA ReviewedInvariant == Spec => []Reviewed
<1>1. Init => Reviewed
  BY DEF Init, LedgerInit, Reviewed, ReviewOK, UnderReview
<1>2. Reviewed /\ Typing /\ [Next]_vars => Reviewed'
  <2>1. Reviewed /\ UNCHANGED vars => Reviewed'
    BY ReviewedSame DEF vars, ledgerVars
  <2> QED
    BY <2>1, ReviewedThread, ReviewedMemory DEF Next
<1>3. QED
  BY <1>1, <1>2, TypingInvariant, PTL DEF Spec

\* What waits for a user is leased by nobody, and a task in manual review has
\* exactly one row to answer: resolve_manual_review can always release it.
THEOREM TransferParkedIsAnswerable == Spec => []ParkedIsAnswerable
<1>1. Leased /\ Reviewed => ParkedIsAnswerable
  <2> SUFFICES ASSUME Leased, Reviewed, NEW t \in Tasks
               PROVE  /\ exec[t] \in {"absent", "failed", "manual_review"} => token[t] = NoToken
                      /\ Cardinality(UnderReview(t))
                           + (IF review[t] = "manual_review" THEN 1 ELSE 0)
                           = IF exec[t] = "manual_review" THEN 1 ELSE 0
    BY DEF ParkedIsAnswerable
  <2>1. exec[t] \in {"absent", "failed", "manual_review"} => token[t] = NoToken
    BY DEF Leased, TaskOK, RowOK, Active
  <2>2. /\ UnderReview(t) = {} => Cardinality(UnderReview(t)) = 0
        /\ \A s \in Steps : UnderReview(t) = {s} => Cardinality(UnderReview(t)) = 1
    BY FS_EmptySet, FS_Singleton
  <2>3. ReviewOK(t)
    BY DEF Reviewed
  <2> QED
    BY <2>1, <2>2, <2>3 DEF ReviewOK
<1>2. QED
  BY <1>1, LeasedInvariant, ReviewedInvariant, PTL

-----------------------------------------------------------------------------
(* No blind replay among the queue workers                                 *)

\* An operation that is recorded as not begun, or as failed, has no effect.
Blank(t) ==
    exec[t] # "absent" =>
        \A s \in Steps : step[t][s] \in {"absent", "prepared", "failed"} => world[t][s] = "untouched"

\* The operation of a thread is recorded as started from its beginning to the
\* record of its end, even when the lease was lost, unless the row is gone; a
\* thread that is about to try it again has observed that there is no effect.
Trying == {"observe", "restart", "execute", "caught", "retry"}

Observed(w) ==
    /\ pc[w] \in Trying => exec[job[w]] = "absent" \/ step[job[w]][op[w]] = "started"
    /\ pc[w] \in {"restart", "retry"} => world[job[w]][op[w]] = "untouched"

Untried ==
    /\ \A t \in Tasks : Blank(t)
    /\ \A w \in Workers : Observed(w)

NoForeground == Foreground = {}

TaskSame(u) == exec'[u] = exec[u] /\ step'[u] = step[u] /\ world'[u] = world[u]

\* A thread that changes nothing but its own task disturbs no other thread.
LEMMA UntriedThread ==
    ASSUME NoForeground, Typing, Alone, Untried, NEW v \in Workers, job[v] # NoTask,
           job'[v] = job[v], \A u \in Tasks : u # job[v] => TaskSame(u),
           \A w \in Workers \ {v} : ThreadSame(w),
           job[v] \in Tasks => Blank(job[v])', Observed(v)'
    PROVE  Untried'
<1>1. \A t \in Tasks : Blank(t)'
  BY DEF Untried, Blank, TaskSame
<1>2. ASSUME NEW w \in Workers, w # v
      PROVE  Observed(w)'
  <2>1. ThreadSame(w) /\ Observed(w)
    BY <1>2 DEF Untried
  <2>2. pc[w] = "idle" \/ (job[w] \in Tasks /\ job[w] # NoTask)
    BY PlaceTyping, WorkerAssumption DEF Typing
  <2>3. CASE pc[w] = "idle"
    BY <2>1, <2>3 DEF Observed, ThreadSame, Trying
  <2>4. CASE job[w] \in Tasks
    <3>1. job[w] # job[v]
      BY <1>2, <2>4, WorkerAssumption DEF Alone, NoForeground, Workers
    <3> QED
      BY <2>1, <2>4, <3>1 DEF Observed, ThreadSame, TaskSame
  <2> QED
    BY <2>2, <2>3, <2>4
<1> QED
  BY <1>1, <1>2 DEF Untried

LEMMA UntriedSame ==
    ASSUME Typing, Untried, \A u \in Tasks : TaskSame(u), \A w \in Workers : ThreadSame(w)
    PROVE  Untried'
<1>1. \A t \in Tasks : Blank(t)'
  BY DEF Untried, Blank, TaskSame
<1>2. ASSUME NEW w \in Workers
      PROVE  Observed(w)'
  <2>1. pc[w] # "idle" => job[w] \in Tasks
    BY PlaceTyping DEF Typing
  <2> QED
    BY <2>1 DEF Untried, Observed, ThreadSame, TaskSame, Trying
<1> QED
  BY <1>1, <1>2 DEF Untried

\* A step that leaves the rows and the effects alone, of a thread that comes
\* to a place where nothing is said of its operation.
LEMMA UntriedMove ==
    ASSUME NoForeground, Typing, Alone, Untried, NEW v \in Workers,
           \A u \in Tasks : TaskSame(u), \A w \in Workers \ {v} : ThreadSame(w),
           pc'[v] \notin Trying
    PROVE  Untried'
<1>1. \A t \in Tasks : Blank(t)'
  BY DEF Untried, Blank, TaskSame
<1>2. ASSUME NEW w \in Workers
      PROVE  Observed(w)'
  <2>1. pc[w] # "idle" => job[w] \in Tasks
    BY PlaceTyping DEF Typing
  <2> QED
    BY <2>1 DEF Untried, Observed, ThreadSame, TaskSame, Trying
<1> QED
  BY <1>1, <1>2 DEF Untried

LEMMA AllTasksSame ==
    ASSUME UNCHANGED <<exec, step, world>>
    PROVE  \A u \in Tasks : TaskSame(u)
BY DEF TaskSame

LEMMA UntriedGoes ==
    ASSUME NoForeground, Typing, Alone, Untried, NEW v \in Workers,
           \/ Take(v) \/ Leave(v) \/ Finish(v) \/ ForegroundLost(v) \/ ForegroundClaim(v)
           \/ PlanStored(v) \/ PlanSettling(v) \/ Fenced(v) \/ PlanFails(v) \/ Raise(v)
           \/ ExecuteReturns(v)
           \/ \E t \in Tasks : ForegroundTake(v, t)
    PROVE  Untried'
<1>1. UNCHANGED <<exec, step, world>>
  BY DEF Take, Leave, Finish, ForegroundLost, ForegroundClaim, PlanStored,
         PlanSettling, Fenced, PlanFails, Raise, ExecuteReturns,
         ForegroundTake, ReleaseRow, ClaimRow, StorePlan, Quiet, ledgerVars, rowVars, stepVars
<1>2. \A w \in Workers \ {v} : ThreadSame(w)
  BY DEF Take, Leave, Finish, ForegroundLost, ForegroundClaim, PlanStored,
         PlanSettling, Fenced, PlanFails, Raise, ExecuteReturns,
         ForegroundTake, Step, Goto, Hold, Stay, Typing, ThreadOK, ThreadSame
<1>3. pc'[v] \notin Trying
  BY DEF Take, Leave, Finish, ForegroundLost, ForegroundClaim, PlanStored,
         PlanSettling, Fenced, PlanFails, Raise, ExecuteReturns,
         ForegroundTake, Trying, Step, Goto, Typing, ThreadOK
<1> QED
  BY <1>1, <1>2, <1>3, AllTasksSame, UntriedMove

\* What a thread that writes its row finds, and the others keep.
LEMMA UntriedWriter ==
    ASSUME Typing, Untried, NEW v \in Workers, pc[v] \in Committed
    PROVE  /\ job[v] \in Tasks /\ job[v] # NoTask /\ LedgerTypeOK /\ WorldOK /\ Blank(job[v])
           /\ pc[v] \in Acting => op[v] \in Steps
BY PlaceTyping, WorkerAssumption DEF Typing, Untried, Committed

LEMMA UntriedPrepare ==
    ASSUME NoForeground, Typing, Alone, Untried, NEW v \in Workers, Prepare(v)
    PROVE  Untried'
<1> DEFINE t == job[v]  s == op[v]
<1>1. /\ t \in Tasks /\ t # NoTask /\ LedgerTypeOK /\ Blank(t) /\ s \in Steps
  BY UntriedWriter, PlaceTyping, LedgerAssumption DEF Prepare, Committed, Typing, Steps
<1>2. /\ PrepareStep(t, key[v], s) /\ UNCHANGED <<world, job>>
      /\ step[t][s] # "manual_review" /\ Goto(v, AfterPrepare[step[t][s]])
  BY DEF Prepare, Quiet
<1>3. /\ exec[t] # "absent" /\ \A u \in Tasks : u # t => exec'[u] = exec[u] /\ step'[u] = step[u]
      /\ step'[t][s] = IF step[t][s] = "absent" THEN "prepared" ELSE step[t][s]
      /\ \A r \in Steps : step'[t][r] \in {"absent", "prepared", "failed"}
             => step[t][r] \in {"absent", "prepared", "failed"}
  BY <1>1, <1>2 DEF PrepareStep, CanRun, BecomeRunning, LedgerTypeOK
<1>4. \A u \in Tasks : u # t => TaskSame(u)
  BY <1>2, <1>3 DEF TaskSame
<1>5. \A w \in Workers \ {v} : ThreadSame(w)
  BY DEF Prepare, Goto, Hold, Typing, ThreadOK, ThreadSame
<1>6. Observed(v)'
  <2>1. step[t][s] \in StepState
    BY <1>1 DEF LedgerTypeOK
  <2>2. pc'[v] = AfterPrepare[step[t][s]]
    BY <1>2 DEF Goto, Typing, ThreadOK
  <2>3. CASE step[t][s] = "started"
    <3>1. pc'[v] = "observe" /\ op'[v] = s
      BY <2>2, <2>3 DEF AfterPrepare, Prepare, Typing, ThreadOK
    <3> QED
      BY <1>2, <1>3, <2>3, <3>1 DEF Observed
  <2>4. CASE step[t][s] # "started"
    <3>1. pc'[v] \in {"begin", "resume", "steps"}
      BY <1>2, <2>1, <2>2, <2>4 DEF AfterPrepare, StepState
    <3> QED
      BY <3>1 DEF Observed, Trying
  <2> QED
    BY <2>3, <2>4
<1>7. Blank(t)'
  BY <1>1, <1>2, <1>3 DEF Blank
<1> QED
  BY <1>1, <1>2, <1>4, <1>5, <1>6, <1>7, UntriedThread

LEMMA UntriedBegin ==
    ASSUME NoForeground, Typing, Alone, Untried, NEW v \in Workers,
           Begin(v) \/ Resume(v) \/ Restart(v)
    PROVE  /\ Untried' /\ world[job[v]][op[v]] = "untouched"
           /\ \A w \in Workers \ {v} : ThreadSame(w)
<1> DEFINE t == job[v]  s == op[v]
<1>1. /\ t \in Tasks /\ t # NoTask /\ LedgerTypeOK /\ Blank(t) /\ s \in Steps /\ Observed(v)
  BY UntriedWriter DEF Begin, Resume, Restart, Step, Committed, Acting, Untried
<1>2. /\ UNCHANGED <<world, job, op>>
      /\ \A w \in Workers \ {v} : ThreadSame(w)
  BY DEF Begin, Resume, Restart, Quiet, Step, Goto, Hold, Typing, ThreadOK, ThreadSame
<1>3. /\ MoveStep(t, s, "started", key[v]) /\ exec[t] # "absent"
      /\ \A u \in Tasks : u # t => exec'[u] = exec[u]
  BY <1>1 DEF Begin, Resume, Restart, StartStep, ResumeStep, RestartStep, Attempting,
              ActiveLease, CanRun, BecomeRunning, rowVars, LedgerTypeOK
<1>4. /\ step'[t][s] = "started" /\ \A r \in Steps : r # s => step'[t][r] = step[t][r]
      /\ \A u \in Tasks : u # t => step'[u] = step[u]
  BY <1>1, <1>3, MoveStepMoves
<1>5. \A u \in Tasks : u # t => TaskSame(u)
  BY <1>2, <1>3, <1>4 DEF TaskSame
<1>6. Blank(t)'
  BY <1>1, <1>2, <1>3, <1>4 DEF Blank
<1>7. Observed(v)'
  <2>1. pc'[v] = "execute"
    BY DEF Begin, Resume, Restart, Step, Goto, Typing, ThreadOK
  <2> QED
    BY <1>2, <1>4, <2>1 DEF Observed
<1>8. world[t][s] = "untouched"
  BY <1>1, <1>3 DEF Blank, Observed, Begin, Resume, Restart, Step, StartStep, ResumeStep
<1> QED
  BY <1>1, <1>2, <1>5, <1>6, <1>7, <1>8, UntriedThread

\* Only what was observed to be absent is tried again.
LEMMA UntriedObserve ==
    ASSUME NoForeground, Typing, Alone, Untried, NEW v \in Workers,
           Observe(v) \/ ExecuteRaises(v)
    PROVE  Untried'
<1> DEFINE t == job[v]  s == op[v]
<1>1. /\ t \in Tasks /\ t # NoTask /\ WorldOK /\ Blank(t) /\ s \in Steps
      /\ exec[t] = "absent" \/ step[t][s] = "started"
  BY UntriedWriter DEF Observe, ExecuteRaises, Step, Committed, Acting, Trying, Untried, Observed
<1>2. /\ UNCHANGED <<world, exec, step, job, op>>
      /\ \A w \in Workers \ {v} : ThreadSame(w)
  BY DEF Observe, ExecuteRaises, Step, Quiet, Stay, Goto, Typing, ThreadOK, ThreadSame,
         ledgerVars
<1>3. CASE ExecuteRaises(v)
  <2>1. pc'[v] = "caught"
    BY <1>3 DEF ExecuteRaises, Step, Goto, Typing, ThreadOK
  <2> QED
    BY <1>1, <1>2, <2>1, UntriedThread DEF Blank, Observed, TaskSame
<1>4. ASSUME Observe(v)
      PROVE  pc'[v] \in {"restart", "retry"} => world[t][s] = "untouched"
  <2>1. PICK e \in Verdicts(world[t][s]) :
            Goto(v, IF e = "applied" THEN "complete"
                    ELSE IF e = "unknown" THEN "review"
                    ELSE IF pc[v] = "observe" THEN "restart" ELSE "retry")
    BY <1>4 DEF Observe
  <2>2. pc'[v] = IF e = "applied" THEN "complete"
                 ELSE IF e = "unknown" THEN "review"
                 ELSE IF pc[v] = "observe" THEN "restart" ELSE "retry"
    BY <2>1 DEF Goto, Typing, ThreadOK
  <2>3. world[t][s] \in Effect
    BY <1>1 DEF WorldOK
  <2> QED
    BY <2>1, <2>2, <2>3 DEF Verdicts, Effect
<1>5. CASE Observe(v)
  BY <1>1, <1>2, <1>4, <1>5, UntriedThread DEF Blank, Observed, TaskSame
<1> QED
  BY <1>3, <1>5

LEMMA UntriedRecord ==
    ASSUME NoForeground, Typing, Alone, Untried, NEW v \in Workers, Recording(v)
    PROVE  Untried'
<1> DEFINE t == job[v]  s == op[v]
<1>1. /\ t \in Tasks /\ t # NoTask /\ LedgerTypeOK /\ Blank(t) /\ s \in Steps /\ Observed(v)
  BY UntriedWriter DEF Recording, Complete, SendToReview, Defer, Exhaust, Step, Committed,
                       Acting, Untried
<1>2. /\ UNCHANGED <<world, job>>
      /\ \A w \in Workers \ {v} : ThreadSame(w)
  BY DEF Recording, Complete, SendToReview, Defer, Exhaust, Quiet, Stay, Step, Goto, Hold,
         Typing, ThreadOK, ThreadSame
<1>3. /\ exec[t] # "absent" /\ \A u \in Tasks : u # t => exec'[u] = exec[u]
      /\ pc'[v] \notin Trying
  BY <1>1 DEF Trying, Recording, Complete, SendToReview, Defer, Exhaust, CompleteStep, ReviewStep,
              DeferStep, ExhaustStep, Attempting, ActiveLease, rowVars, LedgerTypeOK,
              Step, Goto, Typing, ThreadOK
<1>4. PICK to, a : /\ MoveStep(t, s, to, a)
                   /\ \/ to \in {"succeeded", "manual_review"}
                      \/ to = "failed" /\ world[t][s] = "untouched"
  BY <1>1 DEF Recording, Complete, SendToReview, Defer, Exhaust, CompleteStep, ReviewStep,
              DeferStep, ExhaustStep, Step, Observed
<1>5. /\ step'[t][s] = to /\ \A r \in Steps : r # s => step'[t][r] = step[t][r]
      /\ \A u \in Tasks : u # t => step'[u] = step[u]
  BY <1>1, <1>4, MoveStepMoves
<1>6. Blank(t)'
  BY <1>1, <1>2, <1>3, <1>4, <1>5 DEF Blank
<1>7. \A u \in Tasks : u # t => TaskSame(u)
  BY <1>2, <1>3, <1>5 DEF TaskSame
<1> QED
  BY <1>1, <1>2, <1>3, <1>6, <1>7, UntriedThread DEF Observed, Trying

LEMMA UntriedConclude ==
    ASSUME NoForeground, Typing, Alone, Untried, NEW v \in Workers,
           PlanDeferred(v) \/ Checkpoint(v) \/ Settle(v) \/ Isolate(v)
    PROVE  Untried'
<1> DEFINE t == job[v]
<1>1. /\ t \in Tasks /\ t # NoTask /\ LedgerTypeOK /\ Blank(t)
  BY UntriedWriter DEF PlanDeferred, Checkpoint, Settle, Isolate, Step, Committed
<1>2. /\ UNCHANGED <<world, job>> /\ pc'[v] \notin Trying
      /\ \A w \in Workers \ {v} : ThreadSame(w)
  BY DEF Trying, PlanDeferred, Checkpoint, Settle, Isolate, Quiet, Stay, Step, Goto, Typing, ThreadOK,
         ThreadSame
<1>3. CASE SettleSuccess(t, key[v])
  <2>1. exec'[t] = "absent" /\ \A u \in Tasks : u # t => exec'[u] = exec[u] /\ step'[u] = step[u]
    BY <1>1, <1>3 DEF SettleSuccess, DeleteRow, FreshRow, LedgerTypeOK
  <2> QED
    BY <1>1, <1>2, <2>1, UntriedThread DEF TaskSame, Blank, Observed, Trying
<1>4. CASE ~SettleSuccess(t, key[v])
  <2>1. /\ UNCHANGED step /\ \A u \in Tasks : u # t => exec'[u] = exec[u]
        /\ exec[t] = "absent" => exec'[t] = "absent"
    BY <1>1, <1>4 DEF PlanDeferred, Checkpoint, Settle, Isolate, DeferPlanning,
         CheckpointResult, SettleFailure, IsolateRow, Isolable, CanRun, stepVars, ledgerVars,
         LedgerTypeOK
  <2> QED
    BY <1>1, <1>2, <2>1, UntriedThread DEF TaskSame, Blank, Observed, Trying
<1> QED
  BY <1>3, <1>4

\* An effect lands only under an operation that is recorded as started.
LEMMA UntriedEffect ==
    ASSUME NoForeground, Typing, Alone, Untried, NEW v \in Workers, EffectLands(v)
    PROVE  Untried'
<1> DEFINE t == job[v]  s == op[v]
<1>1. /\ t \in Tasks /\ t # NoTask /\ WorldOK /\ Blank(t) /\ s \in Steps /\ Observed(v)
  BY UntriedWriter DEF EffectLands, Committed, Acting, Untried
<1>2. /\ UNCHANGED <<exec, step, job, op, pc>> /\ pc[v] = "execute"
      /\ \A w \in Workers : ThreadSame(w)
  BY DEF EffectLands, ledgerVars, threadVars, ThreadSame
<1>3. /\ \A r \in Steps : r # s => world'[t][r] = world[t][r]
      /\ \A u \in Tasks : u # t => world'[u] = world[u]
  BY <1>1 DEF EffectLands, WorldOK
<1>4. Blank(t)'
  BY <1>1, <1>2, <1>3 DEF Blank, Observed, Trying
<1>5. \A u \in Tasks : u # t => TaskSame(u)
  BY <1>2, <1>3 DEF TaskSame
<1>6. Observed(v)'
  BY <1>1, <1>2 DEF Observed
<1> QED
  BY <1>1, <1>2, <1>4, <1>5, <1>6, UntriedThread

\* A row that is inserted, removed or answered, while the threads stay: one
\* that is inserted belongs to no thread.
LEMMA UntriedRow ==
    ASSUME Typing, Untried, NEW t \in Tasks, \A w \in Workers : ThreadSame(w),
           \A u \in Tasks : u # t => TaskSame(u), Blank(t)',
           \/ \A w \in Workers : job[w] # t
           \/ exec'[t] = "absent" /\ world'[t] = world[t]
           \/ /\ exec[t] # "absent"
              /\ \A s \in Steps : step[t][s] = "started" => /\ step'[t][s] = step[t][s]
                                                            /\ world'[t][s] = world[t][s]
    PROVE  Untried'
<1>1. \A u \in Tasks : Blank(u)'
  BY DEF Untried, Blank, TaskSame
<1>2. ASSUME NEW w \in Workers
      PROVE  Observed(w)'
  <2>1. ThreadSame(w) /\ Observed(w)
    BY DEF Untried
  <2>2. /\ pc[w] \in Trying => job[w] \in Tasks
        /\ pc[w] \in Trying => op[w] \in Steps
    BY PlaceTyping DEF Typing, Trying, Acting
  <2>3. CASE job[w] # t
    BY <2>1, <2>2, <2>3 DEF Observed, ThreadSame, TaskSame, Trying
  <2>4. CASE job[w] = t
    BY <2>1, <2>2, <2>4 DEF Observed, ThreadSame, Trying
  <2> QED
    BY <2>3, <2>4
<1> QED
  BY <1>1, <1>2 DEF Untried

LEMMA UntriedMemory ==
    ASSUME NoForeground, Typing, Alone, Untried,
           \/ Submitting \/ Recovering \/ RecoverFails \/ Crash
           \/ \E t \in Tasks : \/ SubmitAdmit(t) \/ RecoverClaim(t) \/ Asking(t)
                               \/ LeaseExpires(t) \/ HeartbeatFails(t) \/ RetryDue(t)
    PROVE  Untried'
<1>1. CASE Crash
  <2>1. (\A u \in Tasks : TaskSame(u)) /\ \A w \in Workers : pc'[w] = "idle"
    BY <1>1, AllTasksSame DEF Crash, ledgerVars
  <2> QED
    BY <2>1 DEF Untried, Blank, Observed, TaskSame, Trying
<1>2. CASE \/ SubmitClaim \/ SubmitLost \/ RecoverEnqueue \/ RecoverRefused \/ RecoverFails
           \/ \E t \in Tasks : \/ RecoverClaim(t) \/ LeaseExpires(t)
                               \/ HeartbeatFails(t) \/ RetryDue(t)
  <2>1. UNCHANGED <<exec, step, world>> /\ UNCHANGED threadVars
    BY <1>2 DEF SubmitClaim, SubmitLost, RecoverEnqueue, RecoverRefused, RecoverFails, GiveBack,
         RecoverClaim, LeaseExpires, HeartbeatFails, RetryDue, ClaimRow, ReleaseRow,
         ledgerVars, rowVars, stepVars
  <2> QED
    BY <2>1, AllTasksSame, ThreadsSame, UntriedSame
<1>3. ASSUME NEW t \in Tasks, SubmitAdmit(t)
      PROVE  Untried'
  <2>1. (\A w \in Workers : ThreadSame(w) /\ job[w] # t) /\ Persist(t)
    BY <1>3, ThreadsSame DEF SubmitAdmit, InView
  <2>2. CASE UNCHANGED <<ledgerVars, world>>
    BY <2>1, <2>2, AllTasksSame, UntriedSame DEF ledgerVars
  <2>3. CASE Admit(t)
    <3>1. /\ \A s \in Steps : world'[t][s] = "untouched"
          /\ \A u \in Tasks : u # t => TaskSame(u)
      BY <2>3 DEF Admit, InsertRow, FreshRow, Typing, WorldOK, LedgerTypeOK, Pristine, TaskSame
    <3> QED
      BY <2>1, <3>1, UntriedRow DEF Blank
  <2> QED
    BY <2>1, <2>2, <2>3 DEF Persist
<1>4. ASSUME NEW t \in Tasks, DeleteRow(t), UNCHANGED world, UNCHANGED threadVars
      PROVE  Untried'
  <2>1. exec'[t] = "absent" /\ \A u \in Tasks : u # t => TaskSame(u)
    BY <1>4 DEF DeleteRow, FreshRow, Typing, LedgerTypeOK, TaskSame
  <2> QED
    BY <1>4, <2>1, ThreadsSame, UntriedRow DEF Blank
<1>5. CASE RecoverAbandon
  BY <1>4, <1>5, RecoveringIsItem DEF RecoverAbandon, AbandonRow, Typing
<1>6. ASSUME NEW t \in Tasks, Asking(t)
      PROVE  Untried'
  <2>1. UNCHANGED threadVars /\ \A w \in Workers : ThreadSame(w)
    BY <1>6, ThreadsSame DEF Asking, Retry, Discard, ResolveUnhandled, Resolve, Aside
  <2>2. CASE Discard(t)
    BY <1>4, <2>1, <2>2 DEF Discard, DiscardFailed, DiscardReview
  <2>3. CASE Retry(t) \/ ResolveUnhandled(t)
    <3>1. /\ exec[t] # "absent" /\ UNCHANGED <<step, world>>
          /\ \A u \in Tasks : u # t => TaskSame(u)
      BY <2>3 DEF Retry, ResolveUnhandled, RequestRetry, ResolveIsolated, ReturnToRetry,
                  stepVars, Typing, LedgerTypeOK, TaskSame
    <3>2. Blank(t)'
      BY <3>1 DEF Untried, Blank
    <3> QED
      BY <2>1, <3>1, <3>2, UntriedRow
  <2>4. ASSUME NEW s \in Steps, Resolve(t, s)
        PROVE  Untried'
    <3>1. PICK to, e : /\ ResolveStep(t, s, to) /\ world' = [world EXCEPT ![t][s] = e]
                       /\ \/ to = "succeeded" /\ e = "applied"
                          \/ to = "failed" /\ e = "untouched"
      BY <2>4 DEF Resolve
    <3>2. /\ step[t][s] = "manual_review" /\ exec[t] # "absent"
          /\ step'[t][s] = to /\ world'[t][s] = e
          /\ \A r \in Steps : r # s => step'[t][r] = step[t][r] /\ world'[t][r] = world[t][r]
          /\ \A u \in Tasks : u # t => TaskSame(u)
      BY <3>1 DEF ResolveStep, ReturnToRetry, UnderReview, Typing, LedgerTypeOK, WorldOK, TaskSame
    <3>3. Blank(t)'
      BY <3>1, <3>2 DEF Untried, Blank
    <3> QED
      BY <2>1, <3>1, <3>2, <3>3, UntriedRow
  <2> QED
    BY <1>6, <2>2, <2>3, <2>4 DEF Asking
<1> QED
  BY <1>1, <1>2, <1>3, <1>5, <1>6 DEF Submitting, Recovering

LEMMA UntriedAdmit ==
    ASSUME NoForeground, Typing, Alone, Untried, NEW v \in Workers, ForegroundAdmit(v)
    PROVE  Untried'
<1> DEFINE t == job[v]
<1>1. t \in Tasks /\ t # NoTask /\ LedgerTypeOK /\ WorldOK /\ Persist(t)
  BY PlaceTyping, WorkerAssumption DEF ForegroundAdmit, Step, Typing
<1>2. /\ UNCHANGED job /\ pc'[v] \notin Trying
      /\ \A w \in Workers \ {v} : ThreadSame(w)
  BY DEF Trying, ForegroundAdmit, Stay, Step, Goto, Typing, ThreadOK, ThreadSame
<1>3. CASE UNCHANGED <<ledgerVars, world>>
  BY <1>2, <1>3, AllTasksSame, UntriedMove DEF ledgerVars
<1>4. CASE Admit(t)
  <2>1. /\ \A s \in Steps : world'[t][s] = "untouched"
        /\ \A u \in Tasks : u # t => TaskSame(u)
    BY <1>1, <1>4 DEF Admit, InsertRow, FreshRow, WorldOK, LedgerTypeOK, Pristine, TaskSame
  <2> QED
    BY <1>1, <1>2, <2>1, UntriedThread DEF Blank, Observed, Trying
<1> QED
  BY <1>1, <1>3, <1>4 DEF Persist

LEMMA UntriedProgress ==
    ASSUME NoForeground, Typing, Alone, Untried, NEW v \in Workers, Progress(v) \/ Mishap(v)
    PROVE  Untried'
BY UntriedAdmit, UntriedGoes, UntriedPrepare, UntriedBegin, UntriedObserve, UntriedRecord,
   UntriedConclude, UntriedEffect
   DEF Progress, Mishap, Starting, Planning, Running, Executing, Ending

LEMMA UntriedInvariant ==
    ASSUME NoForeground
    PROVE  Spec => []Untried
<1>1. Init => Untried
  BY DEF Init, MemoryInit, LedgerInit, Untried, Blank, Observed, Trying
<1>2. Untried /\ Typing /\ Alone /\ [Next]_vars => Untried'
  <2> SUFFICES ASSUME Untried, Typing, Alone, [Next]_vars PROVE Untried'
    OBVIOUS
  <2>1. CASE UNCHANGED vars
    <3>1. UNCHANGED <<exec, step, world, threadVars>>
      BY <2>1 DEF vars, ledgerVars
    <3> QED
      BY <3>1, AllTasksSame, ThreadsSame, UntriedSame
  <2>2. ASSUME NEW w \in Workers, NEW t \in Tasks, ForegroundTake(w, t)
        PROVE  Untried'
    BY <2>2, UntriedGoes
  <2> QED
    BY <2>1, <2>2, UntriedProgress, UntriedMemory DEF Next
<1>3. QED
  BY <1>1, <1>2, TypingInvariant, AloneInvariant, PTL DEF Spec

\* Only these three steps begin an execution.
LEMMA ExecutionBegins ==
    ASSUME Typing, Next, NEW w \in Workers, pc[w] # "execute", pc'[w] = "execute"
    PROVE  Begin(w) \/ Resume(w) \/ Restart(w)
<1>1. pc'[w] # pc[w] /\ pc'[w] # "idle" /\ ~UNCHANGED threadVars
  BY DEF threadVars
<1>2. ASSUME NEW v \in Workers, NEW l, Goto(v, l)
      PROVE  v = w /\ l = "execute"
  BY <1>2 DEF Goto, Typing, ThreadOK
<1>3. ASSUME NEW v \in Workers,
             \/ Starting(v) \/ Planning(v) \/ Executing(v) \/ Observe(v) \/ Recording(v)
             \/ Ending(v) \/ Mishap(v) \/ \E t \in Tasks : ForegroundTake(v, t)
      PROVE  FALSE
  <2>1. CASE EffectLands(v)
    BY <1>1, <2>1 DEF EffectLands
  <2>2. CASE Observe(v)
    <3>1. \E l \in {"complete", "review", "restart", "retry"} : Goto(v, l)
      BY <2>2 DEF Observe
    <3> QED
      BY <1>2, <3>1
  <2>3. CASE ~EffectLands(v) /\ ~Observe(v)
    <3>1. \E l \in Pc \ {"execute"} : Goto(v, l)
      BY <1>3, <2>3 DEF Starting, ForegroundAdmit, ForegroundClaim, ForegroundLost, Take,
           Planning, PlanStored, PlanSettling, PlanDeferred, Executing, ExecuteReturns,
           ExecuteRaises, Recording, Complete, SendToReview, Defer, Exhaust, Ending, Checkpoint,
           Settle, Fenced, Isolate, Finish, Leave, Mishap, PlanFails, Raise, ForegroundTake,
           Step, Pc
    <3> QED
      BY <1>2, <3>1
  <2> QED
    BY <2>1, <2>2, <2>3
<1>4. ASSUME NEW v \in Workers, Prepare(v)
      PROVE  FALSE
  <2>1. job[v] \in Tasks /\ op[v] \in Steps /\ LedgerTypeOK
    BY <1>4, PlaceTyping, LedgerAssumption DEF Prepare, Typing, Steps
  <2>2. PICK was \in StepState : was # "manual_review" /\ Goto(v, AfterPrepare[was])
    BY <1>4, <2>1 DEF Prepare, LedgerTypeOK
  <2> QED
    BY <1>2, <2>2 DEF AfterPrepare, StepState
<1>5. ASSUME NEW v \in Workers, Begin(v) \/ Resume(v) \/ Restart(v)
      PROVE  v = w
  BY <1>2, <1>5 DEF Begin, Resume, Restart, Step
<1>6. ASSUME \/ Submitting \/ Recovering \/ RecoverFails \/ Crash
             \/ \E t \in Tasks : \/ SubmitAdmit(t) \/ RecoverClaim(t) \/ Asking(t)
                                 \/ LeaseExpires(t) \/ HeartbeatFails(t) \/ RetryDue(t)
      PROVE  FALSE
  BY <1>1, <1>6 DEF Submitting, SubmitClaim, SubmitLost, Recovering, RecoverEnqueue,
       RecoverRefused, RecoverAbandon, RecoverFails, GiveBack, Crash, SubmitAdmit, RecoverClaim,
       Asking, Retry, Discard, ResolveUnhandled, Resolve, Aside, LeaseExpires, HeartbeatFails,
       RetryDue
<1> QED
  BY <1>3, <1>4, <1>5, <1>6 DEF Next, Progress, Running

\* Where transfers run in the queue alone, an operation is executed only while
\* its effect is absent: no lost lease, crash, retry or review leads the step
\* runner (_DurableTransferStepRunner) to replay a move on top of what an
\* earlier attempt did.
THEOREM TransferNoBlindReplay ==
    ASSUME Foreground = {}
    PROVE  Spec => NoBlindReplay
<1> USE DEF NoForeground
<1>1. Typing /\ Alone /\ Untried /\ [Next]_vars
        => [\A w \in Workers : pc[w] # "execute" /\ pc'[w] = "execute" =>
               world[job[w]][op[w]] = "untouched"]_vars
  BY ExecutionBegins, UntriedBegin
<1>2. QED
  BY <1>1, TypingInvariant, AloneInvariant, UntriedInvariant, PTL DEF Spec, NoBlindReplay

-----------------------------------------------------------------------------
(* How often an operation is executed before a user is asked               *)

\* Where the lease of a thread is in the mirror for as long as it is live.
Serving == Committed \ {"finish"}
Mirroring == \A w \in Workers : Mine(w) /\ pc[w] \in Serving => owned[job[w]] = key[w]

\* What one step does to the leases and to their mirror.
LeaseMove ==
    \/ UNCHANGED <<token, live, owned>>
    \/ \E t \in Tasks, k \in Tokens : NewToken(t, k) /\ ClaimRow(t, k) /\ Own(t, k)
    \/ \E t \in Tasks, k \in Tokens : ReleaseRow(t, k) /\ Forget(t, k)
    \/ \E t \in Tasks, k \in Tokens, e \in {"absent", "not_started"} :
           FreshRow(t, e) /\ Owns(t, k) /\ Forget(t, k)
    \/ \E t \in Tasks, e \in {"absent", "not_started"} : FreshRow(t, e) /\ UNCHANGED owned
    \/ \E t \in Tasks : DropLease(t) /\ UNCHANGED owned
    \/ \E t \in Tasks : LeaseExpires(t) \/ HeartbeatFails(t)

LEMMA LeaseMoves ==
    ASSUME Typing, Next
    PROVE  LeaseMove \/ Crash
<1>1. ASSUME NEW v \in Workers, Progress(v) \/ Mishap(v)
      PROVE  LeaseMove
  <2>1. pc[v] # "idle" => job[v] \in Tasks
    BY PlaceTyping DEF Typing
  <2>2. CASE ForegroundAdmit(v)
    BY <2>1, <2>2 DEF ForegroundAdmit, Step, Persist, Admit, InsertRow, LeaseMove, queueVars,
       ledgerVars
  <2>3. CASE ForegroundClaim(v)
    BY <2>1, <2>3 DEF ForegroundClaim, Step, LeaseMove
  <2>4. CASE Finish(v)
    <3>1. job[v] \in Tasks /\ key[v] \in Tokens
      BY <2>4, PlaceTyping DEF Finish, Step, Typing, Committed
    <3> QED
      BY <2>4, <3>1 DEF Finish, LeaseMove
  <2>5. CASE Take(v) \/ Leave(v) \/ ForegroundLost(v) \/ Executing(v) \/ Observe(v) \/ Fenced(v)
             \/ EffectLands(v) \/ PlanFails(v) \/ Raise(v)
    BY <2>5 DEF Take, Leave, ForegroundLost, Executing, ExecuteReturns, ExecuteRaises, Observe,
       Fenced, EffectLands, PlanFails, Raise, Quiet, queueVars, ledgerVars, LeaseMove
  <2>6. CASE Planning(v) \/ Running(v)
    <3>1. job[v] \in Tasks
      BY <2>1, <2>6 DEF Planning, PlanStored, PlanSettling, PlanDeferred, Running, Prepare, Begin,
         Resume, Restart, Step
    <3> QED
      BY <2>6, <3>1 DEF Planning, PlanStored, PlanSettling, PlanDeferred, StorePlan,
         DeferPlanning, Running, Prepare, PrepareStep, Begin, StartStep, Resume, ResumeStep,
         Restart, RestartStep, BecomeRunning, Quiet, queueVars, ledgerVars, leaseVars, LeaseMove
  <2>7. CASE Recording(v) \/ Checkpoint(v) \/ Settle(v) \/ Isolate(v)
    <3>1. job[v] \in Tasks /\ UNCHANGED owned
      BY <2>1, <2>7 DEF Recording, Complete, SendToReview, Defer, Exhaust, Checkpoint, Settle,
         Isolate, Step, Quiet, queueVars
    <3>2. \/ UNCHANGED <<token, live>> \/ DropLease(job[v]) \/ FreshRow(job[v], "absent")
      BY <2>7 DEF Recording, Complete, CompleteStep, SendToReview, ReviewStep, Defer, DeferStep,
         Exhaust, ExhaustStep, Checkpoint, CheckpointResult, Settle, SettleSuccess, DeleteRow,
         SettleFailure, Isolate, IsolateRow, ledgerVars, leaseVars
    <3> QED
      BY <3>1, <3>2 DEF LeaseMove
  <2> QED
    BY <1>1, <2>2, <2>3, <2>4, <2>5, <2>6, <2>7 DEF Progress, Mishap, Starting, Ending
<1>2. ASSUME NEW v \in Workers, NEW t \in Tasks, ForegroundTake(v, t)
      PROVE  LeaseMove
  BY <1>2 DEF ForegroundTake, ledgerVars, queueVars, LeaseMove
<1>3. ASSUME NEW t \in Tasks, SubmitAdmit(t) \/ RecoverClaim(t)
      PROVE  LeaseMove
  BY <1>3 DEF SubmitAdmit, Persist, Admit, InsertRow, RecoverClaim, ledgerVars, LeaseMove
<1>4. ASSUME NEW t \in Tasks, Asking(t)
      PROVE  LeaseMove
  BY <1>4 DEF Asking, Retry, RequestRetry, Discard, DiscardFailed, DiscardReview, DeleteRow,
     ResolveUnhandled, ResolveIsolated, Resolve, ResolveStep, ReturnToRetry, Aside, queueVars,
     leaseVars, LeaseMove
<1>5. ASSUME NEW t \in Tasks, LeaseExpires(t) \/ HeartbeatFails(t) \/ RetryDue(t)
      PROVE  LeaseMove
  BY <1>5 DEF RetryDue, leaseVars, queueVars, LeaseMove
<1>6. CASE SubmitClaim \/ SubmitLost
  <2>1. submitting \in Tasks \cup {NoTask}
    BY DEF Typing, MemoryOK
  <2> QED
    BY <1>6, <2>1 DEF SubmitClaim, SubmitLost, ledgerVars, LeaseMove
<1>7. CASE Recovering \/ RecoverFails
  <2>1. recovering # NoItem
    BY <1>7 DEF Recovering, RecoverEnqueue, RecoverRefused, RecoverAbandon, RecoverFails
  <2>2. PICK t \in Tasks, k \in Tokens : recovering.task = t /\ recovering.key = k
    BY <2>1, RecoveringIsItem DEF Typing
  <2> QED
    BY <1>7, <2>2 DEF Recovering, RecoverEnqueue, RecoverRefused, RecoverAbandon, RecoverFails,
       GiveBack, AbandonRow, DeleteRow, ledgerVars, LeaseMove
<1> QED
  BY <1>1, <1>2, <1>3, <1>4, <1>5, <1>6, <1>7 DEF Next, Submitting

\* A thread that keeps its task and token has a live lease only if it had it
\* before, and then its mirror stays.
LEMMA LeaseStays ==
    ASSUME Typing, LeaseMove, NEW w \in Workers, job'[w] = job[w], key'[w] = key[w], Mine(w)'
    PROVE  Mine(w) /\ (owned[job[w]] = key[w] => owned'[job[w]] = key[w])
<1>1. /\ job[w] \in Tasks /\ live'[job[w]] /\ token'[job[w]] = key[w] /\ job[w] # NoTask
      /\ LedgerTypeOK /\ owned \in [Tasks -> Tokens \cup {NoToken}]
  BY DEF Mine, Owns, Typing, ThreadOK, MemoryOK
<1>2. CASE UNCHANGED <<token, live, owned>>
  BY <1>1, <1>2 DEF Mine, Owns
<1>3. ASSUME NEW t \in Tasks, NEW k \in Tokens, NewToken(t, k), ClaimRow(t, k), Own(t, k)
      PROVE  Mine(w) /\ owned'[job[w]] = owned[job[w]]
  <2>1. job[w] # t
    BY <1>1, <1>3, NewTokenIsNew DEF ClaimRow, LedgerTypeOK
  <2> QED
    BY <1>1, <1>3, <2>1 DEF ClaimRow, LedgerTypeOK, Own, Mine, Owns
<1>4. ASSUME NEW t \in Tasks, NEW k \in Tokens, Forget(t, k), job[w] # t \/ k # key[w]
      PROVE  owned[job[w]] = key[w] => owned'[job[w]] = key[w]
  BY <1>1, <1>4 DEF Forget
<1>5. ASSUME NEW t \in Tasks, NEW k \in Tokens, ReleaseRow(t, k), Forget(t, k)
      PROVE  Mine(w) /\ (job[w] # t \/ k # key[w])
  BY <1>1, <1>5 DEF ReleaseRow, DropLease, leaseVars, LedgerTypeOK, Mine, Owns
<1>6. ASSUME NEW t \in Tasks, NEW e, FreshRow(t, e)
      PROVE  Mine(w) /\ job[w] # t
  BY <1>1, <1>6 DEF FreshRow, LedgerTypeOK, Mine, Owns
<1>7. ASSUME NEW t \in Tasks, DropLease(t)
      PROVE  Mine(w)
  BY <1>1, <1>7 DEF DropLease, LedgerTypeOK, Mine, Owns
<1>8. ASSUME NEW t \in Tasks, LeaseExpires(t)
      PROVE  Mine(w) /\ UNCHANGED owned
  BY <1>1, <1>8 DEF LeaseExpires, LedgerTypeOK, Mine, Owns, queueVars
<1>9. ASSUME NEW t \in Tasks, HeartbeatFails(t)
      PROVE  Mine(w) /\ (owned[job[w]] = key[w] => owned'[job[w]] = key[w])
  BY <1>1, <1>9 DEF HeartbeatFails, ledgerVars, Mine, Owns
<1> QED
  BY <1>2, <1>3, <1>4, <1>5, <1>6, <1>7, <1>8, <1>9 DEF LeaseMove

LEMMA ThreadsApart ==
    ASSUME Typing, NEW v \in Workers, NEW w \in Workers, v # w,
           Progress(v) \/ Mishap(v) \/ \E t \in Tasks : ForegroundTake(v, t)
    PROVE  ThreadSame(w)
<1>1. ASSUME NEW l, Goto(v, l)
      PROVE  pc'[w] = pc[w]
  BY <1>1 DEF Goto, Typing, ThreadOK
<1>2. CASE Take(v) \/ Leave(v) \/ ForegroundClaim(v) \/ \E t \in Tasks : ForegroundTake(v, t)
  BY <1>2 DEF Take, Leave, ForegroundClaim, ForegroundTake, Step, Goto, Hold, Typing, ThreadOK,
     ThreadSame
<1>3. CASE Prepare(v) \/ Begin(v) \/ Resume(v) \/ Restart(v) \/ Complete(v)
  BY <1>3 DEF Prepare, Begin, Resume, Restart, Complete, Step, Goto, Hold, Typing, ThreadOK,
     ThreadSame
<1>4. CASE EffectLands(v)
  BY <1>4 DEF EffectLands, threadVars, ThreadSame
<1>5. CASE \/ ForegroundAdmit(v) \/ ForegroundLost(v) \/ Planning(v) \/ Executing(v) \/ Observe(v)
           \/ SendToReview(v) \/ Defer(v) \/ Exhaust(v) \/ Checkpoint(v) \/ Settle(v) \/ Fenced(v)
           \/ Isolate(v) \/ Finish(v) \/ PlanFails(v) \/ Raise(v)
  <2>1. Stay /\ \E l : Goto(v, l)
    BY <1>5 DEF ForegroundAdmit, ForegroundLost, Planning, PlanStored, PlanSettling, PlanDeferred,
       Executing, ExecuteReturns, ExecuteRaises, Observe, SendToReview, Defer, Exhaust, Checkpoint,
       Settle, Fenced, Isolate, Finish, PlanFails, Raise, Step
  <2> QED
    BY <1>1, <2>1 DEF Stay, ThreadSame
<1> QED
  BY <1>2, <1>3, <1>4, <1>5
     DEF Progress, Mishap, Starting, Running, Recording, Ending

\* A thread that starts to serve a task has its lease in the mirror, and what
\* it does until it ends leaves the mirror alone.
LEMMA ServesOn ==
    ASSUME Typing, LeaseMove, NEW v \in Workers,
           Progress(v) \/ Mishap(v) \/ \E t \in Tasks : ForegroundTake(v, t),
           Mine(v) /\ pc[v] \in Serving => owned[job[v]] = key[v],
           Mine(v)', pc'[v] \in Serving
    PROVE  owned'[job'[v]] = key'[v]
<1>1. ThreadOK /\ MemoryOK
  BY DEF Typing
<1>2. ASSUME NEW l, Goto(v, l)
      PROVE  l \in Serving
  BY <1>1, <1>2 DEF Goto, ThreadOK
<1>3. CASE \/ Leave(v) \/ ForegroundAdmit(v) \/ ForegroundLost(v) \/ PlanDeferred(v)
           \/ SendToReview(v) \/ Defer(v) \/ Settle(v) \/ Fenced(v) \/ Isolate(v) \/ Finish(v)
           \/ PlanFails(v) \/ \E t \in Tasks : ForegroundTake(v, t)
  <2>1. \E l \in {"idle", "admit", "claim", "leave", "finish"} : Goto(v, l)
    BY <1>3 DEF Leave, ForegroundAdmit, ForegroundLost, PlanDeferred, SendToReview, Defer, Settle,
       Fenced, Isolate, Finish, PlanFails, ForegroundTake, Step
  <2> QED
    BY <1>2, <2>1 DEF Serving, Committed
<1>4. CASE Take(v)
  <2>1. PICK i \in queue : /\ job' = [job EXCEPT ![v] = i.task]
                           /\ key' = [key EXCEPT ![v] = i.key]
                           /\ Goto(v, IF owned[i.task] = i.key THEN "plan" ELSE "finish")
    BY <1>4 DEF Take
  <2>2. job'[v] = i.task /\ key'[v] = i.key /\ UNCHANGED owned
    BY <1>1, <1>4, <2>1 DEF Take, ThreadOK
  <2> QED
    BY <1>2, <2>1, <2>2 DEF Serving
<1>5. CASE ForegroundClaim(v)
  <2>1. job[v] \in Tasks
    BY <1>1, <1>5, PlaceTyping DEF ForegroundClaim, Step
  <2> QED
    BY <1>1, <1>5, <2>1 DEF ForegroundClaim, Own, ThreadOK, MemoryOK
<1>6. CASE \/ PlanStored(v) \/ PlanSettling(v) \/ Running(v) \/ Executing(v) \/ Observe(v)
           \/ Complete(v) \/ Exhaust(v) \/ Checkpoint(v) \/ Raise(v) \/ EffectLands(v)
  <2>1. UNCHANGED <<owned, job, key>> /\ pc[v] \in Serving
    BY <1>6 DEF PlanStored, PlanSettling, Running, Prepare, Begin, Resume, Restart, Executing,
       ExecuteReturns, ExecuteRaises, Observe, Complete, Exhaust, Checkpoint, Raise, EffectLands,
       Stay, Quiet, Step, queueVars, threadVars, Committing, Serving, Committed
  <2>2. Mine(v)
    BY <2>1, LeaseStays
  <2> QED
    BY <2>1, <2>2
<1> QED
  BY <1>3, <1>4, <1>5, <1>6
     DEF Progress, Mishap, Starting, Planning, Recording, Ending

LEMMA MirroringStep == Leased /\ Mirroring /\ [Next]_vars => Mirroring'
<1> SUFFICES ASSUME Leased, Mirroring, [Next]_vars, NEW w \in Workers, Mine(w)', pc'[w] \in Serving
             PROVE  owned'[job'[w]] = key'[w]
  BY DEF Mirroring
<1>1. Typing
  BY DEF Leased
<1>2. CASE UNCHANGED vars
  BY <1>2 DEF vars, ledgerVars, threadVars, queueVars, Mirroring, Mine, Owns
<1>3. CASE Next
  <2>1. ASSUME LeaseMove, ThreadSame(w)
        PROVE  owned'[job'[w]] = key'[w]
    BY <1>1, <2>1, LeaseStays DEF Mirroring, ThreadSame
  <2>2. CASE Crash
    BY <2>2 DEF Crash, Mine
  <2>3. CASE ~Crash
    <3>1. LeaseMove
      BY <1>1, <1>3, <2>3, LeaseMoves
    <3>2. CASE \/ Submitting \/ Recovering \/ RecoverFails
               \/ \E t \in Tasks : \/ SubmitAdmit(t) \/ RecoverClaim(t) \/ Asking(t)
                                   \/ LeaseExpires(t) \/ HeartbeatFails(t) \/ RetryDue(t)
      <4>1. UNCHANGED threadVars
        BY <3>2 DEF Submitting, SubmitClaim, SubmitLost, Recovering, RecoverEnqueue,
           RecoverRefused, RecoverAbandon, RecoverFails, GiveBack, SubmitAdmit, RecoverClaim,
           Asking, Retry, Discard, ResolveUnhandled, Resolve, Aside, LeaseExpires, HeartbeatFails,
           RetryDue
      <4> QED
        BY <2>1, <3>1, <4>1, ThreadsSame
    <3>3. ASSUME NEW v \in Workers, \/ Progress(v) \/ Mishap(v)
                                    \/ \E t \in Tasks : ForegroundTake(v, t)
          PROVE  owned'[job'[w]] = key'[w]
      <4>1. CASE v # w
        <5>1. ThreadSame(w)
          BY <1>1, <3>3, <4>1, ThreadsApart
        <5> QED
          BY <2>1, <3>1, <5>1
      <4>2. CASE v = w
        BY <1>1, <3>1, <3>3, <4>2, ServesOn DEF Mirroring
      <4> QED
        BY <4>1, <4>2
    <3> QED
      BY <1>3, <2>3, <3>2, <3>3 DEF Next
  <2> QED
    BY <2>2, <2>3
<1> QED
  BY <1>2, <1>3

LEMMA MirroringInvariant == Spec => []Mirroring
<1>1. Init => Mirroring
  BY DEF Init, MemoryInit, Mirroring, Mine
<1>2. QED
  BY <1>1, LeasedInvariant, MirroringStep, PTL DEF Spec

\* Retries and losses pay for every execution but the first: an operation may
\* be executed once more as long as it has not used them up.
Budget(t) == IF retries[t] < MaxRetries THEN retries[t] ELSE MaxRetries
Losses == crashes + stalls + faults
Spare(t, s) == tries[t][s] <= Budget(t) + Losses

\* The owner of the lease is at the execution that the ledger records.
Trial == {"execute", "caught", "retry", "complete", "review"}
Manned(w, t, s) == Mine(w) /\ job[w] = t /\ op[w] = s /\ pc[w] \in Trial

Spent(t, s) ==
    /\ tries[t][s] \in Nat /\ tries[t][s] <= Budget(t) + 1 + Losses
    /\ step[t][s] \in {"absent", "prepared"} => tries[t][s] = 0
    /\ step[t][s] = "failed" /\ exec[t] \notin {"settling", "failed"} => Spare(t, s)
    /\ step[t][s] = "started" => Spare(t, s) \/ \E w \in Workers : Manned(w, t, s)

Counted ==
    /\ tries \in [Tasks -> [Steps -> Nat]]
    /\ \A t \in Tasks, s \in Steps : Spent(t, s)

\* What a step does to an operation that it does not begin to execute.
Kept(t, s) ==
    /\ retries[t] <= retries'[t] /\ step'[t][s] = step[t][s]
    /\ exec[t] \in {"settling", "failed"} => exec'[t] \in {"settling", "failed"}
Ended(t, s) ==
    /\ step[t][s] = "started" /\ retries[t] <= retries'[t]
    /\ \/ step'[t][s] \in {"succeeded", "manual_review"}
       \/ step'[t][s] = "failed" /\ exec'[t] = "settling"
       \/ step'[t][s] = "failed" /\ retries[t] < MaxRetries /\ retries'[t] = retries[t] + 1
New(t, s) == step'[t][s] \in {"absent", "prepared"}
RowMove(t, s) == Kept(t, s) \/ Ended(t, s) \/ New(t, s) \/ Answered(t)

LEMMA LossesGrow ==
    ASSUME Typing, Typing', [Next]_vars
    PROVE  /\ Losses \in Nat /\ Losses' \in Nat /\ Losses <= Losses'
           /\ Crash \/ (\E t \in Tasks : LeaseExpires(t) /\ owned[t] = token[t])
                \/ (\E v \in Workers : Raise(v)) => Losses < Losses'
<1>1. /\ {crashes, stalls, faults} \subseteq Nat /\ {crashes', stalls', faults'} \subseteq Nat
  BY WorkerAssumption DEF Typing, BudgetOK
<1>2. /\ crashes' = crashes \/ crashes' = crashes + 1
      /\ stalls' = stalls \/ stalls' = stalls + 1
      /\ faults' = faults \/ faults' = faults + 1
  <2>1. ASSUME NEW v \in Workers, Progress(v)
        PROVE  UNCHANGED budgetVars
    <3>1. CASE Starting(v) \/ Planning(v)
      BY <3>1 DEF Starting, ForegroundAdmit, ForegroundClaim, ForegroundLost, Take, Planning,
         PlanStored, PlanSettling, PlanDeferred, Quiet
    <3>2. CASE Running(v) \/ Executing(v) \/ Observe(v)
      BY <3>2 DEF Running, Prepare, Begin, Resume, Restart, Executing, ExecuteReturns,
         ExecuteRaises, Observe, Quiet
    <3>3. CASE Recording(v)
      BY <3>3 DEF Recording, Complete, SendToReview, Defer, Exhaust, Quiet
    <3>4. CASE Ending(v)
      BY <3>4 DEF Ending, Checkpoint, Settle, Fenced, Isolate, Finish, Leave, Quiet
    <3> QED
      BY <2>1, <3>1, <3>2, <3>3, <3>4 DEF Progress
  <2>2. CASE UNCHANGED budgetVars
    BY <2>2 DEF budgetVars
  <2>3. ASSUME NEW v \in Workers, Mishap(v) \/ \E t \in Tasks : ForegroundTake(v, t)
        PROVE  UNCHANGED <<crashes, stalls>> /\ (faults' = faults \/ faults' = faults + 1)
    BY <2>3 DEF Mishap, EffectLands, PlanFails, Raise, ForegroundTake, budgetVars
  <2>4. ASSUME NEW t \in Tasks, SubmitAdmit(t) \/ RecoverClaim(t) \/ Asking(t)
        PROVE  UNCHANGED <<crashes, stalls, faults>>
    BY <2>4 DEF SubmitAdmit, RecoverClaim, Asking, Retry, Discard, ResolveUnhandled, Resolve, Aside,
       budgetVars
  <2>5. ASSUME NEW t \in Tasks, LeaseExpires(t) \/ HeartbeatFails(t) \/ RetryDue(t)
        PROVE  UNCHANGED <<crashes, faults>> /\ (stalls' = stalls \/ stalls' = stalls + 1)
    BY <2>5 DEF LeaseExpires, HeartbeatFails, RetryDue, budgetVars
  <2>6. CASE Submitting \/ Recovering
    BY <2>6 DEF Submitting, SubmitClaim, SubmitLost, Recovering, RecoverEnqueue, RecoverRefused,
       RecoverAbandon, GiveBack, budgetVars
  <2>7. CASE RecoverFails \/ Crash
    BY <2>7 DEF RecoverFails, Crash
  <2>8. CASE UNCHANGED vars
    BY <2>8 DEF vars, budgetVars
  <2> QED
    BY <2>1, <2>2, <2>3, <2>4, <2>5, <2>6, <2>7, <2>8 DEF Next
<1>3. Crash \/ (\E t \in Tasks : LeaseExpires(t) /\ owned[t] = token[t])
        \/ (\E v \in Workers : Raise(v))
        => crashes < crashes' \/ stalls < stalls' \/ faults < faults'
  BY <1>1 DEF Crash, LeaseExpires, Raise
<1>4. crashes <= crashes' /\ stalls <= stalls' /\ faults <= faults'
  BY <1>1, <1>2
<1> QED
  BY <1>1, <1>3, <1>4 DEF Losses

\* A write fenced by another token, or to a row that nobody leases, leaves the
\* lease of w alone.
LEMMA LeaseApart ==
    ASSUME Typing, NEW w \in Workers, Mine(w), job'[w] = job[w], key'[w] = key[w],
           NEW u \in Tasks, job[w] # u,
           \/ DropLease(u) \/ (\E e : FreshRow(u, e)) \/ \E k : ClaimRow(u, k)
    PROVE  Mine(w)'
BY DEF Typing, LedgerTypeOK, ThreadOK, DropLease, FreshRow, ClaimRow, Mine, Owns

LEMMA FencedApart ==
    ASSUME Typing, NEW w \in Workers, Mine(w), job'[w] = job[w], key'[w] = key[w],
           NEW u \in Tasks, NEW k, k # key[w],
           \/ UNCHANGED <<token, live>>
           \/ ReleaseRow(u, k)
           \/ Owns(u, k) /\ (DropLease(u) \/ \E e : FreshRow(u, e))
    PROVE  Mine(w)'
<1>1. CASE UNCHANGED <<token, live>>
  BY <1>1 DEF Mine, Owns
<1>2. CASE Owns(u, k) /\ (DropLease(u) \/ \E e : FreshRow(u, e))
  BY <1>2, LeaseApart DEF Mine, Owns
<1>3. CASE ReleaseRow(u, k)
  BY <1>1, <1>2, <1>3 DEF ReleaseRow, leaseVars
<1> QED
  BY <1>1, <1>2, <1>3

LEMMA OthersFenced ==
    ASSUME Leased, NEW v \in Workers, NEW w \in Workers, v # w, Mine(w), ThreadSame(w),
           exec[job[w]] = "running", Progress(v) \/ Mishap(v)
    PROVE  Mine(w)'
<1>1. /\ Typing /\ job[w] \in Tasks /\ live[job[w]] /\ token[job[w]] = key[w]
      /\ job'[w] = job[w] /\ key'[w] = key[w]
      /\ pc[v] # "idle" => job[v] \in Tasks
  BY PlaceTyping DEF Leased, Typing, ThreadOK, Mine, Owns, ThreadSame
<1>2. pc[v] \in Committed => key[v] # key[w]
  BY <1>1, PlaceTyping DEF Leased, Typing, Unique
<1>3. CASE ForegroundAdmit(v)
  <2>1. job[v] \in Tasks /\ Persist(job[v])
    BY <1>1, <1>3 DEF ForegroundAdmit, Step
  <2>2. CASE Admit(job[v])
    <3>1. job[v] # job[w] /\ FreshRow(job[v], "not_started")
      BY <1>1, <2>2 DEF Admit, InsertRow, Admissible
    <3> QED
      BY <1>1, <2>1, <3>1, LeaseApart
  <2> QED
    BY <1>1, <2>1, <2>2 DEF Persist, ledgerVars, Mine, Owns
<1>4. CASE ForegroundClaim(v)
  <2>1. PICK k : job[v] \in Tasks /\ ClaimRow(job[v], k)
    BY <1>1, <1>4 DEF ForegroundClaim, Step
  <2>2. job[v] # job[w]
    BY <1>1, <2>1 DEF ClaimRow, Claimable
  <2> QED
    BY <1>1, <2>1, <2>2, LeaseApart
<1>5. ASSUME pc[v] \in Committed,
             \/ UNCHANGED <<token, live>>
             \/ ReleaseRow(job[v], key[v])
             \/ Owns(job[v], key[v]) /\ (DropLease(job[v]) \/ \E e : FreshRow(job[v], e))
      PROVE  Mine(w)'
  <2>1. job[v] \in Tasks /\ key[v] # key[w]
    BY <1>1, <1>2, <1>5 DEF Committed
  <2> QED
    BY <1>1, <1>5, <2>1, FencedApart
<1>6. CASE \/ PlanDeferred(v) \/ SendToReview(v) \/ Defer(v) \/ Settle(v) \/ Isolate(v)
           \/ Finish(v)
  <2>1. pc[v] \in Committed
    BY <1>6 DEF PlanDeferred, SendToReview, Defer, Settle, Isolate, Finish, Step, Committed
  <2> QED
    BY <1>5, <1>6, <2>1 DEF PlanDeferred, DeferPlanning, SendToReview, ReviewStep, Attempting,
       ActiveLease, Defer, DeferStep, Settle, SettleSuccess, DeleteRow, SettleFailure,
       Isolate, Isolable, IsolateRow, ledgerVars, Finish
<1>7. CASE \/ Take(v) \/ Leave(v) \/ ForegroundLost(v) \/ Executing(v) \/ Observe(v) \/ Fenced(v)
           \/ EffectLands(v) \/ PlanFails(v) \/ Raise(v) \/ PlanStored(v) \/ PlanSettling(v)
           \/ Running(v) \/ Complete(v) \/ Exhaust(v) \/ Checkpoint(v)
  <2>1. UNCHANGED <<token, live>>
    BY <1>7 DEF Take, Leave, ForegroundLost, Executing, ExecuteReturns, ExecuteRaises, Observe,
       Fenced, EffectLands, PlanFails, Raise, PlanStored, StorePlan, PlanSettling, Running,
       Prepare, PrepareStep, Begin, StartStep, Resume, ResumeStep, Restart, RestartStep,
       BecomeRunning, Complete, CompleteStep, Exhaust, ExhaustStep, Checkpoint, CheckpointResult,
       ledgerVars, leaseVars
  <2> QED
    BY <1>1, <2>1 DEF Mine, Owns
<1> QED
  BY <1>3, <1>4, <1>6, <1>7 DEF Progress, Mishap, Starting, Planning, Recording, Ending

\* Nothing but a stalled heartbeat takes the lease of a running task.
LEMMA MemoryFenced ==
    ASSUME Leased, NEW w \in Workers, Mine(w), ThreadSame(w), exec[job[w]] = "running",
           owned[job[w]] = key[w],
           \/ Submitting \/ Recovering \/ RecoverFails
           \/ \E t \in Tasks : \/ SubmitAdmit(t) \/ RecoverClaim(t) \/ Asking(t)
                               \/ LeaseExpires(t) \/ HeartbeatFails(t) \/ RetryDue(t)
    PROVE  Mine(w)' \/ \E t \in Tasks : LeaseExpires(t) /\ owned[t] = token[t]
<1>1. /\ Typing /\ job[w] \in Tasks /\ live[job[w]] /\ token[job[w]] = key[w]
      /\ job'[w] = job[w] /\ key'[w] = key[w]
  BY DEF Leased, Typing, ThreadOK, Mine, Owns, ThreadSame
<1>2. ASSUME UNCHANGED <<token, live>>
      PROVE  Mine(w)'
  BY <1>1, <1>2 DEF Mine, Owns
<1>3. ASSUME NEW t \in Tasks, SubmitAdmit(t)
      PROVE  Mine(w)'
  <2>1. CASE Admit(t)
    <3>1. t # job[w] /\ FreshRow(t, "not_started")
      BY <1>1, <2>1 DEF Admit, InsertRow, Admissible
    <3> QED
      BY <1>1, <3>1, LeaseApart
  <2> QED
    BY <1>2, <1>3, <2>1 DEF SubmitAdmit, Persist, ledgerVars
<1>4. ASSUME NEW t \in Tasks, NEW k, ClaimRow(t, k)
      PROVE  Mine(w)'
  <2>1. t # job[w]
    BY <1>1, <1>4 DEF ClaimRow, Claimable
  <2> QED
    BY <1>1, <1>4, <2>1, LeaseApart
<1>5. CASE Submitting
  <2>1. submitting \in Tasks \cup {NoTask}
    BY <1>1 DEF Typing, MemoryOK
  <2> QED
    BY <1>2, <1>4, <1>5, <2>1 DEF Submitting, SubmitClaim, SubmitLost, ledgerVars
<1>6. CASE Recovering \/ RecoverFails
  <2>1. recovering # NoItem
    BY <1>6 DEF Recovering, RecoverEnqueue, RecoverRefused, RecoverAbandon, RecoverFails
  <2>2. PICK t \in Tasks, k \in Tokens : recovering.task = t /\ recovering.key = k
    BY <1>1, <2>1, RecoveringIsItem DEF Typing
  <2>3. k # key[w]
    BY <2>1, <2>2 DEF Leased, Unique
  <2>4. \/ UNCHANGED <<token, live>> \/ ReleaseRow(t, k)
        \/ Owns(t, k) /\ FreshRow(t, "absent")
    BY <1>6, <2>2 DEF Recovering, RecoverEnqueue, RecoverRefused, RecoverAbandon, RecoverFails,
       GiveBack, AbandonRow, DeleteRow, ledgerVars
  <2> QED
    BY <1>1, <2>3, <2>4, FencedApart
<1>7. ASSUME NEW t \in Tasks, Asking(t)
      PROVE  Mine(w)'
  <2>1. /\ exec[t] \in {"failed", "manual_review"}
        /\ UNCHANGED <<token, live>> \/ DropLease(t) \/ FreshRow(t, "absent")
    BY <1>7 DEF Asking, Retry, RequestRetry, Discard, DiscardFailed, DiscardReview, DeleteRow,
       ResolveUnhandled, ResolveIsolated, Resolve, ResolveStep, ReturnToRetry, leaseVars
  <2>2. t # job[w]
    BY <2>1
  <2> QED
    BY <1>1, <1>2, <2>1, <2>2, LeaseApart
<1>8. ASSUME NEW t \in Tasks, LeaseExpires(t)
      PROVE  Mine(w)' \/ owned[t] = token[t]
  <2>1. CASE t = job[w]
    BY <1>1, <2>1
  <2>2. CASE t # job[w]
    BY <1>1, <1>8, <2>2 DEF LeaseExpires, Typing, LedgerTypeOK, Mine, Owns
  <2> QED
    BY <2>1, <2>2
<1>9. ASSUME NEW t \in Tasks, HeartbeatFails(t) \/ RetryDue(t)
      PROVE  Mine(w)'
  BY <1>2, <1>9 DEF HeartbeatFails, RetryDue, ledgerVars, leaseVars
<1> QED
  BY <1>3, <1>4, <1>5, <1>6, <1>7, <1>8, <1>9 DEF RecoverClaim

\* The owner of a started operation stays with it, unless something is lost.
LEMMA TrialStays ==
    ASSUME Leased, Typing', Mirroring, Next, NEW w \in Workers, NEW t \in Tasks, NEW s \in Steps,
           Manned(w, t, s), step'[t][s] = "started"
    PROVE  Manned(w, t, s)' \/ Losses < Losses'
<1>1. /\ Typing /\ ThreadOK /\ LedgerTypeOK /\ Mine(w) /\ job[w] = t /\ op[w] = s
      /\ pc[w] \in Trial /\ exec[t] = "running" /\ owned[job[w]] = key[w]
  BY DEF Leased, WorkerOK, OwnerOK, Typing, Manned, Trial, Acting, Mirroring, Serving, Committed
<1>2. ASSUME Mine(w)', ThreadSame(w)
      PROVE  Manned(w, t, s)'
  BY <1>1, <1>2 DEF Manned, ThreadSame
<1>3. CASE Crash
  BY <1>1, <1>3, LossesGrow
<1>4. CASE \/ Submitting \/ Recovering \/ RecoverFails
           \/ \E u \in Tasks : \/ SubmitAdmit(u) \/ RecoverClaim(u) \/ Asking(u)
                               \/ LeaseExpires(u) \/ HeartbeatFails(u) \/ RetryDue(u)
  <2>1. UNCHANGED threadVars
    BY <1>4 DEF Submitting, SubmitClaim, SubmitLost, Recovering, RecoverEnqueue,
       RecoverRefused, RecoverAbandon, RecoverFails, GiveBack, SubmitAdmit, RecoverClaim,
       Asking, Retry, Discard, ResolveUnhandled, Resolve, Aside, LeaseExpires, HeartbeatFails,
       RetryDue
  <2>2. ThreadSame(w)
    BY <2>1, ThreadsSame
  <2>3. Mine(w)' \/ \E u \in Tasks : LeaseExpires(u) /\ owned[u] = token[u]
    BY <1>1, <1>4, <2>2, MemoryFenced
  <2> QED
    BY <1>1, <1>2, <2>2, <2>3, LossesGrow
<1>5. ASSUME NEW v \in Workers, v # w, Progress(v) \/ Mishap(v)
      PROVE  Manned(w, t, s)'
  BY <1>1, <1>2, <1>5, ThreadsApart, OthersFenced
<1>6. ASSUME NEW v \in Workers, NEW u \in Tasks, ForegroundTake(v, u)
      PROVE  Manned(w, t, s)'
  <2>1. v # w /\ UNCHANGED <<token, live>>
    BY <1>1, <1>6 DEF ForegroundTake, Step, Trial, ledgerVars
  <2>2. ThreadSame(w)
    BY <1>1, <1>6, <2>1, ThreadsApart
  <2>3. Mine(w)'
    BY <1>1, <2>1, <2>2 DEF Mine, Owns, ThreadSame
  <2> QED
    BY <1>2, <2>2, <2>3
<1>7. ASSUME Progress(w) \/ Mishap(w)
      PROVE  Manned(w, t, s)' \/ Losses < Losses'
  <2>1. CASE EffectLands(w)
    BY <1>1, <2>1 DEF EffectLands, ledgerVars, threadVars, Manned, Mine, Owns
  <2>2. CASE Executing(w) \/ Observe(w)
    <3>1. UNCHANGED <<token, live, job, key, op>>
      BY <2>2 DEF Executing, ExecuteReturns, ExecuteRaises, Observe, Stay, ledgerVars
    <3>2. pc[w] # "observe"
      BY <1>1 DEF Trial
    <3>3. \E l \in Trial : Goto(w, l)
      BY <2>2, <3>2 DEF Executing, ExecuteReturns, ExecuteRaises, Observe, Step, Trial
    <3>4. pc'[w] \in Trial
      BY <1>1, <3>3 DEF Goto, ThreadOK
    <3> QED
      BY <1>1, <3>1, <3>4 DEF Manned, Mine, Owns
  <2>3. CASE Raise(w)
    BY <1>1, <2>3, LossesGrow
  <2>4. CASE Recording(w)
    <3>1. \E to, a : to # "started" /\ MoveStep(t, s, to, a)
      BY <1>1, <2>4 DEF Recording, Complete, CompleteStep, SendToReview, ReviewStep, Defer,
         DeferStep, Exhaust, ExhaustStep
    <3> QED
      BY <1>1, <3>1, MoveStepMoves
  <2>5. CASE Fenced(w)
    BY <1>1, <2>5 DEF Fenced, Trial
  <2>6. CASE \/ Starting(w) \/ Planning(w) \/ Running(w) \/ Checkpoint(w) \/ Settle(w)
             \/ Isolate(w) \/ Finish(w) \/ Leave(w) \/ PlanFails(w)
    BY <1>1, <2>6 DEF Starting, ForegroundAdmit, ForegroundClaim, ForegroundLost, Take,
       Planning, PlanStored, PlanSettling, PlanDeferred, Running, Prepare, Begin, Resume, Restart,
       Checkpoint, Settle, Isolate, Finish, Leave, PlanFails, Step, Trial
  <2> QED
    BY <1>7, <2>1, <2>2, <2>3, <2>4, <2>5, <2>6 DEF Progress, Mishap, Ending
<1> QED
  BY <1>3, <1>4, <1>5, <1>6, <1>7 DEF Next

LEMMA RowKept ==
    ASSUME Typing, NEW t \in Tasks, NEW s \in Steps, RowSame(t)
    PROVE  RowMove(t, s)
BY BoundsAreNumbers DEF RowSame, RowMove, Kept

\* The four ways in which an owner records the end of an execution.
LEMMA AttemptEnds ==
    ASSUME LedgerTypeOK, NEW u \in Tasks, NEW r \in Steps, NEW k, NEW a, RowOK(u),
           \/ CompleteStep(u, k, r, a) \/ ReviewStep(u, k, r, a) \/ ExhaustStep(u, k, r, a)
           \/ DeferStep(u, k, r, a) /\ retries[u] < MaxRetries
    PROVE  /\ Elsewhere(u) /\ step[u][r] = "started" /\ retries[u] <= retries'[u]
           /\ exec[u] \in {"running", "not_started"}
           /\ \A x \in Steps : x # r => step'[u][x] = step[u][x]
           /\ \/ step'[u][r] \in {"succeeded", "manual_review"}
              \/ step'[u][r] = "failed" /\ exec'[u] = "settling"
              \/ step'[u][r] = "failed" /\ retries[u] < MaxRetries /\ retries'[u] = retries[u] + 1
<1>1. /\ step[u][r] = "started" /\ exec[u] \in {"running", "not_started"}
      /\ retries[u] \in Nat
  BY DEF CompleteStep, ReviewStep, ExhaustStep, DeferStep, Attempting, ActiveLease, LedgerTypeOK
<1>2. CASE CompleteStep(u, k, r, a)
  <2>1. /\ Elsewhere(u) /\ \A x \in Steps : x # r => step'[u][x] = step[u][x]
        /\ step'[u][r] = "succeeded" /\ UNCHANGED retries
    BY <1>2, CompleteStepWrites DEF Written
  <2>2. retries[u] <= retries'[u]
    BY <1>1, <2>1
  <2> QED
    BY <1>1, <1>2, <2>1, <2>2
<1>3. CASE ReviewStep(u, k, r, a)
  <2>1. /\ Elsewhere(u) /\ \A x \in Steps : x # r => step'[u][x] = step[u][x]
        /\ step'[u][r] = "manual_review" /\ UNCHANGED retries
    BY <1>3, ReviewStepWrites DEF Written
  <2>2. retries[u] <= retries'[u]
    BY <1>1, <2>1
  <2> QED
    BY <1>1, <1>3, <2>1, <2>2
<1>4. CASE ExhaustStep(u, k, r, a)
  <2>1. /\ Elsewhere(u) /\ \A x \in Steps : x # r => step'[u][x] = step[u][x]
        /\ step'[u][r] = "failed" /\ exec'[u] = "settling" /\ UNCHANGED retries
    BY <1>4, ExhaustStepWrites DEF Written
  <2>2. retries[u] <= retries'[u]
    BY <1>1, <2>1
  <2> QED
    BY <1>1, <1>4, <2>1, <2>2
<1>5. CASE DeferStep(u, k, r, a) /\ retries[u] < MaxRetries
  <2>1. /\ Elsewhere(u) /\ \A x \in Steps : x # r => step'[u][x] = step[u][x]
        /\ step'[u][r] = "failed" /\ retries'[u] = retries[u] + 1
    BY <1>5, DeferStepWrites DEF Written
  <2>2. retries[u] <= retries'[u]
    BY <1>1, <2>1
  <2> QED
    BY <1>1, <1>5, <2>1, <2>2
<1> QED
  BY <1>2, <1>3, <1>4, <1>5

\* What a thread writes to the row of its task.
LEMMA RowRecords ==
    ASSUME Leased, NEW v \in Workers, NEW t \in Tasks, NEW s \in Steps, Recording(v)
    PROVE  RowMove(t, s)
<1> DEFINE u == job[v]  r == op[v]  k == key[v]  a == seen[v]
<1>1. pc[v] \in Acting /\ Typing /\ LedgerTypeOK
  BY DEF Recording, Complete, SendToReview, Defer, Exhaust, Step, Acting, Leased, Typing
<1>2. u \in Tasks /\ r \in Steps /\ RowOK(u)
  BY <1>1, PlaceTyping DEF Acting, Leased, Typing, TaskOK
<1>3. \/ CompleteStep(u, k, r, a) \/ ReviewStep(u, k, r, a) \/ ExhaustStep(u, k, r, a)
      \/ DeferStep(u, k, r, a) /\ retries[u] < MaxRetries
  BY <1>1, <1>2, BoundsAreNumbers DEF Recording, Complete, SendToReview, Defer, Exhaust, Exhausted
<1>4. /\ Elsewhere(u) /\ step[u][r] = "started" /\ retries[u] <= retries'[u]
      /\ exec[u] \in {"running", "not_started"}
      /\ \A x \in Steps : x # r => step'[u][x] = step[u][x]
      /\ \/ step'[u][r] \in {"succeeded", "manual_review"}
         \/ step'[u][r] = "failed" /\ exec'[u] = "settling"
         \/ step'[u][r] = "failed" /\ retries[u] < MaxRetries /\ retries'[u] = retries[u] + 1
  BY <1>1, <1>2, <1>3, AttemptEnds
<1>5. CASE t # u
  BY <1>1, <1>2, <1>4, <1>5, RowKept DEF Elsewhere
<1>6. CASE t = u /\ s = r
  BY <1>4, <1>6 DEF RowMove, Ended
<1>7. CASE t = u /\ s # r
  BY <1>4, <1>7 DEF RowMove, Kept
<1> QED
  BY <1>5, <1>6, <1>7

LEMMA RowPrepares ==
    ASSUME Leased, NEW v \in Workers, NEW t \in Tasks, NEW s \in Steps,
           Prepare(v) \/ ((Begin(v) \/ Resume(v) \/ Restart(v)) /\ (job[v] # t \/ op[v] # s))
    PROVE  RowMove(t, s)
<1> DEFINE u == job[v]  r == op[v]
<1>1. Typing /\ LedgerTypeOK /\ u \in Tasks /\ r \in Steps
  BY PlaceTyping, LedgerAssumption
     DEF Prepare, Begin, Resume, Restart, Step, Acting, Leased, Typing, Steps
<1>2. /\ UNCHANGED <<retries, planned, outcome, token, live>> /\ retries[t] \in Nat
      /\ \A x \in Tasks : x # u => exec'[x] = exec[x]
      /\ exec'[u] = exec[u] \/ exec[u] \notin {"settling", "failed"}
  BY <1>1, BoundsAreNumbers DEF Prepare, PrepareStep, Begin, StartStep, Resume, ResumeStep,
     Restart, RestartStep, CanRun, BecomeRunning, rowVars, leaseVars, LedgerTypeOK
<1>3. CASE Prepare(v)
  <2>1. step' = [step EXCEPT ![u][r] = IF @ = "absent" THEN "prepared" ELSE @]
    BY <1>3 DEF Prepare, PrepareStep
  <2>2. step'[t][s] = step[t][s] \/ step'[t][s] = "prepared"
    BY <1>1, <2>1 DEF LedgerTypeOK
  <2> QED
    BY <1>1, <1>2, <2>2 DEF RowMove, Kept, New
<1>4. CASE Begin(v) \/ Resume(v) \/ Restart(v)
  <2>1. \E a : MoveStep(u, r, "started", a)
    BY <1>4 DEF Begin, StartStep, Resume, ResumeStep, Restart, RestartStep
  <2>2. u # t \/ r # s
    BY <1>4 DEF Prepare, Begin, Resume, Restart, Step
  <2>3. step'[t][s] = step[t][s]
    BY <1>1, <2>1, <2>2, MoveStepMoves
  <2> QED
    BY <1>1, <1>2, <2>3 DEF RowMove, Kept
<1> QED
  BY <1>3, <1>4

LEMMA RowConcludes ==
    ASSUME Leased, NEW v \in Workers, NEW t \in Tasks, NEW s \in Steps,
           PlanStored(v) \/ PlanDeferred(v) \/ Checkpoint(v) \/ Settle(v) \/ Isolate(v) \/ Finish(v)
    PROVE  RowMove(t, s)
<1> DEFINE u == job[v]  k == key[v]
<1>1. Typing /\ LedgerTypeOK /\ u \in Tasks /\ retries[t] \in Nat
  BY PlaceTyping, BoundsAreNumbers
     DEF PlanStored, PlanDeferred, Checkpoint, Settle, Isolate, Finish, Step, Leased, Typing
<1>2. CASE SettleSuccess(u, k)
  BY <1>1, <1>2 DEF SettleSuccess, DeleteRow, FreshRow, LedgerTypeOK, RowMove, Kept, New
<1>3. CASE ~SettleSuccess(u, k)
  <2>1. /\ UNCHANGED step /\ \A x \in Tasks : x # u => exec'[x] = exec[x]
        /\ exec'[u] = exec[u] \/ exec'[u] \in {"settling", "failed"}
             \/ exec[u] \notin {"settling", "failed"}
        /\ retries' = retries \/ retries' = [retries EXCEPT ![u] = retries[u] + 1]
    <3>1. CASE PlanStored(v) \/ Finish(v)
      BY <1>1, <3>1 DEF PlanStored, StorePlan, Finish, ReleaseRow, ledgerVars, rowVars, stepVars
    <3>2. CASE PlanDeferred(v)
      BY <1>1, <3>2 DEF PlanDeferred, DeferPlanning, stepVars, LedgerTypeOK
    <3>3. CASE Checkpoint(v)
      BY <1>1, <3>3 DEF Checkpoint, CheckpointResult, stepVars, LedgerTypeOK
    <3>4. CASE Settle(v)
      BY <1>1, <1>3, <3>4 DEF Settle, SettleFailure, stepVars, LedgerTypeOK
    <3>5. CASE IsolateRow(u, k)
      BY <1>1, <3>5 DEF Isolable, IsolateRow, LedgerTypeOK
    <3>6. CASE Isolate(v) /\ ~IsolateRow(u, k)
      BY <3>6 DEF Isolate, ledgerVars
    <3> QED
      BY <3>1, <3>2, <3>3, <3>4, <3>5, <3>6
  <2>2. retries'[t] = retries[t] \/ retries'[t] = retries[t] + 1
    BY <1>1, <2>1 DEF LedgerTypeOK
  <2>3. step'[t][s] = step[t][s] /\ retries[t] <= retries'[t]
    BY <1>1, <2>1, <2>2
  <2> QED
    BY <1>1, <2>1, <2>3 DEF RowMove, Kept
<1> QED
  BY <1>2, <1>3

LEMMA RowMoves ==
    ASSUME Leased, Typing', Next, NEW t \in Tasks, NEW s \in Steps, ~Executes(t, s)
    PROVE  RowMove(t, s)
<1>1. Typing /\ LedgerTypeOK /\ retries[t] \in Nat
  BY BoundsAreNumbers DEF Leased, Typing
<1>2. ASSUME UNCHANGED <<exec, retries, step>>
      PROVE  RowMove(t, s)
  BY <1>1, <1>2 DEF RowMove, Kept
<1>3. ASSUME NEW u \in Tasks, NEW e, FreshRow(u, e)
      PROVE  RowMove(t, s)
  BY <1>1, <1>3 DEF FreshRow, LedgerTypeOK, RowMove, Kept, New
<1>4. ASSUME NEW v \in Workers, Progress(v) \/ Mishap(v)
      PROVE  RowMove(t, s)
  <2>1. CASE \/ Take(v) \/ Leave(v) \/ ForegroundClaim(v) \/ ForegroundLost(v) \/ PlanSettling(v)
             \/ Executing(v) \/ Observe(v) \/ Fenced(v) \/ Mishap(v)
    BY <1>2, <2>1 DEF Take, Leave, ForegroundClaim, ClaimRow, ForegroundLost, PlanSettling,
       Executing, ExecuteReturns, ExecuteRaises, Observe, Fenced, Mishap, EffectLands, PlanFails,
       Raise, ledgerVars, rowVars, stepVars
  <2>2. CASE ForegroundAdmit(v)
    <3>1. job[v] \in Tasks
      BY <1>1, <2>2, PlaceTyping DEF ForegroundAdmit, Step, Typing
    <3> QED
      BY <1>2, <1>3, <2>2, <3>1 DEF ForegroundAdmit, Persist, Admit, InsertRow, ledgerVars
  <2>3. CASE Begin(v) \/ Resume(v) \/ Restart(v)
    <3>1. pc[v] # "execute" /\ pc'[v] = "execute"
      BY <1>1, <2>3 DEF Begin, Resume, Restart, Step, Goto, Typing, ThreadOK
    <3>2. job[v] # t \/ op[v] # s
      BY <3>1 DEF Executes
    <3> QED
      BY <2>3, <3>2, RowPrepares
  <2> QED
    BY <1>4, <2>1, <2>2, <2>3, RowPrepares, RowRecords, RowConcludes
       DEF Progress, Starting, Planning, Running, Ending
<1>5. ASSUME NEW v \in Workers, NEW u \in Tasks, ForegroundTake(v, u)
      PROVE  RowMove(t, s)
  BY <1>2, <1>5 DEF ForegroundTake, ledgerVars
<1>6. ASSUME NEW u \in Tasks, SubmitAdmit(u)
      PROVE  RowMove(t, s)
  BY <1>2, <1>3, <1>6 DEF SubmitAdmit, Persist, Admit, InsertRow, ledgerVars
<1>7. ASSUME NEW u \in Tasks, Asking(u)
      PROVE  RowMove(t, s)
  <2>1. CASE Discard(u)
    BY <1>3, <2>1 DEF Discard, DiscardFailed, DiscardReview, DeleteRow
  <2>2. CASE Retry(u) \/ ResolveUnhandled(u) \/ \E r \in Steps : Resolve(u, r)
    <3>1. /\ UNCHANGED retries
          /\ exec[u] \in {"failed", "manual_review"} /\ exec' = [exec EXCEPT ![u] = "retry_wait"]
          /\ \A x \in Tasks : x # u => step'[x] = step[x]
      BY <1>1, <2>2 DEF Retry, RequestRetry, ResolveUnhandled, ResolveIsolated, Resolve,
         ResolveStep, ReturnToRetry, stepVars, LedgerTypeOK
    <3>2. CASE t = u
      BY <1>1, <3>1, <3>2 DEF LedgerTypeOK, RowMove, Answered, Parked
    <3>3. CASE t # u
      BY <1>1, <3>1, <3>3 DEF LedgerTypeOK, RowMove, Kept
    <3> QED
      BY <3>2, <3>3
  <2> QED
    BY <1>7, <2>1, <2>2 DEF Asking
<1>8. CASE RecoverAbandon
  <2>1. recovering # NoItem /\ FreshRow(recovering.task, "absent")
    BY <1>8 DEF RecoverAbandon, AbandonRow, DeleteRow
  <2>2. recovering.task \in Tasks
    BY <1>1, <2>1, RecoveringIsItem DEF Typing
  <2> QED
    BY <1>3, <2>1, <2>2
<1>9. CASE \/ SubmitClaim \/ SubmitLost \/ RecoverEnqueue \/ RecoverRefused \/ RecoverFails \/ Crash
           \/ \E u \in Tasks : \/ RecoverClaim(u) \/ LeaseExpires(u)
                               \/ HeartbeatFails(u) \/ RetryDue(u)
  BY <1>2, <1>9 DEF SubmitClaim, SubmitLost, RecoverEnqueue, RecoverRefused, RecoverFails, GiveBack,
     Crash, RecoverClaim, LeaseExpires, HeartbeatFails, RetryDue, ClaimRow, ReleaseRow,
     ledgerVars, rowVars, stepVars
<1> QED
  BY <1>4, <1>5, <1>6, <1>7, <1>8, <1>9 DEF Next, Submitting, Recovering

LEMMA CountStep ==
    ASSUME NEW t \in Tasks, NEW s \in Steps, tries \in [Tasks -> [Steps -> Nat]], Count
    PROVE  /\ tries' \in [Tasks -> [Steps -> Nat]]
           /\ Answered(t) \/ New(t, s) => tries'[t][s] = 0
           /\ \/ tries'[t][s] = 0 \/ tries'[t][s] = tries[t][s]
              \/ Executes(t, s) /\ tries'[t][s] = tries[t][s] + 1
BY DEF Count, New

\* Budgets and losses only grow while a row lives.
LEMMA SpareStays ==
    ASSUME Typing, Typing', [Next]_vars, NEW t \in Tasks, NEW s \in Steps,
           tries[t][s] \in Nat, tries'[t][s] \in Nat, tries'[t][s] <= tries[t][s],
           retries[t] <= retries'[t]
    PROVE  /\ Spare(t, s) => Spare(t, s)'
           /\ tries[t][s] <= Budget(t) + 1 + Losses => tries'[t][s] <= Budget(t)' + 1 + Losses'
           /\ tries[t][s] <= Budget(t) + 1 + Losses /\ Losses < Losses' => Spare(t, s)'
           /\ /\ tries[t][s] <= Budget(t) + 1 + Losses /\ retries[t] < MaxRetries
              /\ retries'[t] = retries[t] + 1
              => Spare(t, s)'
<1>1. /\ retries[t] \in Nat /\ retries'[t] \in Nat /\ MaxRetries \in Nat
      /\ Losses \in Nat /\ Losses' \in Nat /\ Losses <= Losses'
  BY BoundsAreNumbers, LossesGrow DEF Typing, LedgerTypeOK
<1> DEFINE B == Budget(t)  C == Budget(t)'
<1>2. /\ B \in Nat /\ C \in Nat /\ B <= C
      /\ retries[t] < MaxRetries /\ retries'[t] = retries[t] + 1 => C = B + 1
  BY <1>1 DEF Budget
<1> HIDE DEF B, C
<1>3. /\ Spare(t, s) <=> tries[t][s] <= B + Losses
      /\ Spare(t, s)' <=> tries'[t][s] <= C + Losses'
  BY DEF Spare, B, C
<1> DEFINE m == tries[t][s]  n == tries'[t][s]  l == Losses  e == Losses'
<1>4. /\ m \in Nat /\ n \in Nat /\ n <= m /\ l \in Nat /\ e \in Nat /\ l <= e
      /\ B \in Nat /\ C \in Nat /\ B <= C
  BY <1>1, <1>2
<1> HIDE DEF m, n, l, e
<1>5. /\ m <= B + l => n <= C + e
      /\ m <= B + 1 + l => n <= C + 1 + e
      /\ m <= B + 1 + l /\ l < e => n <= C + e
      /\ m <= B + 1 + l /\ C = B + 1 => n <= C + e
  BY <1>4
<1>6. retries[t] < MaxRetries /\ retries'[t] = retries[t] + 1 => C = B + 1
  BY <1>2
<1> QED
  BY <1>3, <1>5, <1>6 DEF B, C, m, n, l, e

LEMMA SpentNone ==
    ASSUME Typing, Typing', [Next]_vars, NEW t \in Tasks, NEW s \in Steps, tries'[t][s] = 0
    PROVE  Spent(t, s)'
<1>1. retries'[t] \in Nat /\ MaxRetries \in Nat /\ Losses' \in Nat
  BY BoundsAreNumbers, LossesGrow DEF Typing, LedgerTypeOK
<1> DEFINE C == Budget(t)'
<1>2. C \in Nat
  BY <1>1 DEF Budget
<1> HIDE DEF C
<1>3. \A n, c, l \in Nat : n = 0 => n <= c + 1 + l /\ n <= c + l
  OBVIOUS
<1>4. tries'[t][s] \in Nat
  OBVIOUS
<1>5. tries'[t][s] <= Budget(t)' + 1 + Losses' /\ Spare(t, s)'
  BY <1>1, <1>2, <1>3, <1>4 DEF Spare, C
<1> QED
  BY <1>4, <1>5 DEF Spent

\* An operation begins to be executed within what is left for it.
LEMMA SpentBegins ==
    ASSUME Leased, Typing', Mirroring, Next, Counted, Count, NEW t \in Tasks, NEW s \in Steps,
           Executes(t, s)
    PROVE  Spent(t, s)'
<1>1. Typing /\ LedgerTypeOK /\ ThreadOK /\ Spent(t, s) /\ tries[t][s] \in Nat
  BY DEF Leased, Typing, Counted, Spent
<1>2. PICK w \in Workers : pc[w] # "execute" /\ pc'[w] = "execute" /\ job[w] = t /\ op[w] = s
  BY DEF Executes
<1>3. Begin(w) \/ Resume(w) \/ Restart(w)
  BY <1>1, <1>2, ExecutionBegins
<1>4. key[w] \in Tokens /\ key[w] # NoToken /\ t # NoTask
  BY <1>1, <1>3, PlaceTyping, LedgerAssumption, WorkerAssumption
     DEF Begin, Resume, Restart, Step, Committed
<1>5. /\ Owns(t, key[w]) /\ UNCHANGED <<token, live, retries, job, op, key>>
      /\ MoveStep(t, s, "started", key[w])
  BY <1>2, <1>3 DEF Begin, StartStep, Resume, ResumeStep, Restart, RestartStep, CanRun, Attempting,
     ActiveLease, BecomeRunning, rowVars, leaseVars
<1>6. step'[t][s] = "started"
  BY <1>1, <1>5, MoveStepMoves
<1>7. Manned(w, t, s)'
  BY <1>2, <1>4, <1>5 DEF Manned, Mine, Owns, Trial
<1>8. Spare(t, s)
  <2>1. CASE Begin(w)
    <3>1. tries[t][s] = 0
      BY <1>1, <1>2, <2>1 DEF Begin, StartStep, Spent
    <3>2. Budget(t) \in Nat /\ Losses \in Nat
      BY <1>1, BoundsAreNumbers, LossesGrow DEF Budget
    <3> QED
      BY <3>1, <3>2 DEF Spare
  <2>2. CASE Resume(w)
    BY <1>1, <1>2, <2>2 DEF Resume, ResumeStep, CanRun, Spent
  <2>3. CASE Restart(w)
    <3>1. step[t][s] = "started" /\ pc[w] = "restart"
      BY <1>2, <2>3 DEF Restart, RestartStep, Attempting, Step
    <3>2. ASSUME NEW v \in Workers, Manned(v, t, s)
          PROVE  FALSE
      <4>1. key[v] = key[w]
        BY <1>5, <3>2 DEF Manned, Mine, Owns
      <4>2. v = w
        BY <1>4, <4>1 DEF Leased, Unique
      <4> QED
        BY <3>1, <3>2, <4>2 DEF Manned, Trial
    <3> QED
      BY <1>1, <3>1, <3>2 DEF Spent
  <2> QED
    BY <1>3, <2>1, <2>2, <2>3
<1>9. tries' \in [Tasks -> [Steps -> Nat]] /\ tries'[t][s] <= tries[t][s] + 1
  BY <1>1, CountStep DEF Counted
<1>10. tries'[t][s] <= Budget(t)' + 1 + Losses'
  <2>1. /\ retries[t] \in Nat /\ MaxRetries \in Nat /\ Losses \in Nat /\ Losses' \in Nat
        /\ Losses <= Losses' /\ retries'[t] = retries[t]
    BY <1>1, <1>5, BoundsAreNumbers, LossesGrow
  <2> DEFINE B == Budget(t)
  <2>2. B \in Nat /\ Budget(t)' = B
    BY <2>1 DEF Budget
  <2> HIDE DEF B
  <2>3. tries[t][s] <= B + Losses
    BY <1>8 DEF Spare, B
  <2>4. tries'[t][s] \in Nat
    BY <1>9
  <2> QED
    BY <1>1, <1>9, <2>1, <2>2, <2>3, <2>4
<1> QED
  BY <1>6, <1>7, <1>9, <1>10 DEF Spent

LEMMA SpentGoesOn ==
    ASSUME Leased, Typing', Mirroring, Next, Counted, Count, NEW t \in Tasks, NEW s \in Steps,
           ~Executes(t, s)
    PROVE  Spent(t, s)'
<1>1. Typing /\ Spent(t, s) /\ tries[t][s] \in Nat /\ tries'[t][s] \in Nat
  BY CountStep DEF Leased, Counted, Spent
<1>2. CASE Answered(t) \/ New(t, s) \/ tries'[t][s] = 0
  BY <1>1, <1>2, CountStep, SpentNone DEF Counted
<1>3. ASSUME tries'[t][s] = tries[t][s], retries[t] <= retries'[t], step'[t][s] # "absent",
             step'[t][s] # "prepared", Kept(t, s) \/ Ended(t, s)
      PROVE  Spent(t, s)'
  <2>1. /\ Spare(t, s) => Spare(t, s)'
        /\ tries'[t][s] <= Budget(t)' + 1 + Losses'
        /\ Losses < Losses' => Spare(t, s)'
        /\ retries[t] < MaxRetries /\ retries'[t] = retries[t] + 1 => Spare(t, s)'
    BY <1>1, <1>3, SpareStays DEF Spent
  <2>2. step'[t][s] = "failed" /\ exec'[t] \notin {"settling", "failed"} => Spare(t, s)'
    BY <1>1, <1>3, <2>1 DEF Kept, Ended, Spent
  <2>3. ASSUME step'[t][s] = "started"
        PROVE  Spare(t, s)' \/ \E w \in Workers : Manned(w, t, s)'
    <3>1. step[t][s] = "started"
      BY <1>3, <2>3 DEF Kept, Ended
    <3>2. CASE Spare(t, s)
      BY <2>1, <3>2
    <3>3. ASSUME NEW w \in Workers, Manned(w, t, s)
          PROVE  Spare(t, s)' \/ Manned(w, t, s)'
      BY <2>1, <2>3, <3>3, TrialStays
    <3> QED
      BY <1>1, <3>1, <3>2, <3>3 DEF Spent
  <2> QED
    BY <1>1, <1>3, <2>1, <2>2, <2>3 DEF Spent
<1>4. RowMove(t, s)
  BY RowMoves
<1> QED
  BY <1>1, <1>2, <1>3, <1>4, CountStep DEF RowMove, Kept, Ended, New, Counted

LEMMA CountedStep ==
    Leased /\ Leased' /\ Mirroring /\ Counted /\ [Next /\ Count]_countedVars => Counted'
<1> SUFFICES ASSUME Leased, Leased', Mirroring, Counted, [Next /\ Count]_countedVars
             PROVE  Counted'
  OBVIOUS
<1>1. CASE UNCHANGED countedVars
  BY <1>1 DEF countedVars, vars, ledgerVars, threadVars, budgetVars, Counted, Spent, Spare, Budget,
     Losses, Manned, Mine, Owns
<1>2. CASE Next /\ Count
  <2>1. Typing'
    BY DEF Leased
  <2>2. \A t \in Tasks, s \in Steps : Spent(t, s)'
    BY <1>2, <2>1, SpentBegins, SpentGoesOn
  <2>3. tries' \in [Tasks -> [Steps -> Nat]]
    BY <1>2 DEF Counted, Count
  <2> QED
    BY <2>2, <2>3 DEF Counted
<1> QED
  BY <1>1, <1>2

\* Between two decisions of its user an operation is executed at most
\* MaxRetries + 1 times, and once more for each crash, lost lease or unhandled
\* exception: _execute_attempt defers or exhausts what failed, and what an
\* earlier owner left STARTED is executed again only by an owner of its own.
THEOREM TransferExecutionsAreBudgeted == CountedSpec => []ExecutionsAreBudgeted
<1>1. CountedSpec => Spec
  <2>1. CountedInit => Init
    BY DEF CountedInit
  <2>2. [Next /\ Count]_countedVars => [Next]_vars
    BY DEF countedVars
  <2> QED
    BY <2>1, <2>2, PTL DEF CountedSpec, Spec
<1>2. CountedInit => Counted
  <2> SUFFICES ASSUME CountedInit PROVE Counted
    OBVIOUS
  <2>1. tries \in [Tasks -> [Steps -> Nat]] /\ \A t \in Tasks, s \in Steps : tries[t][s] = 0
    BY DEF CountedInit
  <2>2. \A t \in Tasks, s \in Steps : step[t][s] = "absent"
    BY DEF CountedInit, Init, LedgerInit
  <2>3. ASSUME NEW t \in Tasks
        PROVE  0 <= Budget(t) + 1 + Losses
    BY LedgerAssumption DEF CountedInit, Init, LedgerInit, Budget, Losses
  <2> QED
    BY <2>1, <2>2, <2>3 DEF Counted, Spent
<1>3. Leased /\ Counted => ExecutionsAreBudgeted
  <2> SUFFICES ASSUME Leased, Counted, NEW t \in Tasks, NEW s \in Steps
               PROVE  tries[t][s] <= MaxRetries + 1 + crashes + stalls + faults
    BY DEF ExecutionsAreBudgeted
  <2>1. /\ retries[t] \in Nat /\ MaxRetries \in Nat /\ tries[t][s] \in Nat
        /\ {crashes, stalls, faults} \subseteq Nat
    BY BoundsAreNumbers, WorkerAssumption DEF Leased, Typing, BudgetOK, Counted
  <2>2. tries[t][s] <= Budget(t) + 1 + Losses
    BY DEF Counted, Spent
  <2> QED
    BY <2>1, <2>2 DEF Budget, Losses
<1>4. QED
  BY <1>1, <1>2, <1>3, LeasedInvariant, MirroringInvariant, CountedStep, PTL DEF CountedSpec
=============================================================================
