---------------------------- MODULE TransferLedger ----------------------------
(***************************************************************************)
(* The durable ledger of media transfers: one pending row per source file  *)
(* (TransferPending) and one row per external operation of its plan        *)
(* (TransferExecutionStep).  Every operator below is one conditional       *)
(* UPDATE, or the transaction that groups several, of db/models and        *)
(* db/adapters/transfer: its first conjuncts are the WHERE clause, and a   *)
(* caller whose clause matches no row changes nothing.                     *)
(***************************************************************************)
EXTENDS Naturals, FiniteSets

CONSTANTS
    Tasks,       \* source files; the unique key (storage, src_path)
    NSteps,      \* external operations of a plan
    Tokens,      \* lease tokens (uuid4), reused only once nobody holds them
    NoToken,     \* a NULL token
    MaxRetries   \* TRANSFER_MAX_FAILED_RETRIES, clamped by max_failed_retries()

ASSUME LedgerAssumption ==
    /\ NSteps \in Nat \ {0}
    /\ MaxRetries \in Nat
    /\ Tokens \subseteq Nat    \* ordered only to name one unused token
    /\ NoToken \notin Tokens

VARIABLES
    exec,     \* execution_state, or "absent" when there is no row
    planned,  \* the frozen plan checkpoint is stored
    token,    \* lease_token
    live,     \* lease_expires_at is in the future
    due,      \* retry_due_at is set and has passed
    retries,  \* retry_count
    outcome,  \* outcome of execution_payload, "none" while it is NULL
    settled,  \* terminal_history_id is set: a failed result was settled
    step,     \* state of the row of each operation, "absent" before it
    attempt,  \* its attempt_token; an owner starts an operation at most once
              \* per lease, so its lease token stands for the attempt
    review    \* state of the synthetic unhandled_execution_review row

rowVars    == <<exec, planned, due, retries, outcome, settled>>
leaseVars  == <<token, live>>
stepVars   == <<step, attempt, review>>
ledgerVars == <<exec, planned, token, live, due, retries, outcome, settled,
                step, attempt, review>>

Steps == 1..NSteps

Active == {"not_started", "running", "retry_wait", "settling"}
ExecState == Active \cup {"absent", "failed", "manual_review"}
StepState == {"absent", "prepared", "started", "succeeded", "failed", "manual_review"}
Outcome   == {"none", "succeeded", "failed"}

LedgerTypeOK ==
    /\ exec    \in [Tasks -> ExecState]
    /\ planned \in [Tasks -> BOOLEAN]
    /\ token   \in [Tasks -> Tokens \cup {NoToken}]
    /\ live    \in [Tasks -> BOOLEAN]
    /\ due     \in [Tasks -> BOOLEAN]
    /\ retries \in [Tasks -> Nat]
    /\ outcome \in [Tasks -> Outcome]
    /\ settled \in [Tasks -> BOOLEAN]
    /\ step    \in [Tasks -> [Steps -> StepState]]
    /\ attempt \in [Tasks -> [Steps -> Tokens \cup {NoToken}]]
    /\ review  \in [Tasks -> {"absent", "manual_review", "failed"}]

LedgerInit ==
    /\ exec    = [t \in Tasks |-> "absent"]
    /\ planned = [t \in Tasks |-> FALSE]
    /\ token   = [t \in Tasks |-> NoToken]
    /\ live    = [t \in Tasks |-> FALSE]
    /\ due     = [t \in Tasks |-> FALSE]
    /\ retries = [t \in Tasks |-> 0]
    /\ outcome = [t \in Tasks |-> "none"]
    /\ settled = [t \in Tasks |-> FALSE]
    /\ step    = [t \in Tasks |-> [s \in Steps |-> "absent"]]
    /\ attempt = [t \in Tasks |-> [s \in Steps |-> NoToken]]
    /\ review  = [t \in Tasks |-> "absent"]

-----------------------------------------------------------------------------
\* Rows and leases.

\* The lease fence of every WHERE clause: this token, and not expired.
Owns(t, k) == live[t] /\ token[t] = k

\* The row of t is replaced by one in state e with every other column new.
FreshRow(t, e) ==
    /\ exec'    = [exec    EXCEPT ![t] = e]
    /\ planned' = [planned EXCEPT ![t] = FALSE]
    /\ token'   = [token   EXCEPT ![t] = NoToken]
    /\ live'    = [live    EXCEPT ![t] = FALSE]
    /\ due'     = [due     EXCEPT ![t] = FALSE]
    /\ retries' = [retries EXCEPT ![t] = 0]
    /\ outcome' = [outcome EXCEPT ![t] = "none"]
    /\ settled' = [settled EXCEPT ![t] = FALSE]
    /\ step'    = [step    EXCEPT ![t] = [s \in Steps |-> "absent"]]
    /\ attempt' = [attempt EXCEPT ![t] = [s \in Steps |-> NoToken]]
    /\ review'  = [review  EXCEPT ![t] = "absent"]

\* Mutant: a failure that a history points to is replaced as well.
AdmissibleSettled(t) == exec[t] = "absent" \/ ~live[t]

\* A new admission, or an explicit redo that replaces a row which nobody
\* leases and no history points to.
Admissible(t) == exec[t] = "absent" \/ (~live[t] /\ ~settled[t])
InsertRow(t) == Admissible(t) /\ FreshRow(t, "not_started")
DeleteRow(t) == FreshRow(t, "absent")

\* Mutants: parked rows are claimed; only rows without a token are.
ClaimableParked(t) == exec[t] # "absent" /\ ~live[t]
ClaimableUnleased(t) ==
    /\ exec[t] \in Active
    /\ exec[t] = "retry_wait" => due[t]
    /\ token[t] = NoToken

Claimable(t) ==
    /\ exec[t] \in Active
    /\ exec[t] = "retry_wait" => due[t]
    /\ ~live[t]

ClaimRow(t, k) ==
    /\ Claimable(t)
    /\ token' = [token EXCEPT ![t] = k]
    /\ live'  = [live  EXCEPT ![t] = TRUE]
    /\ UNCHANGED <<rowVars, stepVars>>

DropLease(t) ==
    /\ token' = [token EXCEPT ![t] = NoToken]
    /\ live'  = [live  EXCEPT ![t] = FALSE]

\* release_claim: only the current, unexpired token gives the lease back.
ReleaseRow(t, k) ==
    /\ IF Owns(t, k) THEN DropLease(t) ELSE UNCHANGED leaseVars
    /\ UNCHANGED <<rowVars, stepVars>>

NeverStarted(t) ==
    /\ ~planned[t]
    /\ exec[t] = "not_started" \/ (exec[t] = "retry_wait" /\ retries[t] > 0)
    /\ outcome[t] = "none" /\ ~settled[t]
    /\ review[t] = "absent" /\ \A s \in Steps : step[t][s] = "absent"

AbandonRow(t, k) == Owns(t, k) /\ NeverStarted(t) /\ DeleteRow(t)

\* The plan is frozen with the lease; planning again keeps the first plan.
StorePlan(t, k) ==
    /\ Owns(t, k)
    /\ planned' = [planned EXCEPT ![t] = TRUE]
    /\ UNCHANGED <<exec, due, retries, outcome, settled, leaseVars, stepVars>>

DeferPlanning(t, k) ==
    /\ Owns(t, k) /\ ~planned[t] /\ retries[t] < MaxRetries
    /\ exec[t] \in {"not_started", "retry_wait"}
    /\ outcome[t] = "none" /\ ~settled[t]
    /\ review[t] = "absent" /\ \A s \in Steps : step[t][s] = "absent"
    /\ exec'    = [exec    EXCEPT ![t] = "retry_wait"]
    /\ due'     = [due     EXCEPT ![t] = FALSE]
    /\ retries' = [retries EXCEPT ![t] = retries[t] + 1]
    /\ DropLease(t)
    /\ UNCHANGED <<planned, outcome, settled, stepVars>>

-----------------------------------------------------------------------------
\* Steps.  Running is the CAS that stage_execution_running shares.

CanRun(t, k) ==
    /\ Owns(t, k) /\ planned[t]
    /\ exec[t] \in {"not_started", "running", "retry_wait"}

BecomeRunning(t) ==
    /\ exec' = [exec EXCEPT ![t] = "running"]
    /\ due'  = [due  EXCEPT ![t] = FALSE]
    /\ UNCHANGED <<planned, retries, outcome, settled, leaseVars>>

\* _active_lease_exists: what every step CAS asks of the pending row.
ActiveLease(t, k) == Owns(t, k) /\ exec[t] \in {"running", "not_started"}

PrepareStep(t, k, s) ==
    /\ CanRun(t, k)
    /\ BecomeRunning(t)
    /\ step' = [step EXCEPT ![t][s] = IF @ = "absent" THEN "prepared" ELSE @]
    /\ UNCHANGED <<attempt, review>>

\* The step row moves from one state to another under the lease alone.
MoveStep(t, s, to, a) ==
    /\ step'    = [step    EXCEPT ![t][s] = to]
    /\ attempt' = [attempt EXCEPT ![t][s] = a]
    /\ UNCHANGED review

Attempting(t, k, s, a) ==
    ActiveLease(t, k) /\ step[t][s] = "started" /\ attempt[t][s] = a

StartStep(t, k, s) ==
    /\ ActiveLease(t, k) /\ step[t][s] = "prepared"
    /\ MoveStep(t, s, "started", k)
    /\ UNCHANGED <<rowVars, leaseVars>>

RestartStep(t, k, s, a) ==
    /\ Attempting(t, k, s, a)
    /\ MoveStep(t, s, "started", k)
    /\ UNCHANGED <<rowVars, leaseVars>>

ResumeStep(t, k, s) ==
    /\ CanRun(t, k) /\ step[t][s] = "failed"
    /\ BecomeRunning(t)
    /\ MoveStep(t, s, "started", k)

CompleteStep(t, k, s, a) ==
    /\ Attempting(t, k, s, a)
    /\ MoveStep(t, s, "succeeded", NoToken)
    /\ UNCHANGED <<rowVars, leaseVars>>

DeferStep(t, k, s, a) ==
    /\ Attempting(t, k, s, a) /\ exec[t] = "running"
    /\ MoveStep(t, s, "failed", NoToken)
    /\ exec'    = [exec    EXCEPT ![t] = "retry_wait"]
    /\ due'     = [due     EXCEPT ![t] = FALSE]
    /\ retries' = [retries EXCEPT ![t] = retries[t] + 1]
    /\ DropLease(t)
    /\ UNCHANGED <<planned, outcome, settled>>

\* The budget is spent: the failure is checkpointed under the same lease.
ExhaustStep(t, k, s, a) ==
    /\ Attempting(t, k, s, a) /\ exec[t] = "running"
    /\ MoveStep(t, s, "failed", NoToken)
    /\ exec'    = [exec    EXCEPT ![t] = "settling"]
    /\ due'     = [due     EXCEPT ![t] = FALSE]
    /\ outcome' = [outcome EXCEPT ![t] = "failed"]
    /\ UNCHANGED <<planned, retries, settled, leaseVars>>

\* Mutant: the lease stays with the thread that asked for the review.
ReviewStepKeepsLease(t, k, s, a) ==
    /\ Attempting(t, k, s, a)
    /\ MoveStep(t, s, "manual_review", NoToken)
    /\ exec' = [exec EXCEPT ![t] = "manual_review"]
    /\ UNCHANGED <<planned, due, retries, outcome, settled, leaseVars>>

ReviewStep(t, k, s, a) ==
    /\ Attempting(t, k, s, a)
    /\ MoveStep(t, s, "manual_review", NoToken)
    /\ exec' = [exec EXCEPT ![t] = "manual_review"]
    /\ DropLease(t)
    /\ UNCHANGED <<planned, due, retries, outcome, settled>>

-----------------------------------------------------------------------------
\* Checkpoint, settlement and isolation.

\* n is the number of operations the run went through: the stored rows must
\* be exactly those, all succeeded.  Whether the outcome fits is not asked.
CheckpointResult(t, k, n, o) ==
    /\ CanRun(t, k)
    /\ \A s \in Steps : step[t][s] = IF s <= n THEN "succeeded" ELSE "absent"
    /\ exec'    = [exec    EXCEPT ![t] = "settling"]
    /\ due'     = [due     EXCEPT ![t] = FALSE]
    /\ outcome' = [outcome EXCEPT ![t] = o]
    /\ UNCHANGED <<planned, retries, settled, leaseVars, stepVars>>

\* One transaction with the history and the receipt: a success removes the
\* row and its steps, a failure keeps both for the user.
SettleSuccess(t, k) ==
    /\ Owns(t, k) /\ exec[t] = "settling" /\ outcome[t] = "succeeded"
    /\ DeleteRow(t)

SettleFailure(t, k) ==
    /\ Owns(t, k) /\ exec[t] = "settling" /\ outcome[t] = "failed"
    /\ exec'    = [exec    EXCEPT ![t] = "failed"]
    /\ settled' = [settled EXCEPT ![t] = TRUE]
    /\ DropLease(t)
    /\ UNCHANGED <<planned, due, retries, outcome, stepVars>>

Isolable(t, k) ==
    /\ Owns(t, k)
    /\ exec[t] \in {"not_started", "running", "retry_wait"}
    /\ outcome[t] = "none" /\ ~settled[t]

IsolateRow(t, k) ==
    /\ Isolable(t, k)
    /\ exec'    = [exec    EXCEPT ![t] = "manual_review"]
    /\ due'     = [due     EXCEPT ![t] = FALSE]
    /\ retries' = [retries EXCEPT ![t] = retries[t] + 1]
    /\ review'  = [review  EXCEPT ![t] = "manual_review"]
    /\ DropLease(t)
    /\ UNCHANGED <<planned, outcome, settled, step, attempt>>

-----------------------------------------------------------------------------
\* What a user decides.  Each transaction first takes the row from a lease
\* that has expired (_clear_inactive_claim).

RequestRetry(t) ==
    /\ exec[t] = "failed" /\ ~live[t]
    /\ exec'  = [exec  EXCEPT ![t] = "retry_wait"]
    /\ due'   = [due   EXCEPT ![t] = TRUE]
    /\ DropLease(t)
    /\ UNCHANGED <<planned, retries, outcome, settled, stepVars>>

DiscardFailed(t) == exec[t] = "failed" /\ ~live[t] /\ DeleteRow(t)

UnderReview(t) ==
    {s \in Steps : step[t][s] = "manual_review"}

ReturnToRetry(t) ==
    /\ exec[t] = "manual_review" /\ token[t] = NoToken
    /\ exec' = [exec EXCEPT ![t] = "retry_wait"]
    /\ due'  = [due  EXCEPT ![t] = TRUE]
    /\ UNCHANGED <<planned, retries, outcome, settled, leaseVars>>

ResolveStep(t, s, to) ==
    /\ s \in UnderReview(t)
    /\ ReturnToRetry(t)
    /\ step' = [step EXCEPT ![t][s] = to]
    /\ UNCHANGED <<attempt, review>>

\* The synthetic row can only be answered with NOT_APPLIED.
ResolveIsolated(t) ==
    /\ review[t] = "manual_review"
    /\ ReturnToRetry(t)
    /\ review' = [review EXCEPT ![t] = "failed"]
    /\ UNCHANGED <<step, attempt>>

DiscardReview(t) ==
    /\ exec[t] = "manual_review" /\ ~live[t]
    /\ UnderReview(t) # {} \/ review[t] = "manual_review"
    /\ DeleteRow(t)

=============================================================================
