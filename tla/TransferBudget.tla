---------------------------- MODULE TransferBudget ----------------------------
(***************************************************************************)
(* TransferWorkers with a history variable that counts how often each      *)
(* operation is executed without a user being asked in between.  It adds   *)
(* no behaviour and takes none away.                                       *)
(***************************************************************************)
EXTENDS TransferWorkers

VARIABLE tries  \* executions of each operation since a user last decided

countedVars == <<vars, tries>>

\* An answer, a retry, a redo or a discard takes the task from its user.
Parked(t) == exec[t] \in {"failed", "manual_review"}
Answered(t) == Parked(t) /\ ~Parked(t)'

Executes(t, s) ==
    \E w \in Workers : /\ pc[w] # "execute" /\ pc'[w] = "execute"
                       /\ job[w] = t /\ op[w] = s

\* The operations of a new plan have not been executed.
Count ==
    tries' = [t \in Tasks |-> [s \in Steps |->
                 IF Answered(t) \/ step'[t][s] \in {"absent", "prepared"} THEN 0
                 ELSE IF Executes(t, s) THEN tries[t][s] + 1 ELSE tries[t][s]]]

CountedInit == Init /\ tries = [t \in Tasks |-> [s \in Steps |-> 0]]
CountedSpec == CountedInit /\ [][Next /\ Count]_countedVars

\* An operation is executed at most MaxRetries + 1 times before a user is
\* asked (_execute_attempt defers or exhausts it), and once more for each
\* crash, lost lease or unhandled exception, any of which leaves it STARTED:
\* planning deferrals, isolations and later owners, who observe it and may
\* restart it, give it no further execution.
ExecutionsAreBudgeted ==
    \A t \in Tasks, s \in Steps :
        tries[t][s] <= MaxRetries + 1 + crashes + stalls + faults
=============================================================================
