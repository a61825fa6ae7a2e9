--------------------------- MODULE TransferPromise ---------------------------
(***************************************************************************)
(* What the durable execution of transfers promises, without leases,       *)
(* threads or crashes.  A source is owed a transfer from its admission     *)
(* until the result is decided; operations take effect in plan order and   *)
(* are recorded once they have; a success is only ever decided when every  *)
(* operation is recorded, and what cannot be decided waits for a user.     *)
(***************************************************************************)
EXTENDS Naturals

CONSTANTS Tasks, NSteps

VARIABLES
    phase,     \* what the source is waiting for
    effect,    \* the external effect of each operation
    recorded   \* the operations known to have taken effect

vars == <<phase, effect, recorded>>

Steps == 1..NSteps
Pristine == [s \in Steps |-> "untouched"]

Init ==
    /\ phase = [t \in Tasks |-> "none"]
    /\ effect = [t \in Tasks |-> Pristine]
    /\ recorded = [t \in Tasks |-> {}]

Move(t, from, to) == phase[t] \in from /\ phase' = [phase EXCEPT ![t] = to]
Forget(t) == recorded' = [recorded EXCEPT ![t] = {}]

\* A failure that a history already points to is not replaced.
Submit(t) ==
    /\ Move(t, {"none", "owed", "review", "succeeded", "declined"}, "owed")
    /\ effect' = [effect EXCEPT ![t] = Pristine]
    /\ Forget(t)

Upcoming(t) == {s \in Steps : recorded[t] = 1..(s - 1)}

Perform(t) ==
    /\ phase[t] = "owed"
    /\ \E s \in Upcoming(t), e \in {"partial", "applied"} :
          /\ effect[t][s] # "applied"
          /\ effect' = [effect EXCEPT ![t][s] = e]
    /\ UNCHANGED <<phase, recorded>>

Record(t) ==
    /\ phase[t] = "owed"
    /\ \E s \in Upcoming(t) :
          /\ effect[t][s] = "applied"
          /\ recorded' = [recorded EXCEPT ![t] = @ \cup {s}]
    /\ UNCHANGED <<phase, effect>>

Succeed(t) ==
    /\ recorded[t] = Steps
    /\ Move(t, {"owed"}, "succeeded")
    /\ UNCHANGED <<effect, recorded>>

Decline(t) == Move(t, {"owed"}, "declined") /\ UNCHANGED <<effect, recorded>>

\* The history reports what was decided.
Settle(t) ==
    \/ Move(t, {"succeeded"}, "none") /\ Forget(t) /\ UNCHANGED effect
    \/ Move(t, {"declined"}, "failed") /\ UNCHANGED <<effect, recorded>>

Ask(t) == Move(t, {"owed"}, "review") /\ UNCHANGED <<effect, recorded>>

\* A user finished the operation in doubt, or rolled it back, or saw that
\* nothing was in doubt.
Answer(t) ==
    /\ Move(t, {"review"}, "owed")
    /\ \/ \E s \in Upcoming(t) :
            \/ /\ recorded' = [recorded EXCEPT ![t] = @ \cup {s}]
               /\ effect' = [effect EXCEPT ![t][s] = "applied"]
            \/ effect' = [effect EXCEPT ![t][s] = "untouched"] /\ UNCHANGED recorded
       \/ UNCHANGED <<effect, recorded>>

Retry(t) == Move(t, {"failed"}, "owed") /\ UNCHANGED <<effect, recorded>>
Discard(t) == Move(t, {"failed", "review"}, "none") /\ Forget(t) /\ UNCHANGED effect

\* Only a transfer that has done nothing yet is dropped without a result.
Abandon(t) ==
    /\ effect[t] = Pristine
    /\ Move(t, {"owed"}, "none")
    /\ UNCHANGED <<effect, recorded>>

Next ==
    \E t \in Tasks :
        \/ Submit(t) \/ Perform(t) \/ Record(t) \/ Succeed(t) \/ Decline(t) \/ Settle(t)
        \/ Ask(t) \/ Answer(t) \/ Retry(t) \/ Discard(t) \/ Abandon(t)

Spec == Init /\ [][Next]_vars
=============================================================================
