---------------------------- MODULE OutboxStore ----------------------------
(***************************************************************************)
(* One row of the durable outbox table and the short transactions that     *)
(* read and write it: the SQLAlchemy adapter of db/adapters/outbox.py.     *)
(*                                                                         *)
(* Wall-clock times are reduced to what the adapter's comparisons tell     *)
(* apart: "due" is next_retry_at <= now, and "lease" says whether          *)
(* lease_until is NULL, in the future or in the past.                      *)
(***************************************************************************)
EXTENDS Naturals

CONSTANT MaxAttempts    \* OutboxDispatcher's max_attempts

ASSUME MaxAttemptsAssumption == MaxAttempts \in Nat \ {0}

Status == {"absent", "pending", "processing", "completed", "dead"}
Lease  == {"none", "live", "expired"}

\* "fanned" is the __mp_event_fanout_complete field of a parent's payload.
Row == [status : Status, attempt : Nat, due : BOOLEAN, lease : Lease,
        fanned : BOOLEAN]

NoRow == [status |-> "absent", attempt |-> 0, due |-> FALSE,
          lease |-> "none", fanned |-> FALSE]

\* _outbox_model: a new intent is pending, unclaimed and due at once.
NewRow == [NoRow EXCEPT !.status = "pending", !.due = TRUE]

Terminal(r) == r.status \in {"completed", "dead"}

\* Faulty variants: no status filter, and no takeover of an expired lease.
ClaimableAnyStatus(r) == r.status # "absent" /\ r.due /\ r.lease # "live"
ClaimableUnleased(r) ==
    r.status \in {"pending", "processing"} /\ r.due /\ r.lease = "none"

\* The WHERE clause shared by _claim_query and _claim_update.
Claimable(r) == /\ r.status \in {"pending", "processing"}
                /\ r.due
                /\ r.lease # "live"

\* Faulty variant: the UPDATE does not compare the attempt it read.
CanClaimUnfenced(r, seen) == Claimable(r)

\* The extra conjunct of _claim_update: the attempt is still the one read.
CanClaim(r, seen) == Claimable(r) /\ r.attempt = seen

Claimed(r, next) == [r EXCEPT !.status = "processing", !.attempt = next,
                              !.lease = "live"]

\* Faulty variant: settle whatever attempt is being processed.
OwnsAnyAttempt(r, attempt) == r.status = "processing"

\* The fence of renew, complete, retry and stage_fanout.
Owns(r, attempt) == r.status = "processing" /\ r.attempt = attempt

Renewed(r, attempt) ==
    IF Owns(r, attempt) THEN [r EXCEPT !.lease = "live"] ELSE r

Completed(r, attempt) ==
    IF Owns(r, attempt)
    THEN [r EXCEPT !.status = "completed", !.lease = "none"] ELSE r

\* retry(): next_retry_at is "now" for the immediate deliverer and a backoff
\* for the dispatcher, so "again" says whether the row is due at once.
Retried(r, attempt, dead, again) ==
    IF Owns(r, attempt)
    THEN [r EXCEPT !.status = IF dead THEN "dead" ELSE "pending",
                   !.due = again, !.lease = "none"]
    ELSE r

\* retry_claimed: the dispatcher backs off, and gives up at max_attempts.
Backoff(r, attempt) == Retried(r, attempt, attempt >= MaxAttempts, FALSE)
=============================================================================
