------------------------------- MODULE Outbox -------------------------------
(***************************************************************************)
(* The transactional outbox: application/outbox.py over db/adapters/outbox *)
(* .py.  Business commands stage intents in their own transaction and try  *)
(* to deliver some of them at once; the scheduler's recovery scan claims   *)
(* what is due, one flight per topic, and pool threads deliver it.  Every  *)
(* claim is a SELECT followed by a conditional UPDATE, so the two are      *)
(* separate steps; every other store call is a single UPDATE.              *)
(***************************************************************************)
EXTENDS OutboxStore, Sequences, FiniteSets

CONSTANTS
    Keys,           \* event keys
    Topics,
    TopicOf,        \* [Keys -> Topics]
    Cmds,           \* executions of DurableEventCommand
    Effects,        \* [Cmds -> Seq(Keys)]: the intents each command stages
    Direct,         \* the keys whose effect has an immediate deliver()
    Children,       \* [Keys -> SUBSET Keys]: handler deliveries of an event
    Flights,        \* identities of _OutboxFlight objects
    MaxInflight,    \* OutboxRecovery's max_inflight
    Limit,          \* dispatch()'s limit
    MaxRestarts,    \* bound of the model: crashes and stops
    None

ASSUME OutboxAssumption ==
    /\ IsFiniteSet(Keys)
    /\ TopicOf \in [Keys -> Topics]
    /\ Effects \in [Cmds -> Seq(Keys)]
    /\ Direct \subseteq Keys
    /\ Children \in [Keys -> SUBSET Keys]
    /\ MaxInflight \in Nat \ {0}
    /\ Limit \in Nat \ {0}
    /\ MaxRestarts \in Nat
    /\ None \notin Keys \union Flights \union {"scan"}
    /\ "scan" \notin Flights

Actors == Cmds \union Flights

ASSUME ActorsAssumption == Cmds \intersect Flights = {}

\* _stage_event_handlers: the key of a handler delivery is a digest of its
\* parent's key, with a prefix that no command's intent has.
ASSUME HandlerKeysAssumption ==
    \A k \in Keys : \A h \in Children[k] :
        /\ \A c \in Cmds : \A i \in DOMAIN Effects[c] : Effects[c][i] # h
        /\ \A j \in Keys : h \in Children[j] => j = k

VARIABLES
    rows,       \* the outbox table
    order,      \* keys in primary-key order
    pc,         \* where each command and each flight is
    message,    \* what each of them has read or claimed
    at,         \* the effect each command has come to
    completed,  \* the claims under which each command reports effects as completed
    round,      \* how many messages each flight has finished
    active,     \* OutboxRecovery._active
    scanPc,     \* the scheduler thread inside dispatch()
    candidate,  \* the row it has read
    accepted,   \* the topics it has accepted
    lock,       \* holder of OutboxRecovery._lock
    stopping,   \* OutboxRecovery._stopping
    drained,    \* the last stop() returned True
    restarts    \* crashes and stops so far

table == <<rows, order>>
cmd   == <<at, completed>>
scan  == <<scanPc, candidate, accepted>>
life  == <<stopping, drained, restarts>>
vars  == <<table, pc, message, cmd, round, active, scan, lock, life>>

Msg(k, n) == [key |-> k, attempt |-> n]
NoMsg == Msg(None, 0)

Init ==
    /\ rows = [k \in Keys |-> NoRow]
    /\ order = <<>>
    /\ pc = [a \in Actors |-> IF a \in Cmds THEN "idle" ELSE "free"]
    /\ message = [a \in Actors |-> NoMsg]
    /\ at = [c \in Cmds |-> 1]
    /\ completed = [c \in Cmds |-> {}]
    /\ round = [f \in Flights |-> 0]
    /\ active = [t \in Topics |-> None]
    /\ scanPc = "idle"
    /\ candidate = NoMsg
    /\ accepted = 0
    /\ lock = None
    /\ stopping = FALSE
    /\ drained = FALSE
    /\ restarts = 0
-----------------------------------------------------------------------------
(* Claim candidates: the claimable row with the lowest primary key.        *)

Eligible(i, topics) == /\ TopicOf[order[i]] \in topics
                       /\ Claimable(rows[order[i]])

IsCandidate(k, topics) ==
    \E i \in DOMAIN order :
        /\ order[i] = k
        /\ Eligible(i, topics)
        /\ \A j \in 1..(i - 1) : ~Eligible(j, topics)

NoCandidate(topics) == \A i \in DOMAIN order : ~Eligible(i, topics)

\* The conditional UPDATE for the message an actor has read.
Wins(m) == CanClaim(rows[m.key], m.attempt)

TakeRow(m) == rows' = [rows EXCEPT ![m.key] = Claimed(@, m.attempt + 1)]

\* Whether the claim a message was delivered under is still the row's owner.
Current(m) == Owns(rows[m.key], m.attempt)

GiveBack(m) == rows' = [rows EXCEPT ![m.key] = Backoff(@, m.attempt)]

\* Faulty variant: a flight whose lease ran out no longer keeps its topic.
BusyWhileLeased ==
    {t \in Topics : /\ active[t] # None
                    /\ rows[message[active[t]].key].lease # "expired"}

Busy == {t \in Topics : active[t] # None}
-----------------------------------------------------------------------------
(* DurableEventCommand.execute and deliver_outbox_effect                   *)

Intents(c) == {Effects[c][i] : i \in DOMAIN Effects[c]}

\* Stage the business write and all intents in one commit; a key already in
\* the table, or twice among the effects, rolls the transaction back.
Stageable(c) ==
    /\ Cardinality(Intents(c)) = Len(Effects[c])
    /\ \A k \in Intents(c) : rows[k].status = "absent"

Commit(c) ==
    /\ pc[c] = "idle"
    /\ Stageable(c)
    /\ rows' = [k \in Keys |-> IF k \in Intents(c) THEN NewRow ELSE rows[k]]
    /\ order' = order \o Effects[c]
    /\ pc' = [pc EXCEPT ![c] = "deliver"]
    /\ UNCHANGED <<message, cmd, round, active, scan, lock, life>>

\* stage_business raises, a key is repeated, or the unique index rejects one.
Rollback(c) ==
    /\ pc[c] = "idle"
    /\ pc' = [pc EXCEPT ![c] = "rolledback"]
    /\ UNCHANGED <<table, message, cmd, round, active, scan, lock, life>>

Delivering(c) == pc[c] = "deliver" /\ at[c] \in DOMAIN Effects[c]

Effect(c) == Effects[c][at[c]]

NextEffect(c) == /\ pc' = [pc EXCEPT ![c] = "deliver"]
                 /\ message' = [message EXCEPT ![c] = NoMsg]
                 /\ at' = [at EXCEPT ![c] = @ + 1]

\* No deliver() for this effect, or claim_by_event_key finds no candidate.
SkipEffect(c) ==
    /\ Delivering(c)
    /\ Effect(c) \notin Direct \/ ~Claimable(rows[Effect(c)])
    /\ NextEffect(c)
    /\ UNCHANGED <<table, completed, round, active, scan, lock, life>>

DirectSelect(c) ==
    /\ Delivering(c)
    /\ Effect(c) \in Direct
    /\ Claimable(rows[Effect(c)])
    /\ message' = [message EXCEPT ![c] =
                      Msg(Effect(c), rows[Effect(c)].attempt)]
    /\ pc' = [pc EXCEPT ![c] = "claim"]
    /\ UNCHANGED <<table, cmd, round, active, scan, lock, life>>

DirectClaim(c) ==
    /\ pc[c] = "claim"
    /\ Wins(message[c])
    /\ TakeRow(message[c])
    /\ message' = [message EXCEPT ![c] = Msg(@.key, @.attempt + 1)]
    /\ pc' = [pc EXCEPT ![c] = "effect"]
    /\ UNCHANGED <<order, cmd, round, active, scan, lock, life>>

DirectClaimLost(c) ==
    /\ pc[c] = "claim"
    /\ ~Wins(message[c])
    /\ NextEffect(c)
    /\ UNCHANGED <<table, completed, round, active, scan, lock, life>>

\* Faulty variant: success is reported when the row is completed, by whomever.
DirectCompleteByAnyone(c) ==
    LET m == message[c]
    IN  /\ pc[c] = "effect"
        /\ rows' = [rows EXCEPT ![m.key] = Completed(@, m.attempt)]
        /\ completed' = [completed EXCEPT ![c] = @ \union
                            (IF rows'[m.key].status = "completed" THEN {m} ELSE {})]
        /\ NextEffect(c)
        /\ UNCHANGED <<order, round, active, scan, lock, life>>

\* The effect returned: complete() decides whether it counts as completed;
\* a lost lease is collected as an error of this effect.
DirectComplete(c) ==
    LET m == message[c]
    IN  /\ pc[c] = "effect"
        /\ rows' = [rows EXCEPT ![m.key] = Completed(@, m.attempt)]
        /\ completed' = [completed EXCEPT ![c] =
                            @ \union (IF Current(m) THEN {m} ELSE {})]
        /\ NextEffect(c)
        /\ UNCHANGED <<order, round, active, scan, lock, life>>

\* Faulty variant: an immediate delivery that fails kills the message.
DirectFailDeadLetters(c) ==
    LET m == message[c]
    IN  /\ pc[c] = "effect"
        /\ rows' = [rows EXCEPT ![m.key] = Retried(@, m.attempt, TRUE, TRUE)]
        /\ NextEffect(c)
        /\ UNCHANGED <<order, completed, round, active, scan, lock,
                       life>>

\* The effect raised or was not confirmed: due again at once, never dead.
DirectFail(c) ==
    LET m == message[c]
    IN  /\ pc[c] = "effect"
        /\ rows' = [rows EXCEPT ![m.key] = Retried(@, m.attempt, FALSE, TRUE)]
        /\ NextEffect(c)
        /\ UNCHANGED <<order, completed, round, active, scan, lock,
                       life>>

Return(c) ==
    /\ pc[c] = "deliver"
    /\ at[c] \notin DOMAIN Effects[c]
    /\ pc' = [pc EXCEPT ![c] = "done"]
    /\ UNCHANGED <<table, message, cmd, round, active, scan, lock, life>>
-----------------------------------------------------------------------------
(* OutboxRecovery.dispatch, on the scheduler's thread                      *)

\* Faulty variant: a scan that is due after stop() still claims.
ScanBeginWhileStopping ==
    /\ lock = None
    /\ scanPc = "idle"
    /\ lock' = "scan"
    /\ scanPc' = "pick"
    /\ accepted' = 0
    /\ UNCHANGED <<table, pc, message, cmd, round, active, candidate, life>>

\* Renew every flight in progress, then look for idle topics.
ScanBegin ==
    /\ lock = None
    /\ scanPc = "idle"
    /\ ~stopping
    /\ lock' = "scan"
    /\ scanPc' = "pick"
    /\ accepted' = 0
    /\ rows' = [k \in Keys |->
                  LET f == active[TopicOf[k]]
                  IN  IF f # None /\ message[f].key = k
                      THEN Renewed(rows[k], message[f].attempt) ELSE rows[k]]
    /\ UNCHANGED <<order, pc, message, cmd, round, active, candidate, life>>

ScanOpen == /\ scanPc = "pick"
            /\ accepted < Limit
            /\ Cardinality(Busy) < MaxInflight

ScanSelect ==
    /\ ScanOpen
    /\ \E k \in Keys :
          /\ IsCandidate(k, Topics \ Busy)
          /\ candidate' = Msg(k, rows[k].attempt)
    /\ scanPc' = "claim"
    /\ UNCHANGED <<table, pc, message, cmd, round, active, accepted, lock, life>>

LeaveScan == /\ scanPc' = "idle"
             /\ candidate' = NoMsg
             /\ accepted' = 0
             /\ lock' = None

ScanEnd ==
    /\ scanPc = "pick"
    /\ ScanOpen => NoCandidate(Topics \ Busy)
    /\ LeaveScan
    /\ UNCHANGED <<table, pc, message, cmd, round, active, life>>

\* claim_one succeeds: the flight is registered before it is submitted.
ScanClaim(f) ==
    /\ scanPc = "claim"
    /\ Wins(candidate)
    /\ TakeRow(candidate)
    /\ pc[f] = "free"
    /\ pc' = [pc EXCEPT ![f] = "new"]
    /\ message' = [message EXCEPT ![f] =
                      Msg(candidate.key, candidate.attempt + 1)]
    /\ active' = [active EXCEPT ![TopicOf[candidate.key]] = f]
    /\ scanPc' = "submit"
    /\ candidate' = NoMsg
    /\ UNCHANGED <<order, cmd, round, accepted, lock, life>>

ScanClaimLost ==
    /\ scanPc = "claim"
    /\ ~Wins(candidate)
    /\ LeaveScan
    /\ UNCHANGED <<table, pc, message, cmd, round, active, life>>

ScanSubmit(f) ==
    /\ scanPc = "submit"
    /\ pc[f] = "new"
    /\ pc' = [pc EXCEPT ![f] = "queued"]
    /\ scanPc' = "pick"
    /\ accepted' = accepted + 1
    /\ UNCHANGED <<table, message, cmd, round, active, candidate, lock, life>>

\* _finish: release the topic of the flight's current message.
Release(f) == /\ active' = [active EXCEPT ![TopicOf[message[f].key]] = None]
              /\ pc' = [pc EXCEPT ![f] = "free"]
              /\ message' = [message EXCEPT ![f] = NoMsg]
              /\ round' = [round EXCEPT ![f] = 0]

\* The pool refuses the task: back off, drop the flight and leave dispatch().
ScanSubmitFails(f) ==
    /\ scanPc = "submit"
    /\ pc[f] = "new"
    /\ GiveBack(message[f])
    /\ Release(f)
    /\ LeaveScan
    /\ UNCHANGED <<order, cmd, life>>
-----------------------------------------------------------------------------
(* OutboxRecovery._run, _done and _finish, on a pool thread                *)

Goto(f, from, to) == pc[f] = from /\ pc' = [pc EXCEPT ![f] = to]

RunStart(f) ==
    /\ Goto(f, "queued", "effect")
    /\ UNCHANGED <<table, message, cmd, round, active, scan, lock, life>>

\* The future is cancelled before the task starts: _done gives the row back.
Cancelled(f) ==
    /\ Goto(f, "queued", "finish")
    /\ GiveBack(message[f])
    /\ UNCHANGED <<order, message, cmd, round, active, scan, lock, life>>

\* The handler of an ordinary topic returns.
HandlerReturns(f) ==
    /\ Goto(f, "effect", "settle")
    /\ Children[message[f].key] = {}
    /\ UNCHANGED <<table, message, cmd, round, active, scan, lock, life>>

\* The primary keys the rows of one transaction get: some order of the set.
Orders(S) == {s \in [1..Cardinality(S) -> S] :
                  \A i, j \in DOMAIN s : s[i] = s[j] => i = j}

AddChildren(k, new) ==
    /\ rows' = [r \in Keys |->
          IF r \in new THEN NewRow
          ELSE IF r = k THEN [rows[r] EXCEPT !.fanned = TRUE] ELSE rows[r]]
    /\ \E s \in Orders(new) : order' = order \o s

\* Faulty variant: a replayed parent expands the current subscriptions again.
FanOutAgain(k, snapshot) ==
    AddChildren(k, {h \in snapshot : rows[h].status = "absent"})

\* stage_fanout's commit: one child row per handler subscribed right now,
\* unless this parent has been expanded before.  (A child key already in the
\* table would violate the unique index: the handler then raises.)
FanOut(k, snapshot) ==
    IF rows[k].fanned THEN UNCHANGED table
    ELSE /\ \A h \in snapshot : rows[h].status = "absent"
         /\ AddChildren(k, snapshot)

EventFansOut(f) ==
    LET k == message[f].key
    IN  /\ Goto(f, "effect", "settle")
        /\ Children[k] # {}
        /\ Current(message[f])
        /\ \E enabled \in SUBSET Children[k] : FanOut(k, enabled)
        /\ UNCHANGED <<message, cmd, round, active, scan, lock, life>>

\* stage_fanout finds another owner: OutboxLeaseLostError leaves _run.
FanoutLeaseLost(f) ==
    /\ Goto(f, "effect", "finish")
    /\ Children[message[f].key] # {}
    /\ ~Current(message[f])
    /\ UNCHANGED <<table, message, cmd, round, active, scan, lock, life>>

HandlerRaises(f) ==
    /\ Goto(f, "effect", "next")
    /\ GiveBack(message[f])
    /\ UNCHANGED <<order, message, cmd, round, active, scan, lock, life>>

\* complete() succeeds, or raises OutboxLeaseLostError out of _run.
RunComplete(f) ==
    LET m == message[f]
    IN  /\ Goto(f, "settle", IF Current(m) THEN "next" ELSE "finish")
        /\ rows' = [rows EXCEPT ![m.key] = Completed(@, m.attempt)]
        /\ UNCHANGED <<order, message, cmd, round, active, scan, lock, life>>

\* Faulty variant: one round too many.
LastRoundLate(f) == stopping \/ round[f] >= Limit

LastRound(f) == stopping \/ round[f] + 1 >= Limit

OwnTopic(f) == {TopicOf[message[f].key]}

\* With the lock held, look for the next message of the same topic.
RunSelect(f) ==
    /\ lock = None
    /\ Goto(f, "next", "claim")
    /\ ~LastRound(f)
    /\ \E k \in Keys :
          /\ IsCandidate(k, OwnTopic(f))
          /\ message' = [message EXCEPT ![f] = Msg(k, rows[k].attempt)]
    /\ lock' = f
    /\ UNCHANGED <<table, cmd, round, active, scan, life>>

RunBreak(f) ==
    /\ lock = None
    /\ Goto(f, "next", "finish")
    /\ LastRound(f) \/ NoCandidate(OwnTopic(f))
    /\ UNCHANGED <<table, message, cmd, round, active, scan, lock, life>>

RunClaim(f) ==
    /\ Goto(f, "claim", "effect")
    /\ Wins(message[f])
    /\ TakeRow(message[f])
    /\ message' = [message EXCEPT ![f] = Msg(@.key, @.attempt + 1)]
    /\ round' = [round EXCEPT ![f] = @ + 1]
    /\ lock' = None
    /\ UNCHANGED <<order, cmd, active, scan, life>>

RunClaimLost(f) ==
    /\ Goto(f, "claim", "finish")
    /\ ~Wins(message[f])
    /\ lock' = None
    /\ UNCHANGED <<table, message, cmd, round, active, scan, life>>

Finish(f) ==
    /\ pc[f] = "finish"
    /\ lock = None
    /\ Release(f)
    /\ UNCHANGED <<table, cmd, scan, lock, life>>
-----------------------------------------------------------------------------
(* Stopping, reconfiguring, crashing, and the passage of time              *)

Stop ==
    /\ lock = None
    /\ ~stopping
    /\ restarts < MaxRestarts
    /\ stopping' = TRUE
    /\ restarts' = restarts + 1
    /\ UNCHANGED <<table, pc, message, cmd, round, active, scan, lock, drained>>

\* wait_for's predicate holds: stop() returns True.
StopReturns ==
    /\ stopping
    /\ lock = None
    /\ Busy = {}
    /\ drained' = TRUE
    /\ UNCHANGED <<table, pc, message, cmd, round, active, scan, lock, stopping,
                   restarts>>

\* configure_outbox_dispatcher: a new OutboxRecovery replaces a drained one.
Configure ==
    /\ drained
    /\ stopping' = FALSE
    /\ drained' = FALSE
    /\ UNCHANGED <<table, pc, message, cmd, round, active, scan, lock, restarts>>

\* Only the table survives; commands under way are gone.
Crash ==
    /\ restarts < MaxRestarts
    /\ pc' = [a \in Actors |->
                 IF a \in Flights THEN "free"
                 ELSE IF pc[a] \in {"idle", "done", "rolledback"} THEN pc[a]
                 ELSE "lost"]
    /\ message' = [a \in Actors |-> NoMsg]
    /\ active' = [t \in Topics |-> None]
    /\ round' = [f \in Flights |-> 0]
    /\ LeaveScan
    /\ stopping' = FALSE
    /\ drained' = FALSE
    /\ restarts' = restarts + 1
    /\ UNCHANGED <<table, cmd>>

LeaseExpires(k) ==
    /\ rows[k].lease = "live"
    /\ rows' = [rows EXCEPT ![k].lease = "expired"]
    /\ UNCHANGED <<order, pc, message, cmd, round, active, scan, lock, life>>

RetryDue(k) ==
    /\ rows[k].status = "pending"
    /\ ~rows[k].due
    /\ rows' = [rows EXCEPT ![k].due = TRUE]
    /\ UNCHANGED <<order, pc, message, cmd, round, active, scan, lock, life>>
-----------------------------------------------------------------------------
Command(c) ==
    \/ Commit(c) \/ Rollback(c) \/ SkipEffect(c) \/ DirectSelect(c)
    \/ DirectClaim(c) \/ DirectClaimLost(c) \/ DirectComplete(c)
    \/ DirectFail(c) \/ Return(c)

Scan == \/ ScanSelect \/ ScanEnd \/ ScanClaimLost
        \/ \E f \in Flights : ScanClaim(f) \/ ScanSubmit(f) \/ ScanSubmitFails(f)

Run(f) ==
    \/ RunStart(f) \/ Cancelled(f) \/ HandlerReturns(f) \/ EventFansOut(f)
    \/ FanoutLeaseLost(f) \/ HandlerRaises(f) \/ RunComplete(f)
    \/ RunSelect(f) \/ RunBreak(f) \/ RunClaim(f) \/ RunClaimLost(f)
    \/ Finish(f)

Next ==
    \/ \E c \in Cmds : Command(c)
    \/ ScanBegin
    \/ Scan
    \/ \E f \in Flights : Run(f)
    \/ Stop \/ StopReturns \/ Configure \/ Crash
    \/ \E k \in Keys : LeaseExpires(k) \/ RetryDue(k)

Spec == Init /\ [][Next]_vars

(***************************************************************************)
(* Fairness.  The scan is an interval job; a pool thread that has a task    *)
(* runs, its handler ends, and it gets the lock because dispatch() holds   *)
(* it only for a moment every 30 seconds; time passes; a stopped process   *)
(* is started again.  Nothing is assumed of the business commands.         *)
(***************************************************************************)
Fairness ==
    /\ WF_vars(ScanBegin) /\ WF_vars(Scan)
    /\ \A f \in Flights : SF_vars(Run(f))
    /\ \A k \in Keys : WF_vars(LeaseExpires(k)) /\ WF_vars(RetryDue(k))
    /\ WF_vars(StopReturns) /\ WF_vars(Configure)

FairSpec == Spec /\ Fairness
-----------------------------------------------------------------------------
(* Properties                                                              *)

CmdPc    == {"idle", "deliver", "claim", "effect", "done", "rolledback", "lost"}
FlightPc == {"free", "new", "queued", "effect", "settle", "next", "claim",
             "finish"}

Message == [key : Keys \union {None}, attempt : Nat]
Claim   == [key : Keys, attempt : Nat]

\* Types of the state; a flight handles at most Limit messages (_run's loop).
TypeOK ==
    /\ rows \in [Keys -> Row]
    /\ order \in Seq(Keys)
    /\ pc \in [Actors -> CmdPc \union FlightPc]
    /\ message \in [Actors -> Message]
    /\ at \in [Cmds -> Nat \ {0}]
    /\ completed \in [Cmds -> SUBSET Claim]
    /\ round \in [Flights -> 0..(Limit - 1)]
    /\ active \in [Topics -> Flights \union {None}]
    /\ scanPc \in {"idle", "pick", "claim", "submit"}
    /\ candidate \in Message
    /\ accepted \in 0..Limit
    /\ lock \in Flights \union {None, "scan"}
    /\ stopping \in BOOLEAN
    /\ drained \in BOOLEAN
    /\ restarts \in 0..MaxRestarts

\* Commands and flights that hold a claim they have not settled.
Holding(a) == pc[a] \in {"new", "queued", "effect", "settle"}

\* No two executions of one message ever carry the same attempt number, and
\* none carries a number the table has not handed out: what makes the attempt
\* a fence when a lease expires under a slow delivery (deliver_outbox_effect
\* never renews its lease).
AttemptsAreFences ==
    \A a \in Actors : Holding(a) =>
        /\ message[a].attempt <= rows[message[a].key].attempt
        /\ \A b \in Actors :
               Holding(b) /\ message[b] = message[a] => b = a

\* While the latest claimant of a message is still executing, nobody else has
\* settled the message or put it back: an overtaken owner cannot complete,
\* retry or kill what its successor is delivering.
LatestOwnerUndisturbed ==
    \A a \in Actors :
        /\ Holding(a)
        /\ message[a].attempt = rows[message[a].key].attempt
        => rows[message[a].key].status = "processing"

\* A completed or dead message never changes again, whoever still executes it.
SettledIsFinal ==
    [][\A k \in Keys : Terminal(rows[k]) => rows'[k] = rows[k]]_vars

\* PostCommitResult.completed_effects names only effects whose row this
\* command itself marked completed: the row is and stays completed under the
\* attempt that the command claimed, a number no other execution ever has
\* (AttemptsAreFences), and no later delivery, by recovery or by another
\* command, is what completed it.
ReportedEffectsCompleted ==
    \A c \in Cmds : \A m \in completed[c] :
        /\ rows[m.key].status = "completed"
        /\ rows[m.key].attempt = m.attempt

\* Once a parent event has been expanded, later replays add no subscriber:
\* stage_fanout commits the children and the marker together.
FanoutIsFrozen ==
    [][\A k \in Keys : rows[k].fanned =>
          \A h \in Children[k] :
              rows[h].status = "absent" => rows'[h].status = "absent"]_vars

\* Recovery runs one flight per topic, even after its lease has expired, and
\* at most max_inflight of them (_run's and OutboxRecovery's docstrings).
Flying == {f \in Flights : pc[f] # "free"}

RecoveryIsSerialPerTopic ==
    /\ \A f, g \in Flying : OwnTopic(f) = OwnTopic(g) => f = g
    /\ Cardinality(Flying) <= MaxInflight

\* After stop() has returned True nothing of recovery runs until a new owner
\* is configured: plugins, modules and the database may be released.
DrainedIsQuiet == drained => Flying = {} /\ scanPc = "idle"

\* Every intent committed with its business write is eventually completed or
\* dead, whatever is overtaken, refused, crashed or stopped on the way.
EveryIntentSettles ==
    \A k \in Keys : rows[k].status = "pending" ~> Terminal(rows[k])

\* The table implements the promise of OutboxDelivery: every intent is owed
\* until delivered after an attempt or abandoned after max_attempts of them.
Verdict(r) == CASE r.status = "absent" -> "none"
                [] r.status \in {"pending", "processing"} -> "owed"
                [] r.status = "completed" -> "delivered"
                [] r.status = "dead" -> "abandoned"

Delivery == INSTANCE OutboxDelivery
                WITH intent <- [k \in Keys |-> Verdict(rows[k])],
                     tries <- [k \in Keys |-> rows[k].attempt]

ImplementsDelivery == Delivery!Spec
=============================================================================
