---------------------------- MODULE OutboxProofs ----------------------------
(***************************************************************************)
(* Proofs about Outbox for every set of keys, topics, commands and flights *)
(* and every value of the bounds: the types of the state, the attempt      *)
(* numbers that fence the owners of a row, the recovery's flights, and the *)
(* life of a message.                                                      *)
(***************************************************************************)
EXTENDS Outbox, FiniteSetTheorems, TLAPS

\* What each control point knows: a message that was read or claimed is a row
\* of the table, and a loop that goes on has not reached its limit.
Phases ==
    /\ \A c \in Cmds : pc[c] \in {"claim", "effect"} => message[c].key \in Keys
    /\ \A f \in Flights : /\ pc[f] # "free" => message[f].key \in Keys
                          /\ pc[f] = "claim" => round[f] + 1 < Limit
    /\ scanPc = "claim" => candidate.key \in Keys
    /\ scanPc \in {"claim", "submit"} => accepted < Limit

Typing == TypeOK /\ Phases
-----------------------------------------------------------------------------
(* The store's operations return rows                                      *)

LEMMA NewRowsAreRows == NewRow \in Row /\ NoRow \in Row
<1>1. NoRow \in Row
  BY DEF NoRow, Row, Status, Lease
<1>2. NewRow \in Row
  BY <1>1 DEF NewRow, NoRow, Row, Status, Lease
<1> QED
  BY <1>1, <1>2

LEMMA ClaimedIsRow ==
    ASSUME NEW r \in Row, NEW n \in Nat
    PROVE  Claimed(r, n) \in Row
BY DEF Claimed, Row, Status, Lease

LEMMA RenewedIsRow ==
    ASSUME NEW r \in Row, NEW n \in Nat
    PROVE  Renewed(r, n) \in Row
BY DEF Renewed, Row, Status, Lease

LEMMA CompletedIsRow ==
    ASSUME NEW r \in Row, NEW n \in Nat
    PROVE  Completed(r, n) \in Row
BY DEF Completed, Row, Status, Lease

LEMMA RetriedIsRow ==
    ASSUME NEW r \in Row, NEW n \in Nat, NEW d \in BOOLEAN, NEW g \in BOOLEAN
    PROVE  Retried(r, n, d, g) \in Row
BY DEF Retried, Row, Status, Lease

LEMMA BackoffIsRow ==
    ASSUME NEW r \in Row, NEW n \in Nat
    PROVE  Backoff(r, n) \in Row
BY MaxAttemptsAssumption DEF Backoff, Retried, Row, Status, Lease

LEMMA FannedIsRow ==
    ASSUME NEW r \in Row
    PROVE  [r EXCEPT !.fanned = TRUE] \in Row
BY DEF Row

LEMMA OrdersAreSequences ==
    ASSUME NEW S \in SUBSET Keys, NEW s \in Orders(S)
    PROVE  s \in Seq(Keys)
<1>1. IsFiniteSet(S)
  BY OutboxAssumption, FS_Subset
<1>2. Cardinality(S) \in Nat
  BY <1>1, FS_CardinalityType
<1>3. s \in [1..Cardinality(S) -> Keys]
  BY <1>2 DEF Orders
<1>4. QED
  BY <1>2, <1>3
-----------------------------------------------------------------------------
(* Type correctness                                                        *)

LEMMA TypingInit == Init => Typing
<1> SUFFICES ASSUME Init PROVE Typing
  OBVIOUS
<1>1. rows \in [Keys -> Row]
  BY NewRowsAreRows DEF Init
<1>2. NoMsg \in Message
  BY DEF NoMsg, Msg, Message
<1>3. pc \in [Actors -> CmdPc \union FlightPc]
  BY DEF Init, CmdPc, FlightPc
<1>4. order \in Seq(Keys) /\ 0 \in 0..(Limit - 1) /\ 0 \in 0..Limit
  BY OutboxAssumption DEF Init
<1>5. round \in [Flights -> 0..(Limit - 1)] /\ restarts \in 0..MaxRestarts
  BY <1>4, OutboxAssumption DEF Init
<1>6. TypeOK
  <2>1. /\ message \in [Actors -> Message]
        /\ candidate \in Message
    BY <1>2 DEF Init
  <2>2. /\ at \in [Cmds -> Nat \ {0}]
        /\ completed \in [Cmds -> SUBSET Claim]
        /\ active \in [Topics -> Flights \union {None}]
    BY DEF Init
  <2>3. /\ scanPc \in {"idle", "pick", "claim", "submit"}
        /\ accepted \in 0..Limit
        /\ lock \in Flights \union {None, "scan"}
        /\ stopping \in BOOLEAN
        /\ drained \in BOOLEAN
    BY <1>4 DEF Init
  <2> QED
    BY <1>1, <1>3, <1>4, <1>5, <2>1, <2>2, <2>3 DEF TypeOK
<1>7. Phases
  BY ActorsAssumption DEF Init, Phases, Actors
<1> QED
  BY <1>6, <1>7 DEF Typing

\* A claim that wins writes a row and yields a message.
LEMMA TakeRowTyping ==
    ASSUME TypeOK, NEW m \in Message, m.key \in Keys, TakeRow(m)
    PROVE  /\ rows' \in [Keys -> Row]
           /\ Msg(m.key, m.attempt + 1) \in Message
<1>1. m.attempt + 1 \in Nat
  BY DEF Message
<1>2. Claimed(rows[m.key], m.attempt + 1) \in Row
  BY <1>1, ClaimedIsRow DEF TypeOK
<1>3. QED
  BY <1>1, <1>2 DEF TypeOK, TakeRow, Message, Msg

LEMMA GiveBackTyping ==
    ASSUME TypeOK, NEW m \in Message, m.key \in Keys, GiveBack(m)
    PROVE  rows' \in [Keys -> Row]
<1>1. Backoff(rows[m.key], m.attempt) \in Row
  BY BackoffIsRow DEF TypeOK, Message
<1>2. QED
  BY <1>1 DEF TypeOK, GiveBack

\* Going on to the next effect forgets the message of this one.
LEMMA NextEffectTyping ==
    ASSUME Typing, NEW c \in Cmds, NextEffect(c)
    PROVE  /\ pc' \in [Actors -> CmdPc \union FlightPc]
           /\ message' \in [Actors -> Message]
           /\ at' \in [Cmds -> Nat \ {0}]
           /\ \A d \in Cmds : pc'[d] \in {"claim", "effect"} =>
                                   message'[d].key \in Keys
           /\ \A f \in Flights : pc'[f] = pc[f] /\ message'[f] = message[f]
<1> USE ActorsAssumption DEF Typing, TypeOK, Actors
<1>1. NoMsg \in Message
  BY DEF NoMsg, Msg, Message
<1>2. pc' = [pc EXCEPT ![c] = "deliver"] /\ "deliver" \in CmdPc
  BY DEF NextEffect, CmdPc
<1>3. message' = [message EXCEPT ![c] = NoMsg]
  BY DEF NextEffect
<1>4. at' \in [Cmds -> Nat \ {0}]
  BY DEF NextEffect
<1>5. \A d \in Cmds : pc'[d] \in {"claim", "effect"} =>
          message'[d].key \in Keys
  BY <1>2, <1>3 DEF Phases
<1> QED
  BY <1>1, <1>2, <1>3, <1>4, <1>5

\* A step that goes on to the next effect leaves the recovery alone; what it
\* writes to the table and to the report must be of the right type.
LEMMA ForwardTyping ==
    ASSUME Typing, NEW c \in Cmds, NextEffect(c),
           rows' \in [Keys -> Row], order' = order,
           completed' \in [Cmds -> SUBSET Claim],
           UNCHANGED <<round, active, scan, lock, life>>
    PROVE  Typing'
<1>1. /\ round' = round /\ active' = active /\ lock' = lock
      /\ scanPc' = scanPc /\ candidate' = candidate /\ accepted' = accepted
      /\ stopping' = stopping /\ drained' = drained /\ restarts' = restarts
  BY DEF scan, life
<1>2. TypeOK'
  BY <1>1, NextEffectTyping DEF Typing, TypeOK
<1>3. \A f \in Flights : pc'[f] = pc[f] /\ message'[f] = message[f]
  BY NextEffectTyping
<1>4. Phases'
  BY <1>1, <1>3, NextEffectTyping DEF Typing, Phases
<1> QED
  BY <1>2, <1>4 DEF Typing

LEMMA TypingCommand ==
    ASSUME Typing, NEW c \in Cmds, Command(c)
    PROVE  Typing'
<1> USE OutboxAssumption, ActorsAssumption
    DEF Typing, TypeOK, Phases, CmdPc, Actors, Message, table, cmd, scan, life
<1>0. /\ NoMsg \in Message
      /\ \A k \in Keys : \A n \in Nat : Msg(k, n) \in Message
  BY DEF NoMsg, Msg
<1>1. CASE Commit(c)
  <2>1. order \o Effects[c] \in Seq(Keys)
    OBVIOUS
  <2> QED
    BY <1>1, <2>1, NewRowsAreRows DEF Commit
<1>2. CASE Rollback(c)
  BY <1>2 DEF Rollback
<1>3. CASE SkipEffect(c)
  BY <1>3, ForwardTyping DEF SkipEffect
<1>4. CASE DirectSelect(c)
  <2>1. Effect(c) \in Keys
    BY <1>4 DEF DirectSelect, Delivering, Effect
  <2>2. rows[Effect(c)].attempt \in Nat
    BY <2>1 DEF Row
  <2>3. Msg(Effect(c), rows[Effect(c)].attempt).key = Effect(c)
    BY DEF Msg
  <2> QED
    BY <1>0, <1>4, <2>1, <2>2, <2>3 DEF DirectSelect
<1>5. CASE DirectClaim(c)
  BY <1>5, TakeRowTyping DEF DirectClaim, Msg
<1>6. CASE DirectClaimLost(c)
  BY <1>6, ForwardTyping DEF DirectClaimLost
<1>7. CASE DirectComplete(c)
  <2>1. message[c].key \in Keys /\ message[c].attempt \in Nat
    BY <1>7 DEF DirectComplete
  <2>2. Completed(rows[message[c].key], message[c].attempt) \in Row
    BY <2>1, CompletedIsRow
  <2>3. rows' \in [Keys -> Row] /\ order' = order
    BY <1>7, <2>2 DEF DirectComplete
  <2>4. completed' \in [Cmds -> SUBSET Claim]
    <3>1. message[c] \in Claim
      BY <2>1 DEF Claim
    <3> QED
      BY <1>7, <3>1 DEF DirectComplete
  <2> QED
    BY ONLY <1>7, <2>3, <2>4, ForwardTyping, Typing, c \in Cmds
       DEF DirectComplete
<1>8. CASE DirectFail(c)
  <2>1. message[c].key \in Keys /\ message[c].attempt \in Nat
    BY <1>8 DEF DirectFail
  <2>2. Retried(rows[message[c].key], message[c].attempt, FALSE, TRUE) \in Row
    BY <2>1, RetriedIsRow
  <2>3. rows' \in [Keys -> Row] /\ order' = order
    BY <1>8, <2>2 DEF DirectFail
  <2>4. completed' \in [Cmds -> SUBSET Claim]
    BY <1>8 DEF DirectFail
  <2> QED
    BY ONLY <1>8, <2>3, <2>4, ForwardTyping, Typing, c \in Cmds
       DEF DirectFail
<1>9. CASE Return(c)
  BY <1>9 DEF Return
<1> QED
  BY <1>1, <1>2, <1>3, <1>4, <1>5, <1>6, <1>7, <1>8, <1>9 DEF Command

LEMMA TypingScan ==
    ASSUME Typing, ScanBegin \/ Scan
    PROVE  Typing'
<1> USE OutboxAssumption, ActorsAssumption
    DEF Typing, TypeOK, Phases, FlightPc, Actors, Message, table, cmd, scan, life
<1>0. NoMsg \in Message
  BY DEF NoMsg, Msg
<1>1. CASE ScanBegin
  <2>1. ASSUME NEW k \in Keys, active[TopicOf[k]] # None
        PROVE  Renewed(rows[k], message[active[TopicOf[k]]].attempt) \in Row
    BY <2>1, RenewedIsRow
  <2>2. rows' \in [Keys -> Row]
    BY <1>1, <2>1 DEF ScanBegin
  <2>3. accepted' \in 0..Limit
    BY <1>1 DEF ScanBegin
  <2> QED
    BY <1>1, <2>2, <2>3 DEF ScanBegin
<1>2. CASE ScanSelect
  <2>1. PICK k \in Keys : candidate' = Msg(k, rows[k].attempt)
    BY <1>2 DEF ScanSelect
  <2>2. candidate' \in Message /\ candidate'.key \in Keys
    BY <2>1 DEF Msg, Row
  <2> QED
    BY <1>2, <2>2 DEF ScanSelect, ScanOpen
<1>3. CASE ScanEnd
  BY <1>0, <1>3 DEF ScanEnd, LeaveScan
<1>4. CASE ScanClaimLost
  BY <1>0, <1>4 DEF ScanClaimLost, LeaveScan
<1>5. ASSUME NEW f \in Flights, ScanClaim(f)
      PROVE  Typing'
  BY <1>0, <1>5, TakeRowTyping DEF ScanClaim, Msg
<1>6. ASSUME NEW f \in Flights, ScanSubmit(f)
      PROVE  Typing'
  BY <1>6 DEF ScanSubmit
<1>7. ASSUME NEW f \in Flights, ScanSubmitFails(f)
      PROVE  Typing'
  BY <1>0, <1>7, GiveBackTyping DEF ScanSubmitFails, Release, LeaveScan
<1> QED
  BY <1>1, <1>2, <1>3, <1>4, <1>5, <1>6, <1>7 DEF Scan

LEMMA TypingRun ==
    ASSUME Typing, NEW f \in Flights, Run(f)
    PROVE  Typing'
<1> USE OutboxAssumption, ActorsAssumption
    DEF Typing, TypeOK, Phases, FlightPc, Actors, Message, table, cmd, scan,
        life, Goto
<1>0. NoMsg \in Message
  BY DEF NoMsg, Msg
<1>1. CASE RunStart(f)
  BY <1>1 DEF RunStart
<1>2. CASE Cancelled(f)
  BY <1>2, GiveBackTyping DEF Cancelled
<1>3. CASE HandlerReturns(f)
  BY <1>3 DEF HandlerReturns
<1>4. CASE EventFansOut(f)
  <2>1. PICK enabled \in SUBSET Children[message[f].key] :
            FanOut(message[f].key, enabled)
    BY <1>4 DEF EventFansOut
  <2>2. message[f].key \in Keys /\ enabled \in SUBSET Keys
    BY <1>4 DEF EventFansOut
  <2>3. rows' \in [Keys -> Row] /\ order' \in Seq(Keys)
    <3>1. CASE rows[message[f].key].fanned
      BY <2>1, <3>1 DEF FanOut
    <3>2. CASE AddChildren(message[f].key, enabled)
      <4>1. PICK s \in Orders(enabled) : order' = order \o s
        BY <3>2 DEF AddChildren
      <4>2. s \in Seq(Keys)
        BY <2>2, OrdersAreSequences
      <4>3. ASSUME NEW r \in Keys
            PROVE  [rows[r] EXCEPT !.fanned = TRUE] \in Row
        BY FannedIsRow
      <4>4. rows' \in [Keys -> Row]
        BY <3>2, <4>3, NewRowsAreRows DEF AddChildren
      <4>5. order' \in Seq(Keys)
        BY <4>1, <4>2
      <4> QED
        BY <4>4, <4>5
    <3> QED
      BY <2>1, <3>1, <3>2 DEF FanOut
  <2> QED
    BY <1>4, <2>3 DEF EventFansOut
<1>5. CASE FanoutLeaseLost(f)
  BY <1>5 DEF FanoutLeaseLost
<1>6. CASE HandlerRaises(f)
  BY <1>6, GiveBackTyping DEF HandlerRaises
<1>7. CASE RunComplete(f)
  <2>1. Completed(rows[message[f].key], message[f].attempt) \in Row
    BY <1>7, CompletedIsRow DEF RunComplete
  <2> QED
    BY <1>7, <2>1 DEF RunComplete
<1>8. CASE RunSelect(f)
  <2>1. PICK k \in Keys :
            message' = [message EXCEPT ![f] = Msg(k, rows[k].attempt)]
    BY <1>8 DEF RunSelect
  <2>2. /\ Msg(k, rows[k].attempt) \in Message
        /\ Msg(k, rows[k].attempt).key \in Keys
    BY <2>1 DEF Msg, Row
  <2> QED
    BY <1>8, <2>1, <2>2 DEF RunSelect, LastRound
<1>9. CASE RunBreak(f)
  BY <1>9 DEF RunBreak
<1>10. CASE RunClaim(f)
  <2>1. round[f] + 1 \in 0..(Limit - 1)
    BY <1>10 DEF RunClaim
  <2> QED
    BY <1>10, <2>1, TakeRowTyping DEF RunClaim, Msg
<1>11. CASE RunClaimLost(f)
  BY <1>11 DEF RunClaimLost
<1>12. CASE Finish(f)
  BY <1>0, <1>12 DEF Finish, Release
<1> QED
  BY <1>1, <1>2, <1>3, <1>4, <1>5, <1>6, <1>7, <1>8, <1>9, <1>10, <1>11,
     <1>12 DEF Run

LEMMA TypingLife ==
    ASSUME Typing, Stop \/ StopReturns \/ Configure \/ Crash
    PROVE  Typing'
<1> USE OutboxAssumption, ActorsAssumption
    DEF Typing, TypeOK, Phases, CmdPc, FlightPc, Actors, Message, table, cmd,
        scan, life
<1>1. CASE Stop
  BY <1>1 DEF Stop
<1>2. CASE StopReturns
  BY <1>2 DEF StopReturns
<1>3. CASE Configure
  BY <1>3 DEF Configure
<1>4. CASE Crash
  <2>1. NoMsg \in Message
    BY DEF NoMsg, Msg
  <2>2. restarts' \in 0..MaxRestarts
    BY <1>4 DEF Crash
  <2>3. round' \in [Flights -> 0..(Limit - 1)]
    BY <1>4 DEF Crash
  <2>4. pc' \in [Actors -> CmdPc \union FlightPc]
    BY <1>4 DEF Crash
  <2>5. /\ message' \in [Actors -> Message]
        /\ candidate' \in Message
        /\ scanPc' = "idle" /\ accepted' = 0 /\ lock' = None
    BY <1>4, <2>1 DEF Crash, LeaveScan
  <2>6. /\ active' \in [Topics -> Flights \union {None}]
        /\ stopping' \in BOOLEAN /\ drained' \in BOOLEAN
        /\ rows' = rows /\ order' = order /\ at' = at
        /\ completed' = completed
    BY <1>4 DEF Crash
  <2>7. /\ \A c \in Cmds : pc'[c] \notin {"claim", "effect"}
        /\ \A f \in Flights : pc'[f] = "free"
    BY <1>4 DEF Crash
  <2>8. /\ accepted' \in 0..Limit
        /\ scanPc' \in {"idle", "pick", "claim", "submit"}
        /\ lock' \in Flights \union {None, "scan"}
    BY <2>5
  <2>9. TypeOK'
    BY <2>2, <2>3, <2>4, <2>5, <2>6, <2>8
  <2> QED
    BY <2>5, <2>7, <2>9
<1> QED
  BY <1>1, <1>2, <1>3, <1>4

LEMMA TypingTime ==
    ASSUME Typing, NEW k \in Keys, LeaseExpires(k) \/ RetryDue(k)
    PROVE  Typing'
<1> USE DEF Typing, TypeOK, Phases, table, cmd, scan, life
<1>1. CASE LeaseExpires(k)
  BY <1>1 DEF LeaseExpires, Row, Lease
<1>2. CASE RetryDue(k)
  BY <1>2 DEF RetryDue, Row
<1> QED
  BY <1>1, <1>2

LEMMA TypingStep == Typing /\ [Next]_vars => Typing'
<1> SUFFICES ASSUME Typing, [Next]_vars PROVE Typing'
  OBVIOUS
<1>1. CASE Next
  BY <1>1, TypingCommand, TypingScan, TypingRun, TypingLife, TypingTime
     DEF Next
<1>2. CASE UNCHANGED vars
  BY <1>2 DEF vars, Typing, TypeOK, Phases, table, cmd, scan, life
<1> QED
  BY <1>1, <1>2

LEMMA TypingInvariant == Spec => []Typing
<1>1. QED
  BY TypingInit, TypingStep, PTL DEF Spec

\* Every reachable state is well typed, and no flight handles more than Limit
\* messages before it returns its thread to the pool (OutboxRecovery._run).
THEOREM OutboxTypeOK == Spec => []TypeOK
<1>1. Typing => TypeOK
  BY DEF Typing
<1>2. QED
  BY <1>1, TypingInvariant, PTL
-----------------------------------------------------------------------------
(* Fencing                                                                 *)

\* The inductive strengthening: a claim in progress carries an attempt that
\* the table has handed out, to nobody else, and the latest one still owns
\* the row; a row that is not there has handed out none.
Fences ==
    /\ \A k \in Keys : rows[k].status = "absent" => rows[k].attempt = 0
    /\ \A a \in Actors : Holding(a) =>
          /\ message[a].key \in Keys
          /\ message[a].attempt > 0
          /\ message[a].attempt <= rows[message[a].key].attempt
          /\ message[a].attempt = rows[message[a].key].attempt =>
                 rows[message[a].key].status = "processing"
          /\ \A b \in Actors :
                 Holding(b) /\ message[b] = message[a] => b = a

LEMMA MessageEquality ==
    ASSUME NEW m \in Message, NEW n \in Message,
           m.key = n.key, m.attempt = n.attempt
    PROVE  m = n
<1>1. /\ m = [key |-> m.key, attempt |-> m.attempt]
      /\ n = [key |-> n.key, attempt |-> n.attempt]
  BY DEF Message
<1> QED
  BY <1>1

\* Steps that hand out no attempt, settle nothing and start no execution.
LEMMA FencesFrame ==
    ASSUME Typing, Fences,
           \A k \in Keys : /\ rows'[k].attempt = rows[k].attempt
                           /\ \/ rows'[k].status = rows[k].status
                              \/ rows[k].status = "absent",
           \A a \in Actors : Holding(a)' => Holding(a) /\ message'[a] = message[a]
    PROVE  Fences'
<1> USE DEF Typing, TypeOK, Fences, Row, Message
<1>1. ASSUME NEW k \in Keys, rows'[k].status = "absent"
      PROVE  rows'[k].attempt = 0
  BY <1>1
<1>2. ASSUME NEW a \in Actors, Holding(a)'
      PROVE  rows[message[a].key].status # "absent"
  <2>1. /\ Holding(a) /\ message[a].key \in Keys
        /\ message[a].attempt > 0
        /\ message[a].attempt <= rows[message[a].key].attempt
    BY <1>2
  <2>2. rows[message[a].key].attempt # 0
    BY <2>1
  <2> QED
    BY <2>1, <2>2
<1> QED
  BY <1>1, <1>2

\* A winning claim: the new attempt is above every attempt still in use.
LEMMA FencesClaim ==
    ASSUME Typing, Fences, NEW a \in Actors, NEW m \in Message,
           m.key \in Keys, Wins(m), TakeRow(m),
           message' = [message EXCEPT ![a] = Msg(m.key, m.attempt + 1)],
           \A b \in Actors : b # a => pc'[b] = pc[b]
    PROVE  Fences'
<1> USE DEF Typing, TypeOK, Message
<1> DEFINE k == m.key
           n == m.attempt + 1
<1>1. /\ rows[k].attempt = m.attempt /\ m.attempt \in Nat
      /\ rows[k].status \in {"pending", "processing"}
  BY DEF Wins, CanClaim, Claimable
<1>2. /\ rows'[k].attempt = n
      /\ rows'[k].status = "processing"
      /\ \A j \in Keys : j # k => rows'[j] = rows[j]
  BY DEF TakeRow, Claimed, Row
<1>3. message'[a].key = k /\ message'[a].attempt = n
  BY DEF Msg
<1>4. \A b \in Actors : b # a => message'[b] = message[b]
  OBVIOUS
<1>5. ASSUME NEW b \in Actors, b # a, Holding(b)'
      PROVE  /\ Holding(b) /\ message'[b] = message[b]
             /\ message[b].key = k => message[b].attempt < n
  BY <1>1, <1>4, <1>5 DEF Holding, Fences, Row
<1>6. ASSUME NEW j \in Keys, rows'[j].status = "absent"
      PROVE  rows'[j].attempt = 0
  BY <1>2, <1>6 DEF Fences
<1>7. ASSUME NEW b \in Actors, Holding(b)'
      PROVE  /\ message'[b].key \in Keys
             /\ message'[b].attempt > 0
             /\ message'[b].attempt <= rows'[message'[b].key].attempt
             /\ message'[b].attempt = rows'[message'[b].key].attempt =>
                    rows'[message'[b].key].status = "processing"
  <2>1. CASE b = a
    BY <1>1, <1>2, <1>3, <2>1
  <2>2. CASE b # a /\ message[b].key = k
    BY <1>1, <1>2, <1>5, <1>7, <2>2 DEF Fences
  <2>3. CASE b # a /\ message[b].key # k
    BY <1>2, <1>5, <1>7, <2>3 DEF Fences
  <2> QED
    BY <2>1, <2>2, <2>3
<1>8. ASSUME NEW b \in Actors, Holding(b)',
             NEW c \in Actors, Holding(c)', message'[c] = message'[b]
      PROVE  c = b
  <2>1. CASE b = a \/ c = a
    BY <1>1, <1>3, <1>5, <1>8, <2>1
  <2>2. CASE b # a /\ c # a
    BY <1>5, <1>8, <2>2 DEF Fences
  <2> QED
    BY <2>1, <2>2
<1> QED
  BY <1>6, <1>7, <1>8 DEF Fences

\* The fenced UPDATE of a claimant that stops executing: if it still owns the
\* row then nobody else holds this attempt, otherwise the row is unchanged.
LEMMA FencesSettle ==
    ASSUME Typing, Fences, NEW a \in Actors, Holding(a), NEW r,
           rows' = [rows EXCEPT ![message[a].key] = r],
           r.attempt = rows[message[a].key].attempt,
           r = rows[message[a].key] \/ (Current(message[a]) /\ r.status # "absent"),
           ~Holding(a)',
           \A b \in Actors : b # a => pc'[b] = pc[b] /\ message'[b] = message[b]
    PROVE  Fences'
<1> USE DEF Typing, TypeOK, Message
<1> DEFINE k == message[a].key
<1>1. k \in Keys
  BY DEF Fences
<1>2. /\ rows'[k] = r
      /\ \A j \in Keys : j # k => rows'[j] = rows[j]
      /\ \A j \in Keys : rows'[j].attempt = rows[j].attempt
  BY <1>1
<1>3. ASSUME NEW j \in Keys, rows'[j].status = "absent"
      PROVE  rows'[j].attempt = 0
  BY <1>2, <1>3 DEF Fences
<1>4. ASSUME NEW b \in Actors, Holding(b)'
      PROVE  /\ b # a /\ Holding(b) /\ message'[b] = message[b]
  BY <1>4 DEF Holding
<1>5. ASSUME NEW b \in Actors, Holding(b)', message[b].key = k,
             message[b].attempt = rows[k].attempt
      PROVE  r = rows[k]
  <2>1. SUFFICES ASSUME Current(message[a]) PROVE FALSE
    OBVIOUS
  <2>2. message[a].attempt = rows[k].attempt
    BY <2>1 DEF Current, Owns
  <2>3. message[a] = message[b]
    BY <1>5, <2>2, MessageEquality
  <2> QED
    BY <1>4, <1>5, <2>3 DEF Fences
<1>6. ASSUME NEW b \in Actors, Holding(b)'
      PROVE  /\ message'[b].key \in Keys
             /\ message'[b].attempt > 0
             /\ message'[b].attempt <= rows'[message'[b].key].attempt
             /\ message'[b].attempt = rows'[message'[b].key].attempt =>
                    rows'[message'[b].key].status = "processing"
  <2>1. CASE message[b].key = k
    BY <1>2, <1>4, <1>5, <1>6, <2>1 DEF Fences
  <2>2. CASE message[b].key # k
    BY <1>2, <1>4, <1>6, <2>2 DEF Fences
  <2> QED
    BY <2>1, <2>2
<1>7. ASSUME NEW b \in Actors, Holding(b)',
             NEW c \in Actors, Holding(c)', message'[c] = message'[b]
      PROVE  c = b
  BY <1>4, <1>7 DEF Fences
<1> QED
  BY <1>3, <1>6, <1>7 DEF Fences

LEMMA FencesInit == Init => Fences
BY ActorsAssumption DEF Init, Fences, NoRow, Holding, Actors

\* What the store's settling operations do to the row.
LEMMA CompletedSettles ==
    ASSUME NEW r \in Row, NEW n \in Nat
    PROVE  /\ Completed(r, n).attempt = r.attempt
           /\ \/ Completed(r, n) = r
              \/ Owns(r, n) /\ Completed(r, n).status # "absent"
BY DEF Completed, Row

LEMMA RetriedSettles ==
    ASSUME NEW r \in Row, NEW n \in Nat
    PROVE  /\ Retried(r, n, FALSE, TRUE).attempt = r.attempt
           /\ \/ Retried(r, n, FALSE, TRUE) = r
              \/ Owns(r, n) /\ Retried(r, n, FALSE, TRUE).status # "absent"
BY DEF Retried, Row

LEMMA BackoffSettles ==
    ASSUME NEW r \in Row, NEW n \in Nat
    PROVE  /\ Backoff(r, n).attempt = r.attempt
           /\ \/ Backoff(r, n) = r
              \/ Owns(r, n) /\ Backoff(r, n).status # "absent"
BY DEF Backoff, Retried, Row

LEMMA FencesComplete ==
    ASSUME Typing, Fences, NEW a \in Actors, Holding(a),
           rows' = [rows EXCEPT ![message[a].key] = Completed(@, message[a].attempt)],
           ~Holding(a)',
           \A b \in Actors : b # a => pc'[b] = pc[b] /\ message'[b] = message[b]
    PROVE  Fences'
<1>1. /\ message[a].key \in Keys /\ message[a].attempt \in Nat
      /\ rows[message[a].key] \in Row
      /\ rows \in [Keys -> Row]
  BY DEF Typing, TypeOK, Message, Fences
<1> DEFINE r == Completed(rows[message[a].key], message[a].attempt)
<1>2. r.attempt = rows[message[a].key].attempt
  BY <1>1, CompletedSettles
<1>3. \/ r = rows[message[a].key]
      \/ /\ Owns(rows[message[a].key], message[a].attempt)
         /\ r.status # "absent"
  BY <1>1, CompletedSettles
<1>4. rows' = [rows EXCEPT ![message[a].key] = r]
  BY <1>1
<1>5. r = rows[message[a].key] \/ (Current(message[a]) /\ r.status # "absent")
  BY ONLY <1>3 DEF Current
<1> HIDE DEF r
<1> QED
  BY <1>2, <1>4, <1>5, FencesSettle

LEMMA FencesRetry ==
    ASSUME Typing, Fences, NEW a \in Actors, Holding(a),
           rows' = [rows EXCEPT ![message[a].key] = Retried(@, message[a].attempt, FALSE, TRUE)],
           ~Holding(a)',
           \A b \in Actors : b # a => pc'[b] = pc[b] /\ message'[b] = message[b]
    PROVE  Fences'
<1>1. /\ message[a].key \in Keys /\ message[a].attempt \in Nat
      /\ rows[message[a].key] \in Row
      /\ rows \in [Keys -> Row]
  BY DEF Typing, TypeOK, Message, Fences
<1> DEFINE r == Retried(rows[message[a].key], message[a].attempt, FALSE, TRUE)
<1>2. r.attempt = rows[message[a].key].attempt
  BY <1>1, RetriedSettles
<1>3. \/ r = rows[message[a].key]
      \/ /\ Owns(rows[message[a].key], message[a].attempt)
         /\ r.status # "absent"
  BY <1>1, RetriedSettles
<1>4. rows' = [rows EXCEPT ![message[a].key] = r]
  BY <1>1
<1>5. r = rows[message[a].key] \/ (Current(message[a]) /\ r.status # "absent")
  BY ONLY <1>3 DEF Current
<1> HIDE DEF r
<1> QED
  BY <1>2, <1>4, <1>5, FencesSettle

LEMMA FencesGiveBack ==
    ASSUME Typing, Fences, NEW a \in Actors, Holding(a),
           rows' = [rows EXCEPT ![message[a].key] = Backoff(@, message[a].attempt)],
           ~Holding(a)',
           \A b \in Actors : b # a => pc'[b] = pc[b] /\ message'[b] = message[b]
    PROVE  Fences'
<1>1. /\ message[a].key \in Keys /\ message[a].attempt \in Nat
      /\ rows[message[a].key] \in Row
      /\ rows \in [Keys -> Row]
  BY DEF Typing, TypeOK, Message, Fences
<1> DEFINE r == Backoff(rows[message[a].key], message[a].attempt)
<1>2. r.attempt = rows[message[a].key].attempt
  BY <1>1, BackoffSettles
<1>3. \/ r = rows[message[a].key]
      \/ /\ Owns(rows[message[a].key], message[a].attempt)
         /\ r.status # "absent"
  BY <1>1, BackoffSettles
<1>4. rows' = [rows EXCEPT ![message[a].key] = r]
  BY <1>1
<1>5. r = rows[message[a].key] \/ (Current(message[a]) /\ r.status # "absent")
  BY ONLY <1>3 DEF Current
<1> HIDE DEF r
<1> QED
  BY <1>2, <1>4, <1>5, FencesSettle

LEMMA FencesCommand ==
    ASSUME Typing, Fences, NEW c \in Cmds, Command(c)
    PROVE  Fences'
<1> USE DEF table, cmd, scan, life
<1>0. c \in Actors /\ pc \in [Actors -> CmdPc \union FlightPc]
      /\ message \in [Actors -> Message] /\ rows \in [Keys -> Row]
  BY DEF Actors, Typing, TypeOK
<1>1. CASE Commit(c)
  <2>1. \A k \in Keys : /\ rows'[k].attempt = rows[k].attempt
                         /\ \/ rows'[k].status = rows[k].status
                            \/ rows[k].status = "absent"
    BY <1>1 DEF Commit, Stageable, NewRow, NoRow, Fences
  <2>2. \A a \in Actors : Holding(a)' => Holding(a) /\ message'[a] = message[a]
    BY <1>0, <1>1 DEF Commit, Holding
  <2> QED
    BY <2>1, <2>2, FencesFrame
<1>2. CASE Rollback(c) \/ SkipEffect(c) \/ DirectSelect(c)
           \/ DirectClaimLost(c) \/ Return(c)
  <2>1. rows' = rows
    BY <1>2 DEF Rollback, SkipEffect, DirectSelect, DirectClaimLost, Return
  <2>2. \A a \in Actors : Holding(a)' => Holding(a) /\ message'[a] = message[a]
    BY <1>0, <1>2 DEF Rollback, SkipEffect, DirectSelect, DirectClaimLost,
                      Return, NextEffect, Holding, Delivering
  <2> QED
    BY <2>1, <2>2, FencesFrame
<1>3. CASE DirectClaim(c)
  BY <1>0, <1>3, FencesClaim DEF DirectClaim, Typing, Phases
<1>4. CASE DirectComplete(c)
  <2>1. Holding(c) /\ ~Holding(c)'
    BY <1>0, <1>4 DEF DirectComplete, NextEffect, Holding
  <2>2. \A b \in Actors : b # c => pc'[b] = pc[b] /\ message'[b] = message[b]
    BY <1>0, <1>4 DEF DirectComplete, NextEffect
  <2> QED
    BY <1>0, <1>4, <2>1, <2>2, FencesComplete DEF DirectComplete
<1>5. CASE DirectFail(c)
  <2>1. Holding(c) /\ ~Holding(c)'
    BY <1>0, <1>5 DEF DirectFail, NextEffect, Holding
  <2>2. \A b \in Actors : b # c => pc'[b] = pc[b] /\ message'[b] = message[b]
    BY <1>0, <1>5 DEF DirectFail, NextEffect
  <2> QED
    BY <1>0, <1>5, <2>1, <2>2, FencesRetry DEF DirectFail
<1> QED
  BY <1>1, <1>2, <1>3, <1>4, <1>5 DEF Command

LEMMA FencesScan ==
    ASSUME Typing, Fences, ScanBegin \/ Scan
    PROVE  Fences'
<1> USE DEF table, cmd, scan, life
<1>0. /\ pc \in [Actors -> CmdPc \union FlightPc]
      /\ message \in [Actors -> Message] /\ rows \in [Keys -> Row]
      /\ Flights \subseteq Actors
  BY DEF Actors, Typing, TypeOK
<1>1. CASE ScanBegin
  <2>1. \A k \in Keys : /\ rows'[k].attempt = rows[k].attempt
                         /\ rows'[k].status = rows[k].status
    BY <1>0, <1>1 DEF ScanBegin, Renewed, Row
  <2>2. \A a \in Actors : Holding(a)' => Holding(a) /\ message'[a] = message[a]
    BY <1>1 DEF ScanBegin, Holding
  <2> QED
    BY <2>1, <2>2, FencesFrame
<1>2. CASE ScanSelect \/ ScanEnd \/ ScanClaimLost
  BY <1>2, FencesFrame DEF ScanSelect, ScanEnd, ScanClaimLost, Holding
<1>3. ASSUME NEW f \in Flights, ScanClaim(f)
      PROVE  Fences'
  <2>1. candidate \in Message /\ candidate.key \in Keys
    BY <1>3 DEF ScanClaim, Typing, TypeOK, Phases
  <2> QED
    BY <1>0, <1>3, <2>1, FencesClaim DEF ScanClaim
<1>4. ASSUME NEW f \in Flights, ScanSubmit(f)
      PROVE  Fences'
  <2>1. \A a \in Actors : Holding(a)' => Holding(a) /\ message'[a] = message[a]
    BY <1>0, <1>4 DEF ScanSubmit, Holding
  <2> QED
    BY <1>4, <2>1, FencesFrame DEF ScanSubmit
<1>5. ASSUME NEW f \in Flights, ScanSubmitFails(f)
      PROVE  Fences'
  <2>1. Holding(f) /\ ~Holding(f)'
    BY <1>0, <1>5 DEF ScanSubmitFails, Release, Holding
  <2>2. \A b \in Actors : b # f => pc'[b] = pc[b] /\ message'[b] = message[b]
    BY <1>0, <1>5 DEF ScanSubmitFails, Release
  <2> QED
    BY <1>0, <1>5, <2>1, <2>2, FencesGiveBack DEF ScanSubmitFails, GiveBack
<1> QED
  BY <1>1, <1>2, <1>3, <1>4, <1>5 DEF Scan

LEMMA FencesRun ==
    ASSUME Typing, Fences, NEW f \in Flights, Run(f)
    PROVE  Fences'
<1> USE DEF table, cmd, scan, life, Goto
<1>0. /\ pc \in [Actors -> CmdPc \union FlightPc]
      /\ message \in [Actors -> Message] /\ rows \in [Keys -> Row]
      /\ f \in Actors
  BY DEF Actors, Typing, TypeOK
<1>1. CASE RunStart(f) \/ HandlerReturns(f) \/ FanoutLeaseLost(f)
           \/ RunSelect(f) \/ RunBreak(f) \/ RunClaimLost(f) \/ Finish(f)
  <2>1. rows' = rows
    BY <1>1 DEF RunStart, HandlerReturns, FanoutLeaseLost, RunSelect, RunBreak,
                RunClaimLost, Finish
  <2>2. \A a \in Actors : Holding(a)' => Holding(a) /\ message'[a] = message[a]
    BY <1>0, <1>1 DEF RunStart, HandlerReturns, FanoutLeaseLost, RunSelect,
                      RunBreak, RunClaimLost, Finish, Release, Holding
  <2> QED
    BY <2>1, <2>2, FencesFrame
<1>2. CASE Cancelled(f)
  <2>1. Holding(f) /\ ~Holding(f)'
    BY <1>0, <1>2 DEF Cancelled, Holding
  <2> QED
    BY <1>0, <1>2, <2>1, FencesGiveBack DEF Cancelled, GiveBack
<1>3. CASE HandlerRaises(f)
  <2>1. Holding(f) /\ ~Holding(f)'
    BY <1>0, <1>3 DEF HandlerRaises, Holding
  <2> QED
    BY <1>0, <1>3, <2>1, FencesGiveBack DEF HandlerRaises, GiveBack
<1>4. CASE RunComplete(f)
  <2>1. Holding(f) /\ ~Holding(f)'
    BY <1>0, <1>4 DEF RunComplete, Holding
  <2> QED
    BY <1>0, <1>4, <2>1, FencesComplete DEF RunComplete
<1>5. CASE EventFansOut(f)
  <2>1. PICK enabled \in SUBSET Children[message[f].key] :
            FanOut(message[f].key, enabled)
    BY <1>5 DEF EventFansOut
  <2>2. \A k \in Keys : /\ rows'[k].attempt = rows[k].attempt
                         /\ \/ rows'[k].status = rows[k].status
                            \/ rows[k].status = "absent"
    <3>1. CASE rows' = rows
      BY <3>1
    <3>2. CASE /\ AddChildren(message[f].key, enabled)
               /\ \A h \in enabled : rows[h].status = "absent"
      <4>1. ASSUME NEW k \in Keys, k \in enabled
            PROVE  rows'[k] = NewRow /\ rows[k].status = "absent"
        BY <3>2, <4>1 DEF AddChildren
      <4>2. ASSUME NEW k \in Keys, k \notin enabled
            PROVE  \/ rows'[k] = rows[k]
                   \/ rows'[k] = [rows[k] EXCEPT !.fanned = TRUE]
        BY <3>2, <4>2 DEF AddChildren
      <4>3. NewRow.attempt = 0
        BY DEF NewRow, NoRow
      <4>4. ASSUME NEW k \in Keys
            PROVE  /\ [rows[k] EXCEPT !.fanned = TRUE].attempt = rows[k].attempt
                   /\ [rows[k] EXCEPT !.fanned = TRUE].status = rows[k].status
        BY <1>0 DEF Row
      <4>5. ASSUME NEW k \in Keys, k \in enabled
            PROVE  /\ rows'[k].attempt = rows[k].attempt
                   /\ rows[k].status = "absent"
        BY <4>1, <4>3, <4>5 DEF Fences
      <4> QED
        BY <4>2, <4>4, <4>5
    <3> QED
      BY <2>1, <3>1, <3>2 DEF FanOut
  <2>3. \A a \in Actors : Holding(a)' => Holding(a) /\ message'[a] = message[a]
    BY <1>0, <1>5 DEF EventFansOut, Holding
  <2> QED
    BY <2>2, <2>3, FencesFrame
<1>6. CASE RunClaim(f)
  <2>1. message[f] \in Message /\ message[f].key \in Keys
    BY <1>0, <1>6 DEF RunClaim, Typing, Phases
  <2> QED
    BY <1>0, <1>6, <2>1, FencesClaim DEF RunClaim
<1> QED
  BY <1>1, <1>2, <1>3, <1>4, <1>5, <1>6 DEF Run

LEMMA FencesRest ==
    ASSUME Typing, Fences,
           \/ Stop \/ StopReturns \/ Configure \/ Crash
           \/ \E k \in Keys : LeaseExpires(k) \/ RetryDue(k)
    PROVE  Fences'
<1> USE DEF table, cmd, scan, life
<1>0. /\ pc \in [Actors -> CmdPc \union FlightPc]
      /\ rows \in [Keys -> Row]
  BY DEF Typing, TypeOK
<1>1. CASE Stop \/ StopReturns \/ Configure
  BY <1>1, FencesFrame DEF Stop, StopReturns, Configure, Holding
<1>2. CASE Crash
  <2>1. \A a \in Actors : ~Holding(a)'
    BY <1>2 DEF Crash, Holding
  <2> QED
    BY <1>2, <2>1, FencesFrame DEF Crash
<1>3. ASSUME NEW k \in Keys, LeaseExpires(k) \/ RetryDue(k)
      PROVE  Fences'
  <2>1. \A j \in Keys : /\ rows'[j].attempt = rows[j].attempt
                         /\ rows'[j].status = rows[j].status
    BY <1>0, <1>3 DEF LeaseExpires, RetryDue, Row
  <2>2. \A a \in Actors : Holding(a)' => Holding(a) /\ message'[a] = message[a]
    BY <1>3 DEF LeaseExpires, RetryDue, Holding
  <2> QED
    BY <2>1, <2>2, FencesFrame
<1> QED
  BY <1>1, <1>2, <1>3

LEMMA FencesStep == Typing /\ Fences /\ [Next]_vars => Fences'
<1> SUFFICES ASSUME Typing, Fences, [Next]_vars PROVE Fences'
  OBVIOUS
<1>1. CASE Next
  BY <1>1, FencesCommand, FencesScan, FencesRun, FencesRest DEF Next
<1>2. CASE UNCHANGED vars
  BY <1>2 DEF vars, table, Fences, Holding
<1> QED
  BY <1>1, <1>2

LEMMA FencesInvariant == Spec => []Fences
<1>1. QED
  BY FencesInit, FencesStep, TypingInvariant, PTL DEF Spec

\* However many owners a message has had, no two executions of it carry the
\* same attempt number: _claim_update compares the attempt it read before it
\* hands out the next one.
THEOREM OutboxAttemptsAreFences == Spec => []AttemptsAreFences
<1>1. Fences => AttemptsAreFences
  BY DEF Fences, AttemptsAreFences
<1>2. QED
  BY <1>1, FencesInvariant, PTL

\* An overtaken owner never settles the message its successor is delivering:
\* complete(), retry() and stage_fanout() compare the attempt.
THEOREM OutboxLatestOwnerUndisturbed == Spec => []LatestOwnerUndisturbed
<1>1. Fences => LatestOwnerUndisturbed
  BY DEF Fences, LatestOwnerUndisturbed
<1>2. QED
  BY <1>1, FencesInvariant, PTL
-----------------------------------------------------------------------------
(***************************************************************************)
(* How OutboxRecovery keeps its flights apart: the dictionary _active and  *)
(* the flights that run describe each other, the scan accepts a topic only *)
(* while there is room for it, and stop() returns True only when nothing   *)
(* is left that could start again.                                         *)
(***************************************************************************)

Topic(f) == TopicOf[message[f].key]

\* Every entry of _active is a flight in progress on that topic, and every
\* flight in progress is the entry of its topic.
Registered ==
    /\ \A t \in Topics : active[t] # None =>
           pc[active[t]] # "free" /\ Topic(active[t]) = t
    /\ \A f \in Flying : active[Topic(f)] = f

\* The scan that has read a candidate found its topic idle, and room for it.
Room ==
    /\ IsFiniteSet(Busy)
    /\ Cardinality(Busy) <= MaxInflight
    /\ scanPc = "claim" => /\ TopicOf[candidate.key] \notin Busy
                           /\ Cardinality(Busy) < MaxInflight

\* Who is between a SELECT and its UPDATE, or inside dispatch(), has the lock.
Locked ==
    /\ lock = "scan" <=> scanPc # "idle"
    /\ \A f \in Flights : pc[f] = "claim" => lock = f

\* A drained recovery cannot start a flight before it is configured again.
Quiet == drained => stopping /\ Busy = {} /\ scanPc = "idle"

Orderly == Registered /\ Room /\ Locked /\ Quiet

LEMMA FlightTopics ==
    ASSUME Typing, NEW f \in Flying
    PROVE  Topic(f) \in Topics
BY OutboxAssumption DEF Typing, Phases, Flying, Topic

LEMMA OrderlyInit == Init => Orderly
<1> SUFFICES ASSUME Init PROVE Orderly
  OBVIOUS
<1>1. Busy = {} /\ Flying = {}
  BY ActorsAssumption DEF Init, Busy, Flying, Actors
<1>2. IsFiniteSet(Busy) /\ Cardinality(Busy) = 0
  BY <1>1, FS_EmptySet
<1>3. Registered
  BY <1>1 DEF Init, Registered
<1>4. Room
  BY <1>2, OutboxAssumption DEF Init, Room
<1>5. \A f \in Flights : pc[f] = "free"
  BY <1>1 DEF Flying
<1>6. lock # "scan"
  BY OutboxAssumption DEF Init
<1>7. Locked /\ Quiet
  BY <1>5, <1>6 DEF Init, Locked, Quiet
<1> QED
  BY <1>3, <1>4, <1>7 DEF Orderly
-----------------------------------------------------------------------------
(* How the dictionary and the flights move together                        *)

\* A step of a flight on its way changes neither its topic nor the entry.
LEMMA FlightsGoOn ==
    ASSUME Registered, active' = active,
           \A f \in Flights : pc'[f] = "free" <=> pc[f] = "free",
           \A f \in Flying : TopicOf[message'[f].key] = TopicOf[message[f].key],
           active \in [Topics -> Flights \union {None}]
    PROVE  Registered' /\ Busy' = Busy
<1>1. Busy' = Busy
  BY DEF Busy
<1>2. Flying' = Flying
  BY DEF Flying
<1>3. ASSUME NEW t \in Topics, active'[t] # None
      PROVE  pc'[active'[t]] # "free" /\ TopicOf[message'[active'[t]].key] = t
  <2>1. /\ active[t] \in Flights
        /\ pc[active[t]] # "free"
        /\ TopicOf[message[active[t]].key] = t
    BY <1>3 DEF Registered, Topic
  <2> QED
    BY <2>1 DEF Flying
<1>4. ASSUME NEW f \in Flying
      PROVE  active'[TopicOf[message'[f].key]] = f
  BY DEF Registered, Topic
<1> QED
  BY <1>1, <1>2, <1>3, <1>4 DEF Registered, Topic

LEMMA FlightEnds ==
    ASSUME Typing, Registered, NEW f \in Flying, Release(f)
    PROVE  Registered' /\ Busy' = Busy \ {Topic(f)}
<1>1. /\ pc \in [Actors -> CmdPc \union FlightPc]
      /\ message \in [Actors -> Message]
      /\ active \in [Topics -> Flights \union {None}]
      /\ f \in Flights /\ Flights \subseteq Actors
  BY DEF Typing, TypeOK, Flying, Actors
<1>2. /\ active' = [active EXCEPT ![Topic(f)] = None]
      /\ pc' = [pc EXCEPT ![f] = "free"]
      /\ message' = [message EXCEPT ![f] = NoMsg]
  BY DEF Release, Topic
<1>3. Topic(f) \in Topics /\ active[Topic(f)] = f
  BY FlightTopics DEF Registered
<1>4. Busy' = Busy \ {Topic(f)}
  BY <1>1, <1>2, <1>3 DEF Busy
<1>5. ASSUME NEW t \in Topics, active'[t] # None
      PROVE  pc'[active'[t]] # "free" /\ TopicOf[message'[active'[t]].key] = t
  <2>1. t # Topic(f) /\ active'[t] = active[t]
    BY <1>1, <1>2, <1>3, <1>5
  <2>2. /\ active[t] \in Flights
        /\ pc[active[t]] # "free"
        /\ TopicOf[message[active[t]].key] = t
    BY <1>1, <1>5, <2>1 DEF Registered, Topic
  <2>3. active[t] # f
    BY <2>1, <2>2 DEF Topic
  <2> QED
    BY <1>1, <1>2, <2>1, <2>2, <2>3
<1>6. ASSUME NEW g \in Flights, pc'[g] # "free"
      PROVE  active'[TopicOf[message'[g].key]] = g
  <2>1. g # f /\ pc'[g] = pc[g] /\ message'[g] = message[g]
    BY <1>1, <1>2, <1>6
  <2>2. g \in Flying /\ active[Topic(g)] = g /\ Topic(g) \in Topics
    BY <1>6, <2>1, FlightTopics DEF Flying, Registered
  <2>3. Topic(g) # Topic(f)
    BY <1>3, <2>1, <2>2
  <2> QED
    BY <1>1, <1>2, <2>1, <2>2, <2>3 DEF Topic
<1> QED
  BY <1>4, <1>5, <1>6 DEF Registered, Topic, Flying

LEMMA FlightStarts ==
    ASSUME Typing, Registered, Room, NEW f \in Flights, ScanClaim(f)
    PROVE  Registered' /\ Busy' = Busy \union {TopicOf[candidate.key]}
<1> DEFINE u == TopicOf[candidate.key]
<1>1. /\ pc \in [Actors -> CmdPc \union FlightPc]
      /\ message \in [Actors -> Message]
      /\ active \in [Topics -> Flights \union {None}]
      /\ Flights \subseteq Actors
      /\ None \notin Flights
  BY OutboxAssumption DEF Typing, TypeOK, Actors
<1>2. u \in Topics /\ u \notin Busy
  BY OutboxAssumption DEF ScanClaim, Typing, Phases, Room
<1>3. /\ active' = [active EXCEPT ![u] = f]
      /\ pc' = [pc EXCEPT ![f] = "new"]
      /\ message' = [message EXCEPT ![f] =
                        Msg(candidate.key, candidate.attempt + 1)]
      /\ pc[f] = "free"
  BY DEF ScanClaim
<1>4. TopicOf[message'[f].key] = u
  BY <1>1, <1>3 DEF Msg
<1>5. Busy' = Busy \union {u}
  BY <1>1, <1>2, <1>3 DEF Busy
<1>6. ASSUME NEW t \in Topics, active'[t] # None
      PROVE  pc'[active'[t]] # "free" /\ TopicOf[message'[active'[t]].key] = t
  <2>1. CASE t = u
    BY <1>1, <1>2, <1>3, <1>4, <2>1
  <2>2. CASE t # u
    <3>1. active'[t] = active[t]
      BY <1>1, <1>3, <2>2
    <3>2. /\ active[t] \in Flights
          /\ pc[active[t]] # "free"
          /\ TopicOf[message[active[t]].key] = t
      BY <1>1, <1>6, <3>1 DEF Registered, Topic
    <3>3. active[t] # f
      BY <1>3, <3>2
    <3> QED
      BY <1>1, <1>3, <3>1, <3>2, <3>3
  <2> QED
    BY <2>1, <2>2
<1>7. ASSUME NEW g \in Flights, pc'[g] # "free"
      PROVE  active'[TopicOf[message'[g].key]] = g
  <2>1. CASE g = f
    BY <1>1, <1>2, <1>3, <1>4, <2>1
  <2>2. CASE g # f
    <3>1. pc'[g] = pc[g] /\ message'[g] = message[g]
      BY <1>1, <1>3, <2>2
    <3>2. g \in Flying /\ active[Topic(g)] = g /\ Topic(g) \in Topics
      BY <1>7, <3>1, FlightTopics DEF Flying, Registered
    <3>3. Topic(g) # u
      BY <1>1, <1>2, <3>2 DEF Busy
    <3> QED
      BY <1>1, <1>3, <3>1, <3>2, <3>3 DEF Topic
  <2> QED
    BY <2>1, <2>2
<1> QED
  BY <1>5, <1>6, <1>7 DEF Registered, Topic, Flying
-----------------------------------------------------------------------------
(* The steps                                                               *)

\* Steps that leave the recovery alone, or only take a flight further.
LEMMA RecoveryGoesOn ==
    ASSUME Typing, Orderly,
           UNCHANGED <<active, scanPc, candidate, lock, stopping, drained>>,
           \A f \in Flights : /\ pc'[f] = "free" <=> pc[f] = "free"
                              /\ pc'[f] = "claim" => pc[f] = "claim"
                              /\ message'[f] = message[f]
    PROVE  Orderly'
<1>1. Registered' /\ Busy' = Busy
  BY FlightsGoOn DEF Orderly, Typing, TypeOK, Flying
<1>2. Room'
  BY <1>1 DEF Orderly, Room
<1>3. Locked'
  BY DEF Orderly, Locked
<1>4. Quiet'
  BY <1>1 DEF Orderly, Quiet
<1> QED
  BY <1>1, <1>2, <1>3, <1>4 DEF Orderly

LEMMA OrderlyCommand ==
    ASSUME Typing, Orderly, NEW c \in Cmds, Command(c)
    PROVE  Orderly'
<1>1. /\ pc \in [Actors -> CmdPc \union FlightPc]
      /\ message \in [Actors -> Message]
      /\ \A f \in Flights : f \in Actors /\ f # c
  BY ActorsAssumption DEF Typing, TypeOK, Actors
<1>2. /\ UNCHANGED <<active, scanPc, candidate, lock, stopping, drained>>
      /\ \A f \in Flights : pc'[f] = pc[f] /\ message'[f] = message[f]
  BY <1>1 DEF Command, Commit, Rollback, SkipEffect, DirectSelect, DirectClaim,
              DirectClaimLost, DirectComplete, DirectFail, Return, NextEffect,
              cmd, scan, life
<1> QED
  BY <1>2, RecoveryGoesOn

LEMMA OrderlyTime ==
    ASSUME Typing, Orderly, NEW k \in Keys, LeaseExpires(k) \/ RetryDue(k)
    PROVE  Orderly'
BY RecoveryGoesOn DEF LeaseExpires, RetryDue, scan, life

LEMMA OrderlyScan ==
    ASSUME Typing, Orderly, ScanBegin \/ Scan
    PROVE  Orderly'
<1> USE DEF scan, life, table, cmd
<1>1. /\ pc \in [Actors -> CmdPc \union FlightPc]
      /\ message \in [Actors -> Message]
      /\ active \in [Topics -> Flights \union {None}]
      /\ Flights \subseteq Actors
      /\ None # "scan" /\ "scan" \notin Flights
  BY OutboxAssumption DEF Typing, TypeOK, Actors
<1>2. CASE ScanBegin
  <2>1. Registered' /\ Busy' = Busy
    BY <1>1, <1>2, FlightsGoOn DEF ScanBegin, Orderly
  <2>2. Room'
    BY <1>2, <2>1 DEF ScanBegin, Orderly, Room
  <2>3. Locked'
    BY <1>1, <1>2, OutboxAssumption DEF ScanBegin, Orderly, Locked
  <2>4. Quiet'
    BY <1>2 DEF ScanBegin, Orderly, Quiet
  <2> QED
    BY <2>1, <2>2, <2>3, <2>4 DEF Orderly
<1>3. CASE ScanSelect
  <2>1. Registered' /\ Busy' = Busy
    BY <1>1, <1>3, FlightsGoOn DEF ScanSelect, Orderly
  <2>2. PICK k \in Keys : /\ IsCandidate(k, Topics \ Busy)
                          /\ candidate' = Msg(k, rows[k].attempt)
    BY <1>3 DEF ScanSelect
  <2>3. candidate'.key = k /\ TopicOf[k] \notin Busy
    BY <2>2 DEF IsCandidate, Eligible, Msg
  <2>4. Room'
    BY <1>3, <2>1, <2>3 DEF ScanSelect, ScanOpen, Orderly, Room
  <2>5. Locked' /\ Quiet'
    BY <1>3, <2>1 DEF ScanSelect, ScanOpen, Orderly, Locked, Quiet
  <2> QED
    BY <2>1, <2>4, <2>5 DEF Orderly
<1>4. CASE ScanEnd \/ ScanClaimLost
  <2>1. Registered' /\ Busy' = Busy
    BY <1>1, <1>4, FlightsGoOn DEF ScanEnd, ScanClaimLost, Orderly
  <2>2. Room'
    BY <1>4, <2>1 DEF ScanEnd, ScanClaimLost, LeaveScan, Orderly, Room
  <2>3. Locked'
    BY <1>1, <1>4 DEF ScanEnd, ScanClaimLost, LeaveScan, Orderly, Locked
  <2>4. Quiet'
    BY <1>4, <2>1 DEF ScanEnd, ScanClaimLost, LeaveScan, Orderly, Quiet
  <2> QED
    BY <2>1, <2>2, <2>3, <2>4 DEF Orderly
<1>5. ASSUME NEW f \in Flights, ScanClaim(f)
      PROVE  Orderly'
  <2>1. Registered' /\ Busy' = Busy \union {TopicOf[candidate.key]}
    BY <1>5, FlightStarts DEF Orderly
  <2>2. /\ scanPc = "claim" /\ scanPc' = "submit"
        /\ UNCHANGED <<lock, stopping, drained>>
        /\ \A g \in Flights : pc'[g] = "claim" => pc[g] = "claim"
    BY <1>1, <1>5 DEF ScanClaim
  <2>3. /\ IsFiniteSet(Busy) /\ Cardinality(Busy) < MaxInflight
        /\ TopicOf[candidate.key] \notin Busy
    BY <2>2 DEF Orderly, Room
  <2>4. /\ IsFiniteSet(Busy')
        /\ Cardinality(Busy') = Cardinality(Busy) + 1
    BY <2>1, <2>3, FS_AddElement
  <2>5. Cardinality(Busy) \in Nat
    BY <2>3, FS_CardinalityType
  <2>6. Room'
    BY <2>2, <2>3, <2>4, <2>5, OutboxAssumption DEF Room
  <2>7. Locked' /\ Quiet'
    BY <2>2 DEF Orderly, Locked, Quiet
  <2> QED
    BY <2>1, <2>6, <2>7 DEF Orderly
<1>6. ASSUME NEW f \in Flights, ScanSubmit(f)
      PROVE  Orderly'
  <2>1. Registered' /\ Busy' = Busy
    BY <1>1, <1>6, FlightsGoOn DEF ScanSubmit, Orderly
  <2>2. Room'
    BY <1>6, <2>1 DEF ScanSubmit, Orderly, Room
  <2>3. Locked'
    BY <1>1, <1>6 DEF ScanSubmit, Orderly, Locked
  <2>4. Quiet'
    BY <1>6, <2>1 DEF ScanSubmit, Orderly, Quiet
  <2> QED
    BY <2>1, <2>2, <2>3, <2>4 DEF Orderly
<1>7. ASSUME NEW f \in Flights, ScanSubmitFails(f)
      PROVE  Orderly'
  <2>1. f \in Flying /\ Release(f)
    BY <1>7 DEF ScanSubmitFails, Flying
  <2>2. Registered' /\ Busy' = Busy \ {Topic(f)}
    BY <2>1, FlightEnds DEF Orderly
  <2>3. /\ scanPc = "submit" /\ scanPc' = "idle" /\ lock' = None
        /\ UNCHANGED <<stopping, drained>>
        /\ \A g \in Flights : pc'[g] = "claim" => pc[g] = "claim"
    BY <1>1, <1>7 DEF ScanSubmitFails, LeaveScan, Release
  <2>4. IsFiniteSet(Busy') /\ Cardinality(Busy') <= Cardinality(Busy)
    BY <2>2, FS_Subset DEF Orderly, Room
  <2>5. Cardinality(Busy) \in Nat /\ Cardinality(Busy') \in Nat
    BY <2>4, FS_CardinalityType DEF Orderly, Room
  <2>6. Room'
    BY <2>3, <2>4, <2>5, OutboxAssumption DEF Orderly, Room
  <2>7. Locked'
    BY <1>1, <2>3 DEF Orderly, Locked
  <2>8. Quiet'
    BY <2>2, <2>3 DEF Orderly, Quiet
  <2> QED
    BY <2>2, <2>6, <2>7, <2>8 DEF Orderly
<1> QED
  BY <1>2, <1>3, <1>4, <1>5, <1>6, <1>7 DEF Scan

LEMMA OrderlyRun ==
    ASSUME Typing, Orderly, NEW f \in Flights, Run(f)
    PROVE  Orderly'
<1> USE DEF scan, life, table, cmd, Goto
<1>1. /\ pc \in [Actors -> CmdPc \union FlightPc]
      /\ message \in [Actors -> Message]
      /\ active \in [Topics -> Flights \union {None}]
      /\ Flights \subseteq Actors
      /\ None \notin Flights /\ None # "scan" /\ "scan" \notin Flights
  BY OutboxAssumption DEF Typing, TypeOK, Actors
<1>2. CASE RunStart(f) \/ Cancelled(f) \/ HandlerReturns(f) \/ EventFansOut(f)
           \/ FanoutLeaseLost(f) \/ HandlerRaises(f) \/ RunComplete(f)
           \/ RunBreak(f)
  <2>1. UNCHANGED <<active, scanPc, candidate, lock, stopping, drained, message>>
    BY <1>2 DEF RunStart, Cancelled, HandlerReturns, EventFansOut,
                FanoutLeaseLost, HandlerRaises, RunComplete, RunBreak
  <2>2. /\ pc[f] \notin {"free", "claim"}
        /\ \E p \in {"effect", "settle", "next", "finish"} :
               pc' = [pc EXCEPT ![f] = p]
    BY <1>2 DEF RunStart, Cancelled, HandlerReturns, EventFansOut,
                FanoutLeaseLost, HandlerRaises, RunComplete, RunBreak
  <2>3. \A g \in Flights : /\ pc'[g] = "free" <=> pc[g] = "free"
                           /\ pc'[g] = "claim" => pc[g] = "claim"
    BY <1>1, <2>2
  <2> QED
    BY <2>1, <2>3, RecoveryGoesOn
<1>3. CASE RunSelect(f)
  <2>1. PICK k \in Keys :
            /\ IsCandidate(k, OwnTopic(f))
            /\ message' = [message EXCEPT ![f] = Msg(k, rows[k].attempt)]
    BY <1>3 DEF RunSelect
  <2>2. TopicOf[k] = Topic(f)
    BY <2>1 DEF IsCandidate, Eligible, OwnTopic, Topic
  <2>3. \A g \in Flights : TopicOf[message'[g].key] = TopicOf[message[g].key]
    BY <1>1, <2>1, <2>2 DEF Topic, Msg
  <2>4. \A g \in Flights : pc'[g] = "free" <=> pc[g] = "free"
    BY <1>1, <1>3 DEF RunSelect
  <2>5. UNCHANGED <<active, scanPc, candidate, stopping, drained>>
    BY <1>3 DEF RunSelect
  <2>6. Registered' /\ Busy' = Busy
    BY <1>1, <2>3, <2>4, <2>5, FlightsGoOn DEF Orderly, Flying
  <2>7. Room' /\ Quiet'
    BY <2>5, <2>6 DEF Orderly, Room, Quiet
  <2>8. \A g \in Flights : pc[g] # "claim"
    BY <1>1, <1>3 DEF RunSelect, Orderly, Locked
  <2>9. Locked'
    BY <1>1, <1>3, <2>8 DEF RunSelect, Orderly, Locked
  <2> QED
    BY <2>6, <2>7, <2>9 DEF Orderly
<1>4. CASE RunClaim(f) \/ RunClaimLost(f)
  <2>1. /\ UNCHANGED <<active, scanPc, candidate, stopping, drained>>
        /\ lock' = None
        /\ pc[f] = "claim"
        /\ \E p \in {"effect", "finish"} : pc' = [pc EXCEPT ![f] = p]
    BY <1>4 DEF RunClaim, RunClaimLost
  <2>2. \A g \in Flights : message'[g].key = message[g].key
    BY <1>1, <1>4 DEF RunClaim, RunClaimLost, Msg
  <2>3. \A g \in Flights : pc'[g] = "free" <=> pc[g] = "free"
    BY <1>1, <2>1
  <2>4. Registered' /\ Busy' = Busy
    BY <1>1, <2>1, <2>2, <2>3, FlightsGoOn DEF Orderly, Flying
  <2>5. Room' /\ Quiet'
    BY <2>1, <2>4 DEF Orderly, Room, Quiet
  <2>6. lock = f /\ scanPc = "idle"
    BY <1>1, <2>1 DEF Orderly, Locked
  <2>7. \A g \in Flights : pc'[g] # "claim"
    BY <1>1, <2>1, <2>6 DEF Orderly, Locked
  <2>8. Locked'
    BY <1>1, <2>1, <2>6, <2>7 DEF Locked
  <2> QED
    BY <2>4, <2>5, <2>8 DEF Orderly
<1>5. CASE Finish(f)
  <2>1. f \in Flying /\ Release(f)
    BY <1>5 DEF Finish, Flying
  <2>2. Registered' /\ Busy' = Busy \ {Topic(f)}
    BY <2>1, FlightEnds DEF Orderly
  <2>3. /\ UNCHANGED <<scanPc, candidate, lock, stopping, drained>>
        /\ \A g \in Flights : pc'[g] = "claim" => pc[g] = "claim"
    BY <1>1, <1>5 DEF Finish, Release
  <2>4. IsFiniteSet(Busy') /\ Cardinality(Busy') <= Cardinality(Busy)
    BY <2>2, FS_Subset DEF Orderly, Room
  <2>5. Cardinality(Busy) \in Nat /\ Cardinality(Busy') \in Nat
    BY <2>4, FS_CardinalityType DEF Orderly, Room
  <2>6. Room'
    BY <2>2, <2>3, <2>4, <2>5, OutboxAssumption DEF Orderly, Room
  <2>7. Locked' /\ Quiet'
    BY <2>2, <2>3 DEF Orderly, Locked, Quiet
  <2> QED
    BY <2>2, <2>6, <2>7 DEF Orderly
<1> QED
  BY <1>2, <1>3, <1>4, <1>5 DEF Run

LEMMA OrderlyLife ==
    ASSUME Typing, Orderly, Stop \/ StopReturns \/ Configure \/ Crash
    PROVE  Orderly'
<1> USE DEF scan, life, table, cmd
<1>1. CASE Stop \/ StopReturns \/ Configure
  <2>1. UNCHANGED <<active, scanPc, candidate, lock, pc, message>>
    BY <1>1 DEF Stop, StopReturns, Configure
  <2>2. Registered' /\ Busy' = Busy
    BY <2>1, FlightsGoOn DEF Orderly, Typing, TypeOK
  <2>3. Room' /\ Locked'
    BY <2>1, <2>2 DEF Orderly, Room, Locked
  <2>4. Quiet'
    <3>1. CASE Stop
      BY <2>1, <2>2, <3>1 DEF Stop, Orderly, Quiet
    <3>2. CASE StopReturns
      <4>1. scanPc = "idle"
        BY <3>2, OutboxAssumption DEF StopReturns, Orderly, Locked
      <4> QED
        BY <2>1, <2>2, <3>2, <4>1 DEF StopReturns, Quiet
    <3>3. CASE Configure
      BY <3>3 DEF Configure, Quiet
    <3> QED
      BY <1>1, <3>1, <3>2, <3>3
  <2> QED
    BY <2>2, <2>3, <2>4 DEF Orderly
<1>2. CASE Crash
  <2>1. /\ \A f \in Flights : pc'[f] = "free"
        /\ \A t \in Topics : active'[t] = None
        /\ scanPc' = "idle" /\ lock' = None /\ drained' = FALSE
    BY <1>2 DEF Crash, LeaveScan, Actors
  <2>2. Busy' = {} /\ Flying' = {}
    BY <2>1 DEF Busy, Flying
  <2>3. IsFiniteSet(Busy') /\ Cardinality(Busy') = 0
    BY <2>2, FS_EmptySet
  <2>4. Registered'
    BY <2>1, <2>2 DEF Registered
  <2>5. Room'
    BY <2>1, <2>3, OutboxAssumption DEF Room
  <2>6. Locked' /\ Quiet'
    BY <2>1, OutboxAssumption DEF Locked, Quiet
  <2> QED
    BY <2>4, <2>5, <2>6 DEF Orderly
<1> QED
  BY <1>1, <1>2

LEMMA OrderlyStep == Typing /\ Orderly /\ [Next]_vars => Orderly'
<1> SUFFICES ASSUME Typing, Orderly, [Next]_vars PROVE Orderly'
  OBVIOUS
<1>1. CASE Next
  BY <1>1, OrderlyCommand, OrderlyScan, OrderlyRun, OrderlyLife, OrderlyTime
     DEF Next
<1>2. CASE UNCHANGED vars
  BY <1>2, RecoveryGoesOn DEF vars, scan, life
<1> QED
  BY <1>1, <1>2

LEMMA OrderlyInvariant == Spec => []Orderly
<1>1. QED
  BY OrderlyInit, OrderlyStep, TypingInvariant, PTL DEF Spec
-----------------------------------------------------------------------------
(* What follows                                                            *)

\* The flights in progress are as many as the topics they occupy.
LEMMA FlightsFitTopics ==
    ASSUME Typing, Orderly
    PROVE  Cardinality(Flying) <= MaxInflight
<1> DEFINE h == [f \in Flying |-> Topic(f)]
<1>1. ASSUME NEW f \in Flying
      PROVE  Topic(f) \in Busy
  <2>1. Topic(f) \in Topics /\ active[Topic(f)] = f
    BY FlightTopics DEF Orderly, Registered
  <2>2. f # None
    BY OutboxAssumption DEF Flying
  <2> QED
    BY <2>1, <2>2 DEF Busy
<1>2. ASSUME NEW f \in Flying, NEW g \in Flying, Topic(f) = Topic(g)
      PROVE  f = g
  BY <1>2 DEF Orderly, Registered
<1>3. h \in [Flying -> Busy]
  BY <1>1
<1>4. \A f, g \in Flying : h[f] = h[g] => f = g
  BY <1>2
<1> HIDE DEF h
<1>5. h \in Injection(Flying, Busy)
  BY <1>3, <1>4 DEF Injection, IsInjective
<1>6. /\ IsFiniteSet(Flying)
      /\ Cardinality(Flying) <= Cardinality(Busy)
  BY <1>5, FS_Injection DEF Orderly, Room
<1>7. Cardinality(Flying) \in Nat /\ Cardinality(Busy) \in Nat
  BY <1>6, FS_CardinalityType DEF Orderly, Room
<1> QED
  BY <1>6, <1>7, OutboxAssumption DEF Orderly, Room

\* No two flights of recovery ever work on one topic, whatever has become of
\* their leases, and there are never more than max_inflight of them.
THEOREM OutboxRecoveryIsSerialPerTopic == Spec => []RecoveryIsSerialPerTopic
<1>1. ASSUME Typing, Orderly
      PROVE  RecoveryIsSerialPerTopic
  <2>1. ASSUME NEW f \in Flying, NEW g \in Flying, OwnTopic(f) = OwnTopic(g)
        PROVE  f = g
    BY <1>1, <2>1 DEF Orderly, Registered, Topic, OwnTopic
  <2> QED
    BY <1>1, <2>1, FlightsFitTopics DEF RecoveryIsSerialPerTopic
<1>2. QED
  BY <1>1, TypingInvariant, OrderlyInvariant, PTL

\* Once stop() has returned True no flight is in progress and none can start
\* until configure_outbox_dispatcher installs a new owner.
THEOREM OutboxDrainedIsQuiet == Spec => []DrainedIsQuiet
<1>1. ASSUME Typing, Orderly, drained
      PROVE  Flying = {} /\ scanPc = "idle"
  <2>1. Busy = {} /\ scanPc = "idle"
    BY <1>1 DEF Orderly, Quiet
  <2>2. ASSUME NEW f \in Flying
        PROVE  FALSE
    <3>1. Topic(f) \in Topics /\ active[Topic(f)] = f
      BY <1>1, FlightTopics DEF Orderly, Registered
    <3> QED
      BY <2>1, <3>1, OutboxAssumption DEF Busy, Flying
  <2> QED
    BY <2>1, <2>2
<1>2. Typing /\ Orderly => DrainedIsQuiet
  BY <1>1 DEF DrainedIsQuiet
<1>3. QED
  BY <1>2, TypingInvariant, OrderlyInvariant, PTL
-----------------------------------------------------------------------------
(***************************************************************************)
(* What the outbox does to a message over its whole life: every step of    *)
(* the specification changes the table in one of three ways (TableStep),   *)
(* whence a settled row is final, a command reports only effects it has    *)
(* settled, and the table implements OutboxDelivery.                       *)
(***************************************************************************)

(* The three ways in which a step changes the table                        *)

\* Nothing of the row changes that its owner or its verdict depends on.
Kept(r, s) == /\ s.attempt = r.attempt
              /\ Verdict(s) = Verdict(r)
              /\ Terminal(r) => s = r

\* New rows are the intents of a command, or the deliveries of an event that
\* has not been expanded yet.
Source(S) == \/ S = {}
             \/ \E c \in Cmds : S = Intents(c)
             \/ \E k \in Keys : ~rows[k].fanned /\ S \subseteq Children[k]

Staged(S) == /\ Source(S)
             /\ \A k \in S : rows[k].status = "absent" /\ rows'[k] = NewRow
             /\ \A k \in Keys \ S : Kept(rows[k], rows'[k])

Others(k) == \A j \in Keys \ {k} : rows'[j] = rows[j]

Attempted(k) == /\ rows[k].status \in {"pending", "processing"}
                /\ rows'[k].status = "processing"
                /\ rows'[k].attempt = rows[k].attempt + 1
                /\ Others(k)

Settled(k) == /\ rows[k].status = "processing"
              /\ rows[k].attempt > 0
              /\ rows'[k].attempt = rows[k].attempt
              /\ rows'[k].lease = "none"
              /\ \/ rows'[k].status = "completed"
                 \/ rows'[k].status = "dead" /\ rows[k].attempt >= MaxAttempts
              /\ Others(k)

TableStep == \/ \E S \in SUBSET Keys : Staged(S)
             \/ \E k \in Keys : Attempted(k) \/ Settled(k)

\* A row is only settled together with its lease.
Leases == \A k \in Keys : Terminal(rows[k]) => rows[k].lease = "none"

LEMMA KeptSame == ASSUME NEW r PROVE Kept(r, r)
BY DEF Kept

LEMMA NothingStaged ==
    ASSUME \A k \in Keys : Kept(rows[k], rows'[k])
    PROVE  TableStep
<1>1. Staged({})
  BY DEF Staged, Source
<1> QED
  BY <1>1 DEF TableStep

LEMMA TableUnchanged == ASSUME rows' = rows PROVE TableStep
BY KeptSame, NothingStaged

\* A claim that wins counts one more attempt of a row that is owed.
LEMMA ClaimAttempts ==
    ASSUME Typing, NEW m \in Message, m.key \in Keys, Wins(m), TakeRow(m)
    PROVE  TableStep
<1>1. /\ rows \in [Keys -> Row]
      /\ rows[m.key] \in Row
      /\ rows[m.key].attempt = m.attempt
      /\ rows[m.key].status \in {"pending", "processing"}
  BY DEF Typing, TypeOK, Wins, CanClaim, Claimable
<1>2. rows'[m.key] = Claimed(rows[m.key], m.attempt + 1)
  BY <1>1 DEF TakeRow
<1>3. /\ Claimed(rows[m.key], m.attempt + 1).status = "processing"
      /\ Claimed(rows[m.key], m.attempt + 1).attempt = m.attempt + 1
  BY <1>1 DEF Claimed, Row
<1>4. Others(m.key)
  BY <1>1 DEF TakeRow, Others
<1>5. Attempted(m.key)
  BY <1>1, <1>2, <1>3, <1>4 DEF Attempted
<1> QED
  BY <1>5 DEF TableStep

\* What the settling operations of the store make of a row.
LEMMA CompletedOutcome ==
    ASSUME NEW r \in Row, NEW n \in Nat
    PROVE  /\ Owns(r, n) => /\ Completed(r, n).status = "completed"
                            /\ Completed(r, n).lease = "none"
                            /\ Completed(r, n).attempt = r.attempt
           /\ ~Owns(r, n) => Completed(r, n) = r
BY DEF Completed, Row

LEMMA RetriedOutcome ==
    ASSUME NEW r \in Row, NEW n \in Nat, NEW d \in BOOLEAN, NEW g \in BOOLEAN
    PROVE  /\ Owns(r, n) =>
                 /\ Retried(r, n, d, g).status = IF d THEN "dead" ELSE "pending"
                 /\ Retried(r, n, d, g).lease = "none"
                 /\ Retried(r, n, d, g).attempt = r.attempt
           /\ ~Owns(r, n) => Retried(r, n, d, g) = r
BY DEF Retried, Row

\* Giving a message back keeps it owed, or kills it at MaxAttempts.
LEMMA GiveBackSettles ==
    ASSUME Typing, Fences, NEW m \in Message, m.key \in Keys, m.attempt > 0,
           NEW d \in BOOLEAN, NEW g \in BOOLEAN, d => m.attempt >= MaxAttempts,
           rows' = [rows EXCEPT ![m.key] = Retried(@, m.attempt, d, g)]
    PROVE  TableStep
<1> DEFINE s == Retried(rows[m.key], m.attempt, d, g)
<1>1. /\ rows \in [Keys -> Row]
      /\ rows[m.key] \in Row
      /\ m.attempt \in Nat
  BY DEF Typing, TypeOK, Message
<1>2. rows'[m.key] = s /\ Others(m.key)
  BY <1>1 DEF Others
<1>3. CASE ~Owns(rows[m.key], m.attempt)
  <2>1. s = rows[m.key]
    BY <1>1, <1>3, RetriedOutcome
  <2>2. \A k \in Keys : rows'[k] = rows[k]
    BY <1>2, <2>1 DEF Others
  <2> QED
    BY <2>2, KeptSame, NothingStaged
<1>4. CASE Owns(rows[m.key], m.attempt)
  <2>1. /\ s.status = IF d THEN "dead" ELSE "pending"
        /\ s.lease = "none"
        /\ s.attempt = rows[m.key].attempt
    BY <1>1, <1>4, RetriedOutcome
  <2>2. /\ rows[m.key].status = "processing"
        /\ rows[m.key].attempt = m.attempt
    BY <1>4 DEF Owns
  <2> HIDE DEF s
  <2>3. CASE d
    <3>1. Settled(m.key)
      BY <1>1, <1>2, <2>1, <2>2, <2>3 DEF Settled
    <3> QED
      BY <3>1 DEF TableStep
  <2>4. CASE ~d
    <3>1. Kept(rows[m.key], rows'[m.key])
      BY <1>2, <2>1, <2>2, <2>4 DEF Kept, Verdict, Terminal
    <3>2. \A k \in Keys : Kept(rows[k], rows'[k])
      BY <1>2, <3>1, KeptSame DEF Others
    <3> QED
      BY <3>2, NothingStaged
  <2> QED
    BY <2>3, <2>4
<1> QED
  BY <1>3, <1>4

LEMMA CompleteSettles ==
    ASSUME Typing, NEW m \in Message, m.key \in Keys, m.attempt > 0,
           rows' = [rows EXCEPT ![m.key] = Completed(@, m.attempt)]
    PROVE  /\ TableStep
           /\ Current(m) => /\ rows'[m.key].status = "completed"
                            /\ rows'[m.key].attempt = m.attempt
<1> DEFINE s == Completed(rows[m.key], m.attempt)
<1>1. /\ rows \in [Keys -> Row]
      /\ rows[m.key] \in Row
      /\ m.attempt \in Nat
  BY DEF Typing, TypeOK, Message
<1>2. rows'[m.key] = s /\ Others(m.key)
  BY <1>1 DEF Others
<1>3. CASE ~Owns(rows[m.key], m.attempt)
  <2>1. s = rows[m.key]
    BY <1>1, <1>3, CompletedOutcome
  <2>2. \A k \in Keys : rows'[k] = rows[k]
    BY <1>2, <2>1 DEF Others
  <2> QED
    BY <1>3, <2>2, KeptSame, NothingStaged DEF Current
<1>4. CASE Owns(rows[m.key], m.attempt)
  <2>1. s.status = "completed" /\ s.lease = "none"
        /\ s.attempt = rows[m.key].attempt
    BY <1>1, <1>4, CompletedOutcome
  <2>2. /\ rows[m.key].status = "processing"
        /\ rows[m.key].attempt = m.attempt
    BY <1>4 DEF Owns
  <2> HIDE DEF s
  <2>3. Settled(m.key)
    BY <1>1, <1>2, <2>1, <2>2 DEF Settled
  <2>4. rows'[m.key].status = "completed" /\ rows'[m.key].attempt = m.attempt
    BY <1>2, <2>1, <2>2
  <2> QED
    BY <2>3, <2>4 DEF TableStep
<1> QED
  BY <1>3, <1>4
\* Every step of a command changes the table in one of the three ways.
LEMMA CommandTableStep ==
    ASSUME Typing, Fences, NEW c \in Cmds, Command(c)
    PROVE  TableStep
<1> USE DEF table
<1>0. /\ c \in Actors
      /\ message[c] \in Message
      /\ rows \in [Keys -> Row]
  BY DEF Actors, Typing, TypeOK
<1>1. CASE Commit(c)
  <2>1. Intents(c) \in SUBSET Keys
    BY OutboxAssumption DEF Intents
  <2>2. Staged(Intents(c))
    BY <1>1, <2>1, KeptSame DEF Commit, Stageable, Staged, Source
  <2> QED
    BY <2>1, <2>2 DEF TableStep
<1>2. CASE Rollback(c) \/ SkipEffect(c) \/ DirectSelect(c)
           \/ DirectClaimLost(c) \/ Return(c)
  BY <1>2, TableUnchanged
     DEF Rollback, SkipEffect, DirectSelect, DirectClaimLost, Return
<1>3. CASE DirectClaim(c)
  BY <1>0, <1>3, ClaimAttempts DEF DirectClaim, Typing, Phases
<1>4. CASE DirectComplete(c)
  <2>1. message[c].key \in Keys /\ message[c].attempt > 0
    BY <1>0, <1>4 DEF DirectComplete, Fences, Holding
  <2> QED
    BY <1>0, <1>4, <2>1, CompleteSettles DEF DirectComplete
<1>5. CASE DirectFail(c)
  <2>1. message[c].key \in Keys /\ message[c].attempt > 0
    BY <1>0, <1>5 DEF DirectFail, Fences, Holding
  <2> QED
    BY <1>0, <1>5, <2>1, GiveBackSettles DEF DirectFail
<1> QED
  BY <1>1, <1>2, <1>3, <1>4, <1>5 DEF Command

\* The recovery's way to give a message back.
LEMMA FlightGivesBack ==
    ASSUME Typing, Fences, NEW f \in Flights, Holding(f), GiveBack(message[f])
    PROVE  TableStep
<1>1. /\ message[f] \in Message
      /\ message[f].key \in Keys
      /\ message[f].attempt \in Nat
      /\ message[f].attempt > 0
  BY DEF Actors, Typing, TypeOK, Message, Fences
<1>2. (message[f].attempt >= MaxAttempts) \in BOOLEAN
  OBVIOUS
<1>3. rows' = [rows EXCEPT ![message[f].key] =
                  Retried(@, message[f].attempt,
                          message[f].attempt >= MaxAttempts, FALSE)]
  BY DEF GiveBack, Backoff
<1> QED
  BY <1>1, <1>2, <1>3, GiveBackSettles

LEMMA ScanTableStep ==
    ASSUME Typing, Fences, ScanBegin \/ Scan
    PROVE  TableStep
<1> USE DEF table
<1>1. CASE ScanBegin
  <2>1. ASSUME NEW k \in Keys, active[TopicOf[k]] # None
        PROVE  Kept(rows[k],
                    Renewed(rows[k], message[active[TopicOf[k]]].attempt))
    BY DEF Renewed, Owns, Kept, Verdict, Terminal, Row, Typing, TypeOK
  <2>2. \A k \in Keys : Kept(rows[k], rows'[k])
    BY <1>1, <2>1, KeptSame DEF ScanBegin
  <2> QED
    BY <2>2, NothingStaged
<1>2. CASE ScanSelect \/ ScanEnd \/ ScanClaimLost
  BY <1>2, TableUnchanged DEF ScanSelect, ScanEnd, ScanClaimLost
<1>3. ASSUME NEW f \in Flights, ScanClaim(f)
      PROVE  TableStep
  BY <1>3, ClaimAttempts DEF ScanClaim, Typing, TypeOK, Phases
<1>4. ASSUME NEW f \in Flights, ScanSubmit(f)
      PROVE  TableStep
  BY <1>4, TableUnchanged DEF ScanSubmit
<1>5. ASSUME NEW f \in Flights, ScanSubmitFails(f)
      PROVE  TableStep
  BY <1>5, FlightGivesBack DEF ScanSubmitFails, Holding
<1> QED
  BY <1>1, <1>2, <1>3, <1>4, <1>5 DEF Scan

LEMMA RunTableStep ==
    ASSUME Typing, Fences, NEW f \in Flights, Run(f)
    PROVE  TableStep
<1> USE DEF table, Goto
<1>0. /\ message[f] \in Message
      /\ rows \in [Keys -> Row]
  BY DEF Actors, Typing, TypeOK
<1>1. CASE RunStart(f) \/ HandlerReturns(f) \/ FanoutLeaseLost(f)
           \/ RunSelect(f) \/ RunBreak(f) \/ RunClaimLost(f) \/ Finish(f)
  BY <1>1, TableUnchanged
     DEF RunStart, HandlerReturns, FanoutLeaseLost, RunSelect, RunBreak,
         RunClaimLost, Finish
<1>2. CASE Cancelled(f)
  BY <1>2, FlightGivesBack DEF Cancelled, Holding
<1>3. CASE HandlerRaises(f)
  BY <1>3, FlightGivesBack DEF HandlerRaises, Holding
<1>4. CASE RunComplete(f)
  <2>1. message[f].key \in Keys /\ message[f].attempt > 0
    BY <1>0, <1>4 DEF RunComplete, Fences, Holding, Actors
  <2> QED
    BY <1>0, <1>4, <2>1, CompleteSettles DEF RunComplete
<1>5. CASE EventFansOut(f)
  <2>1. PICK enabled \in SUBSET Children[message[f].key] :
            FanOut(message[f].key, enabled)
    BY <1>5 DEF EventFansOut
  <2>2. message[f].key \in Keys
    BY <1>5 DEF EventFansOut, Fences, Holding, Actors
  <2>3. enabled \in SUBSET Keys
    BY <2>2, OutboxAssumption
  <2>4. CASE rows' = rows
    BY <2>4, TableUnchanged
  <2>5. CASE /\ ~rows[message[f].key].fanned
             /\ AddChildren(message[f].key, enabled)
             /\ \A h \in enabled : rows[h].status = "absent"
    <3>1. rows[message[f].key].status = "processing"
      BY <1>5 DEF EventFansOut, Current, Owns
    <3>2. Kept(rows[message[f].key],
               [rows[message[f].key] EXCEPT !.fanned = TRUE])
      BY <1>0, <2>2, <3>1 DEF Kept, Verdict, Terminal, Row
    <3>3. Source(enabled)
      BY <2>2, <2>5 DEF Source
    <3>4. Staged(enabled)
      BY <2>3, <2>5, <3>2, <3>3, KeptSame DEF AddChildren, Staged
    <3> QED
      BY <2>3, <3>4 DEF TableStep
  <2> QED
    BY <2>1, <2>4, <2>5 DEF FanOut, table
<1>6. CASE RunClaim(f)
  BY <1>0, <1>6, ClaimAttempts DEF RunClaim, Typing, Phases
<1> QED
  BY <1>1, <1>2, <1>3, <1>4, <1>5, <1>6 DEF Run

LEMMA RestTableStep ==
    ASSUME Typing, Leases,
           \/ Stop \/ StopReturns \/ Configure \/ Crash
           \/ \E k \in Keys : LeaseExpires(k) \/ RetryDue(k)
    PROVE  TableStep
<1>1. CASE Stop \/ StopReturns \/ Configure \/ Crash
  BY <1>1, TableUnchanged DEF Stop, StopReturns, Configure, Crash, table
<1>2. ASSUME NEW k \in Keys, LeaseExpires(k) \/ RetryDue(k)
      PROVE  TableStep
  <2>0. rows \in [Keys -> Row] /\ rows[k] \in Row
    BY DEF Typing, TypeOK
  <2>1. ~Terminal(rows[k])
    BY <1>2 DEF LeaseExpires, RetryDue, Leases, Terminal
  <2>2. /\ rows'[k].status = rows[k].status
        /\ rows'[k].attempt = rows[k].attempt
    BY <1>2, <2>0 DEF LeaseExpires, RetryDue, Row
  <2>3. Others(k)
    BY <1>2, <2>0 DEF LeaseExpires, RetryDue, Others
  <2>4. Kept(rows[k], rows'[k])
    BY <2>1, <2>2 DEF Kept, Verdict
  <2>5. \A j \in Keys : Kept(rows[j], rows'[j])
    BY <2>3, <2>4, KeptSame DEF Others
  <2> QED
    BY <2>5, NothingStaged
<1> QED
  BY <1>1, <1>2

LEMMA StepTableStep == Typing /\ Fences /\ Leases /\ [Next]_vars => TableStep
<1> SUFFICES ASSUME Typing, Fences, Leases, [Next]_vars PROVE TableStep
  OBVIOUS
<1>1. CASE Next
  BY <1>1, CommandTableStep, ScanTableStep, RunTableStep, RestTableStep DEF Next
<1>2. CASE UNCHANGED vars
  BY <1>2, TableUnchanged DEF vars, table
<1> QED
  BY <1>1, <1>2

LEMMA TerminalStays ==
    ASSUME TableStep
    PROVE  \A k \in Keys : Terminal(rows[k]) => rows'[k] = rows[k]
<1> SUFFICES ASSUME NEW k \in Keys, Terminal(rows[k])
             PROVE  rows'[k] = rows[k]
  OBVIOUS
<1>1. CASE \E S \in SUBSET Keys : Staged(S)
  BY <1>1 DEF Staged, Kept, Terminal
<1>2. CASE \E j \in Keys : Attempted(j) \/ Settled(j)
  BY <1>2 DEF Attempted, Settled, Others, Terminal
<1> QED
  BY <1>1, <1>2 DEF TableStep

LEMMA LeasesStep ==
    ASSUME Typing, Leases, TableStep
    PROVE  Leases'
<1> SUFFICES ASSUME NEW k \in Keys, Terminal(rows'[k])
             PROVE  rows'[k].lease = "none"
  BY DEF Leases, Terminal
<1>1. CASE \E S \in SUBSET Keys : Staged(S)
  <2>1. PICK S \in SUBSET Keys : Staged(S)
    BY <1>1
  <2>2. NewRow.status = "pending"
    BY DEF NewRow, NoRow
  <2>3. k \notin S
    BY <2>1, <2>2 DEF Staged, Terminal
  <2>4. Kept(rows[k], rows'[k])
    BY <2>1, <2>3 DEF Staged
  <2>5. Verdict(rows[k]) \in {"delivered", "abandoned"}
    BY <2>4 DEF Kept, Verdict, Terminal
  <2>6. rows[k].status \in Status
    BY DEF Typing, TypeOK, Row
  <2>7. Terminal(rows[k])
    BY <2>5, <2>6 DEF Verdict, Terminal, Status
  <2> QED
    BY <2>4, <2>7 DEF Kept, Leases
<1>2. ASSUME NEW j \in Keys, Attempted(j)
      PROVE  rows'[k].lease = "none"
  BY <1>2 DEF Attempted, Others, Leases, Terminal
<1>3. ASSUME NEW j \in Keys, Settled(j)
      PROVE  rows'[k].lease = "none"
  BY <1>3 DEF Settled, Others, Leases
<1> QED
  BY <1>1, <1>2, <1>3 DEF TableStep

LEMMA LeasesInvariant == Spec => []Leases
<1>1. Init => Leases
  BY DEF Init, Leases, NoRow, Terminal
<1>2. Typing /\ Fences /\ Leases /\ [Next]_vars => Leases'
  BY StepTableStep, LeasesStep
<1>3. QED
  BY <1>1, <1>2, TypingInvariant, FencesInvariant, PTL DEF Spec

\* A completed or dead message is never claimed, renewed, retried or expanded
\* again, whichever of its former owners still executes it.
THEOREM OutboxSettledIsFinal == Spec => SettledIsFinal
<1>1. ASSUME Typing, Fences, Leases, [Next]_vars
      PROVE  [\A k \in Keys : Terminal(rows[k]) => rows'[k] = rows[k]]_vars
  BY <1>1, StepTableStep, TerminalStays
<1>2. QED
  BY <1>1, TypingInvariant, FencesInvariant, LeasesInvariant, PTL
     DEF Spec, SettledIsFinal

\* The children of an expanded parent come from nowhere else.
LEMMA ExpandedOnce ==
    ASSUME Typing, Typing', TableStep,
           NEW k \in Keys, rows[k].fanned,
           NEW h \in Children[k], rows[h].status = "absent"
    PROVE  rows'[h].status = "absent"
<1>1. h \in Keys
  BY OutboxAssumption
<1>2. CASE \E S \in SUBSET Keys : Staged(S)
  <2>1. PICK S \in SUBSET Keys : Staged(S)
    BY <1>2
  <2>2. h \notin S
    BY <2>1, HandlerKeysAssumption DEF Staged, Source, Intents
  <2>3. Verdict(rows'[h]) = "none"
    BY <1>1, <2>1, <2>2 DEF Staged, Kept, Verdict
  <2>4. rows'[h].status \in Status
    BY <1>1 DEF Typing, TypeOK, Row
  <2> QED
    BY <2>3, <2>4 DEF Verdict, Status
<1>3. CASE \E j \in Keys : Attempted(j) \/ Settled(j)
  BY <1>1, <1>3 DEF Attempted, Settled, Others
<1> QED
  BY <1>2, <1>3 DEF TableStep

\* Once an event has been expanded, a replay of it adds no handler delivery:
\* stage_fanout commits the marker together with the children.
THEOREM OutboxFanoutIsFrozen == Spec => FanoutIsFrozen
<1>1. ASSUME Typing, Fences, Leases, [Next]_vars
      PROVE  [\A k \in Keys : rows[k].fanned =>
                 \A h \in Children[k] :
                     rows[h].status = "absent" => rows'[h].status = "absent"]_vars
  <2>1. TableStep /\ Typing'
    BY <1>1, StepTableStep, TypingStep
  <2> QED
    BY <1>1, <2>1, ExpandedOnce
<1>2. QED
  BY <1>1, TypingInvariant, FencesInvariant, LeasesInvariant, PTL
     DEF Spec, FanoutIsFrozen
-----------------------------------------------------------------------------
(* What a command reports                                                  *)

\* Only a complete() that succeeds adds to the effects a command reports.
LEMMA ReportStep ==
    ASSUME Typing, Fences, NEW c \in Cmds, NEW m, [Next]_vars,
           m \in completed'[c], m \notin completed[c]
    PROVE  rows'[m.key].status = "completed" /\ rows'[m.key].attempt = m.attempt
<1> USE DEF table, cmd, scan, life
<1>0. completed \in [Cmds -> SUBSET Claim]
  BY DEF Typing, TypeOK
<1>1. completed' # completed
  OBVIOUS
<1>2. ~(ScanBegin \/ Scan)
  BY <1>1 DEF ScanBegin, Scan, ScanSelect, ScanEnd, ScanClaimLost, ScanClaim,
              ScanSubmit, ScanSubmitFails
<1>3. ASSUME NEW f \in Flights
      PROVE  ~Run(f)
  BY <1>1 DEF Run, RunStart, Cancelled, HandlerReturns, EventFansOut,
              FanoutLeaseLost, HandlerRaises, RunComplete, RunSelect, RunBreak,
              RunClaim, RunClaimLost, Finish
<1>4. /\ ~(Stop \/ StopReturns \/ Configure \/ Crash)
      /\ ~\E j \in Keys : LeaseExpires(j) \/ RetryDue(j)
  BY <1>1 DEF Stop, StopReturns, Configure, Crash, LeaseExpires, RetryDue
<1>5. PICK d \in Cmds : Command(d)
  BY <1>1, <1>2, <1>3, <1>4 DEF Next, vars
<1>6. DirectComplete(d)
  BY <1>1, <1>5 DEF Command, Commit, Rollback, SkipEffect, DirectSelect,
                    DirectClaim, DirectClaimLost, DirectFail, Return
<1>7. /\ d = c
      /\ m = message[c]
      /\ Current(message[c])
  BY <1>0, <1>6 DEF DirectComplete
<1>8. /\ message[c] \in Message
      /\ message[c].key \in Keys
      /\ message[c].attempt > 0
  BY <1>6, <1>7 DEF DirectComplete, Fences, Holding, Actors, Typing, TypeOK
<1> QED
  BY <1>6, <1>7, <1>8, CompleteSettles DEF DirectComplete

LEMMA ReportsStep ==
    ASSUME Typing, Fences, Leases, ReportedEffectsCompleted, [Next]_vars
    PROVE  ReportedEffectsCompleted'
<1> SUFFICES ASSUME NEW c \in Cmds, NEW m \in completed'[c]
             PROVE  /\ rows'[m.key].status = "completed"
                    /\ rows'[m.key].attempt = m.attempt
  BY DEF ReportedEffectsCompleted
<1>1. Typing'
  BY TypingStep
<1>2. m.key \in Keys
  BY <1>1 DEF Typing, TypeOK, Claim
<1>3. CASE m \in completed[c]
  <2>1. /\ rows[m.key].status = "completed"
        /\ rows[m.key].attempt = m.attempt
    BY <1>3 DEF ReportedEffectsCompleted
  <2>2. rows'[m.key] = rows[m.key]
    BY <1>2, <2>1, StepTableStep, TerminalStays DEF Terminal
  <2> QED
    BY <2>1, <2>2
<1>4. CASE m \notin completed[c]
  BY <1>4, ReportStep
<1> QED
  BY <1>3, <1>4

\* PostCommitResult.completed_effects never names an effect whose lease the
\* command had lost when it called complete(), even when another delivery
\* completed the row: it is completed under the command's own attempt.
THEOREM OutboxReportedEffectsCompleted == Spec => []ReportedEffectsCompleted
<1>1. Init => ReportedEffectsCompleted
  BY DEF Init, ReportedEffectsCompleted
<1>2. Typing /\ Fences /\ Leases /\ ReportedEffectsCompleted /\ [Next]_vars
        => ReportedEffectsCompleted'
  BY ReportsStep
<1>3. QED
  BY <1>1, <1>2, TypingInvariant, FencesInvariant, LeasesInvariant, PTL DEF Spec
-----------------------------------------------------------------------------
(* The refinement                                                          *)

LEMMA StagedPromises ==
    ASSUME Typing, Fences, NEW S \in SUBSET Keys, Staged(S)
    PROVE  Delivery!Promise(S)
<1>1. ASSUME NEW k \in S
      PROVE  /\ Verdict(rows[k]) = "none" /\ Verdict(rows'[k]) = "owed"
             /\ rows'[k].attempt = rows[k].attempt
  <2>1. NewRow.status = "pending" /\ NewRow.attempt = 0
    BY DEF NewRow, NoRow
  <2>2. /\ rows[k].status = "absent"
        /\ rows'[k].status = "pending"
        /\ rows'[k].attempt = 0
    BY <2>1 DEF Staged
  <2>3. rows[k].attempt = 0
    BY <2>2 DEF Fences
  <2> QED
    BY <2>2, <2>3 DEF Verdict
<1>2. ASSUME NEW k \in Keys \ S
      PROVE  /\ Verdict(rows'[k]) = Verdict(rows[k])
             /\ rows'[k].attempt = rows[k].attempt
  BY DEF Staged, Kept
<1> HIDE DEF Verdict
<1> QED
  BY <1>1, <1>2 DEF Delivery!Promise

LEMMA AttemptedAttempts ==
    ASSUME Typing, NEW k \in Keys, Attempted(k)
    PROVE  Delivery!Attempt(k)
<1>1. /\ Verdict(rows[k]) = "owed" /\ Verdict(rows'[k]) = "owed"
      /\ rows'[k].attempt = rows[k].attempt + 1
  BY DEF Attempted, Verdict
<1>2. \A j \in Keys \ {k} : rows'[j] = rows[j]
  BY DEF Attempted, Others
<1>3. QED
  BY <1>1, <1>2 DEF Delivery!Attempt

LEMMA SettledDeliversOrAbandons ==
    ASSUME Typing, NEW k \in Keys, Settled(k)
    PROVE  Delivery!Deliver(k) \/ Delivery!Abandon(k)
<1>1. /\ Verdict(rows[k]) = "owed"
      /\ rows[k].attempt > 0
      /\ rows'[k].attempt = rows[k].attempt
  BY DEF Settled, Verdict
<1>2. \A j \in Keys \ {k} : rows'[j] = rows[j]
  BY DEF Settled, Others
<1>3. CASE rows'[k].status = "completed"
  <2>1. Verdict(rows'[k]) = "delivered"
    BY <1>3 DEF Verdict
  <2> QED
    BY <1>1, <1>2, <2>1 DEF Delivery!Deliver
<1>4. CASE rows'[k].status = "dead" /\ rows[k].attempt >= MaxAttempts
  <2>1. Verdict(rows'[k]) = "abandoned"
    BY <1>4 DEF Verdict
  <2> QED
    BY <1>1, <1>2, <1>4, <2>1 DEF Delivery!Abandon
<1> QED
  BY <1>3, <1>4 DEF Settled

\* Every intent that a transaction committed stays owed until it is delivered
\* after an attempt, or abandoned after MaxAttempts of them, through every
\* race, refusal, crash and stop: the table implements OutboxDelivery.
THEOREM OutboxImplementsDelivery == Spec => ImplementsDelivery
<1>1. Init => Delivery!Init
  BY DEF Init, Delivery!Init, Verdict, NoRow
<1>2. ASSUME Typing, Fences, TableStep
      PROVE  Delivery!Next
  BY <1>2, StagedPromises, AttemptedAttempts, SettledDeliversOrAbandons
     DEF TableStep, Delivery!Next
<1>3. ASSUME Typing, Fences, Leases, [Next]_vars
      PROVE  [Delivery!Next]_<<[k \in Keys |-> Verdict(rows[k])],
                               [k \in Keys |-> rows[k].attempt]>>
  BY <1>2, <1>3, StepTableStep
<1>4. QED
  BY <1>1, <1>3, TypingInvariant, FencesInvariant, LeasesInvariant, PTL
     DEF Spec, ImplementsDelivery, Delivery!Spec
=============================================================================
