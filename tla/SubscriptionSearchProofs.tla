----------------------- MODULE SubscriptionSearchProofs -----------------------
(***************************************************************************)
(* The queue of subscription searches is consistent for any number of      *)
(* requests, subscriptions, consumers and setbacks.                        *)
(***************************************************************************)
EXTENDS SubscriptionSearch, TLAPS

TaskRow == [state : TaskStates, cancel : BOOLEAN, expired : BOOLEAN,
            token : Tokens \union {0}, due : BOOLEAN, manual : BOOLEAN]
BatchRow == [state : TaskStates \union {"cancelling"}, cancel : BOOLEAN]

\* The aggregates of any tables.
Tell(bs, ts) == \A b \in Batches :
  bs[b].state # "none" => bs[b].state = Aggregate(b, ts, bs[b].cancel)

\* A subscription has one active row.
Single(ts) == \A t, u \in Tasks :
  t[2] = u[2] /\ ts[t].state \in Active /\ ts[u].state \in Active => t = u

\* A request that was not made has no rows and is not cancelled.
Made(bs, ts) ==
  /\ \A b \in Batches : bs[b].state = "none" => ~bs[b].cancel
  /\ \A t \in Tasks : bs[t[1]].state = "none" => ts[t].state = "none"

\* Only a running row has a token, and a row that waits is wanted.
RowsOK(ts) == \A t \in Tasks :
  /\ ts[t].state = "running" <=> ts[t].token # 0
  /\ ts[t].state \in {"none", "queued"} => ~ts[t].cancel

\* A cancellation reaches every row of its batch.
Reach(bs, ts) == \A t \in Tasks :
  bs[t[1]].cancel /\ ts[t].state \in Active => ts[t].cancel

Live(ts, ss) == \A t \in Tasks : ss[t] # None => ts[t].state \in Active

\* The tables agree with each other, whoever works on them.
Tables(ts, bs, ss) ==
  /\ ts \in [Tasks -> TaskRow]
  /\ bs \in [Batches -> BatchRow]
  /\ ss \in [Tasks -> None..MaxPages]
  /\ Tell(bs, ts) /\ Single(ts) /\ Made(bs, ts) /\ RowsOK(ts)
  /\ Reach(bs, ts) /\ Live(ts, ss)

Consumer == [pc : {"idle", "claimed", "searching", "settling"},
             task : Tasks \union {NoTask}, token : Tokens \union {0},
             manual : BOOLEAN, seen : None..MaxPages,
             verdict : Ended \union {"none", "release", "defer"}]

\* A consumer at work has a task and a token of its own.
Apart ==
  /\ \A p \in Processes : worker[p].pc # "idle" =>
       worker[p].task \in Tasks /\ worker[p].token \in Tokens
  /\ \A p, q \in Processes :
       p # q /\ worker[p].pc # "idle" /\ worker[q].pc # "idle"
         => worker[p].token # worker[q].token

IInv ==
  /\ Tables(tasks, batches, sessions)
  /\ worker \in [Processes -> Consumer]
  /\ stopping \subseteq Processes
  /\ setbacks \in 0..MaxSetbacks
  /\ Apart
  /\ HoldersAreCurrent

LEMMA Consistent == IInv => QueueIsConsistent
  <1> SUFFICES ASSUME IInv PROVE QueueIsConsistent
    OBVIOUS
  <1>1. TypeOK
    BY DEF IInv, Tables, TypeOK, TaskRow, BatchRow, Consumer
  <1>2. BatchesTell
    BY DEF IInv, Tables, Tell, BatchesTell
  <1>3. OneActiveTask /\ CheckpointsAreLive
    BY DEF IInv, Tables, Single, Live, OneActiveTask, CheckpointsAreLive
  <1> QED BY <1>1, <1>2, <1>3 DEF IInv, QueueIsConsistent

-----------------------------------------------------------------------------
(* Aggregates.                                                             *)

LEMMA TokensAreNat == Tokens \subseteq Nat \ {0}
  BY DEF Tokens

LEMMA TaskPair == \A t \in Tasks : /\ t[1] \in Batches /\ t[2] \in Subs
                                   /\ t = <<t[1], t[2]>>
  BY DEF Tasks

LEMMA TaskOf == \A b \in Batches : {b} \X Subs \subseteq Tasks
                                   /\ \A t \in {b} \X Subs : t[1] = b
  BY DEF Tasks

LEMMA AggregateMade ==
  ASSUME NEW b, NEW f, NEW c
  PROVE  /\ Aggregate(b, f, c) # "none"
         /\ Aggregate(b, f, c) \in TaskStates \union {"cancelling"}
  BY DEF Aggregate, TaskStates, Ended, Active

LEMMA AggregateSame ==
  ASSUME NEW b \in Batches, NEW f, NEW g, NEW c,
         \A t \in Tasks : t[1] = b => f[t].state = g[t].state
  PROVE  Aggregate(b, f, c) = Aggregate(b, g, c)
  <1>1. \A t \in {b} \X Subs : f[t].state = g[t].state
    BY TaskOf
  <1>2. StatesOf(b, f) = StatesOf(b, g)
    BY <1>1 DEF StatesOf
  <1> QED BY <1>2 DEF Aggregate

LEMMA RefreshTells ==
  ASSUME NEW old, NEW bs \in [Batches -> BatchRow], NEW ts, NEW rows, NEW changed,
         Tell(old, ts),
         \A b \in Batches \ changed : bs[b] = old[b],
         \A t \in Tasks : t[1] \notin changed => rows[t].state = ts[t].state
  PROVE  /\ Tell(Refresh(bs, rows, changed), rows)
         /\ Refresh(bs, rows, changed) \in [Batches -> BatchRow]
         /\ \A b \in Batches : /\ Refresh(bs, rows, changed)[b].cancel = bs[b].cancel
                               /\ b \notin changed => Refresh(bs, rows, changed)[b] = bs[b]
                               /\ b \in changed => Refresh(bs, rows, changed)[b].state # "none"
  <1> DEFINE new == Refresh(bs, rows, changed)
  <1>1. \A b \in Batches : b \notin changed => new[b] = bs[b]
    BY DEF Refresh
  <1>2. \A b \in Batches : b \in changed =>
          new[b] = [bs[b] EXCEPT !.state = Aggregate(b, rows, bs[b].cancel)]
    BY DEF Refresh
  <1>3. \A b \in Batches : b \in changed =>
          /\ new[b].state = Aggregate(b, rows, bs[b].cancel)
          /\ new[b].cancel = bs[b].cancel
          /\ new[b] \in BatchRow
    <2> TAKE b \in Batches
    <2> DEFINE s == Aggregate(b, rows, bs[b].cancel)
    <2>1. s \in TaskStates \union {"cancelling"}
      BY AggregateMade
    <2>2. bs[b] \in BatchRow /\ (b \in changed => new[b] = [bs[b] EXCEPT !.state = s])
      BY <1>2
    <2>3. b \in changed => new[b].state = s /\ new[b].cancel = bs[b].cancel
                            /\ new[b] \in BatchRow
      <3> HIDE DEF s, new
      <3> QED BY <2>1, <2>2 DEF BatchRow
    <2> QED BY <2>3
  <1>4. new \in [Batches -> BatchRow]
    <2>1. \A b \in Batches : new[b] \in BatchRow
      BY <1>1, <1>3
    <2>2. new = [b \in Batches |-> new[b]]
      BY DEF Refresh
    <2> QED BY <2>1, <2>2
  <1>5. Tell(new, rows)
    <2> SUFFICES ASSUME NEW b \in Batches, new[b].state # "none"
                 PROVE  new[b].state = Aggregate(b, rows, new[b].cancel)
      BY DEF Tell
    <2>1. CASE b \in changed
      BY <2>1, <1>3
    <2>2. CASE b \notin changed
      <3>1. Aggregate(b, rows, old[b].cancel) = Aggregate(b, ts, old[b].cancel)
        BY <2>2, AggregateSame
      <3>2. new[b] = old[b]
        BY <2>2, <1>1
      <3> QED BY <3>1, <3>2 DEF Tell
    <2> QED BY <2>1, <2>2
  <1> QED BY <1>1, <1>3, <1>4, <1>5, AggregateMade

-----------------------------------------------------------------------------
(* The sweep of cancelled tasks, which begins a request and a poll.        *)

LEMMA OverRow ==
  ASSUME NEW row \in TaskRow, NEW state \in TaskStates
  PROVE  /\ Over(row, state) \in TaskRow
         /\ Over(row, state).state = state
         /\ Over(row, state).token = 0
         /\ Over(row, state).cancel = row.cancel
         /\ Over(row, state).expired = FALSE
  BY DEF Over, TaskRow

LEMMA SweepRows ==
  ASSUME IInv
  PROVE  /\ Swept \in [Tasks -> TaskRow]
         /\ \A t \in Tasks : t \notin Lapsed =>
              Swept[t] = tasks[t] /\ SweptSessions[t] = sessions[t]
         /\ \A t \in Tasks : t \in Lapsed =>
              /\ tasks[t].state = "running" /\ Swept[t].state = "cancelled"
              /\ Swept[t].token = 0 /\ SweptSessions[t] = None
         /\ \A t \in Tasks : Swept[t].cancel = tasks[t].cancel
         /\ SweptSessions \in [Tasks -> None..MaxPages]
  <1>1. tasks \in [Tasks -> TaskRow] /\ sessions \in [Tasks -> None..MaxPages]
    BY DEF IInv, Tables
  <1>2. \A t \in Tasks : t \in Lapsed => tasks[t].state = "running"
    BY DEF Lapsed
  <1>3. \A t \in Tasks : t \in Lapsed => Swept[t] = Over(tasks[t], "cancelled")
    BY DEF Swept
  <1>4. \A t \in Tasks : t \notin Lapsed => Swept[t] = tasks[t]
    BY DEF Swept
  <1>5. "cancelled" \in TaskStates
    BY DEF TaskStates, Ended
  <1>6. \A t \in Tasks : Swept[t] \in TaskRow /\ Swept[t].cancel = tasks[t].cancel
                          /\ (t \in Lapsed => Swept[t].state = "cancelled"
                                              /\ Swept[t].token = 0)
    <2> TAKE t \in Tasks
    <2>1. tasks[t] \in TaskRow
      BY <1>1
    <2>2. CASE t \in Lapsed
      <3>1. Swept[t] = Over(tasks[t], "cancelled")
        BY <1>3, <2>2
      <3>2. /\ Over(tasks[t], "cancelled") \in TaskRow
            /\ Over(tasks[t], "cancelled").state = "cancelled"
            /\ Over(tasks[t], "cancelled").token = 0
            /\ Over(tasks[t], "cancelled").cancel = tasks[t].cancel
        BY <1>5, <2>1, OverRow
      <3> QED BY <3>1, <3>2
    <2>3. CASE t \notin Lapsed
      BY <1>4, <2>1, <2>3
    <2> QED BY <2>2, <2>3
  <1>7. Swept = [t \in Tasks |-> Swept[t]]
    BY DEF Swept
  <1>8. Swept \in [Tasks -> TaskRow]
    BY <1>6, <1>7
  <1>9. SweptSessions \in [Tasks -> None..MaxPages]
    BY <1>1, SearchAssumption DEF SweptSessions, None
  <1>10. \A t \in Tasks : SweptSessions[t] = IF t \in Lapsed THEN None ELSE sessions[t]
    BY DEF SweptSessions
  <1> QED BY <1>2, <1>4, <1>6, <1>8, <1>9, <1>10

LEMMA SweepTells ==
  ASSUME IInv
  PROVE  /\ Tell(SweptBatches, Swept)
         /\ SweptBatches \in [Batches -> BatchRow]
         /\ \A b \in Batches : /\ SweptBatches[b].cancel = batches[b].cancel
                               /\ SweptBatches[b].state = "none" => batches[b].state = "none"
                               /\ batches[b].state = "none" => SweptBatches[b] = batches[b]
  <1> DEFINE changed == {t[1] : t \in Lapsed}
  <1>1. batches \in [Batches -> BatchRow] /\ Tell(batches, tasks)
    BY DEF IInv, Tables
  <1>2. \A t \in Tasks : t[1] \notin changed => Swept[t].state = tasks[t].state
    <2>1. \A t \in Tasks : t[1] \notin changed => t \notin Lapsed
      BY DEF Lapsed
    <2> QED BY <2>1, SweepRows
  <1>3. SweptBatches = Refresh(batches, Swept, changed)
    BY DEF SweptBatches
  <1>4. \A b \in changed : b \in Batches /\ batches[b].state # "none"
    <2>1. \A t \in Lapsed : t \in Tasks /\ tasks[t].state = "running"
      BY DEF Lapsed
    <2>2. \A t \in Lapsed : batches[t[1]].state # "none"
      BY <2>1 DEF IInv, Tables, Made
    <2> QED BY <2>1, <2>2, TaskPair
  <1> HIDE DEF changed
  <1> QED BY <1>1, <1>2, <1>3, <1>4, RefreshTells

LEMMA SweepTables == ASSUME IInv PROVE Tables(Swept, SweptBatches, SweptSessions)
  <1>1. Single(tasks) /\ Made(batches, tasks) /\ RowsOK(tasks)
        /\ Reach(batches, tasks) /\ Live(tasks, sessions)
    BY DEF IInv, Tables
  <1>2. \A t \in Tasks : Swept[t].state \in Active => t \notin Lapsed
    BY SweepRows DEF Active
  <1>3. Single(Swept)
    BY <1>1, <1>2, SweepRows DEF Single
  <1>4. Made(SweptBatches, Swept)
    <2>1. \A t \in Tasks : tasks[t].state = "none" => Swept[t].state = "none"
      BY SweepRows
    <2> QED BY <1>1, <2>1, SweepTells, TaskPair DEF Made
  <1>5. RowsOK(Swept)
    BY <1>1, SweepRows DEF RowsOK
  <1>6. Reach(SweptBatches, Swept)
    BY <1>1, <1>2, SweepRows, SweepTells, TaskPair DEF Reach
  <1>7. Live(Swept, SweptSessions)
    BY <1>1, SweepRows DEF Live
  <1> QED BY <1>3, <1>4, <1>5, <1>6, <1>7, SweepRows, SweepTells DEF Tables

-----------------------------------------------------------------------------
(* The steps that keep the invariant.                                      *)

\* A step of the tables that no consumer makes.
LEMMA TableStep ==
  ASSUME IInv,
         Tables(tasks', batches', sessions'), worker' = worker,
         stopping' \subseteq Processes, setbacks' \in 0..MaxSetbacks,
         \A t \in Tasks : /\ tasks'[t].token # 0
                          /\ ~tasks'[t].expired /\ ~tasks'[t].cancel
           => /\ tasks[t].token = tasks'[t].token
              /\ ~tasks[t].expired /\ ~tasks[t].cancel
              /\ sessions'[t] = sessions[t]
  PROVE  IInv'
  <1>1. Apart /\ HoldersAreCurrent /\ worker \in [Processes -> Consumer]
    BY DEF IInv
  <1>2. Apart'
    BY <1>1 DEF Apart
  <1>3. HoldersAreCurrent'
    <2>1. \A p \in Processes : worker[p].pc = "searching" =>
            worker[p].task \in Tasks /\ worker[p].token # 0
      BY <1>1, TokensAreNat DEF Apart
    <2> QED BY <1>1, <2>1 DEF HoldersAreCurrent
  <1> QED BY <1>1, <1>2, <1>3 DEF IInv, Tables, Tell, Single, Made, RowsOK, Reach, Live

\* A step of one consumer, which drops its task, keeps it or takes a new token.
LEMMA ConsumerStep ==
  ASSUME IInv, NEW p \in Processes, NEW c \in Consumer,
         worker' = [worker EXCEPT ![p] = c],
         Tables(tasks', batches', sessions'),
         stopping' \subseteq Processes, setbacks' \in 0..MaxSetbacks,
         \/ c.pc = "idle"
         \/ /\ worker[p].pc # "idle"
            /\ c.task = worker[p].task /\ c.token = worker[p].token
         \/ /\ c.task \in Tasks /\ c.token \in Tokens
            /\ \A q \in Processes : worker[q].token # c.token,
         c.pc = "searching" => c.seen = sessions'[c.task],
         \A q \in Processes \ {p} : worker[q].pc = "searching" =>
           LET t == worker[q].task IN
           /\ tasks'[t].token = worker[q].token
           /\ ~tasks'[t].expired /\ ~tasks'[t].cancel
           => /\ tasks[t].token = worker[q].token
              /\ ~tasks[t].expired /\ ~tasks[t].cancel
              /\ sessions'[t] = sessions[t]
  PROVE  IInv'
  <1>1. Apart /\ HoldersAreCurrent /\ worker \in [Processes -> Consumer]
    BY DEF IInv
  <1>2. worker' \in [Processes -> Consumer]
    BY <1>1
  <1>3. worker'[p] = c /\ \A q \in Processes \ {p} : worker'[q] = worker[q]
    BY <1>1
  <1>4. Apart'
    <2>1. \A q \in Processes : worker'[q].pc # "idle" =>
            worker'[q].task \in Tasks /\ worker'[q].token \in Tokens
      BY <1>1, <1>3 DEF Apart
    <2>2. \A q \in Processes \ {p} : c.pc # "idle" /\ worker[q].pc # "idle" =>
            worker[q].token # c.token
      BY <1>1 DEF Apart
    <2>3. \A q, r \in Processes :
            q # r /\ worker'[q].pc # "idle" /\ worker'[r].pc # "idle"
              => worker'[q].token # worker'[r].token
      BY <1>1, <1>3, <2>2 DEF Apart
    <2> QED BY <2>1, <2>3 DEF Apart
  <1>5. HoldersAreCurrent'
    BY <1>1, <1>3 DEF HoldersAreCurrent
  <1> QED BY <1>2, <1>4, <1>5 DEF IInv, Tables, Tell, Single, Made, RowsOK, Reach, Live

LEMMA SetbackBounds ==
  ASSUME setbacks \in 0..MaxSetbacks, Setback \/ UNCHANGED setbacks
  PROVE  setbacks' \in 0..MaxSetbacks
  BY SearchAssumption DEF Setback

-----------------------------------------------------------------------------
(* One lemma per action.                                                   *)

LEMMA InitInv == Init => IInv
  <1> SUFFICES ASSUME Init PROVE IInv
    OBVIOUS
  <1>1. tasks \in [Tasks -> TaskRow]
    <2>1. NoRow \in TaskRow
      BY DEF NoRow, TaskRow, TaskStates
    <2> QED BY <2>1 DEF Init
  <1>2. /\ batches \in [Batches -> BatchRow]
        /\ \A b \in Batches : batches[b].state = "none" /\ ~batches[b].cancel
    BY DEF Init, BatchRow, TaskStates
  <1>3. /\ sessions \in [Tasks -> None..MaxPages]
        /\ \A t \in Tasks : sessions[t] = None
    BY SearchAssumption DEF Init, None
  <1>4. \A t \in Tasks : tasks[t].state = "none" /\ ~tasks[t].cancel /\ tasks[t].token = 0
    BY DEF Init, NoRow
  <1>5. Tables(tasks, batches, sessions)
    <2>1. Tell(batches, tasks)
      BY <1>2 DEF Tell
    <2>2. Single(tasks) /\ RowsOK(tasks) /\ Reach(batches, tasks) /\ Live(tasks, sessions)
      BY <1>3, <1>4 DEF Single, RowsOK, Reach, Live, Active
    <2>3. Made(batches, tasks)
      BY <1>2, <1>4, TaskPair DEF Made
    <2> QED BY <1>1, <1>2, <1>3, <2>1, <2>2, <2>3 DEF Tables
  <1>6. /\ worker \in [Processes -> Consumer]
        /\ \A p \in Processes : worker[p].pc = "idle"
    BY SearchAssumption DEF Init, Idle, Consumer, None
  <1>7. stopping \subseteq Processes /\ setbacks \in 0..MaxSetbacks
    BY SearchAssumption DEF Init
  <1> QED BY <1>5, <1>6, <1>7 DEF IInv, Apart, HoldersAreCurrent

\* A step that leaves the tables alone.
LEMMA QuietStep ==
  ASSUME IInv, NEW p \in Processes, NEW c \in Consumer,
         worker' = [worker EXCEPT ![p] = c],
         UNCHANGED <<tasks, batches, sessions>>,
         stopping' \subseteq Processes, setbacks' \in 0..MaxSetbacks,
         \/ c.pc = "idle"
         \/ /\ worker[p].pc # "idle"
            /\ c.task = worker[p].task /\ c.token = worker[p].token,
         c.pc = "searching" => c.seen = sessions[c.task]
  PROVE  IInv'
  <1>1. Tables(tasks', batches', sessions')
    BY DEF IInv
  <1> QED BY <1>1, ConsumerStep

LEMMA IdleConsumer == Idle \in Consumer
  BY SearchAssumption DEF Idle, Consumer, None

\* What a consumer becomes when it decides.
Deciding(p, verdict) ==
  [Idle EXCEPT !.pc = "settling", !.task = worker[p].task,
               !.token = worker[p].token, !.verdict = verdict]

LEMMA DecidingConsumer ==
  ASSUME worker \in [Processes -> Consumer], NEW p \in Processes,
         NEW verdict \in Ended \union {"release", "defer"}
  PROVE  /\ Deciding(p, verdict) \in Consumer
         /\ Deciding(p, verdict).pc = "settling"
         /\ Deciding(p, verdict).task = worker[p].task
         /\ Deciding(p, verdict).token = worker[p].token
  <1>1. worker[p] \in Consumer
    OBVIOUS
  <1>2. worker[p].task \in Tasks \union {NoTask} /\ worker[p].token \in Tokens \union {0}
    BY <1>1 DEF Consumer
  <1> QED BY <1>2, IdleConsumer DEF Deciding, Consumer

LEMMA DecideStep ==
  ASSUME setbacks \in 0..MaxSetbacks, NEW p, NEW verdict, Decide(p, verdict)
  PROVE  /\ worker' = [worker EXCEPT ![p] = Deciding(p, verdict)]
         /\ setbacks' \in 0..MaxSetbacks
  BY SetbackBounds DEF Decide, Deciding

LEMMA DeclineInv ==
  ASSUME IInv, NEW p \in Processes, Decline(p)
  PROVE  IInv'
  <1>1. PICK verdict \in Ended \union {"release", "defer"} : Decide(p, verdict)
    BY DEF Decline, Ended
  <1>2. worker \in [Processes -> Consumer] /\ setbacks \in 0..MaxSetbacks
        /\ stopping \subseteq Processes
    BY DEF IInv
  <1>3. UNCHANGED <<tasks, batches, sessions, stopping>> /\ worker[p].pc = "claimed"
    BY DEF Decline
  <1> QED BY <1>1, <1>2, <1>3, DecideStep, DecidingConsumer, QuietStep

LEMMA BeginInv ==
  ASSUME IInv, NEW p \in Processes, Begin(p)
  PROVE  IInv'
  <1> DEFINE c == [worker[p] EXCEPT !.pc = "searching", !.seen = sessions[worker[p].task]]
  <1>1. worker[p] \in Consumer /\ worker \in [Processes -> Consumer]
        /\ worker[p].pc = "claimed" /\ worker[p].task \in Tasks
    BY DEF IInv, Apart, Begin
  <1>2. sessions[worker[p].task] \in None..MaxPages
    BY <1>1 DEF IInv, Tables
  <1>3. c \in Consumer /\ c.pc = "searching" /\ c.task = worker[p].task
        /\ c.token = worker[p].token /\ c.seen = sessions[worker[p].task]
    BY <1>1, <1>2 DEF Consumer
  <1>4. worker' = [worker EXCEPT ![p] = c]
    BY <1>1 DEF Begin
  <1>5. UNCHANGED <<tasks, batches, sessions, stopping, setbacks>>
    BY DEF Begin
  <1>6. stopping \subseteq Processes /\ setbacks \in 0..MaxSetbacks
    BY DEF IInv
  <1> HIDE DEF c
  <1> QED BY <1>1, <1>3, <1>4, <1>5, <1>6, QuietStep

LEMMA CrashInv ==
  ASSUME IInv, NEW p \in Processes, Crash(p)
  PROVE  IInv'
  <1>1. Idle.pc = "idle"
    BY DEF Idle
  <1>2. stopping' \subseteq Processes /\ setbacks' \in 0..MaxSetbacks
    BY SetbackBounds DEF Crash, IInv
  <1> QED BY <1>1, <1>2, IdleConsumer, QuietStep DEF Crash

LEMMA StopStartInv ==
  ASSUME IInv, NEW p \in Processes, Stop(p) \/ Start(p)
  PROVE  IInv'
  <1>1. stopping' \subseteq Processes /\ setbacks' \in 0..MaxSetbacks
    BY SetbackBounds DEF Stop, Start, IInv
  <1>2. UNCHANGED <<tasks, batches, sessions, worker>>
    BY DEF Stop, Start
  <1>3. Tables(tasks', batches', sessions')
    BY <1>2 DEF IInv
  <1> QED BY <1>1, <1>2, <1>3, TableStep

\* A checkpoint is written or deleted.
LEMMA SessionTables ==
  ASSUME IInv, NEW t \in Tasks, NEW v \in None..MaxPages,
         v # None => tasks[t].state \in Active
  PROVE  Tables(tasks, batches, [sessions EXCEPT ![t] = v])
  <1> DEFINE ss == [sessions EXCEPT ![t] = v]
  <1>1. sessions \in [Tasks -> None..MaxPages] /\ Live(tasks, sessions)
    BY DEF IInv, Tables
  <1>2. ss \in [Tasks -> None..MaxPages]
    BY <1>1
  <1>3. Live(tasks, ss)
    BY <1>1 DEF Live
  <1> QED BY <1>2, <1>3 DEF IInv, Tables

\* A consumer whose lease is still its own may write its checkpoint.
LEMMA HolderWrites ==
  ASSUME IInv, NEW p \in Processes, worker[p].pc = "searching",
         Held(worker[p].task, worker[p].token),
         NEW v \in None..MaxPages, NEW c \in Consumer,
         sessions' = [sessions EXCEPT ![worker[p].task] = v],
         worker' = [worker EXCEPT ![p] = c],
         UNCHANGED <<tasks, batches, stopping>>, setbacks' \in 0..MaxSetbacks,
         c.task = worker[p].task, c.token = worker[p].token,
         c.pc = "searching" => c.seen = v
  PROVE  IInv'
  <1> DEFINE t == worker[p].task
  <1>1. Apart /\ HoldersAreCurrent /\ sessions \in [Tasks -> None..MaxPages]
        /\ RowsOK(tasks) /\ stopping \subseteq Processes
    BY DEF IInv, Tables
  <1>2. t \in Tasks /\ worker[p].token # 0 /\ tasks[t].token = worker[p].token
    BY <1>1, TokensAreNat DEF Apart, Held
  <1>3. tasks[t].state \in Active
    BY <1>1, <1>2 DEF RowsOK, Active
  <1>4. Tables(tasks', batches', sessions')
    BY <1>2, <1>3, SessionTables
  <1>5. \A u \in Tasks : sessions'[u] = IF u = t THEN v ELSE sessions[u]
    BY <1>1, <1>2
  <1>6. \A q \in Processes \ {p} : worker[q].pc = "searching" =>
          /\ worker[q].task \in Tasks
          /\ worker[q].token # worker[p].token
    BY <1>1 DEF Apart
  <1>7. \A q \in Processes \ {p} : worker[q].pc = "searching" =>
           LET u == worker[q].task IN
           /\ tasks'[u].token = worker[q].token
           /\ ~tasks'[u].expired /\ ~tasks'[u].cancel
           => /\ tasks[u].token = worker[q].token
              /\ ~tasks[u].expired /\ ~tasks[u].cancel
              /\ sessions'[u] = sessions[u]
    BY <1>2, <1>5, <1>6
  <1>8. c.pc = "searching" => c.seen = sessions'[c.task]
    BY <1>2, <1>5
  <1> HIDE DEF t
  <1> QED BY <1>1, <1>4, <1>7, <1>8, ConsumerStep

\* What a consumer becomes when it has read a checkpoint.
LEMMA SeenConsumer ==
  ASSUME NEW c \in Consumer, NEW v \in None..MaxPages
  PROVE  /\ [c EXCEPT !.seen = v] \in Consumer
         /\ [c EXCEPT !.seen = v].task = c.task
         /\ [c EXCEPT !.seen = v].token = c.token
         /\ [c EXCEPT !.seen = v].seen = v
  BY DEF Consumer

LEMMA CheckpointInv ==
  ASSUME IInv, NEW p \in Processes, Checkpoint(p)
  PROVE  IInv'
  <1> DEFINE t == worker[p].task
             stored == Held(t, worker[p].token)
                       /\ (worker[p].seen = None \/ worker[p].seen = sessions[t])
  <1>1. /\ worker[p] \in Consumer /\ worker \in [Processes -> Consumer]
        /\ worker[p].pc = "searching" /\ t \in Tasks
        /\ sessions[t] < MaxPages /\ sessions[t] \in None..MaxPages
        /\ setbacks \in 0..MaxSetbacks /\ stopping \subseteq Processes
    BY DEF IInv, Tables, Apart, Checkpoint
  <1>2. UNCHANGED <<tasks, batches, stopping>>
    BY DEF Checkpoint
  <1>3. CASE stored /\ sessions' = [sessions EXCEPT ![t] = @ + 1]
             /\ worker' = [worker EXCEPT ![p].seen = sessions[t] + 1]
             /\ UNCHANGED setbacks
    <2> DEFINE v == sessions[t] + 1
               c == [worker[p] EXCEPT !.seen = v]
    <2>1. v \in None..MaxPages
      BY <1>1, SearchAssumption DEF None
    <2>2. c \in Consumer /\ c.task = t /\ c.token = worker[p].token
          /\ c.seen = v
      <3>1. v \in None..MaxPages => c \in Consumer /\ c.task = worker[p].task
                                   /\ c.token = worker[p].token /\ c.seen = v
        <4> HIDE DEF v
        <4> QED BY <1>1, SeenConsumer
      <3> QED BY <2>1, <3>1
    <2>3. worker' = [worker EXCEPT ![p] = c] /\ sessions' = [sessions EXCEPT ![t] = v]
      BY <1>1, <1>3
    <2> HIDE DEF v, c
    <2>4. /\ Held(worker[p].task, worker[p].token)
          /\ sessions' = [sessions EXCEPT ![worker[p].task] = v]
          /\ c.task = worker[p].task /\ setbacks' \in 0..MaxSetbacks
      BY <1>1, <1>3, <2>2, <2>3
    <2> QED
      BY ONLY IInv, p \in Processes, <1>1, <1>2, <2>1, <2>2, <2>3, <2>4, HolderWrites
  <1>4. CASE UNCHANGED sessions /\
             Decide(p, IF p \in stopping THEN "release"
                       ELSE IF CancelSeen(p) THEN "cancelled" ELSE "failed")
    <2>1. PICK verdict \in Ended \union {"release", "defer"} : Decide(p, verdict)
      BY <1>4 DEF Ended
    <2> QED BY <1>1, <1>2, <1>4, <2>1, DecideStep, DecidingConsumer, QuietStep
  <1> QED BY <1>3, <1>4 DEF Checkpoint

LEMMA ReturnInv ==
  ASSUME IInv, NEW p \in Processes, Return(p)
  PROVE  IInv'
  <1>1. /\ worker \in [Processes -> Consumer] /\ worker[p].pc = "searching"
        /\ setbacks \in 0..MaxSetbacks /\ stopping \subseteq Processes
    BY DEF IInv, Return
  <1>2. UNCHANGED <<tasks, batches, stopping>>
    BY DEF Return
  <1>3. PICK verdict \in Ended \union {"release", "defer"} : Decide(p, verdict)
    BY DEF Return, Ended
  <1>4. /\ worker' = [worker EXCEPT ![p] = Deciding(p, verdict)]
        /\ setbacks' \in 0..MaxSetbacks
        /\ Deciding(p, verdict) \in Consumer
        /\ Deciding(p, verdict).pc = "settling"
        /\ Deciding(p, verdict).task = worker[p].task
        /\ Deciding(p, verdict).token = worker[p].token
    BY <1>1, <1>3, DecideStep, DecidingConsumer
  <1>5. CASE UNCHANGED sessions
    BY <1>1, <1>2, <1>4, <1>5, QuietStep
  <1>6. CASE Held(worker[p].task, worker[p].token)
             /\ sessions' = [sessions EXCEPT ![worker[p].task] = None]
    <2>1. None \in None..MaxPages
      BY SearchAssumption DEF None
    <2> QED BY <1>1, <1>2, <1>4, <1>6, <2>1, HolderWrites
  <1> QED BY <1>5, <1>6 DEF Return

\* A row whose state, token and cancellation stay.
LEMMA RowStep ==
  ASSUME IInv, NEW t \in Tasks, NEW row \in TaskRow,
         row.state = tasks[t].state, row.token = tasks[t].token,
         row.cancel = tasks[t].cancel, tasks[t].expired => row.expired,
         tasks' = [tasks EXCEPT ![t] = row],
         UNCHANGED <<batches, sessions, worker, stopping>>, setbacks' \in 0..MaxSetbacks
  PROVE  IInv'
  <1>1. /\ tasks \in [Tasks -> TaskRow] /\ stopping \subseteq Processes
        /\ Tell(batches, tasks) /\ Single(tasks) /\ Made(batches, tasks)
        /\ RowsOK(tasks) /\ Reach(batches, tasks) /\ Live(tasks, sessions)
    BY DEF IInv, Tables
  <1>2. tasks' \in [Tasks -> TaskRow]
    BY <1>1
  <1>3. \A u \in Tasks : /\ tasks'[u].state = tasks[u].state
                         /\ tasks'[u].token = tasks[u].token
                         /\ tasks'[u].cancel = tasks[u].cancel
                         /\ tasks[u].expired => tasks'[u].expired
    BY <1>1
  <1>4. Tell(batches, tasks')
    <2>1. ASSUME NEW b \in Batches
          PROVE  Aggregate(b, tasks', batches[b].cancel) = Aggregate(b, tasks, batches[b].cancel)
      <3>1. \A u \in Tasks : u[1] = b => tasks'[u].state = tasks[u].state
        BY <1>3
      <3> QED BY ONLY <2>1, <3>1, AggregateSame
    <2> QED BY <1>1, <2>1 DEF Tell
  <1>5. Single(tasks') /\ Made(batches, tasks') /\ RowsOK(tasks')
        /\ Reach(batches, tasks') /\ Live(tasks', sessions)
    BY <1>1, <1>3 DEF Single, Made, RowsOK, Reach, Live
  <1>6. Tables(tasks', batches', sessions')
    BY <1>2, <1>4, <1>5 DEF IInv, Tables
  <1> QED BY <1>1, <1>3, <1>6, TableStep

LEMMA DueInv ==
  ASSUME IInv, NEW t \in Tasks, Due(t)
  PROVE  IInv'
  <1> DEFINE row == [tasks[t] EXCEPT !.due = TRUE]
  <1>1. tasks[t] \in TaskRow /\ tasks \in [Tasks -> TaskRow] /\ setbacks \in 0..MaxSetbacks
    BY DEF IInv, Tables
  <1>2. /\ row \in TaskRow /\ row.state = tasks[t].state /\ row.token = tasks[t].token
        /\ row.cancel = tasks[t].cancel /\ row.expired = tasks[t].expired
    BY <1>1 DEF TaskRow
  <1>3. /\ tasks' = [tasks EXCEPT ![t] = row]
        /\ UNCHANGED <<batches, sessions, worker, stopping, setbacks>>
    BY <1>1 DEF Due
  <1> HIDE DEF row
  <1> QED BY <1>1, <1>2, <1>3, RowStep

LEMMA LeaseExpiresInv ==
  ASSUME IInv, NEW t \in Tasks, LeaseExpires(t)
  PROVE  IInv'
  <1> DEFINE row == [tasks[t] EXCEPT !.expired = TRUE]
  <1>1. tasks[t] \in TaskRow /\ tasks \in [Tasks -> TaskRow] /\ setbacks \in 0..MaxSetbacks
    BY DEF IInv, Tables
  <1>2. /\ row \in TaskRow /\ row.state = tasks[t].state /\ row.token = tasks[t].token
        /\ row.cancel = tasks[t].cancel /\ row.expired
    BY <1>1 DEF TaskRow
  <1>3. /\ tasks' = [tasks EXCEPT ![t] = row]
        /\ UNCHANGED <<batches, sessions, worker, stopping>>
    BY <1>1 DEF LeaseExpires
  <1>4. setbacks' \in 0..MaxSetbacks
    BY <1>1, SetbackBounds DEF LeaseExpires
  <1> HIDE DEF row
  <1> QED BY <1>1, <1>2, <1>3, <1>4, RowStep

\* The table rows is the table of tasks with the claim of t settled as row.
SettledAs(rows, t, token, row) ==
  /\ rows = [tasks EXCEPT ![t] = row]
  /\ tasks[t].state = "running" /\ tasks[t].token = token
  /\ row.token = 0 /\ row.cancel = tasks[t].cancel
  /\ row.state \in Ended \union {"queued"}
  /\ row.state = "queued" => ~row.cancel /\ ~batches[t[1]].cancel

\* The row a settlement leaves.
LEMMA SettledRow ==
  ASSUME IInv, NEW t \in Tasks, NEW token, NEW verdict,
         Settled(t, token, verdict) # tasks
  PROVE  \E row \in TaskRow : SettledAs(Settled(t, token, verdict), t, token, row)
  <1> DEFINE old == tasks[t]
             held == ~old.cancel /\ ~batches[t[1]].cancel
             row == IF verdict \in Ended THEN Over(old, verdict)
                    ELSE IF ~held THEN Over(old, "cancelled")
                    ELSE IF verdict = "release" THEN Over(old, "queued")
                    ELSE [Over(old, "queued") EXCEPT !.due = FALSE]
  <1>1. old \in TaskRow /\ tasks \in [Tasks -> TaskRow]
    BY DEF IInv, Tables
  <1>2. old.state = "running" /\ old.token = token
        /\ Settled(t, token, verdict) = [tasks EXCEPT ![t] = row]
    BY <1>1 DEF Settled
  <1>3. /\ row \in TaskRow /\ row.token = 0 /\ row.cancel = old.cancel
        /\ row.state \in Ended \union {"queued"}
        /\ row.state = "queued" => held
    <2> HIDE DEF old, held
    <2>1. CASE verdict \in Ended
      <3>1. verdict \in TaskStates /\ verdict # "queued"
        BY <2>1 DEF TaskStates, Ended
      <3> QED BY <1>1, <2>1, <3>1, OverRow
    <2>2. CASE verdict \notin Ended /\ ~held
      <3>1. "cancelled" \in TaskStates /\ "cancelled" \in Ended
        BY DEF TaskStates, Ended
      <3> QED BY <1>1, <2>2, <3>1, OverRow
    <2>3. CASE verdict \notin Ended /\ held
      <3>1. "queued" \in TaskStates
        BY DEF TaskStates, Active
      <3>2. /\ Over(old, "queued") \in TaskRow
            /\ Over(old, "queued").state = "queued"
            /\ Over(old, "queued").token = 0
            /\ Over(old, "queued").cancel = old.cancel
        BY <1>1, <3>1, OverRow
      <3>3. CASE verdict = "release"
        BY <2>3, <3>2, <3>3
      <3>4. CASE verdict # "release"
        <4>1. row = [Over(old, "queued") EXCEPT !.due = FALSE]
          BY <2>3, <3>4
        <4> HIDE DEF row
        <4> QED BY <2>3, <3>2, <4>1 DEF TaskRow
      <3> QED BY <3>3, <3>4
    <2> QED BY <2>1, <2>2, <2>3
  <1> HIDE DEF row
  <1> QED BY <1>2, <1>3 DEF SettledAs

LEMMA SettleTables ==
  ASSUME IInv, NEW t \in Tasks, NEW row \in TaskRow, NEW rows, NEW ss,
         rows = [tasks EXCEPT ![t] = row],
         tasks[t].state = "running",
         row.token = 0, row.cancel = tasks[t].cancel,
         row.state \in Ended \union {"queued"},
         row.state = "queued" => ~row.cancel /\ ~batches[t[1]].cancel,
         ss = IF rows[t].state \in Ended THEN [sessions EXCEPT ![t] = None] ELSE sessions
  PROVE  Tables(rows, Refresh(batches, rows, {t[1]}), ss)
  <1> DEFINE bs == Refresh(batches, rows, {t[1]})
  <1>1. /\ tasks \in [Tasks -> TaskRow] /\ sessions \in [Tasks -> None..MaxPages]
        /\ batches \in [Batches -> BatchRow]
        /\ Tell(batches, tasks) /\ Single(tasks) /\ Made(batches, tasks)
        /\ RowsOK(tasks) /\ Reach(batches, tasks) /\ Live(tasks, sessions)
    BY DEF IInv, Tables
  <1>2. rows \in [Tasks -> TaskRow] /\ rows[t] = row
        /\ \A u \in Tasks : u # t => rows[u] = tasks[u]
    BY <1>1
  <1>3. \A u \in Tasks : u[1] \notin {t[1]} => rows[u].state = tasks[u].state
    BY <1>2
  <1>4. /\ Tell(bs, rows) /\ bs \in [Batches -> BatchRow]
        /\ \A b \in Batches : /\ bs[b].cancel = batches[b].cancel
                              /\ b \notin {t[1]} => bs[b] = batches[b]
                              /\ b \in {t[1]} => bs[b].state # "none"
    BY ONLY <1>1, <1>3, RefreshTells
  <1> HIDE DEF bs
  <1>5. Single(rows)
    BY <1>1, <1>2 DEF Single, Active, Ended
  <1>6. Made(bs, rows)
    BY <1>1, <1>2, <1>4, TaskPair DEF Made
  <1>7. RowsOK(rows)
    BY <1>1, <1>2 DEF RowsOK, Ended
  <1>8. Reach(bs, rows)
    BY <1>1, <1>2, <1>4, TaskPair DEF Reach, Active, Ended
  <1>9. ss \in [Tasks -> None..MaxPages]
    BY <1>1, SearchAssumption DEF None
  <1>10. Live(rows, ss)
    <2>1. CASE rows[t].state \in Ended
      BY <2>1, <1>1, <1>2 DEF Live
    <2>2. CASE rows[t].state \notin Ended
      BY <2>2, <1>1, <1>2 DEF Live, Active
    <2> QED BY <2>1, <2>2
  <1> QED BY <1>2, <1>4, <1>5, <1>6, <1>7, <1>8, <1>9, <1>10 DEF Tables, bs

LEMMA SettleInv ==
  ASSUME IInv, NEW p \in Processes, Settle(p)
  PROVE  IInv'
  <1> DEFINE t == worker[p].task
             rows == Settled(t, worker[p].token, worker[p].verdict)
  <1>1. /\ worker[p].pc = "settling" /\ worker' = [worker EXCEPT ![p] = Idle]
        /\ tasks' = rows
        /\ batches' = IF rows = tasks THEN batches ELSE Refresh(batches, rows, {t[1]})
        /\ sessions' = IF rows # tasks /\ rows[t].state \in Ended
                       THEN [sessions EXCEPT ![t] = None] ELSE sessions
        /\ UNCHANGED <<stopping, setbacks>>
    BY DEF Settle
  <1>2. /\ t \in Tasks /\ stopping \subseteq Processes /\ setbacks \in 0..MaxSetbacks
        /\ tasks \in [Tasks -> TaskRow] /\ sessions \in [Tasks -> None..MaxPages]
    BY <1>1 DEF IInv, Apart, Tables
  <1>3. Idle \in Consumer /\ Idle.pc = "idle"
    BY IdleConsumer DEF Idle
  <1> HIDE DEF rows
  <1>4. CASE rows = tasks
    BY <1>1, <1>2, <1>3, <1>4, QuietStep
  <1>5. CASE rows # tasks
    <2>1. PICK row \in TaskRow :
            /\ rows = [tasks EXCEPT ![t] = row]
            /\ tasks[t].state = "running" /\ tasks[t].token = worker[p].token
            /\ row.token = 0 /\ row.cancel = tasks[t].cancel
            /\ row.state \in Ended \union {"queued"}
            /\ row.state = "queued" => ~row.cancel /\ ~batches[t[1]].cancel
      <3>1. t \in Tasks /\ Settled(t, worker[p].token, worker[p].verdict) # tasks
        BY <1>2, <1>5 DEF rows
      <3> HIDE DEF t, rows
      <3>2. PICK row \in TaskRow :
              SettledAs(Settled(t, worker[p].token, worker[p].verdict), t, worker[p].token, row)
        BY ONLY IInv, <3>1, SettledRow
      <3> QED BY <3>2 DEF SettledAs, rows
    <2>2. Tables(tasks', batches', sessions')
      BY <1>1, <1>2, <1>5, <2>1, SettleTables
    <2>3. \A u \in Tasks : u # t => tasks'[u] = tasks[u] /\ sessions'[u] = sessions[u]
      BY <1>1, <1>2, <2>1
    <2>4. tasks'[t].token = 0
      BY <1>1, <1>2, <2>1
    <2>5. \A q \in Processes \ {p} : worker[q].pc = "searching" =>
            worker[q].task \in Tasks /\ worker[q].token # 0
      BY TokensAreNat DEF IInv, Apart
    <2>6. \A q \in Processes \ {p} : worker[q].pc = "searching" =>
           LET u == worker[q].task IN
           /\ tasks'[u].token = worker[q].token
           /\ ~tasks'[u].expired /\ ~tasks'[u].cancel
           => /\ tasks[u].token = worker[q].token
              /\ ~tasks[u].expired /\ ~tasks[u].cancel
              /\ sessions'[u] = sessions[u]
      BY <2>3, <2>4, <2>5
    <2>7. Idle.pc # "searching" /\ stopping' \subseteq Processes
          /\ setbacks' \in 0..MaxSetbacks
      BY <1>1, <1>2, <1>3
    <2> QED BY <1>1, <1>3, <2>2, <2>6, <2>7, ConsumerStep
  <1> QED BY <1>4, <1>5

\* The rows a cancellation leaves.
CancelledRow(b, t) ==
  IF t[1] # b THEN tasks[t]
  ELSE CASE tasks[t].state = "queued" ->
              [Over(tasks[t], "cancelled") EXCEPT !.cancel = TRUE]
         [] tasks[t].state = "running" -> [tasks[t] EXCEPT !.cancel = TRUE]
         [] OTHER -> tasks[t]

LEMMA CancelRow ==
  ASSUME IInv, NEW b \in Batches, NEW t \in Tasks
  PROVE  /\ CancelledRow(b, t) \in TaskRow
         /\ t[1] # b => CancelledRow(b, t) = tasks[t]
         /\ \/ CancelledRow(b, t).state = tasks[t].state
            \/ tasks[t].state = "queued" /\ CancelledRow(b, t).state = "cancelled"
         /\ t[1] = b => /\ CancelledRow(b, t).state # "queued"
                        /\ CancelledRow(b, t).state = "running" => CancelledRow(b, t).cancel
         /\ CancelledRow(b, t).state = "none" => CancelledRow(b, t) = tasks[t]
         /\ CancelledRow(b, t).state = "running" <=> CancelledRow(b, t).token # 0
         /\ CancelledRow(b, t).token # 0 /\ ~CancelledRow(b, t).cancel
              => CancelledRow(b, t) = tasks[t] /\ t[1] # b
  <1>0. CancelledRow(b, t) = IF t[1] # b THEN tasks[t]
               ELSE CASE tasks[t].state = "queued" ->
                           [Over(tasks[t], "cancelled") EXCEPT !.cancel = TRUE]
                      [] tasks[t].state = "running" -> [tasks[t] EXCEPT !.cancel = TRUE]
                      [] OTHER -> tasks[t]
    BY DEF CancelledRow
  <1>1. tasks[t] \in TaskRow /\ (tasks[t].state = "running" <=> tasks[t].token # 0)
    BY DEF IInv, Tables, RowsOK
  <1>2. CASE t[1] # b
    BY <1>0, <1>1, <1>2
  <1>3. CASE t[1] = b /\ tasks[t].state = "queued"
    <2> DEFINE over == Over(tasks[t], "cancelled")
    <2>1. "cancelled" \in TaskStates
      BY DEF TaskStates, Ended
    <2>2. over \in TaskRow /\ over.state = "cancelled" /\ over.token = 0
      BY <1>1, <2>1, OverRow
    <2>3. CancelledRow(b, t) = [over EXCEPT !.cancel = TRUE]
      BY <1>0, <1>3
    <2> HIDE DEF over
    <2>4. /\ CancelledRow(b, t) \in TaskRow
          /\ CancelledRow(b, t).state = "cancelled" /\ CancelledRow(b, t).token = 0
      BY <2>2, <2>3 DEF TaskRow
    <2> QED BY <1>3, <2>4
  <1>4. CASE t[1] = b /\ tasks[t].state = "running"
    <2>1. CancelledRow(b, t) = [tasks[t] EXCEPT !.cancel = TRUE]
      BY <1>0, <1>4
    <2>2. /\ CancelledRow(b, t) \in TaskRow
          /\ CancelledRow(b, t).state = "running" /\ CancelledRow(b, t).cancel
          /\ CancelledRow(b, t).token = tasks[t].token
      BY <1>1, <1>4, <2>1 DEF TaskRow
    <2> QED BY <1>1, <1>4, <2>2
  <1>5. CASE t[1] = b /\ tasks[t].state \notin {"queued", "running"}
    BY <1>0, <1>1, <1>5
  <1> QED BY <1>2, <1>3, <1>4, <1>5

LEMMA RequestCancelInv ==
  ASSUME IInv, NEW b \in Batches, RequestCancel(b)
  PROVE  IInv'
  <1> DEFINE bs == [batches EXCEPT ![b].cancel = TRUE]
  <1>1. /\ tasks \in [Tasks -> TaskRow] /\ sessions \in [Tasks -> None..MaxPages]
        /\ batches \in [Batches -> BatchRow]
        /\ Tell(batches, tasks) /\ Single(tasks) /\ Made(batches, tasks)
        /\ RowsOK(tasks) /\ Reach(batches, tasks) /\ Live(tasks, sessions)
        /\ stopping \subseteq Processes /\ setbacks \in 0..MaxSetbacks
    BY DEF IInv, Tables
  <1>2. /\ batches' = Refresh(bs, tasks', {b}) /\ batches[b].state # "none"
        /\ sessions' = [t \in Tasks |-> IF t[1] = b /\ tasks'[t].state = "cancelled"
                                        THEN None ELSE sessions[t]]
        /\ UNCHANGED <<worker, stopping, setbacks>>
    BY DEF RequestCancel
  <1>3. \A t \in Tasks :
         /\ tasks'[t] \in TaskRow
         /\ t[1] # b => tasks'[t] = tasks[t]
         /\ tasks'[t].state = tasks[t].state
              \/ (tasks[t].state = "queued" /\ tasks'[t].state = "cancelled")
         /\ t[1] = b => tasks'[t].state # "queued"
                        /\ (tasks'[t].state = "running" => tasks'[t].cancel)
         /\ tasks'[t].state = "none" => tasks'[t] = tasks[t]
         /\ tasks'[t].state = "running" <=> tasks'[t].token # 0
         /\ tasks'[t].token # 0 /\ ~tasks'[t].cancel => tasks'[t] = tasks[t] /\ t[1] # b
    <2> TAKE t \in Tasks
    <2>1. tasks'[t] = CancelledRow(b, t)
      BY DEF RequestCancel, CancelledRow
    <2> QED BY <2>1, CancelRow
  <1>4. tasks' \in [Tasks -> TaskRow]
    <2>1. tasks' = [t \in Tasks |-> tasks'[t]]
      BY DEF RequestCancel
    <2> QED BY <1>3, <2>1
  <1>5. /\ bs \in [Batches -> BatchRow] /\ bs[b].cancel /\ bs[b].state = batches[b].state
        /\ \A c \in Batches : c # b => bs[c] = batches[c]
    BY <1>1 DEF BatchRow
  <1>6. \A c \in Batches \ {b} : bs[c] = batches[c]
    BY <1>5
  <1>7. \A t \in Tasks : t[1] \notin {b} => tasks'[t].state = tasks[t].state
    BY <1>3
  <1> HIDE DEF bs
  <1>8. /\ Tell(batches', tasks') /\ batches' \in [Batches -> BatchRow]
        /\ \A c \in Batches : /\ batches'[c].cancel = bs[c].cancel
                              /\ c \notin {b} => batches'[c] = bs[c]
                              /\ c \in {b} => batches'[c].state # "none"
    BY ONLY <1>1, <1>2, <1>5, <1>6, <1>7, RefreshTells
  <1>9. Single(tasks')
    BY <1>1, <1>3 DEF Single, Active
  <1>10. Made(batches', tasks')
    BY <1>1, <1>3, <1>5, <1>8, TaskPair DEF Made
  <1>11. RowsOK(tasks')
    <2>1. \A t \in Tasks : tasks'[t].state = "none" => ~tasks'[t].cancel
      BY <1>1, <1>3 DEF RowsOK
    <2>2. \A t \in Tasks : tasks'[t].state = "queued" => ~tasks'[t].cancel
      BY <1>1, <1>3 DEF RowsOK
    <2> QED BY <1>3, <2>1, <2>2 DEF RowsOK
  <1>12. Reach(batches', tasks')
    BY <1>1, <1>3, <1>5, <1>8, TaskPair DEF Reach, Active
  <1>13. sessions' \in [Tasks -> None..MaxPages]
    BY <1>1, <1>2, SearchAssumption DEF None
  <1>14. Live(tasks', sessions')
    BY <1>1, <1>2, <1>3 DEF Live, Active
  <1>15. Tables(tasks', batches', sessions')
    BY <1>4, <1>8, <1>9, <1>10, <1>11, <1>12, <1>13, <1>14 DEF Tables
  <1> QED BY <1>1, <1>2, <1>3, <1>15, TableStep

\* A claim changes one row, which a batch that was not cancelled has.
LEMMA ClaimTables ==
  ASSUME IInv, NEW t \in Candidates, NEW k \in Tokens, NEW rows, NEW bs,
         rows = [Swept EXCEPT ![t].state = "running", ![t].token = k,
                              ![t].expired = FALSE],
         bs = [SweptBatches EXCEPT ![t[1]].state =
                 IF @ \in {"queued", "running"} THEN "running" ELSE @]
  PROVE  Tables(rows, bs, SweptSessions)
  <1> DEFINE b == t[1]
  <1>1. /\ Swept \in [Tasks -> TaskRow] /\ SweptBatches \in [Batches -> BatchRow]
        /\ SweptSessions \in [Tasks -> None..MaxPages]
        /\ Tell(SweptBatches, Swept) /\ Single(Swept) /\ Made(SweptBatches, Swept)
        /\ RowsOK(Swept) /\ Reach(SweptBatches, Swept) /\ Live(Swept, SweptSessions)
    BY SweepTables DEF Tables
  <1>2. t \in Tasks /\ b \in Batches /\ ~Swept[t].cancel
        /\ Swept[t].state \in Active
    BY TaskPair DEF Candidates, Claimable, Active
  <1>3. ~SweptBatches[b].cancel /\ SweptBatches[b].state # "none"
    BY <1>1, <1>2 DEF Reach, Made, Active
  <1>4. /\ rows[t] \in TaskRow /\ rows[t].state = "running" /\ rows[t].token = k
        /\ rows[t].cancel = Swept[t].cancel
        /\ \A u \in Tasks : u # t => rows[u] = Swept[u]
    <2>1. Swept[t] \in TaskRow
      BY <1>1, <1>2
    <2>2. "running" \in TaskStates
      BY DEF TaskStates, Active
    <2>3. rows[t] = [Swept[t] EXCEPT !.state = "running", !.token = k, !.expired = FALSE]
      BY <1>1, <1>2
    <2> QED BY <1>1, <1>2, <2>1, <2>2, <2>3 DEF TaskRow
  <1>5. rows \in [Tasks -> TaskRow]
    BY <1>1, <1>2, <1>4
  <1>6. t \in {b} \X Subs
    BY <1>2, TaskPair
  <1>7. SweptBatches[b].state \in {"queued", "running"}
    <2>1. SweptBatches[b].state = Aggregate(b, Swept, FALSE)
      <3>1. SweptBatches[b].cancel = FALSE
        BY <1>1, <1>2, <1>3 DEF BatchRow
      <3> QED BY <1>1, <1>2, <1>3, <3>1 DEF Tell
    <2>2. ~(StatesOf(b, Swept) \subseteq Ended)
      BY <1>2, <1>6 DEF StatesOf, Active, Ended
    <2> QED BY <2>1, <2>2 DEF Aggregate
  <1>8. /\ bs \in [Batches -> BatchRow] /\ bs[b].state = "running"
        /\ \A a \in Batches : a # b => bs[a] = SweptBatches[a]
        /\ \A a \in Batches : bs[a].cancel = SweptBatches[a].cancel
    <2>1. SweptBatches[b] \in BatchRow
      BY <1>1, <1>2
    <2>2. bs[b] = [SweptBatches[b] EXCEPT !.state = "running"]
      BY <1>1, <1>2, <1>7
    <2>3. \A a \in Batches : a # b => bs[a] = SweptBatches[a]
      BY <1>1, <1>2
    <2>4. bs[b] \in BatchRow /\ bs[b].state = "running" /\ bs[b].cancel = SweptBatches[b].cancel
      BY <2>1, <2>2 DEF BatchRow, TaskStates, Active
    <2>5. bs \in [Batches -> BatchRow]
      BY <1>1, <1>2, <2>3, <2>4
    <2> QED BY <2>3, <2>4, <2>5
  <1> HIDE DEF b
  <1>9. Tell(bs, rows)
    <2> SUFFICES ASSUME NEW a \in Batches, bs[a].state # "none"
                 PROVE  bs[a].state = Aggregate(a, rows, bs[a].cancel)
      BY DEF Tell
    <2>1. CASE a = b
      <3>1. "running" \in StatesOf(b, rows)
        BY <1>4, <1>6 DEF StatesOf
      <3>2. Aggregate(b, rows, bs[b].cancel) = "running"
        <4>1. ~(StatesOf(b, rows) \subseteq Ended)
          BY <3>1 DEF Ended
        <4>2. bs[b].cancel = FALSE
          <5>1. bs[b] \in BatchRow
            BY <1>2, <1>8
          <5>2. bs[b].cancel \in BOOLEAN
            BY <5>1 DEF BatchRow
          <5>3. ~bs[b].cancel
            BY <1>2, <1>3, <1>8, Zenon
          <5> QED BY <5>2, <5>3
        <4> QED BY <3>1, <4>1, <4>2 DEF Aggregate
      <3> QED BY <1>8, <2>1, <3>2
    <2>2. CASE a # b
      <3>1. \A u \in Tasks : u[1] = a => rows[u].state = Swept[u].state
        BY <1>4, <2>2 DEF b
      <3>2. Aggregate(a, rows, bs[a].cancel) = Aggregate(a, Swept, bs[a].cancel)
        <4>1. a \in Batches
          OBVIOUS
        <4> QED BY ONLY <3>1, <4>1, AggregateSame
      <3>3. bs[a] = SweptBatches[a]
        BY <1>8, <2>2
      <3> QED BY <1>1, <3>2, <3>3 DEF Tell
    <2> QED BY <2>1, <2>2
  <1>10. Single(rows)
    BY <1>1, <1>2, <1>4 DEF Single
  <1>11. Made(bs, rows)
    <2>1. ASSUME NEW u \in Tasks, bs[u[1]].state = "none"
          PROVE  rows[u].state = "none"
      <3>1. u[1] \in Batches /\ u[1] # b
        BY <1>8, <2>1, TaskPair
      <3>2. u # t
        BY <3>1 DEF b
      <3> QED BY <1>1, <1>4, <1>8, <2>1, <3>1, <3>2 DEF Made
    <2>2. \A a \in Batches : bs[a].state = "none" => ~bs[a].cancel
      BY <1>1, <1>8 DEF Made
    <2> QED BY <2>1, <2>2 DEF Made
  <1>12. RowsOK(rows)
    BY <1>1, <1>4, TokensAreNat DEF RowsOK
  <1>13. Reach(bs, rows)
    <2>1. \A u \in Tasks : u[1] \in Batches
      BY TaskPair
    <2> QED BY <1>1, <1>2, <1>4, <1>8, <2>1 DEF Reach
  <1>14. Live(rows, SweptSessions)
    BY <1>1, <1>4 DEF Live, Active
  <1> QED BY <1>1, <1>5, <1>8, <1>9, <1>10, <1>11, <1>12, <1>13, <1>14 DEF Tables

LEMMA ClaimInv ==
  ASSUME IInv, NEW p \in Processes, Claim(p)
  PROVE  IInv'
  <1>1. sessions' = SweptSessions /\ UNCHANGED <<stopping, setbacks>>
        /\ stopping \subseteq Processes /\ setbacks \in 0..MaxSetbacks
    BY DEF Claim, IInv
  <1>2. CASE tasks' = Swept /\ batches' = SweptBatches /\ UNCHANGED worker
    <2>1. Tables(tasks', batches', sessions')
      BY <1>1, <1>2, SweepTables
    <2>2. \A t \in Tasks : tasks'[t].token # 0 => tasks'[t] = tasks[t]
                                                  /\ sessions'[t] = sessions[t]
      BY <1>1, <1>2, SweepRows
    <2> QED BY <1>1, <1>2, <2>1, <2>2, TableStep
  <1>3. ASSUME NEW t \in FirstCandidates, NEW k \in Tokens, NewToken(k),
               tasks' = [Swept EXCEPT ![t].state = "running", ![t].token = k,
                                      ![t].expired = FALSE],
               batches' = [SweptBatches EXCEPT ![t[1]].state =
                             IF @ \in {"queued", "running"} THEN "running" ELSE @],
               worker' = [worker EXCEPT ![p] =
                 [Idle EXCEPT !.pc = "claimed", !.task = t, !.token = k,
                              !.manual = tasks[t].manual]]
        PROVE  IInv'
    <2> DEFINE c == [Idle EXCEPT !.pc = "claimed", !.task = t, !.token = k,
                                 !.manual = tasks[t].manual]
    <2>1. t \in Candidates /\ t \in Tasks
      BY DEF FirstCandidates, Candidates
    <2>2. Tables(tasks', batches', sessions')
      BY <1>1, <1>3, <2>1, ClaimTables
    <2>3. tasks[t].manual \in BOOLEAN
      BY <2>1 DEF IInv, Tables, TaskRow
    <2>4. c \in Consumer /\ c.pc = "claimed" /\ c.task = t /\ c.token = k
      BY <2>1, <2>3, IdleConsumer DEF Consumer
    <2>5. \A q \in Processes : worker[q].token # k
      BY <1>3 DEF NewToken, Referred
    <2>6. Swept \in [Tasks -> TaskRow] /\ tasks'[t].token = k
          /\ \A u \in Tasks : u # t => tasks'[u] = Swept[u]
      BY <1>3, <2>1, SweepRows DEF TaskRow
    <2>7. \A u \in Tasks : u # t /\ tasks'[u].token # 0 =>
            tasks'[u] = tasks[u] /\ sessions'[u] = sessions[u]
      BY <1>1, <2>6, SweepRows
    <2>8. \A q \in Processes \ {p} : worker[q].pc = "searching" =>
            worker[q].task \in Tasks /\ worker[q].token # 0
      BY TokensAreNat DEF IInv, Apart
    <2>9. \A q \in Processes \ {p} : worker[q].pc = "searching" =>
           LET u == worker[q].task IN
           /\ tasks'[u].token = worker[q].token
           /\ ~tasks'[u].expired /\ ~tasks'[u].cancel
           => /\ tasks[u].token = worker[q].token
              /\ ~tasks[u].expired /\ ~tasks[u].cancel
              /\ sessions'[u] = sessions[u]
      BY <2>5, <2>6, <2>7, <2>8
    <2>10. worker' = [worker EXCEPT ![p] = c] /\ stopping' \subseteq Processes
           /\ setbacks' \in 0..MaxSetbacks
      BY <1>1, <1>3
    <2> HIDE DEF c
    <2> QED BY <2>1, <2>2, <2>4, <2>5, <2>9, <2>10, ConsumerStep
  <1> QED BY <1>2, <1>3 DEF Claim

\* The tasks a request makes, those it joins and the rows it leaves.
FreshTasks(b, S) == {t \in {b} \X S : Holding(t[2], Swept) = {}}
JoinedTasks(S) == UNION {Holding(s, Swept) : s \in S}
EnqueuedRow(b, S, manual, t) ==
  IF t \in FreshTasks(b, S)
  THEN [NoRow EXCEPT !.state = "queued", !.due = manual, !.manual = manual]
  ELSE IF t \in JoinedTasks(S)
  THEN [Swept[t] EXCEPT !.due = @ \/ manual, !.manual = @ \/ manual]
  ELSE Swept[t]

LEMMA EnqueueRow ==
  ASSUME IInv, NEW b \in Batches, NEW S \in SUBSET Subs, NEW manual \in BOOLEAN,
         NEW t \in Tasks
  PROVE  /\ EnqueuedRow(b, S, manual, t) \in TaskRow
         /\ t \in FreshTasks(b, S) =>
              /\ EnqueuedRow(b, S, manual, t).state = "queued"
              /\ EnqueuedRow(b, S, manual, t).token = 0
              /\ ~EnqueuedRow(b, S, manual, t).cancel
         /\ t \notin FreshTasks(b, S) =>
              /\ EnqueuedRow(b, S, manual, t).state = Swept[t].state
              /\ EnqueuedRow(b, S, manual, t).token = Swept[t].token
              /\ EnqueuedRow(b, S, manual, t).cancel = Swept[t].cancel
              /\ EnqueuedRow(b, S, manual, t).expired = Swept[t].expired
  <1>1. Swept[t] \in TaskRow
    BY SweepRows
  <1>2. CASE t \in FreshTasks(b, S)
    <2>1. EnqueuedRow(b, S, manual, t) =
            [NoRow EXCEPT !.state = "queued", !.due = manual, !.manual = manual]
      BY <1>2 DEF EnqueuedRow
    <2>2. "queued" \in TaskStates
      BY DEF TaskStates, Active
    <2>3. NoRow \in TaskRow /\ NoRow.token = 0 /\ ~NoRow.cancel
      BY DEF NoRow, TaskRow, TaskStates
    <2> QED BY <1>2, <2>1, <2>2, <2>3 DEF TaskRow
  <1>3. CASE t \notin FreshTasks(b, S) /\ t \in JoinedTasks(S)
    <2>1. EnqueuedRow(b, S, manual, t) =
            [Swept[t] EXCEPT !.due = @ \/ manual, !.manual = @ \/ manual]
      BY <1>3 DEF EnqueuedRow
    <2> QED BY <1>1, <1>3, <2>1 DEF TaskRow
  <1>4. CASE t \notin FreshTasks(b, S) /\ t \notin JoinedTasks(S)
    BY <1>1, <1>4 DEF EnqueuedRow
  <1> QED BY <1>2, <1>3, <1>4

LEMMA EnqueueInv ==
  ASSUME IInv, NEW b \in Batches, NEW manual \in BOOLEAN, NEW S \in Requests[b],
         Enqueue(b, S, manual)
  PROVE  IInv'
  <1> DEFINE fresh == FreshTasks(b, S)
  <1>1. /\ Swept \in [Tasks -> TaskRow] /\ SweptBatches \in [Batches -> BatchRow]
        /\ SweptSessions \in [Tasks -> None..MaxPages]
        /\ Tell(SweptBatches, Swept) /\ Single(Swept) /\ Made(SweptBatches, Swept)
        /\ RowsOK(Swept) /\ Reach(SweptBatches, Swept) /\ Live(Swept, SweptSessions)
    BY SweepTables DEF Tables
  <1>2. /\ batches[b].state = "none"
        /\ batches' = [SweptBatches EXCEPT
                         ![b].state = IF fresh = {} THEN "completed" ELSE "queued"]
        /\ sessions' = SweptSessions /\ UNCHANGED <<worker, stopping, setbacks>>
    BY DEF Enqueue, FreshTasks
  <1>3. S \in SUBSET Subs
    BY SearchAssumption DEF Batches
  <1>4. /\ tasks' = [t \in Tasks |-> tasks'[t]]
        /\ \A t \in Tasks : tasks'[t] = EnqueuedRow(b, S, manual, t)
    BY DEF Enqueue, EnqueuedRow, FreshTasks, JoinedTasks
  <1>5. \A t \in Tasks :
         /\ tasks'[t] \in TaskRow
         /\ t \in fresh => /\ tasks'[t].state = "queued" /\ tasks'[t].token = 0
                           /\ ~tasks'[t].cancel
         /\ t \notin fresh => /\ tasks'[t].state = Swept[t].state
                              /\ tasks'[t].token = Swept[t].token
                              /\ tasks'[t].cancel = Swept[t].cancel
                              /\ tasks'[t].expired = Swept[t].expired
    BY <1>3, <1>4, EnqueueRow
  <1>6. \A t \in fresh : t \in Tasks /\ t[1] = b /\ Holding(t[2], Swept) = {}
    BY <1>3 DEF FreshTasks, Tasks
  <1> HIDE DEF fresh
  <1>7. SweptBatches[b].state = "none" /\ SweptBatches[b].cancel = FALSE
        /\ SweptBatches[b] \in BatchRow
        /\ \A t \in Tasks : t[1] = b => Swept[t].state = "none"
    <2>1. SweptBatches[b].state = "none" /\ SweptBatches[b] \in BatchRow
      BY <1>1, <1>2, SweepTells
    <2>2. ~SweptBatches[b].cancel
      BY <1>1, <2>1 DEF Made
    <2>3. SweptBatches[b].cancel \in BOOLEAN
      BY <2>1 DEF BatchRow
    <2>4. \A t \in Tasks : t[1] = b => Swept[t].state = "none"
      BY <1>1, <2>1 DEF Made
    <2> QED BY <2>1, <2>2, <2>3, <2>4
  <1>8. tasks' \in [Tasks -> TaskRow]
    BY <1>4, <1>5
  <1>9. /\ batches' \in [Batches -> BatchRow] /\ batches'[b].cancel = FALSE
        /\ batches'[b].state = IF fresh = {} THEN "completed" ELSE "queued"
        /\ \A a \in Batches : a # b => batches'[a] = SweptBatches[a]
    <2> DEFINE state == IF fresh = {} THEN "completed" ELSE "queued"
    <2>1. batches'[b] = [SweptBatches[b] EXCEPT !.state = state]
      BY <1>1, <1>2
    <2>2. state \in TaskStates
      BY DEF TaskStates, Ended, Active
    <2> HIDE DEF state
    <2>3. batches'[b] \in BatchRow /\ batches'[b].state = state /\ batches'[b].cancel = FALSE
      BY <1>7, <2>1, <2>2 DEF BatchRow
    <2>4. \A a \in Batches : a # b => batches'[a] = SweptBatches[a]
      BY <1>1, <1>2
    <2>5. batches' = [a \in Batches |-> batches'[a]]
      BY <1>1, <1>2
    <2>6. batches' \in [Batches -> BatchRow]
      BY <1>1, <2>3, <2>4, <2>5
    <2> QED BY <2>3, <2>4, <2>6 DEF state
  <1>10. Tell(batches', tasks')
    <2> SUFFICES ASSUME NEW a \in Batches, batches'[a].state # "none"
                 PROVE  batches'[a].state = Aggregate(a, tasks', batches'[a].cancel)
      BY DEF Tell
    <2>1. CASE a # b
      <3>1. \A t \in Tasks : t[1] = a => tasks'[t].state = Swept[t].state
        BY <1>5, <1>6, <2>1
      <3>2. a \in Batches
        OBVIOUS
      <3>3. Aggregate(a, tasks', batches'[a].cancel) = Aggregate(a, Swept, batches'[a].cancel)
        BY ONLY <3>1, <3>2, AggregateSame
      <3> QED BY <1>1, <1>9, <2>1, <3>3 DEF Tell
    <2>2. CASE a = b /\ fresh = {}
      <3>1. \A t \in {b} \X Subs : tasks'[t].state = "none"
        BY <1>5, <1>7, <2>2, TaskOf
      <3>2. StatesOf(b, tasks') = {}
        BY <3>1 DEF StatesOf
      <3>3. Aggregate(b, tasks', FALSE) = "completed"
        BY <3>2 DEF Aggregate
      <3> QED BY <1>9, <2>2, <3>3
    <2>3. CASE a = b /\ fresh # {}
      <3>1. \A t \in {b} \X Subs : tasks'[t].state \in {"none", "queued"}
        BY <1>5, <1>7, TaskOf
      <3>2. PICK t \in fresh : TRUE
        BY <2>3
      <3>3. t \in {b} \X Subs /\ tasks'[t].state = "queued"
        BY <1>5, <1>6, <3>2, TaskPair
      <3>4. StatesOf(b, tasks') = {"queued"}
        BY <3>1, <3>3 DEF StatesOf
      <3>5. Aggregate(b, tasks', FALSE) = "queued"
        BY <3>4 DEF Aggregate, Ended
      <3> QED BY <1>9, <2>3, <3>5
    <2> QED BY <2>1, <2>2, <2>3
  <1>11. Single(tasks')
    <2> SUFFICES ASSUME NEW t \in Tasks, NEW u \in Tasks, t[2] = u[2],
                        tasks'[t].state \in Active, tasks'[u].state \in Active
                 PROVE  t = u
      BY DEF Single
    <2>1. CASE t \in fresh /\ u \in fresh
      BY <1>6, <2>1, TaskPair
    <2>2. CASE t \notin fresh /\ u \notin fresh
      BY <1>1, <1>5, <2>2 DEF Single
    <2>3. CASE t \in fresh /\ u \notin fresh
      <3>1. u \in Holding(t[2], Swept)
        BY <1>5, <2>3 DEF Holding
      <3> QED BY <1>6, <2>3, <3>1
    <2>4. CASE t \notin fresh /\ u \in fresh
      <3>1. t \in Holding(u[2], Swept)
        BY <1>5, <2>4 DEF Holding
      <3> QED BY <1>6, <2>4, <3>1
    <2> QED BY <2>1, <2>2, <2>3, <2>4
  <1>12. Made(batches', tasks')
    <2>1. \A a \in Batches : batches'[a].state = "none" =>
            a # b /\ batches'[a] = SweptBatches[a]
      BY <1>9
    <2>2. \A a \in Batches : batches'[a].state = "none" => ~batches'[a].cancel
      BY <1>1, <2>1 DEF Made
    <2>3. ASSUME NEW t \in Tasks, batches'[t[1]].state = "none"
          PROVE  tasks'[t].state = "none"
      <3>1. t[1] \in Batches /\ t \notin fresh
        BY <1>6, <2>1, <2>3, TaskPair
      <3> QED BY <1>1, <1>5, <2>1, <2>3, <3>1 DEF Made
    <2> QED BY <2>2, <2>3 DEF Made
  <1>13. RowsOK(tasks')
    <2> SUFFICES ASSUME NEW t \in Tasks
                 PROVE  /\ tasks'[t].state = "running" <=> tasks'[t].token # 0
                        /\ tasks'[t].state \in {"none", "queued"} => ~tasks'[t].cancel
      BY DEF RowsOK
    <2>1. CASE t \in fresh
      BY <1>5, <2>1
    <2>2. CASE t \notin fresh
      BY <1>1, <1>5, <2>2 DEF RowsOK
    <2> QED BY <2>1, <2>2
  <1>14. Reach(batches', tasks')
    <2> SUFFICES ASSUME NEW t \in Tasks, batches'[t[1]].cancel, tasks'[t].state \in Active
                 PROVE  tasks'[t].cancel
      BY DEF Reach
    <2>1. t[1] \in Batches /\ t[1] # b /\ t \notin fresh
      BY <1>6, <1>9, TaskPair
    <2> QED BY <1>1, <1>5, <1>9, <2>1 DEF Reach
  <1>15. Live(tasks', sessions')
    BY <1>1, <1>2, <1>5 DEF Live, Active
  <1>16. Tables(tasks', batches', sessions')
    BY <1>1, <1>2, <1>8, <1>9, <1>10, <1>11, <1>12, <1>13, <1>14, <1>15 DEF Tables
  <1>17. \A t \in Tasks : tasks'[t].token # 0 =>
           /\ tasks'[t].token = tasks[t].token /\ tasks'[t].cancel = tasks[t].cancel
           /\ tasks'[t].expired = tasks[t].expired /\ sessions'[t] = sessions[t]
    <2>1. \A t \in Tasks : Swept[t].token # 0 => t \notin Lapsed
      BY SweepRows
    <2>2. \A t \in Tasks : tasks'[t].token # 0 =>
            t \notin fresh /\ Swept[t] = tasks[t] /\ SweptSessions[t] = sessions[t]
      BY <1>5, <2>1, SweepRows
    <2> QED BY <1>2, <1>5, <2>2
  <1>18. stopping' \subseteq Processes /\ setbacks' \in 0..MaxSetbacks /\ worker' = worker
    BY <1>2 DEF IInv
  <1> QED BY <1>16, <1>17, <1>18, TableStep

-----------------------------------------------------------------------------
(* The theorem.                                                            *)

LEMMA NextInv == IInv /\ [Next]_vars => IInv'
  <1> SUFFICES ASSUME IInv, [Next]_vars PROVE IInv'
    OBVIOUS
  <1>1. ASSUME NEW b \in Batches, NEW manual \in BOOLEAN, NEW S \in Requests[b],
               Enqueue(b, S, manual)
        PROVE  IInv'
    BY <1>1, EnqueueInv
  <1>2. ASSUME NEW b \in Batches, RequestCancel(b)
        PROVE  IInv'
    BY <1>2, RequestCancelInv
  <1>3. ASSUME NEW p \in Processes,
               \/ Claim(p) \/ Decline(p) \/ Begin(p) \/ Checkpoint(p) \/ Return(p)
               \/ Settle(p) \/ Stop(p) \/ Start(p) \/ Crash(p)
        PROVE  IInv'
    BY <1>3, ClaimInv, DeclineInv, BeginInv, CheckpointInv, ReturnInv, SettleInv,
       StopStartInv, CrashInv
  <1>4. ASSUME NEW t \in Tasks, Due(t) \/ LeaseExpires(t)
        PROVE  IInv'
    BY <1>4, DueInv, LeaseExpiresInv
  <1>5. CASE UNCHANGED vars
    BY <1>5 DEF vars, IInv, Tables, Tell, Single, Made, RowsOK, Reach, Live, Apart,
       HoldersAreCurrent
  <1> QED BY <1>1, <1>2, <1>3, <1>4, <1>5 DEF Next

\* The queue is consistent whatever consumers, crashes, expired leases, late
\* workers and cancellations do to it: what claim_next, save, finish, release,
\* defer and request_cancel each write fits what the others have left.
THEOREM SearchQueueIsConsistent == Spec => []QueueIsConsistent
  <1>1. Init => IInv
    BY InitInv
  <1>2. IInv /\ [Next]_vars => IInv'
    BY NextInv
  <1>3. IInv => QueueIsConsistent
    BY Consistent
  <1> QED BY <1>1, <1>2, <1>3, PTL DEF Spec
===============================================================================
