------------------------ MODULE PluginInstallProofs ------------------------
(***************************************************************************)
(* Proofs about PluginInstall for every set of transactions and every      *)
(* bound.  The invariant says, for every point at which the process may    *)
(* die, what each store holds; it is split by what it speaks of.           *)
(***************************************************************************)
EXTENDS PluginInstall, TLAPS

\* The journal row waits for a rollback of its files.
Owed == row.phase = "prepared" /\ row.at.tx \notin marker

\* The steps of the transaction that the journal row belongs to.
Mine == row.phase # "none" /\ row.at.tx = t

Journaled == Forward \ {"checkpoint", "journal"}
\* The values of memory, and the steps by what has been done before them.
Modes     == {"none", "install", "fail", "bare", "replay"}
Flags     == {"journal", "host", "runtime", "failed", "again"}
Marked    == {"stage", "activate", "promote", "reload", "register", "commit"}
Promoted  == {"promote", "reload", "register", "commit"}
Restored  == {"runtime", "host", "registrations", "delete", "cleanup"}

\* A rollback of what has no journal row (any more): it may only put back
\* what it has itself moved.
Aloof == pc \in Rollback /\ mode \in {"bare", "fail"} /\ ~Mine

\* Which step serves what, and what memory knows of it.
Control ==
    /\ pc \in Forward => mode = "install"
    /\ pc \in Rollback => mode \in {"fail", "bare", "replay"}
    /\ pc \in Finish => mode \in {"install", "replay"}
    /\ pc \in {"verify", "consume"} => mode = "replay"
    /\ pc \in {"down", "replay", "leaving"} => mode = "none"
    /\ pc \in Forward \union Rollback \union Finish \union {"verify"} => t \in Tx
    /\ pc \in {"host", "registrations", "delete"} => mode # "bare"
    /\ mode = "replay" \/ pc \in {"checkpoint", "journal"} => did = {}
    /\ mode \in {"install", "fail"} /\ "runtime" \in did => "host" \in did
    /\ pc \in Marked => "host" \in did
    /\ pc \in Journaled => "journal" \in did
    /\ pc = "leaving" => spent["uninstalls"] # 0

\* The transactions that were begun, and the marker of a restoration.
Begun ==
    /\ marker \subseteq used
    /\ t # None => t \in used
    /\ row.phase # "none" => row.at.tx \in used
    /\ pc \in Restored => t \in marker
    /\ pc \in (Restore \ {"tree"}) \union Forward => t \notin marker

\* The run directory and its sibling at the steps of a swap.
Swap ==
    /\ reset => spent["resets"] # 0
    /\ spent["resets"] # 0 => docker
    /\ aside # None => pc \in {"publish", "place"}
    /\ pc \in {"checkpoint", "journal"} => (cp.existed <=> run # None)
    /\ pc = "journal" => snap[t] = run
    /\ pc \in Journaled \ {"swap", "publish"} => run = t
    /\ pc = "place" => run \in {None, Torn}
    /\ pc = "place" /\ run = Torn => aside # None
    /\ pc = "place" /\ cp.existed => HasSnapshot

\* The journal row and the transaction that is under way.
Journal ==
    /\ row.phase = "none" => row = NoRow
    /\ row.phase # "none" /\ row.at.tx = t => cp = row.at
    /\ pc \in {"checkpoint", "journal", "cleanup"} => row.at.tx # t
    /\ pc \in Journaled => row.phase = "prepared" /\ row.at.tx = t
    /\ pc \in Rollback /\ mode = "bare" => row.at.tx # t
    /\ pc \in Rollback /\ mode = "fail" =>
          row.phase = "none" \/ (row.phase = "prepared" /\ row.at.tx = t)
    /\ pc \in Rollback \ {"cleanup"} /\ mode = "replay" =>
          row.phase = "prepared" /\ row.at.tx = t
    /\ pc = "cleanup" /\ mode = "replay" => row.phase = "none"
    /\ pc \in Finish \union {"verify"} => row.phase = "committed" /\ row.at.tx = t

\* The identity row changes with the commit.
Identity ==
    /\ row.phase = "prepared" => identity = row.at.identity
    /\ row.phase = "committed" => identity = row.at.tx
    /\ pc \in {"checkpoint", "journal"} => cp.identity = identity

\* The host row: what is decided, and who has changed it.
Host ==
    spent["uninstalls"] = 0 =>
    /\ row.phase = "none" => enabled = want
    /\ row.phase = "prepared" => row.at.before = want
    /\ row.phase = "committed" => enabled /\ want
    /\ pc \in {"checkpoint", "journal"} => cp.before = enabled
    /\ pc \in Rollback /\ mode = "fail" => cp.before = want
    /\ (pc \in Journaled \/ (pc \in Rollback /\ mode = "fail")) /\ "host" \notin did
          => enabled = cp.before
    /\ pc \in Marked => enabled
    /\ pc \in {"registrations", "delete"} => enabled = cp.before

\* The material of a transaction that has not staged anything is not there.
Fresh ==
    /\ \A y \in Tx \ used : snap[y] = None /\ staging[y] = None /\ previous[y] = None
    /\ ~docker => backup = None /\ \A y \in Tx : staging[y] = None /\ previous[y] = None
    /\ (row.at.hadBackup \/ cp.hadBackup) => docker
    /\ pc \in {"checkpoint", "journal", "swap", "publish", "depend", "target", "mark", "stage"} =>
          previous[t] = None /\ staging[t] = None
    /\ pc = "activate" => previous[t] = None
    /\ pc \in Forward \ Promoted /\ cp.hadBackup => backup # None
    /\ pc \in Promoted /\ cp.hadBackup => previous[t] # None
    /\ Aloof => previous[t] = None /\ staging[t] = None
    /\ pc \in {"unstage", "seal"} => previous[t] = None
    /\ pc = "seal" => staging[t] = None
    /\ row.phase = "prepared" /\ row.at.tx \in marker =>
          previous[row.at.tx] = None /\ staging[row.at.tx] = None
    /\ Owed /\ row.at.existed => snap[row.at.tx] # None

\* The backup, as long as backup_plugins does not touch it.
Backup ==
    spent["backups"] = 0 =>
    /\ ~Owed /\ backup # None => backup = identity
    /\ Owed /\ ~row.at.hadBackup => previous[row.at.tx] = None
    /\ Owed /\ row.at.hadBackup =>
          IF previous[row.at.tx] # None THEN previous[row.at.tx] = identity
          ELSE (backup # None => backup = identity)
    /\ Owed /\ ~row.at.hadBackup /\ staging[row.at.tx] # None => backup = None
    /\ pc \in {"unstage", "seal"} /\ Mine /\ backup # None => backup = identity
    /\ pc \in {"unstage", "seal"} /\ Mine /\ ~cp.hadBackup => backup = None
    /\ (pc \in Forward \ Promoted \/ Aloof) /\ backup # None => cp.hadBackup
    /\ row.phase = "prepared" /\ row.at.tx \in marker /\ ~row.at.hadBackup => backup = None
    /\ pc \in {"activate", "promote"} /\ docker => staging[t] = t
    /\ pc = "promote" => backup = None
    /\ pc \in {"reload", "register", "commit"} /\ docker => backup = t /\ staging[t] = None

\* What a replay needs of the backup, as long as a container made anew does
\* not meet a fault.
Material ==
    /\ 0 \in {spent["resets"], spent["faults"]} =>
       /\ Owed /\ row.at.hadBackup => previous[row.at.tx] # None \/ backup # None
       /\ pc \in {"unstage", "seal"} /\ Mine /\ cp.hadBackup => backup # None
       /\ row.phase = "prepared" /\ row.at.tx \in marker /\ row.at.hadBackup => backup # None
       /\ row.phase = "committed" /\ docker /\ spent["backups"] = 0 =>
             backup = row.at.tx /\ staging[row.at.tx] = None
       /\ (pc \in {"checkpoint", "journal"} \/ Aloof) /\ row.phase = "prepared"
             /\ row.at.hadBackup /\ previous[row.at.tx] = None => cp.hadBackup
    /\ pc = "consume" /\ row.phase = "prepared" => spent["faults"] # 0
    /\ pc = "consume" /\ row.phase = "committed" /\ docker /\ spent["backups"] = 0
          => spent["faults"] # 0

\* What a directory that ought to hold a payload may be.
Holds(dir, p) == dir = p \/ (dir = Torn /\ Strayed(p))

\* The run directory.
Content ==
    Intact =>
    /\ ~Owed => Settled
    /\ row.phase = "prepared" /\ row.at.existed => Holds(snap[row.at.tx], identity)
    /\ Owed /\ ~row.at.existed => identity = None \/ Strayed(identity)
    /\ Aloof /\ cp.existed /\ snap[t] # None /\ ~Owed => Holds(snap[t], identity)
    /\ Aloof /\ ~cp.existed => run = None
    /\ pc = "place" /\ ~Owed => aside = None \/ Holds(aside, identity)
    /\ pc = "place" /\ ~Mine /\ ~cp.existed => aside = None
    /\ pc \in {"unback", "unstage", "seal"} /\ Mine => Settled
    /\ pc \in {"unback", "unstage", "seal"} /\ ~cp.existed => run = None
    /\ pc \in Rollback /\ mode = "fail" /\ ~Owed /\ ~cp.existed => run = None
    /\ pc \in Rollback /\ mode = "fail" /\ row.phase = "none" => t \in marker \/ snap[t] = None
    /\ row.phase = "committed" => run # Torn /\ aside # Torn
    /\ row.phase = "committed" /\ Aloof => snap[t] # Torn

\* The payload in memory.
Memory ==
    /\ (pc \in {"down"} \union Start \/ mode = "replay") => live = None
    /\ Intact =>
       /\ row.phase # "prepared" => LiveMatches
       /\ (pc \in Journaled \/ (pc \in Rollback /\ mode = "fail")) /\ "runtime" \notin did
             => LiveMatches
       /\ pc = "host" /\ mode = "fail" /\ cp.before /\ "failed" \notin did => LiveMatches
       /\ pc \in {"registrations", "delete"} => LiveMatches
       /\ pc \in {"register", "commit"} => live \in {None, t}

IInv == /\ TypeOK /\ Control /\ Begun /\ Swap /\ Journal /\ Identity /\ Host /\ Fresh
        /\ Backup /\ Material /\ Content /\ Memory
-----------------------------------------------------------------------------
(* What the bounds have used up only grows.                                *)

\* What is used up is seen in the next state, and what is not was not before.
Zeros(k) == spent'[k] = 0 => spent[k] = 0
Grows == /\ Intact' => Intact
         /\ Zeros("faults") /\ Zeros("backups") /\ Zeros("uninstalls") /\ Zeros("resets")
         /\ Fault => spent'["faults"] # 0
         /\ Spend("backups") => spent'["backups"] # 0
         /\ Spend("uninstalls") => spent'["uninstalls"] # 0
         /\ Spend("resets") => spent'["resets"] # 0
         /\ Spend("tears") => ~Intact'
         /\ spent'["resets"] # 0 => spent["resets"] # 0 \/ docker

\* One more of a kind is used up, and nothing of another.
LEMMA SpendCounts ==
    ASSUME TypeOK, NEW k \in Kinds, Spend(k)
    PROVE  /\ spent' \in [Kinds -> Nat] /\ \A j \in Kinds : spent'[j] <= Limit[j]
           /\ spent'[k] # 0
           /\ \A j \in Kinds : spent'[j] = 0 => spent[j] = 0
<1>1. spent \in [Kinds -> Nat] /\ \A j \in Kinds : spent[j] <= Limit[j]
  BY DEF TypeOK
<1>2. Limit \in [Kinds -> Nat]
  BY InstallAssumption DEF Limit, Kinds
<1>3. spent[k] < Limit[k] /\ spent' = [spent EXCEPT ![k] = spent[k] + 1]
  BY DEF Spend
<1> QED
  BY <1>1, <1>2, <1>3

\* A step spends something or nothing.
LEMMA NextSpends ==
    ASSUME Next
    PROVE  UNCHANGED spent \/ \E k \in Kinds : Spend(k) /\ (k = "resets" => docker)
<1> USE DEF Fault, Kinds, rest
<1>1. CASE \E x \in Tx : Begin(x)
  BY <1>1 DEF Begin
<1>2. CASE Checkpoint
  BY <1>2 DEF Checkpoint
<1>3. CASE CreateJournal
  BY <1>3 DEF CreateJournal
<1>4. CASE SwapMovesAside
  BY <1>4 DEF SwapMovesAside
<1>5. CASE SwapPublishes
  BY <1>5 DEF SwapPublishes
<1>6. CASE InstallDependencies
  BY <1>6 DEF InstallDependencies
<1>7. CASE SetTarget
  BY <1>7 DEF SetTarget
<1>8. CASE MarkLoadable
  BY <1>8 DEF MarkLoadable
<1>9. CASE StageBackup
  BY <1>9 DEF StageBackup
<1>10. CASE ActivateMovesAside
  BY <1>10 DEF ActivateMovesAside
<1>11. CASE ActivatePromotes
  BY <1>11 DEF ActivatePromotes
<1>12. CASE Reload
  BY <1>12 DEF Reload
<1>13. CASE Register
  BY <1>13 DEF Register
<1>14. CASE Commit
  BY <1>14 DEF Commit
<1>15. CASE Cancelled
  BY <1>15 DEF Cancelled
<1>16. CASE RestoreMovesAside
  BY <1>16 DEF RestoreMovesAside
<1>17. CASE RestorePlaces
  BY <1>17 DEF RestorePlaces
<1>18. CASE RestoreBackup
  BY <1>18 DEF RestoreBackup
<1>19. CASE RestoreUnstages
  BY <1>19 DEF RestoreUnstages
<1>20. CASE RestoreSeals
  BY <1>20 DEF RestoreSeals
<1>21. CASE RestoreRuntime
  BY <1>21 DEF RestoreRuntime
<1>22. CASE RestoreHost
  BY <1>22 DEF RestoreHost
<1>23. CASE RestoreRegistrations
  BY <1>23 DEF RestoreRegistrations
<1>24. CASE DeleteJournal
  BY <1>24 DEF DeleteJournal
<1>25. CASE Cleanup
  BY <1>25 DEF Cleanup
<1>26. CASE CancelledAgain
  BY <1>26 DEF CancelledAgain
<1>27. CASE Finalize
  BY <1>27 DEF Finalize
<1>28. CASE DropMaterial
  BY <1>28 DEF DropMaterial
<1>29. CASE CloseJournal
  BY <1>29 DEF CloseJournal
<1>30. CASE Replay
  BY <1>30 DEF Replay
<1>31. CASE VerifyCommitted
  BY <1>31 DEF VerifyCommitted
<1>32. CASE Consume
  BY <1>32 DEF Consume
<1>33. CASE UninstallLeavesList
  BY <1>33 DEF UninstallLeavesList
<1>34. CASE UninstallDisables
  BY <1>34 DEF UninstallDisables
<1>35. CASE BackupPlugins
  BY <1>35 DEF BackupPlugins
<1>36. CASE Stop
  BY <1>36 DEF Stop
<1>37. CASE Crash
  BY <1>37 DEF Crash
<1>38. CASE NewContainer
  BY <1>38 DEF NewContainer
<1>39. CASE Restart
  BY <1>39 DEF Restart
<1> QED
  BY <1>1, <1>2, <1>3, <1>4, <1>5, <1>6, <1>7, <1>8, <1>9, <1>10, <1>11, <1>12, <1>13, <1>14,
     <1>15, <1>16, <1>17, <1>18, <1>19, <1>20, <1>21, <1>22, <1>23, <1>24, <1>25, <1>26,
     <1>27, <1>28, <1>29, <1>30, <1>31, <1>32, <1>33, <1>34, <1>35, <1>36, <1>37, <1>38, <1>39
     DEF Next, Advance, Environment

\* What is used up stays used up, so a guard of a property never holds again.
LEMMA NextGrows ==
    ASSUME TypeOK, Next
    PROVE  Grows
<1>1. {"faults", "backups", "uninstalls", "resets", "tears"} \subseteq Kinds
  BY DEF Kinds
<1>2. \A k \in Kinds : Zeros(k)
  BY NextSpends, SpendCounts DEF Zeros
<1>3. \A k \in Kinds : Spend(k) => spent'[k] # 0
  BY SpendCounts
<1>4. spent'["resets"] # 0 => spent["resets"] # 0 \/ docker
  BY <1>1, NextSpends DEF Spend, TypeOK
<1> QED
  BY <1>1, <1>2, <1>3, <1>4 DEF Grows, Intact, Fault, Zeros

\* No bound is overrun.
LEMMA NextSpent ==
    ASSUME TypeOK, Next
    PROVE  spent' \in [Kinds -> Nat] /\ \A k \in Kinds : spent'[k] <= Limit[k]
<1>1. spent \in [Kinds -> Nat] /\ \A k \in Kinds : spent[k] <= Limit[k]
  BY DEF TypeOK
<1> QED
  BY <1>1, NextSpends, SpendCounts
-----------------------------------------------------------------------------
(* The types                                                               *)

\* The checkpoint of nothing, and the row that is not there.
LEMMA NothingTyped ==
    /\ NoCheckpoint \in Checkpoints /\ NoCheckpoint.tx = None /\ None \notin Payloads
    /\ NoRow \in [phase : {"none", "prepared", "committed"}, at : Checkpoints]
BY InstallAssumption DEF NoCheckpoint, NoRow, Checkpoints

\* A process that starts for the first time.
LEMMA InitTyping ==
    ASSUME Init
    PROVE  TypeOK
<1>1. spent = [k \in Kinds |-> 0] /\ Limit \in [Kinds -> Nat]
  BY InstallAssumption DEF Init, Limit, Kinds
<1>2. spent \in [Kinds -> Nat] /\ \A k \in Kinds : spent[k] <= Limit[k]
  BY <1>1
<1>3. row \in [phase : {"none", "prepared", "committed"}, at : Checkpoints]
      /\ (row.phase = "none") = (row.at.tx = None) /\ cp \in Checkpoints
  BY NothingTyped DEF Init, NoRow
<1> QED
  BY <1>2, <1>3, InstallAssumption DEF Init, TypeOK, Trees, Payloads, Places, Start

\* Which actions write which variable.
LEMMA Writers ==
    ASSUME Next
    PROVE  /\ row' = row \/ CreateJournal \/ Commit \/ DeleteJournal \/ CloseJournal
           /\ cp' = cp \/ (\E x \in Tx : Begin(x)) \/ Replay \/ Consume \/ UninstallLeavesList
                 \/ Stop \/ Crash
           /\ (identity' = identity /\ want' = want) \/ Commit \/ UninstallDisables
           /\ member' = member \/ Commit \/ UninstallLeavesList
           /\ enabled' = enabled \/ MarkLoadable \/ RestoreHost \/ UninstallDisables
           /\ run' = run \/ SwapMovesAside \/ SwapPublishes \/ InstallDependencies \/
                 RestoreMovesAside \/ RestorePlaces \/ Consume \/ NewContainer
           /\ (aside' = aside /\ kept' = kept) \/ SwapMovesAside \/ SwapPublishes \/
                 RestoreMovesAside \/ RestorePlaces \/ Stop \/ Crash \/ NewContainer
           /\ (snap' = snap /\ marker' = marker) \/ Checkpoint \/ RestoreSeals \/ Cleanup \/
                 DropMaterial
           /\ (backup' = backup /\ previous' = previous) \/ ActivateMovesAside \/
                 ActivatePromotes \/ RestoreBackup \/ Finalize \/ Consume \/ BackupPlugins
           /\ staging' = staging \/ StageBackup \/ ActivatePromotes \/ RestoreUnstages \/
                 Consume
           /\ live' = live \/ Reload \/ RestoreRuntime \/ RestoreHost \/ Consume \/
                 UninstallLeavesList \/ Stop \/ Crash
           /\ docker' = docker
           /\ reset' = reset \/ Consume \/ NewContainer
           /\ used' = used \/ (\E x \in Tx : Begin(x))
<1> USE DEF files, stores, memory, rest
<1>1. CASE \E x \in Tx : Begin(x)
  BY <1>1 DEF Begin
<1>2. CASE Checkpoint
  BY <1>2 DEF Checkpoint
<1>3. CASE CreateJournal
  BY <1>3 DEF CreateJournal
<1>4. CASE SwapMovesAside
  BY <1>4 DEF SwapMovesAside
<1>5. CASE SwapPublishes
  BY <1>5 DEF SwapPublishes
<1>6. CASE InstallDependencies
  BY <1>6 DEF InstallDependencies
<1>7. CASE SetTarget
  BY <1>7 DEF SetTarget
<1>8. CASE MarkLoadable
  BY <1>8 DEF MarkLoadable
<1>9. CASE StageBackup
  BY <1>9 DEF StageBackup
<1>10. CASE ActivateMovesAside
  BY <1>10 DEF ActivateMovesAside
<1>11. CASE ActivatePromotes
  BY <1>11 DEF ActivatePromotes
<1>12. CASE Reload
  BY <1>12 DEF Reload
<1>13. CASE Register
  BY <1>13 DEF Register
<1>14. CASE Commit
  BY <1>14 DEF Commit
<1>15. CASE Cancelled
  BY <1>15 DEF Cancelled
<1>16. CASE RestoreMovesAside
  BY <1>16 DEF RestoreMovesAside
<1>17. CASE RestorePlaces
  BY <1>17 DEF RestorePlaces
<1>18. CASE RestoreBackup
  BY <1>18 DEF RestoreBackup
<1>19. CASE RestoreUnstages
  BY <1>19 DEF RestoreUnstages
<1>20. CASE RestoreSeals
  BY <1>20 DEF RestoreSeals
<1>21. CASE RestoreRuntime
  BY <1>21 DEF RestoreRuntime
<1>22. CASE RestoreHost
  BY <1>22 DEF RestoreHost
<1>23. CASE RestoreRegistrations
  BY <1>23 DEF RestoreRegistrations
<1>24. CASE DeleteJournal
  BY <1>24 DEF DeleteJournal
<1>25. CASE Cleanup
  BY <1>25 DEF Cleanup
<1>26. CASE CancelledAgain
  BY <1>26 DEF CancelledAgain
<1>27. CASE Finalize
  BY <1>27 DEF Finalize
<1>28. CASE DropMaterial
  BY <1>28 DEF DropMaterial
<1>29. CASE CloseJournal
  BY <1>29 DEF CloseJournal
<1>30. CASE Replay
  BY <1>30 DEF Replay
<1>31. CASE VerifyCommitted
  BY <1>31 DEF VerifyCommitted
<1>32. CASE Consume
  BY <1>32 DEF Consume
<1>33. CASE UninstallLeavesList
  BY <1>33 DEF UninstallLeavesList
<1>34. CASE UninstallDisables
  BY <1>34 DEF UninstallDisables
<1>35. CASE BackupPlugins
  BY <1>35 DEF BackupPlugins
<1>36. CASE Stop
  BY <1>36 DEF Stop, LeavesAside, Ends
<1>37. CASE Crash
  BY <1>37 DEF Crash, LeavesAside, Ends
<1>38. CASE NewContainer
  BY <1>38 DEF NewContainer
<1>39. CASE Restart
  BY <1>39 DEF Restart
<1> QED
  BY <1>1, <1>2, <1>3, <1>4, <1>5, <1>6, <1>7, <1>8, <1>9, <1>10, <1>11, <1>12, <1>13, <1>14,
     <1>15, <1>16, <1>17, <1>18, <1>19, <1>20, <1>21, <1>22, <1>23, <1>24, <1>25, <1>26,
     <1>27, <1>28, <1>29, <1>30, <1>31, <1>32, <1>33, <1>34, <1>35, <1>36, <1>37, <1>38, <1>39
     DEF Next, Advance, Environment

\* Where a step leads.
LEMMA NextPlaces ==
    ASSUME TypeOK, Next
    PROVE  pc' \in Places /\ mode' \in Modes /\ did' \subseteq Flags
<1>0. /\ pc \in Places /\ mode \in Modes /\ did \subseteq Flags
      /\ row.phase \in {"none", "prepared", "committed"}
  BY DEF TypeOK, Modes, Flags
<1> USE DEF Go, Leave, GiveUp, Fails, memory, Modes, Flags, Places, Forward, Rollback,
            Restore, Finish, Start
<1>1. ASSUME NEW x \in Tx, Begin(x) PROVE pc' \in Places /\ mode' \in Modes /\ did' \subseteq
             Flags
  BY <1>1, <1>0 DEF Begin
<1>2. CASE Checkpoint
  BY <1>2, <1>0 DEF Checkpoint
<1>3. CASE CreateJournal
  BY <1>3, <1>0 DEF CreateJournal
<1>4. CASE SwapMovesAside
  BY <1>4, <1>0 DEF SwapMovesAside
<1>5. CASE SwapPublishes
  BY <1>5, <1>0 DEF SwapPublishes
<1>6. CASE InstallDependencies
  BY <1>6, <1>0 DEF InstallDependencies
<1>7. CASE SetTarget
  BY <1>7, <1>0 DEF SetTarget
<1>8. CASE MarkLoadable
  BY <1>8, <1>0 DEF MarkLoadable
<1>9. CASE StageBackup
  BY <1>9, <1>0 DEF StageBackup
<1>10. CASE ActivateMovesAside
  BY <1>10, <1>0 DEF ActivateMovesAside
<1>11. CASE ActivatePromotes
  BY <1>11, <1>0 DEF ActivatePromotes
<1>12. CASE Reload
  BY <1>12, <1>0 DEF Reload
<1>13. CASE Register
  BY <1>13, <1>0 DEF Register
<1>14. CASE Commit
  BY <1>14, <1>0 DEF Commit
<1>15. CASE Cancelled
  BY <1>15, <1>0 DEF Cancelled
<1>16. CASE RestoreMovesAside
  BY <1>16, <1>0 DEF RestoreMovesAside
<1>17. CASE RestorePlaces
  BY <1>17, <1>0 DEF RestorePlaces
<1>18. CASE RestoreBackup
  BY <1>18, <1>0 DEF RestoreBackup
<1>19. CASE RestoreUnstages
  BY <1>19, <1>0 DEF RestoreUnstages
<1>20. CASE RestoreSeals
  BY <1>20, <1>0 DEF RestoreSeals
<1>21. CASE RestoreRuntime
  BY <1>21, <1>0 DEF RestoreRuntime
<1>22. CASE RestoreHost
  BY <1>22, <1>0 DEF RestoreHost
<1>23. CASE RestoreRegistrations
  BY <1>23, <1>0 DEF RestoreRegistrations
<1>24. CASE DeleteJournal
  BY <1>24, <1>0 DEF DeleteJournal
<1>25. CASE Cleanup
  BY <1>25, <1>0 DEF Cleanup
<1>26. CASE CancelledAgain
  BY <1>26, <1>0 DEF CancelledAgain
<1>27. CASE Finalize
  BY <1>27, <1>0 DEF Finalize
<1>28. CASE DropMaterial
  BY <1>28, <1>0 DEF DropMaterial
<1>29. CASE CloseJournal
  BY <1>29, <1>0 DEF CloseJournal
<1>30. CASE Replay
  BY <1>30, <1>0 DEF Replay
<1>31. CASE VerifyCommitted
  BY <1>31, <1>0 DEF VerifyCommitted
<1>32. CASE Consume
  BY <1>32, <1>0 DEF Consume
<1>33. CASE UninstallLeavesList
  BY <1>33, <1>0 DEF UninstallLeavesList
<1>34. CASE UninstallDisables
  BY <1>34, <1>0 DEF UninstallDisables
<1>35. CASE BackupPlugins
  BY <1>35, <1>0 DEF BackupPlugins
<1>36. CASE Stop
  BY <1>36, <1>0 DEF Stop, Ends
<1>37. CASE Crash
  BY <1>37, <1>0 DEF Crash, Ends
<1>38. CASE NewContainer
  BY <1>38, <1>0 DEF NewContainer
<1>39. CASE Restart
  BY <1>39, <1>0 DEF Restart
<1> QED
  BY <1>1, <1>2, <1>3, <1>4, <1>5, <1>6, <1>7, <1>8, <1>9, <1>10, <1>11, <1>12, <1>13, <1>14,
     <1>15, <1>16, <1>17, <1>18, <1>19, <1>20, <1>21, <1>22, <1>23, <1>24, <1>25, <1>26,
     <1>27, <1>28, <1>29, <1>30, <1>31, <1>32, <1>33, <1>34, <1>35, <1>36, <1>37, <1>38, <1>39
     DEF Next, Advance, Environment

\* Every variable, by the actions that write it.
LEMMA NextTyping ==
    ASSUME TypeOK, Control, Swap, Next
    PROVE  TypeOK'
<1> USE DEF Go
<1>1. pc' \in Places /\ mode' \in Modes /\ did' \subseteq Flags
  BY NextPlaces
<1>2. spent' \in [Kinds -> Nat] /\ \A k \in Kinds : spent'[k] <= Limit[k]
  BY NextSpent
<1>3. /\ cp \in Checkpoints /\ t \in Tx \union {None}
      /\ row \in [phase : {"none", "prepared", "committed"}, at : Checkpoints]
  BY DEF TypeOK, Checkpoints, t
<1>4. run \in Trees /\ aside \in Trees /\ backup \in Trees /\ kept \subseteq Payloads
      /\ snap \in [Tx -> Trees] /\ staging \in [Tx -> Trees] /\ previous \in [Tx -> Trees]
  BY DEF TypeOK
<1>5. Payloads \subseteq Trees /\ Tx \subseteq Payloads /\ None \in Trees /\ Torn \in Trees
      /\ None \notin Payloads
      /\ \A d \in Trees : Loads(d) \subseteq Trees
      /\ Moved \subseteq Trees
  BY InstallAssumption DEF Trees, Payloads, Loads, Moved
<1>6. cp' \in Checkpoints
  <2>1. ASSUME NEW x \in Tx, Begin(x) PROVE cp' \in Checkpoints
    BY <2>1 DEF Begin, Checkpoints, TypeOK
  <2>2. CASE Replay
    BY <2>2, <1>3 DEF Replay
  <2>3. CASE Consume \/ UninstallLeavesList \/ Stop \/ Crash
    BY <2>3, NothingTyped DEF Consume, UninstallLeavesList, Stop, Crash, Ends
  <2> QED
    BY <2>1, <2>2, <2>3, <1>3, Writers
<1>7. /\ row' \in [phase : {"none", "prepared", "committed"}, at : Checkpoints]
      /\ (row'.phase = "none") = (row'.at.tx = None)
  <2>1. (row.phase = "none") = (row.at.tx = None) /\ NoRow.phase = "none" /\ NoRow.at.tx = None
    BY NothingTyped DEF TypeOK, NoRow
  <2>2. CASE CreateJournal
    <3>1. pc = "journal" /\ (row' = [phase |-> "prepared", at |-> cp] \/ row' = row)
      BY <2>2 DEF CreateJournal
    <3>2. cp.tx # None
      BY <3>1, <1>5 DEF Control, Forward, t
    <3> QED
      BY <3>1, <3>2, <2>1, <1>3
  <2>3. CASE Commit
    <3>1. row' = row \/ (row.phase = "prepared" /\ row' = [row EXCEPT !.phase = "committed"])
      BY <2>3 DEF Commit
    <3> QED
      BY <3>1, <2>1, <1>3
  <2>4. CASE DeleteJournal \/ CloseJournal
    BY <2>4, <2>1, <1>3, NothingTyped DEF DeleteJournal, CloseJournal, Gone
  <2> QED
    BY <2>1, <2>2, <2>3, <2>4, <1>3, Writers
<1>8. pc \in (Forward \union Rollback \union Finish) => t \in Tx
  BY DEF Control
<1>9. run' \in Trees /\ aside' \in Trees /\ kept' \subseteq Payloads
  <2>1. CASE SwapMovesAside \/ SwapPublishes
    BY <2>1, <1>3, <1>4, <1>5, <1>8
       DEF SwapMovesAside, SwapPublishes, LeavesAside, Forward, files
  <2>2. CASE InstallDependencies \/ NewContainer \/ Consume
    BY <2>2, <1>4, <1>5, Writers DEF InstallDependencies, NewContainer, Consume, files
  <2>3. CASE RestoreMovesAside
    BY <2>3, <1>4, <1>5 DEF RestoreMovesAside
  <2>4. CASE RestorePlaces
    BY <2>4, <1>4, <1>5, <1>8 DEF RestorePlaces, LeavesAside, Rollback, Restore
  <2>5. CASE Stop \/ Crash
    BY <2>5, <1>4, <1>5 DEF Stop, Crash, Ends, LeavesAside
  <2> QED
    BY <2>1, <2>2, <2>3, <2>4, <2>5, <1>4, Writers
<1>10. snap' \in [Tx -> Trees] /\ marker' \subseteq Tx
  <2>1. marker \subseteq Tx
    BY DEF TypeOK
  <2>2. CASE Checkpoint \/ Cleanup \/ DropMaterial
    BY <2>1, <2>2, <1>4, <1>5 DEF Checkpoint, Cleanup, DropMaterial
  <2>3. CASE RestoreSeals
    BY <2>1, <2>3, <1>4, <1>8 DEF RestoreSeals, Rollback, Restore
  <2> QED
    BY <2>1, <2>2, <2>3, <1>4, Writers
<1>11. backup' \in Trees /\ previous' \in [Tx -> Trees] /\ staging' \in [Tx -> Trees]
  <2>1. CASE StageBackup \/ RestoreUnstages
    BY <2>1, <1>4, <1>5 DEF StageBackup, RestoreUnstages
  <2>2. CASE ActivateMovesAside \/ BackupPlugins
    BY <2>2, <1>4, <1>5 DEF ActivateMovesAside, BackupPlugins
  <2>3. CASE ActivatePromotes
    BY <2>3, <1>4, <1>5, <1>8 DEF ActivatePromotes, Forward
  <2>4. CASE RestoreBackup
    BY <2>4, <1>4, <1>5, <1>8 DEF RestoreBackup, PreviousBackup, Rollback, Restore
  <2>5. CASE Finalize
    BY <2>5, <1>4, <1>5 DEF Finalize
  <2>6. CASE Consume
    BY <2>6, <1>4, <1>5 DEF Consume
  <2> QED
    BY <2>1, <2>2, <2>3, <2>4, <2>5, <2>6, <1>4, Writers
<1>12. identity' \in Payloads \union {None} /\ want' \in BOOLEAN
  BY <1>5, <1>8, Writers DEF Commit, UninstallDisables, Forward, TypeOK
<1>13. enabled' \in BOOLEAN
  BY <1>3, Writers DEF MarkLoadable, RestoreHost, UninstallDisables, TypeOK, Checkpoints
<1>14. live' \in Trees
  <2>1. live \in Trees
    BY DEF TypeOK
  <2>2. CASE Reload
    BY <2>2, <1>4, <1>5 DEF Reload
  <2>3. CASE RestoreRuntime
    BY <2>1, <2>3, <1>4, <1>5 DEF RestoreRuntime
  <2>4. CASE RestoreHost
    BY <2>1, <2>4, <1>5 DEF RestoreHost
  <2>5. CASE Consume
    BY <2>5, <1>5, <1>9 DEF Consume
  <2>6. CASE UninstallLeavesList \/ Stop \/ Crash
    BY <2>6, <1>5 DEF UninstallLeavesList, Stop, Crash, Ends
  <2> QED
    BY <2>1, <2>2, <2>3, <2>4, <2>5, <2>6, Writers
<1>15. docker' \in BOOLEAN /\ reset' \in BOOLEAN /\ used' \subseteq Tx
  BY Writers DEF Begin, Consume, NewContainer, TypeOK
<1>16. member' \in BOOLEAN
  BY Writers DEF Commit, UninstallLeavesList, TypeOK
<1> QED
  BY <1>1, <1>2, <1>6, <1>7, <1>9, <1>10, <1>11, <1>12, <1>13, <1>14, <1>15, <1>16
     DEF TypeOK, Modes, Flags
-----------------------------------------------------------------------------
(* The steps and the parts of the invariant *)

\* Who is at which step.
LEMMA NextControl ==
    ASSUME TypeOK, Control, Grows, Next
    PROVE  Control'
<1>0. /\ (row.phase # "none" => row.at.tx \in Tx) /\ NoCheckpoint.tx = None
      /\ row.phase \in {"none", "prepared", "committed"}
  BY NothingTyped, InstallAssumption DEF TypeOK, Checkpoints
<1> USE DEF Control, memory, Go, Leave, GiveUp, Fails, t, Forward, Rollback, Restore,
            Restored, Finish, Start, Journaled, Marked, Promoted
<1>1. ASSUME NEW x \in Tx, Begin(x) PROVE Control'
  BY <1>1, <1>0 DEF Begin
<1>2. CASE Checkpoint
  BY <1>2, <1>0 DEF Checkpoint
<1>3. CASE CreateJournal
  BY <1>3, <1>0 DEF CreateJournal
<1>4. CASE SwapMovesAside
  BY <1>4, <1>0 DEF SwapMovesAside
<1>5. CASE SwapPublishes
  BY <1>5, <1>0 DEF SwapPublishes
<1>6. CASE InstallDependencies
  BY <1>6, <1>0 DEF InstallDependencies
<1>7. CASE SetTarget
  BY <1>7, <1>0 DEF SetTarget
<1>8. CASE MarkLoadable
  BY <1>8, <1>0 DEF MarkLoadable
<1>9. CASE StageBackup
  BY <1>9, <1>0 DEF StageBackup
<1>10. CASE ActivateMovesAside
  BY <1>10, <1>0 DEF ActivateMovesAside
<1>11. CASE ActivatePromotes
  BY <1>11, <1>0 DEF ActivatePromotes
<1>12. CASE Reload
  BY <1>12, <1>0 DEF Reload
<1>13. CASE Register
  BY <1>13, <1>0 DEF Register
<1>14. CASE Commit
  BY <1>14, <1>0 DEF Commit
<1>15. CASE Cancelled
  BY <1>15, <1>0 DEF Cancelled
<1>16. CASE RestoreMovesAside
  BY <1>16, <1>0 DEF RestoreMovesAside
<1>17. CASE RestorePlaces
  BY <1>17, <1>0 DEF RestorePlaces
<1>18. CASE RestoreBackup
  BY <1>18, <1>0 DEF RestoreBackup
<1>19. CASE RestoreUnstages
  BY <1>19, <1>0 DEF RestoreUnstages
<1>20. CASE RestoreSeals
  BY <1>20, <1>0 DEF RestoreSeals
<1>21. CASE RestoreRuntime
  BY <1>21, <1>0 DEF RestoreRuntime, Reloads
<1>22. CASE RestoreHost
  BY <1>22, <1>0 DEF RestoreHost
<1>23. CASE RestoreRegistrations
  BY <1>23, <1>0 DEF RestoreRegistrations
<1>24. CASE DeleteJournal
  BY <1>24, <1>0 DEF DeleteJournal
<1>25. CASE Cleanup
  BY <1>25, <1>0 DEF Cleanup
<1>26. CASE CancelledAgain
  BY <1>26, <1>0 DEF CancelledAgain
<1>27. CASE Finalize
  BY <1>27, <1>0 DEF Finalize
<1>28. CASE DropMaterial
  BY <1>28, <1>0 DEF DropMaterial
<1>29. CASE CloseJournal
  BY <1>29, <1>0 DEF CloseJournal
<1>30. CASE Replay
  BY <1>30, <1>0 DEF Replay
<1>31. CASE VerifyCommitted
  BY <1>31, <1>0 DEF VerifyCommitted
<1>32. CASE Consume
  BY <1>32, <1>0 DEF Consume
<1>33. CASE UninstallLeavesList
  BY <1>33, <1>0 DEF UninstallLeavesList, Grows, Zeros
<1>34. CASE UninstallDisables
  BY <1>34, <1>0 DEF UninstallDisables
<1>35. CASE BackupPlugins
  BY <1>35, <1>0 DEF BackupPlugins, Grows, Zeros
<1>36. CASE Stop
  BY <1>36, <1>0 DEF Stop, Ends
<1>37. CASE Crash
  BY <1>37, <1>0 DEF Crash, Ends
<1>38. CASE NewContainer
  BY <1>38, <1>0 DEF NewContainer
<1>39. CASE Restart
  BY <1>39, <1>0 DEF Restart
<1> QED
  BY <1>1, <1>2, <1>3, <1>4, <1>5, <1>6, <1>7, <1>8, <1>9, <1>10, <1>11, <1>12, <1>13, <1>14,
     <1>15, <1>16, <1>17, <1>18, <1>19, <1>20, <1>21, <1>22, <1>23, <1>24, <1>25, <1>26,
     <1>27, <1>28, <1>29, <1>30, <1>31, <1>32, <1>33, <1>34, <1>35, <1>36, <1>37, <1>38, <1>39
     DEF Next, Advance, Environment

\* A transaction begins once, and a marker is set once its files are restored.
LEMMA NextBegun ==
    ASSUME TypeOK, Control, Begun, Grows, Next
    PROVE  Begun'
<1>0. /\ None \notin Tx /\ NoCheckpoint.tx = None /\ NoRow.phase = "none"
      /\ row.phase \in {"none", "prepared", "committed"}
      /\ (row.phase = "none") = (row.at.tx = None) /\ DOMAIN row = {"phase", "at"}
  BY NothingTyped, InstallAssumption DEF TypeOK, Payloads, NoRow
<1> USE DEF Control, Begun, memory, files, stores, rest, Go, Leave, GiveUp, Fails, t, Forward,
            Rollback, Restore, Restored, Finish, Start, Journaled, Marked, Promoted
<1>1. ASSUME NEW x \in Tx, Begin(x) PROVE Begun'
  BY <1>1, <1>0 DEF Begin
<1>2. CASE Checkpoint
  BY <1>2, <1>0 DEF Checkpoint
<1>3. CASE CreateJournal
  BY <1>3, <1>0 DEF CreateJournal
<1>4. CASE SwapMovesAside
  BY <1>4, <1>0 DEF SwapMovesAside
<1>5. CASE SwapPublishes
  BY <1>5, <1>0 DEF SwapPublishes
<1>6. CASE InstallDependencies
  BY <1>6, <1>0 DEF InstallDependencies
<1>7. CASE SetTarget
  BY <1>7, <1>0 DEF SetTarget
<1>8. CASE MarkLoadable
  BY <1>8, <1>0 DEF MarkLoadable
<1>9. CASE StageBackup
  BY <1>9, <1>0 DEF StageBackup
<1>10. CASE ActivateMovesAside
  BY <1>10, <1>0 DEF ActivateMovesAside
<1>11. CASE ActivatePromotes
  BY <1>11, <1>0 DEF ActivatePromotes
<1>12. CASE Reload
  BY <1>12, <1>0 DEF Reload
<1>13. CASE Register
  BY <1>13, <1>0 DEF Register
<1>14. CASE Commit
  BY <1>14, <1>0 DEF Commit
<1>15. CASE Cancelled
  BY <1>15, <1>0 DEF Cancelled
<1>16. CASE RestoreMovesAside
  BY <1>16, <1>0 DEF RestoreMovesAside
<1>17. CASE RestorePlaces
  BY <1>17, <1>0 DEF RestorePlaces
<1>18. CASE RestoreBackup
  BY <1>18, <1>0 DEF RestoreBackup
<1>19. CASE RestoreUnstages
  BY <1>19, <1>0 DEF RestoreUnstages
<1>20. CASE RestoreSeals
  BY <1>20, <1>0 DEF RestoreSeals
<1>21. CASE RestoreRuntime
  BY <1>21, <1>0 DEF RestoreRuntime
<1>22. CASE RestoreHost
  BY <1>22, <1>0 DEF RestoreHost
<1>23. CASE RestoreRegistrations
  BY <1>23, <1>0 DEF RestoreRegistrations
<1>24. CASE DeleteJournal
  BY <1>24, <1>0 DEF DeleteJournal, Gone
<1>25. CASE Cleanup
  BY <1>25, <1>0 DEF Cleanup
<1>26. CASE CancelledAgain
  BY <1>26, <1>0 DEF CancelledAgain
<1>27. CASE Finalize
  BY <1>27, <1>0 DEF Finalize
<1>28. CASE DropMaterial
  BY <1>28, <1>0 DEF DropMaterial
<1>29. CASE CloseJournal
  BY <1>29, <1>0 DEF CloseJournal
<1>30. CASE Replay
  BY <1>30, <1>0 DEF Replay
<1>31. CASE VerifyCommitted
  BY <1>31, <1>0 DEF VerifyCommitted
<1>32. CASE Consume
  BY <1>32, <1>0 DEF Consume
<1>33. CASE UninstallLeavesList
  BY <1>33, <1>0 DEF UninstallLeavesList
<1>34. CASE UninstallDisables
  BY <1>34, <1>0 DEF UninstallDisables
<1>35. CASE BackupPlugins
  BY <1>35, <1>0 DEF BackupPlugins
<1>36. CASE Stop
  BY <1>36, <1>0 DEF Stop, LeavesAside, Ends
<1>37. CASE Crash
  BY <1>37, <1>0 DEF Crash, LeavesAside, Ends
<1>38. CASE NewContainer
  BY <1>38, <1>0 DEF NewContainer
<1>39. CASE Restart
  BY <1>39, <1>0 DEF Restart
<1> QED
  BY <1>1, <1>2, <1>3, <1>4, <1>5, <1>6, <1>7, <1>8, <1>9, <1>10, <1>11, <1>12, <1>13, <1>14,
     <1>15, <1>16, <1>17, <1>18, <1>19, <1>20, <1>21, <1>22, <1>23, <1>24, <1>25, <1>26,
     <1>27, <1>28, <1>29, <1>30, <1>31, <1>32, <1>33, <1>34, <1>35, <1>36, <1>37, <1>38, <1>39
     DEF Next, Advance, Environment

\* A swap has one sibling, and it publishes the payload of its transaction.
LEMMA NextSwap ==
    ASSUME TypeOK, Control, Begun, Swap, Grows, Next
    PROVE  Swap'
<1>0. /\ None \notin Tx /\ Torn # None /\ NoCheckpoint.tx = None
      /\ NoRow.phase = "none" /\ NoRow.at.tx = None
      /\ DOMAIN snap = Tx /\ row.phase \in {"none", "prepared", "committed"}
      /\ (row.phase = "none") = (row.at.tx = None) /\ DOMAIN row = {"phase", "at"}
      /\ (pc \in Forward \union Rollback \union Finish => t \in Tx)
  BY NothingTyped, InstallAssumption DEF Control, TypeOK, Payloads, NoRow
<1> USE DEF Swap, memory, files, stores, rest, Go, Leave, GiveUp, Fails, HasSnapshot,
            LeavesAside, t, Grows, Zeros, Forward, Rollback, Restore, Restored, Finish, Start,
            Journaled, Marked, Promoted
<1>1. ASSUME NEW x \in Tx, Begin(x) PROVE Swap'
  BY <1>1, <1>0 DEF Begin
<1>2. CASE Checkpoint
  BY <1>2, <1>0 DEF Checkpoint
<1>3. CASE CreateJournal
  BY <1>3, <1>0 DEF CreateJournal
<1>4. CASE SwapMovesAside
  BY <1>4, <1>0 DEF SwapMovesAside
<1>5. CASE SwapPublishes
  BY <1>5, <1>0 DEF SwapPublishes
<1>6. CASE InstallDependencies
  BY <1>6, <1>0 DEF InstallDependencies
<1>7. CASE SetTarget
  BY <1>7, <1>0 DEF SetTarget
<1>8. CASE MarkLoadable
  BY <1>8, <1>0 DEF MarkLoadable
<1>9. CASE StageBackup
  BY <1>9, <1>0 DEF StageBackup
<1>10. CASE ActivateMovesAside
  BY <1>10, <1>0 DEF ActivateMovesAside
<1>11. CASE ActivatePromotes
  BY <1>11, <1>0 DEF ActivatePromotes
<1>12. CASE Reload
  BY <1>12, <1>0 DEF Reload
<1>13. CASE Register
  BY <1>13, <1>0 DEF Register
<1>14. CASE Commit
  BY <1>14, <1>0 DEF Commit
<1>15. CASE Cancelled
  BY <1>15, <1>0 DEF Cancelled
<1>16. CASE RestoreMovesAside
  BY <1>16, <1>0 DEF RestoreMovesAside, Moved
<1>17. CASE RestorePlaces
  BY <1>17, <1>0 DEF RestorePlaces
<1>18. CASE RestoreBackup
  BY <1>18, <1>0 DEF RestoreBackup
<1>19. CASE RestoreUnstages
  BY <1>19, <1>0 DEF RestoreUnstages
<1>20. CASE RestoreSeals
  BY <1>20, <1>0 DEF RestoreSeals
<1>21. CASE RestoreRuntime
  BY <1>21, <1>0 DEF RestoreRuntime
<1>22. CASE RestoreHost
  BY <1>22, <1>0 DEF RestoreHost
<1>23. CASE RestoreRegistrations
  BY <1>23, <1>0 DEF RestoreRegistrations
<1>24. CASE DeleteJournal
  BY <1>24, <1>0 DEF DeleteJournal
<1>25. CASE Cleanup
  BY <1>25, <1>0 DEF Cleanup
<1>26. CASE CancelledAgain
  BY <1>26, <1>0 DEF CancelledAgain
<1>27. CASE Finalize
  BY <1>27, <1>0 DEF Finalize
<1>28. CASE DropMaterial
  BY <1>28, <1>0 DEF DropMaterial
<1>29. CASE CloseJournal
  BY <1>29, <1>0 DEF CloseJournal
<1>30. CASE Replay
  BY <1>30, <1>0 DEF Replay
<1>31. CASE VerifyCommitted
  BY <1>31, <1>0 DEF VerifyCommitted
<1>32. CASE Consume
  BY <1>32, <1>0 DEF Consume
<1>33. CASE UninstallLeavesList
  BY <1>33, <1>0 DEF UninstallLeavesList
<1>34. CASE UninstallDisables
  BY <1>34, <1>0 DEF UninstallDisables
<1>35. CASE BackupPlugins
  BY <1>35, <1>0 DEF BackupPlugins
<1>36. CASE Stop
  BY <1>36, <1>0 DEF Stop, Ends
<1>37. CASE Crash
  BY <1>37, <1>0 DEF Crash, Ends
<1>38. CASE NewContainer
  BY <1>38, <1>0 DEF NewContainer
<1>39. CASE Restart
  BY <1>39, <1>0 DEF Restart
<1> QED
  BY <1>1, <1>2, <1>3, <1>4, <1>5, <1>6, <1>7, <1>8, <1>9, <1>10, <1>11, <1>12, <1>13, <1>14,
     <1>15, <1>16, <1>17, <1>18, <1>19, <1>20, <1>21, <1>22, <1>23, <1>24, <1>25, <1>26,
     <1>27, <1>28, <1>29, <1>30, <1>31, <1>32, <1>33, <1>34, <1>35, <1>36, <1>37, <1>38, <1>39
     DEF Next, Advance, Environment

\* The journal row is that of the transaction whose rollback or end is run.
LEMMA NextJournal ==
    ASSUME TypeOK, Control, Begun, Journal, Grows, Next
    PROVE  Journal'
<1>0. /\ None \notin Tx /\ Torn # None /\ NoCheckpoint.tx = None
      /\ NoRow.phase = "none" /\ NoRow.at.tx = None
      /\ DOMAIN snap = Tx /\ row.phase \in {"none", "prepared", "committed"}
      /\ (row.phase = "none") = (row.at.tx = None) /\ DOMAIN row = {"phase", "at"}
  BY NothingTyped, InstallAssumption DEF TypeOK, Payloads, NoRow
<1> USE DEF Control, Begun, Journal, memory, files, stores, rest, Go, Leave, GiveUp, Fails, t,
            Forward, Rollback, Restore, Restored, Finish, Start, Journaled, Marked, Promoted
<1>1. ASSUME NEW x \in Tx, Begin(x) PROVE Journal'
  BY <1>1, <1>0 DEF Begin
<1>2. CASE Checkpoint
  BY <1>2, <1>0 DEF Checkpoint
<1>3. CASE CreateJournal
  BY <1>3, <1>0 DEF CreateJournal
<1>4. CASE SwapMovesAside
  BY <1>4, <1>0 DEF SwapMovesAside
<1>5. CASE SwapPublishes
  BY <1>5, <1>0 DEF SwapPublishes
<1>6. CASE InstallDependencies
  BY <1>6, <1>0 DEF InstallDependencies
<1>7. CASE SetTarget
  BY <1>7, <1>0 DEF SetTarget
<1>8. CASE MarkLoadable
  BY <1>8, <1>0 DEF MarkLoadable
<1>9. CASE StageBackup
  BY <1>9, <1>0 DEF StageBackup
<1>10. CASE ActivateMovesAside
  BY <1>10, <1>0 DEF ActivateMovesAside
<1>11. CASE ActivatePromotes
  BY <1>11, <1>0 DEF ActivatePromotes
<1>12. CASE Reload
  BY <1>12, <1>0 DEF Reload
<1>13. CASE Register
  BY <1>13, <1>0 DEF Register
<1>14. CASE Commit
  BY <1>14, <1>0 DEF Commit
<1>15. CASE Cancelled
  BY <1>15, <1>0 DEF Cancelled, CommitIsKnown
<1>16. CASE RestoreMovesAside
  BY <1>16, <1>0 DEF RestoreMovesAside
<1>17. CASE RestorePlaces
  BY <1>17, <1>0 DEF RestorePlaces
<1>18. CASE RestoreBackup
  BY <1>18, <1>0 DEF RestoreBackup
<1>19. CASE RestoreUnstages
  BY <1>19, <1>0 DEF RestoreUnstages
<1>20. CASE RestoreSeals
  BY <1>20, <1>0 DEF RestoreSeals
<1>21. CASE RestoreRuntime
  BY <1>21, <1>0 DEF RestoreRuntime
<1>22. CASE RestoreHost
  BY <1>22, <1>0 DEF RestoreHost
<1>23. CASE RestoreRegistrations
  BY <1>23, <1>0 DEF RestoreRegistrations
<1>24. CASE DeleteJournal
  BY <1>24, <1>0 DEF DeleteJournal, Gone
<1>25. CASE Cleanup
  BY <1>25, <1>0 DEF Cleanup
<1>26. CASE CancelledAgain
  BY <1>26, <1>0 DEF CancelledAgain
<1>27. CASE Finalize
  BY <1>27, <1>0 DEF Finalize
<1>28. CASE DropMaterial
  BY <1>28, <1>0 DEF DropMaterial
<1>29. CASE CloseJournal
  BY <1>29, <1>0 DEF CloseJournal
<1>30. CASE Replay
  BY <1>30, <1>0 DEF Replay
<1>31. CASE VerifyCommitted
  BY <1>31, <1>0 DEF VerifyCommitted
<1>32. CASE Consume
  BY <1>32, <1>0 DEF Consume
<1>33. CASE UninstallLeavesList
  BY <1>33, <1>0 DEF UninstallLeavesList
<1>34. CASE UninstallDisables
  BY <1>34, <1>0 DEF UninstallDisables
<1>35. CASE BackupPlugins
  BY <1>35, <1>0 DEF BackupPlugins
<1>36. CASE Stop
  BY <1>36, <1>0 DEF Stop, Ends
<1>37. CASE Crash
  BY <1>37, <1>0 DEF Crash, Ends
<1>38. CASE NewContainer
  BY <1>38, <1>0 DEF NewContainer
<1>39. CASE Restart
  BY <1>39, <1>0 DEF Restart
<1> QED
  BY <1>1, <1>2, <1>3, <1>4, <1>5, <1>6, <1>7, <1>8, <1>9, <1>10, <1>11, <1>12, <1>13, <1>14,
     <1>15, <1>16, <1>17, <1>18, <1>19, <1>20, <1>21, <1>22, <1>23, <1>24, <1>25, <1>26,
     <1>27, <1>28, <1>29, <1>30, <1>31, <1>32, <1>33, <1>34, <1>35, <1>36, <1>37, <1>38, <1>39
     DEF Next, Advance, Environment

\* Only a commit changes the identity row, and only from what was frozen.
LEMMA NextIdentity ==
    ASSUME TypeOK, Control, Journal, Identity, Grows, Next
    PROVE  Identity'
<1>0. /\ None \notin Tx /\ Torn # None /\ NoCheckpoint.tx = None
      /\ NoRow.phase = "none" /\ NoRow.at.tx = None
      /\ DOMAIN snap = Tx /\ row.phase \in {"none", "prepared", "committed"}
      /\ (row.phase = "none") = (row.at.tx = None) /\ DOMAIN row = {"phase", "at"}
  BY NothingTyped, InstallAssumption DEF TypeOK, Payloads, NoRow
<1> USE DEF Control, Journal, Identity, memory, files, stores, rest, Go, Leave, GiveUp, Fails,
            t, Forward, Rollback, Restore, Restored, Finish, Start, Journaled, Marked,
            Promoted
<1>1. ASSUME NEW x \in Tx, Begin(x) PROVE Identity'
  BY <1>1, <1>0 DEF Begin
<1>2. CASE Checkpoint
  BY <1>2, <1>0 DEF Checkpoint
<1>3. CASE CreateJournal
  BY <1>3, <1>0 DEF CreateJournal
<1>4. CASE SwapMovesAside
  BY <1>4, <1>0 DEF SwapMovesAside
<1>5. CASE SwapPublishes
  BY <1>5, <1>0 DEF SwapPublishes
<1>6. CASE InstallDependencies
  BY <1>6, <1>0 DEF InstallDependencies
<1>7. CASE SetTarget
  BY <1>7, <1>0 DEF SetTarget
<1>8. CASE MarkLoadable
  BY <1>8, <1>0 DEF MarkLoadable
<1>9. CASE StageBackup
  BY <1>9, <1>0 DEF StageBackup
<1>10. CASE ActivateMovesAside
  BY <1>10, <1>0 DEF ActivateMovesAside
<1>11. CASE ActivatePromotes
  BY <1>11, <1>0 DEF ActivatePromotes
<1>12. CASE Reload
  BY <1>12, <1>0 DEF Reload
<1>13. CASE Register
  BY <1>13, <1>0 DEF Register
<1>14. CASE Commit
  BY <1>14, <1>0 DEF Commit
<1>15. CASE Cancelled
  BY <1>15, <1>0 DEF Cancelled, CommitIsKnown
<1>16. CASE RestoreMovesAside
  BY <1>16, <1>0 DEF RestoreMovesAside
<1>17. CASE RestorePlaces
  BY <1>17, <1>0 DEF RestorePlaces
<1>18. CASE RestoreBackup
  BY <1>18, <1>0 DEF RestoreBackup
<1>19. CASE RestoreUnstages
  BY <1>19, <1>0 DEF RestoreUnstages
<1>20. CASE RestoreSeals
  BY <1>20, <1>0 DEF RestoreSeals
<1>21. CASE RestoreRuntime
  BY <1>21, <1>0 DEF RestoreRuntime
<1>22. CASE RestoreHost
  BY <1>22, <1>0 DEF RestoreHost
<1>23. CASE RestoreRegistrations
  BY <1>23, <1>0 DEF RestoreRegistrations
<1>24. CASE DeleteJournal
  BY <1>24, <1>0 DEF DeleteJournal, Gone
<1>25. CASE Cleanup
  BY <1>25, <1>0 DEF Cleanup
<1>26. CASE CancelledAgain
  BY <1>26, <1>0 DEF CancelledAgain
<1>27. CASE Finalize
  BY <1>27, <1>0 DEF Finalize
<1>28. CASE DropMaterial
  BY <1>28, <1>0 DEF DropMaterial
<1>29. CASE CloseJournal
  BY <1>29, <1>0 DEF CloseJournal
<1>30. CASE Replay
  BY <1>30, <1>0 DEF Replay
<1>31. CASE VerifyCommitted
  BY <1>31, <1>0 DEF VerifyCommitted
<1>32. CASE Consume
  BY <1>32, <1>0 DEF Consume
<1>33. CASE UninstallLeavesList
  BY <1>33, <1>0 DEF UninstallLeavesList
<1>34. CASE UninstallDisables
  BY <1>34, <1>0 DEF UninstallDisables
<1>35. CASE BackupPlugins
  BY <1>35, <1>0 DEF BackupPlugins
<1>36. CASE Stop
  BY <1>36, <1>0 DEF Stop, Ends
<1>37. CASE Crash
  BY <1>37, <1>0 DEF Crash, Ends
<1>38. CASE NewContainer
  BY <1>38, <1>0 DEF NewContainer
<1>39. CASE Restart
  BY <1>39, <1>0 DEF Restart
<1> QED
  BY <1>1, <1>2, <1>3, <1>4, <1>5, <1>6, <1>7, <1>8, <1>9, <1>10, <1>11, <1>12, <1>13, <1>14,
     <1>15, <1>16, <1>17, <1>18, <1>19, <1>20, <1>21, <1>22, <1>23, <1>24, <1>25, <1>26,
     <1>27, <1>28, <1>29, <1>30, <1>31, <1>32, <1>33, <1>34, <1>35, <1>36, <1>37, <1>38, <1>39
     DEF Next, Advance, Environment

\* The host row is on once it is marked, and a rollback puts it back.
LEMMA NextHost ==
    ASSUME TypeOK, Control, Begun, Journal, Host, Grows, Next
    PROVE  Host'
<1>0. /\ None \notin Tx /\ NoCheckpoint.tx = None
      /\ NoRow.phase = "none" /\ NoRow.at.tx = None
      /\ row.phase \in {"none", "prepared", "committed"}
      /\ (row.phase = "none") = (row.at.tx = None) /\ DOMAIN row = {"phase", "at"}
      /\ enabled \in BOOLEAN /\ want \in BOOLEAN
  BY NothingTyped, InstallAssumption DEF TypeOK, Payloads, NoRow
<1> USE DEF Control, Journal, Host, memory, files, stores, rest, Go, Leave, GiveUp, Fails, t,
            Grows, Zeros, Forward, Rollback, Restore, Restored, Finish, Start, Journaled,
            Marked, Promoted
<1>1. ASSUME NEW x \in Tx, Begin(x) PROVE Host'
  BY <1>1, <1>0 DEF Begin
<1>2. CASE Checkpoint
  BY <1>2, <1>0 DEF Checkpoint
<1>3. CASE CreateJournal
  BY <1>3, <1>0 DEF CreateJournal, SlotIsFree
<1>4. CASE SwapMovesAside
  BY <1>4, <1>0 DEF SwapMovesAside
<1>5. CASE SwapPublishes
  BY <1>5, <1>0 DEF SwapPublishes
<1>6. CASE InstallDependencies
  BY <1>6, <1>0 DEF InstallDependencies
<1>7. CASE SetTarget
  BY <1>7, <1>0 DEF SetTarget
<1>8. CASE MarkLoadable
  BY <1>8, <1>0 DEF MarkLoadable
<1>9. CASE StageBackup
  BY <1>9, <1>0 DEF StageBackup
<1>10. CASE ActivateMovesAside
  BY <1>10, <1>0 DEF ActivateMovesAside
<1>11. CASE ActivatePromotes
  BY <1>11, <1>0 DEF ActivatePromotes
<1>12. CASE Reload
  BY <1>12, <1>0 DEF Reload
<1>13. CASE Register
  BY <1>13, <1>0 DEF Register
<1>14. CASE Commit
  BY <1>14, <1>0 DEF Commit
<1>15. CASE Cancelled
  BY <1>15, <1>0 DEF Cancelled, CommitIsKnown
<1>16. CASE RestoreMovesAside
  BY <1>16, <1>0 DEF RestoreMovesAside
<1>17. CASE RestorePlaces
  BY <1>17, <1>0 DEF RestorePlaces
<1>18. CASE RestoreBackup
  BY <1>18, <1>0 DEF RestoreBackup
<1>19. CASE RestoreUnstages
  BY <1>19, <1>0 DEF RestoreUnstages
<1>20. CASE RestoreSeals
  BY <1>20, <1>0 DEF RestoreSeals
<1>21. CASE RestoreRuntime
  BY <1>21, <1>0 DEF RestoreRuntime, Reloads
<1>22. CASE RestoreHost
  BY <1>22, <1>0 DEF RestoreHost, RestoresHost
<1>23. CASE RestoreRegistrations
  BY <1>23, <1>0 DEF RestoreRegistrations
<1>24. CASE DeleteJournal
  BY <1>24, <1>0 DEF DeleteJournal, Gone
<1>25. CASE Cleanup
  BY <1>25, <1>0 DEF Cleanup
<1>26. CASE CancelledAgain
  BY <1>26, <1>0 DEF CancelledAgain
<1>27. CASE Finalize
  BY <1>27, <1>0 DEF Finalize
<1>28. CASE DropMaterial
  BY <1>28, <1>0 DEF DropMaterial
<1>29. CASE CloseJournal
  BY <1>29, <1>0 DEF CloseJournal
<1>30. CASE Replay
  BY <1>30, <1>0 DEF Replay
<1>31. CASE VerifyCommitted
  BY <1>31, <1>0 DEF VerifyCommitted
<1>32. CASE Consume
  BY <1>32, <1>0 DEF Consume
<1>33. CASE UninstallLeavesList
  BY <1>33, <1>0 DEF UninstallLeavesList
<1>34. CASE UninstallDisables
  BY <1>34, <1>0 DEF UninstallDisables
<1>35. CASE BackupPlugins
  BY <1>35, <1>0 DEF BackupPlugins
<1>36. CASE Stop
  BY <1>36, <1>0 DEF Stop, Ends
<1>37. CASE Crash
  BY <1>37, <1>0 DEF Crash, Ends
<1>38. CASE NewContainer
  BY <1>38, <1>0 DEF NewContainer
<1>39. CASE Restart
  BY <1>39, <1>0 DEF Restart
<1> QED
  BY <1>1, <1>2, <1>3, <1>4, <1>5, <1>6, <1>7, <1>8, <1>9, <1>10, <1>11, <1>12, <1>13, <1>14,
     <1>15, <1>16, <1>17, <1>18, <1>19, <1>20, <1>21, <1>22, <1>23, <1>24, <1>25, <1>26,
     <1>27, <1>28, <1>29, <1>30, <1>31, <1>32, <1>33, <1>34, <1>35, <1>36, <1>37, <1>38, <1>39
     DEF Next, Advance, Environment

\* No step leaves a staging or previous directory to a transaction without a journal.
LEMMA NextFresh ==
    ASSUME TypeOK, Control, Begun, Swap, Journal, Fresh, Grows, Next
    PROVE  Fresh'
<1>0. /\ None \notin Tx /\ Torn # None /\ NoCheckpoint.tx = None /\ NoCheckpoint.hadBackup = FALSE
      /\ NoRow.phase = "none" /\ NoRow.at.tx = None /\ NoRow.at.hadBackup = FALSE
      /\ row.phase \in {"none", "prepared", "committed"}
      /\ (row.phase = "none") = (row.at.tx = None) /\ DOMAIN row = {"phase", "at"}
      /\ DOMAIN snap = Tx /\ DOMAIN staging = Tx /\ DOMAIN previous = Tx
      /\ (pc \in Forward \union Rollback \union Finish => t \in Tx)
      /\ used \subseteq Tx
  BY NothingTyped, InstallAssumption DEF Control, TypeOK, Payloads, NoRow, NoCheckpoint
<1> USE DEF Begun, Journal, Fresh, Owed, Aloof, Mine, memory, files, stores, rest, Go, Leave,
            GiveUp, Fails, HasSnapshot, t, Forward, Rollback, Restore, Restored, Finish,
            Start, Journaled, Marked, Promoted
<1>1. ASSUME NEW x \in Tx, Begin(x) PROVE Fresh'
  BY <1>1, <1>0 DEF Begin
<1>2. CASE Checkpoint
  BY <1>2, <1>0 DEF Checkpoint
<1>3. CASE CreateJournal
  BY <1>3, <1>0 DEF CreateJournal, SlotIsFree, Swap, Control
<1>4. CASE SwapMovesAside
  BY <1>4, <1>0 DEF SwapMovesAside
<1>5. CASE SwapPublishes
  BY <1>5, <1>0 DEF SwapPublishes
<1>6. CASE InstallDependencies
  BY <1>6, <1>0 DEF InstallDependencies
<1>7. CASE SetTarget
  BY <1>7, <1>0 DEF SetTarget
<1>8. CASE MarkLoadable
  BY <1>8, <1>0 DEF MarkLoadable
<1>9. CASE StageBackup
  BY <1>9, <1>0 DEF StageBackup
<1>10. CASE ActivateMovesAside
  BY <1>10, <1>0 DEF ActivateMovesAside
<1>11. CASE ActivatePromotes
  BY <1>11, <1>0 DEF ActivatePromotes
<1>12. CASE Reload
  BY <1>12, <1>0 DEF Reload
<1>13. CASE Register
  BY <1>13, <1>0 DEF Register
<1>14. CASE Commit
  BY <1>14, <1>0 DEF Commit
<1>15. CASE Cancelled
  BY <1>15, <1>0 DEF Cancelled, CommitIsKnown
<1>16. CASE RestoreMovesAside
  BY <1>16, <1>0 DEF RestoreMovesAside
<1>17. CASE RestorePlaces
  BY <1>17, <1>0 DEF RestorePlaces
<1>18. CASE RestoreBackup
  BY <1>18, <1>0 DEF RestoreBackup, PreviousBackup
<1>19. CASE RestoreUnstages
  BY <1>19, <1>0 DEF RestoreUnstages
<1>20. CASE RestoreSeals
  BY <1>20, <1>0 DEF RestoreSeals
<1>21. CASE RestoreRuntime
  BY <1>21, <1>0 DEF RestoreRuntime
<1>22. CASE RestoreHost
  BY <1>22, <1>0 DEF RestoreHost
<1>23. CASE RestoreRegistrations
  BY <1>23, <1>0 DEF RestoreRegistrations
<1>24. CASE DeleteJournal
  BY <1>24, <1>0 DEF DeleteJournal, Gone
<1>25. CASE Cleanup
  BY <1>25, <1>0 DEF Cleanup
<1>26. CASE CancelledAgain
  BY <1>26, <1>0 DEF CancelledAgain
<1>27. CASE Finalize
  BY <1>27, <1>0 DEF Finalize
<1>28. CASE DropMaterial
  BY <1>28, <1>0 DEF DropMaterial
<1>29. CASE CloseJournal
  BY <1>29, <1>0 DEF CloseJournal
<1>30. CASE Replay
  BY <1>30, <1>0 DEF Replay
<1>31. CASE VerifyCommitted
  BY <1>31, <1>0 DEF VerifyCommitted
<1>32. CASE Consume
  BY <1>32, <1>0 DEF Consume
<1>33. CASE UninstallLeavesList
  BY <1>33, <1>0 DEF UninstallLeavesList
<1>34. CASE UninstallDisables
  BY <1>34, <1>0 DEF UninstallDisables
<1>35. CASE BackupPlugins
  BY <1>35, <1>0 DEF BackupPlugins
<1>36. CASE Stop
  BY <1>36, <1>0 DEF Stop, Ends
<1>37. CASE Crash
  BY <1>37, <1>0 DEF Crash, Ends
<1>38. CASE NewContainer
  BY <1>38, <1>0 DEF NewContainer
<1>39. CASE Restart
  BY <1>39, <1>0 DEF Restart
<1> QED
  BY <1>1, <1>2, <1>3, <1>4, <1>5, <1>6, <1>7, <1>8, <1>9, <1>10, <1>11, <1>12, <1>13, <1>14,
     <1>15, <1>16, <1>17, <1>18, <1>19, <1>20, <1>21, <1>22, <1>23, <1>24, <1>25, <1>26,
     <1>27, <1>28, <1>29, <1>30, <1>31, <1>32, <1>33, <1>34, <1>35, <1>36, <1>37, <1>38, <1>39
     DEF Next, Advance, Environment

\* The two renames of the backup, forward and back, and its use at a start.
LEMMA NextBackup ==
    ASSUME TypeOK, Control, Begun, Swap, Journal, Identity, Fresh, Backup, Grows, Next
    PROVE  Backup'
<1>0. /\ None \notin Tx /\ Torn # None /\ NoCheckpoint.tx = None
      /\ NoRow.phase = "none" /\ NoRow.at.tx = None
      /\ row.phase \in {"none", "prepared", "committed"}
      /\ (row.phase = "none") = (row.at.tx = None) /\ DOMAIN row = {"phase", "at"}
      /\ DOMAIN snap = Tx /\ DOMAIN staging = Tx /\ DOMAIN previous = Tx
      /\ (pc \in Forward \union Rollback \union Finish => t \in Tx)
      /\ row.at.tx \in Tx \union {None}
  BY NothingTyped, InstallAssumption
     DEF Control, TypeOK, Payloads, NoRow, NoCheckpoint, Checkpoints
<1> USE DEF Begun, Swap, Journal, Identity, Fresh, Backup, Owed, Aloof, Mine, memory, files,
            stores, rest, Go, Leave, GiveUp, Fails, HasSnapshot, t, Grows, Zeros, Forward,
            Rollback, Restore, Restored, Finish, Start, Journaled, Marked, Promoted
<1>1. ASSUME NEW x \in Tx, Begin(x) PROVE Backup'
  BY <1>1, <1>0 DEF Begin
<1>2. CASE Checkpoint
  BY <1>2, <1>0 DEF Checkpoint
<1>3. CASE CreateJournal
  BY <1>3, <1>0 DEF CreateJournal, SlotIsFree
<1>4. CASE SwapMovesAside
  BY <1>4, <1>0 DEF SwapMovesAside
<1>5. CASE SwapPublishes
  BY <1>5, <1>0 DEF SwapPublishes
<1>6. CASE InstallDependencies
  BY <1>6, <1>0 DEF InstallDependencies
<1>7. CASE SetTarget
  BY <1>7, <1>0 DEF SetTarget
<1>8. CASE MarkLoadable
  BY <1>8, <1>0 DEF MarkLoadable
<1>9. CASE StageBackup
  BY <1>9, <1>0 DEF StageBackup
<1>10. CASE ActivateMovesAside
  BY <1>10, <1>0 DEF ActivateMovesAside
<1>11. CASE ActivatePromotes
  BY <1>11, <1>0 DEF ActivatePromotes
<1>12. CASE Reload
  BY <1>12, <1>0 DEF Reload
<1>13. CASE Register
  BY <1>13, <1>0 DEF Register
<1>14. CASE Commit
  BY <1>14, <1>0 DEF Commit
<1>15. CASE Cancelled
  BY <1>15, <1>0 DEF Cancelled, CommitIsKnown
<1>16. CASE RestoreMovesAside
  BY <1>16, <1>0 DEF RestoreMovesAside
<1>17. CASE RestorePlaces
  BY <1>17, <1>0 DEF RestorePlaces
<1>18. CASE RestoreBackup
  <2>1. /\ pc = "unback" /\ t \in Tx /\ t \notin marker
        /\ PreviousBackup = previous[t] /\ (IF docker THEN staging[t] ELSE None) = staging[t]
        /\ UNCHANGED <<row, marker, staging, cp, mode, identity>>
        /\ (Mine /\ Owed) \/ Aloof
    BY <1>18, <1>0 DEF RestoreBackup, PreviousBackup, Control
  <2>2. CASE previous[t] # None /\ backup # None
    BY <2>1, <2>2, <1>18, <1>0 DEF RestoreBackup
  <2>3. CASE previous[t] # None /\ backup = None
    BY <2>1, <2>3, <1>18, <1>0 DEF RestoreBackup
  <2>4. CASE previous[t] = None
    BY <2>1, <2>4, <1>18, <1>0 DEF RestoreBackup
  <2> QED
    BY <2>2, <2>3, <2>4
<1>19. CASE RestoreUnstages
  BY <1>19, <1>0 DEF RestoreUnstages
<1>20. CASE RestoreSeals
  BY <1>20, <1>0 DEF RestoreSeals
<1>21. CASE RestoreRuntime
  BY <1>21, <1>0 DEF RestoreRuntime
<1>22. CASE RestoreHost
  BY <1>22, <1>0 DEF RestoreHost
<1>23. CASE RestoreRegistrations
  BY <1>23, <1>0 DEF RestoreRegistrations
<1>24. CASE DeleteJournal
  BY <1>24, <1>0 DEF DeleteJournal, Gone
<1>25. CASE Cleanup
  BY <1>25, <1>0 DEF Cleanup
<1>26. CASE CancelledAgain
  BY <1>26, <1>0 DEF CancelledAgain
<1>27. CASE Finalize
  BY <1>27, <1>0 DEF Finalize
<1>28. CASE DropMaterial
  BY <1>28, <1>0 DEF DropMaterial
<1>29. CASE CloseJournal
  BY <1>29, <1>0 DEF CloseJournal
<1>30. CASE Replay
  BY <1>30, <1>0 DEF Replay
<1>31. CASE VerifyCommitted
  BY <1>31, <1>0 DEF VerifyCommitted
<1>32. CASE Consume
  BY <1>32, <1>0 DEF Consume, Consumes
<1>33. CASE UninstallLeavesList
  BY <1>33, <1>0 DEF UninstallLeavesList
<1>34. CASE UninstallDisables
  BY <1>34, <1>0 DEF UninstallDisables
<1>35. CASE BackupPlugins
  BY <1>35, <1>0 DEF BackupPlugins
<1>36. CASE Stop
  BY <1>36, <1>0 DEF Stop, Ends
<1>37. CASE Crash
  BY <1>37, <1>0 DEF Crash, Ends
<1>38. CASE NewContainer
  BY <1>38, <1>0 DEF NewContainer
<1>39. CASE Restart
  BY <1>39, <1>0 DEF Restart
<1> QED
  BY <1>1, <1>2, <1>3, <1>4, <1>5, <1>6, <1>7, <1>8, <1>9, <1>10, <1>11, <1>12, <1>13, <1>14,
     <1>15, <1>16, <1>17, <1>18, <1>19, <1>20, <1>21, <1>22, <1>23, <1>24, <1>25, <1>26,
     <1>27, <1>28, <1>29, <1>30, <1>31, <1>32, <1>33, <1>34, <1>35, <1>36, <1>37, <1>38, <1>39
     DEF Next, Advance, Environment

\* The material of a replay is not removed before the journal row.
LEMMA NextMaterial ==
    ASSUME TypeOK, Control, Begun, Swap, Journal, Identity, Fresh, Backup, Material, Grows, Next
    PROVE  Material'
<1>0. /\ None \notin Tx /\ Torn # None /\ NoCheckpoint.tx = None
      /\ NoRow.phase = "none" /\ NoRow.at.tx = None
      /\ row.phase \in {"none", "prepared", "committed"}
      /\ (row.phase = "none") = (row.at.tx = None) /\ DOMAIN row = {"phase", "at"}
      /\ DOMAIN snap = Tx /\ DOMAIN staging = Tx /\ DOMAIN previous = Tx
      /\ (pc \in Forward \union Rollback \union Finish => t \in Tx)
      /\ (pc \in Rollback => mode \in {"fail", "bare", "replay"})
      /\ (mode = "replay" => did = {})
      /\ row.at.tx \in Tx \union {None}
  BY NothingTyped, InstallAssumption
     DEF Control, TypeOK, Payloads, NoRow, NoCheckpoint, Checkpoints
<1> USE DEF Begun, Swap, Journal, Identity, Fresh, Backup, Material, Owed, Aloof, Mine,
            memory, files, stores, rest, Go, Leave, GiveUp, Fails, HasSnapshot, t, Grows,
            Zeros, Forward, Rollback, Restore, Restored, Finish, Start, Journaled, Marked,
            Promoted
<1>1. ASSUME NEW x \in Tx, Begin(x) PROVE Material'
  BY <1>1, <1>0 DEF Begin
<1>2. CASE Checkpoint
  BY <1>2, <1>0 DEF Checkpoint
<1>3. CASE CreateJournal
  BY <1>3, <1>0 DEF CreateJournal, SlotIsFree
<1>4. CASE SwapMovesAside
  BY <1>4, <1>0 DEF SwapMovesAside
<1>5. CASE SwapPublishes
  BY <1>5, <1>0 DEF SwapPublishes
<1>6. CASE InstallDependencies
  BY <1>6, <1>0 DEF InstallDependencies
<1>7. CASE SetTarget
  BY <1>7, <1>0 DEF SetTarget
<1>8. CASE MarkLoadable
  BY <1>8, <1>0 DEF MarkLoadable
<1>9. CASE StageBackup
  BY <1>9, <1>0 DEF StageBackup
<1>10. CASE ActivateMovesAside
  BY <1>10, <1>0 DEF ActivateMovesAside
<1>11. CASE ActivatePromotes
  BY <1>11, <1>0 DEF ActivatePromotes
<1>12. CASE Reload
  BY <1>12, <1>0 DEF Reload
<1>13. CASE Register
  BY <1>13, <1>0 DEF Register
<1>14. CASE Commit
  BY <1>14, <1>0 DEF Commit
<1>15. CASE Cancelled
  BY <1>15, <1>0 DEF Cancelled, CommitIsKnown
<1>16. CASE RestoreMovesAside
  BY <1>16, <1>0 DEF RestoreMovesAside
<1>17. CASE RestorePlaces
  BY <1>17, <1>0 DEF RestorePlaces
<1>18. CASE RestoreBackup
  BY <1>18, <1>0 DEF RestoreBackup, PreviousBackup
<1>19. CASE RestoreUnstages
  BY <1>19, <1>0 DEF RestoreUnstages
<1>20. CASE RestoreSeals
  BY <1>20, <1>0 DEF RestoreSeals
<1>21. CASE RestoreRuntime
  BY <1>21, <1>0 DEF RestoreRuntime
<1>22. CASE RestoreHost
  BY <1>22, <1>0 DEF RestoreHost
<1>23. CASE RestoreRegistrations
  BY <1>23, <1>0 DEF RestoreRegistrations
<1>24. CASE DeleteJournal
  BY <1>24, <1>0 DEF DeleteJournal, Gone
<1>25. CASE Cleanup
  BY <1>25, <1>0 DEF Cleanup
<1>26. CASE CancelledAgain
  BY <1>26, <1>0 DEF CancelledAgain
<1>27. CASE Finalize
  BY <1>27, <1>0 DEF Finalize
<1>28. CASE DropMaterial
  BY <1>28, <1>0 DEF DropMaterial
<1>29. CASE CloseJournal
  BY <1>29, <1>0 DEF CloseJournal
<1>30. CASE Replay
  BY <1>30, <1>0 DEF Replay
<1>31. CASE VerifyCommitted
  BY <1>31, <1>0 DEF VerifyCommitted, Verified
<1>32. CASE Consume
  BY <1>32, <1>0 DEF Consume, Consumes
<1>33. CASE UninstallLeavesList
  BY <1>33, <1>0 DEF UninstallLeavesList
<1>34. CASE UninstallDisables
  BY <1>34, <1>0 DEF UninstallDisables
<1>35. CASE BackupPlugins
  BY <1>35, <1>0 DEF BackupPlugins
<1>36. CASE Stop
  BY <1>36, <1>0 DEF Stop, Ends
<1>37. CASE Crash
  BY <1>37, <1>0 DEF Crash, Ends
<1>38. CASE NewContainer
  BY <1>38, <1>0 DEF NewContainer
<1>39. CASE Restart
  BY <1>39, <1>0 DEF Restart
<1> QED
  BY <1>1, <1>2, <1>3, <1>4, <1>5, <1>6, <1>7, <1>8, <1>9, <1>10, <1>11, <1>12, <1>13, <1>14,
     <1>15, <1>16, <1>17, <1>18, <1>19, <1>20, <1>21, <1>22, <1>23, <1>24, <1>25, <1>26,
     <1>27, <1>28, <1>29, <1>30, <1>31, <1>32, <1>33, <1>34, <1>35, <1>36, <1>37, <1>38, <1>39
     DEF Next, Advance, Environment

\* The run directory, its sibling and the snapshot.
LEMMA NextContent ==
    ASSUME TypeOK, Control, Begun, Swap, Journal, Identity, Fresh, Backup, Content, Grows, Next
    PROVE  Content'
<1>0. /\ None \notin Tx /\ Torn # None /\ None \notin Payloads /\ NoCheckpoint.tx = None
      /\ Torn \notin Payloads /\ Tx \subseteq Payloads /\ kept \subseteq Payloads
      /\ identity \in Payloads \union {None}
      /\ NoRow.phase = "none" /\ NoRow.at.tx = None
      /\ row.phase \in {"none", "prepared", "committed"}
      /\ (row.phase = "none") = (row.at.tx = None) /\ DOMAIN row = {"phase", "at"}
      /\ DOMAIN snap = Tx
      /\ (pc \in Forward \union Rollback \union Finish => t \in Tx)
      /\ (pc \in Rollback => mode \in {"fail", "bare", "replay"})
      /\ row.at.tx \in Tx \union {None} /\ cp.existed \in BOOLEAN
  BY NothingTyped, InstallAssumption
     DEF Control, TypeOK, Payloads, NoRow, NoCheckpoint, Checkpoints
<1> USE DEF Begun, Swap, Journal, Identity, Content, Owed, Aloof, Mine, memory, files, stores,
            rest, Go, Leave, GiveUp, Fails, HasSnapshot, LeavesAside, Settled, Present, t,
            Emptied, Strayed, Holds, Grows, Zeros, Forward, Rollback, Restore, Restored, Finish, Start, Journaled,
            Marked, Promoted
<1>a. pc = "place" /\ ~Owed /\ Intact => mode = "bare" \/ aside = None
  BY <1>0
<1>1. ASSUME NEW x \in Tx, Begin(x) PROVE Content'
  BY <1>1, <1>0 DEF Begin
<1>2. CASE Checkpoint
  BY <1>2, <1>0 DEF Checkpoint
<1>3. CASE CreateJournal
  BY <1>3, <1>0 DEF CreateJournal, SlotIsFree
<1>4. CASE SwapMovesAside
  BY <1>4, <1>0 DEF SwapMovesAside, Moved
<1>5. CASE SwapPublishes
  BY <1>5, <1>0 DEF SwapPublishes
<1>6. CASE InstallDependencies
  BY <1>6, <1>0 DEF InstallDependencies
<1>7. CASE SetTarget
  BY <1>7, <1>0 DEF SetTarget
<1>8. CASE MarkLoadable
  BY <1>8, <1>0 DEF MarkLoadable
<1>9. CASE StageBackup
  BY <1>9, <1>0 DEF StageBackup
<1>10. CASE ActivateMovesAside
  BY <1>10, <1>0 DEF ActivateMovesAside
<1>11. CASE ActivatePromotes
  BY <1>11, <1>0 DEF ActivatePromotes
<1>12. CASE Reload
  BY <1>12, <1>0 DEF Reload
<1>13. CASE Register
  BY <1>13, <1>0 DEF Register
<1>14. CASE Commit
  BY <1>14, <1>0 DEF Commit
<1>15. CASE Cancelled
  BY <1>15, <1>0 DEF Cancelled, CommitIsKnown, Control
<1>16. CASE RestoreMovesAside
  BY <1>16, <1>0 DEF RestoreMovesAside, Moved
<1>17. CASE RestorePlaces
  <2>1. CASE run # Torn /\ run' = (IF cp.existed THEN snap[t] ELSE None) /\ aside' = None
             /\ pc' = "unback" /\ UNCHANGED <<kept, did, spent>>
    BY <1>17, <2>1, <1>0, <1>a DEF RestorePlaces
  <2>2. CASE run = Torn /\ run' = None /\ UNCHANGED <<aside, kept, pc, did, spent>>
    BY <1>17, <2>2, <1>0, <1>a DEF RestorePlaces
  <2>3. CASE run' = aside /\ aside' = None /\ UNCHANGED kept /\ Fault /\ GiveUp
    BY <1>17, <2>3, <1>0, <1>a DEF RestorePlaces
  <2>4. CASE LeavesAside /\ run' \in {run, None} /\ Fault /\ GiveUp
    BY <1>17, <2>4, <1>0, <1>a DEF RestorePlaces
  <2> QED
    BY <1>17, <2>1, <2>2, <2>3, <2>4 DEF RestorePlaces
<1>18. CASE RestoreBackup
  BY <1>18, <1>0 DEF RestoreBackup
<1>19. CASE RestoreUnstages
  BY <1>19, <1>0 DEF RestoreUnstages
<1>20. CASE RestoreSeals
  BY <1>20, <1>0 DEF RestoreSeals
<1>21. CASE RestoreRuntime
  BY <1>21, <1>0 DEF RestoreRuntime
<1>22. CASE RestoreHost
  BY <1>22, <1>0 DEF RestoreHost
<1>23. CASE RestoreRegistrations
  BY <1>23, <1>0 DEF RestoreRegistrations
<1>24. CASE DeleteJournal
  BY <1>24, <1>0 DEF DeleteJournal, Gone
<1>25. CASE Cleanup
  BY <1>25, <1>0 DEF Cleanup
<1>26. CASE CancelledAgain
  BY <1>26, <1>0 DEF CancelledAgain
<1>27. CASE Finalize
  BY <1>27, <1>0 DEF Finalize
<1>28. CASE DropMaterial
  BY <1>28, <1>0 DEF DropMaterial
<1>29. CASE CloseJournal
  BY <1>29, <1>0 DEF CloseJournal
<1>30. CASE Replay
  BY <1>30, <1>0 DEF Replay
<1>31. CASE VerifyCommitted
  BY <1>31, <1>0 DEF VerifyCommitted
<1>32. CASE Consume
  BY <1>32, <1>0 DEF Consume, Consumes, Backup, Intact
<1>33. CASE UninstallLeavesList
  BY <1>33, <1>0 DEF UninstallLeavesList
<1>34. CASE UninstallDisables
  BY <1>34, <1>0 DEF UninstallDisables
<1>35. CASE BackupPlugins
  BY <1>35, <1>0 DEF BackupPlugins
<1>36. CASE Stop
  BY <1>36, <1>0 DEF Stop, Ends
<1>37. CASE Crash
  BY <1>37, <1>0, <1>a DEF Crash, Ends
<1>38. CASE NewContainer
  BY <1>38, <1>0 DEF NewContainer
<1>39. CASE Restart
  BY <1>39, <1>0 DEF Restart
<1> QED
  BY <1>1, <1>2, <1>3, <1>4, <1>5, <1>6, <1>7, <1>8, <1>9, <1>10, <1>11, <1>12, <1>13, <1>14,
     <1>15, <1>16, <1>17, <1>18, <1>19, <1>20, <1>21, <1>22, <1>23, <1>24, <1>25, <1>26,
     <1>27, <1>28, <1>29, <1>30, <1>31, <1>32, <1>33, <1>34, <1>35, <1>36, <1>37, <1>38, <1>39
     DEF Next, Advance, Environment

\* The process loads what the run directory holds, and unloads it before it changes.
LEMMA NextMemory ==
    ASSUME TypeOK, Control, Begun, Swap, Journal, Identity, Content, Content', Memory, Grows,
           Next
    PROVE  Memory'
<1>0. /\ None \notin Tx /\ Torn # None /\ None \notin Payloads /\ NoCheckpoint.tx = None
      /\ NoRow.phase = "none" /\ NoRow.at.tx = None /\ Torn \notin Payloads
      /\ row.phase \in {"none", "prepared", "committed"}
      /\ (row.phase = "none") = (row.at.tx = None) /\ DOMAIN row = {"phase", "at"}
      /\ (pc \in Forward \union Rollback \union Finish => t \in Tx)
      /\ row.at.tx \in Tx \union {None} /\ cp.before \in BOOLEAN
  BY NothingTyped, InstallAssumption
     DEF Control, TypeOK, Payloads, NoRow, NoCheckpoint, Checkpoints
<1> USE DEF Control, Swap, Journal, Identity, Memory, LiveMatches, Strayed, Zeros, files, stores, memory,
            rest, Go, Leave, GiveUp, Fails, t, Grows, Forward, Rollback, Restore, Restored,
            Finish, Start, Journaled, Marked, Promoted
<1>1. ASSUME NEW x \in Tx, Begin(x) PROVE Memory'
  BY <1>1, <1>0 DEF Begin
<1>2. CASE Checkpoint
  BY <1>2, <1>0 DEF Checkpoint
<1>3. CASE CreateJournal
  BY <1>3, <1>0 DEF CreateJournal, SlotIsFree
<1>4. CASE SwapMovesAside
  BY <1>4, <1>0 DEF SwapMovesAside
<1>5. CASE SwapPublishes
  BY <1>5, <1>0 DEF SwapPublishes, LeavesAside
<1>6. CASE InstallDependencies
  BY <1>6, <1>0 DEF InstallDependencies
<1>7. CASE SetTarget
  BY <1>7, <1>0 DEF SetTarget
<1>8. CASE MarkLoadable
  BY <1>8, <1>0 DEF MarkLoadable
<1>9. CASE StageBackup
  BY <1>9, <1>0 DEF StageBackup
<1>10. CASE ActivateMovesAside
  BY <1>10, <1>0 DEF ActivateMovesAside
<1>11. CASE ActivatePromotes
  BY <1>11, <1>0 DEF ActivatePromotes
<1>12. CASE Reload
  BY <1>12, <1>0 DEF Reload
<1>13. CASE Register
  BY <1>13, <1>0 DEF Register
<1>14. CASE Commit
  BY <1>14, <1>0 DEF Commit
<1>15. CASE Cancelled
  BY <1>15, <1>0 DEF Cancelled, CommitIsKnown
<1>16. CASE RestoreMovesAside
  BY <1>16, <1>0 DEF RestoreMovesAside
<1>17. CASE RestorePlaces
  BY <1>17, <1>0 DEF RestorePlaces, LeavesAside
<1>18. CASE RestoreBackup
  BY <1>18, <1>0 DEF RestoreBackup
<1>19. CASE RestoreUnstages
  BY <1>19, <1>0 DEF RestoreUnstages
<1>20. CASE RestoreSeals
  BY <1>20, <1>0 DEF RestoreSeals
<1>21. CASE RestoreRuntime
  BY <1>21, <1>0
     DEF RestoreRuntime, Reloads, Loads, Begun, Content, Settled, Present, Emptied, Owed
<1>22. CASE RestoreHost
  BY <1>22, <1>0 DEF RestoreHost, RestoresHost
<1>23. CASE RestoreRegistrations
  BY <1>23, <1>0 DEF RestoreRegistrations
<1>24. CASE DeleteJournal
  BY <1>24, <1>0 DEF DeleteJournal, Gone
<1>25. CASE Cleanup
  BY <1>25, <1>0 DEF Cleanup
<1>26. CASE CancelledAgain
  BY <1>26, <1>0 DEF CancelledAgain
<1>27. CASE Finalize
  BY <1>27, <1>0 DEF Finalize
<1>28. CASE DropMaterial
  BY <1>28, <1>0 DEF DropMaterial
<1>29. CASE CloseJournal
  BY <1>29, <1>0 DEF CloseJournal
<1>30. CASE Replay
  BY <1>30, <1>0 DEF Replay
<1>31. CASE VerifyCommitted
  BY <1>31, <1>0 DEF VerifyCommitted
<1>32. CASE Consume
  BY <1>32, <1>0 DEF Consume, Loads, Content, Settled, Present, Emptied, Owed
<1>33. CASE UninstallLeavesList
  BY <1>33, <1>0 DEF UninstallLeavesList
<1>34. CASE UninstallDisables
  BY <1>34, <1>0 DEF UninstallDisables
<1>35. CASE BackupPlugins
  BY <1>35, <1>0 DEF BackupPlugins
<1>36. CASE Stop
  BY <1>36, <1>0 DEF Stop, Ends
<1>37. CASE Crash
  BY <1>37, <1>0 DEF Crash, Ends
<1>38. CASE NewContainer
  BY <1>38, <1>0 DEF NewContainer
<1>39. CASE Restart
  BY <1>39, <1>0 DEF Restart
<1> QED
  BY <1>1, <1>2, <1>3, <1>4, <1>5, <1>6, <1>7, <1>8, <1>9, <1>10, <1>11, <1>12, <1>13, <1>14,
     <1>15, <1>16, <1>17, <1>18, <1>19, <1>20, <1>21, <1>22, <1>23, <1>24, <1>25, <1>26,
     <1>27, <1>28, <1>29, <1>30, <1>31, <1>32, <1>33, <1>34, <1>35, <1>36, <1>37, <1>38, <1>39
     DEF Next, Advance, Environment

-----------------------------------------------------------------------------
(* The invariant *)

\* The first start has nothing to replay.
LEMMA InitInv ==
    ASSUME Init
    PROVE  IInv
<1>1. TypeOK
  BY InitTyping
<1>2. /\ t = None /\ row.phase = "none" /\ row.at = cp /\ ~cp.hadBackup /\ None \notin Payloads
      /\ row = NoRow
  BY NothingTyped DEF Init, NoRow, NoCheckpoint, t
<1> USE DEF Forward, Rollback, Restore, Restored, Finish, Start, Journaled, Marked, Promoted
<1>3. Control /\ Begun /\ Journal /\ Identity
  BY <1>2 DEF Init, Control, Begun, Journal, Identity
<1>4. Swap /\ Host /\ Fresh
  BY <1>2, InstallAssumption DEF Init, Swap, Host, Fresh, Aloof, Owed, Kinds
<1>5. Backup /\ Material
  BY <1>2 DEF Init, Backup, Material, Aloof, Owed, Mine
<1>6. Content /\ Memory
  BY <1>2 DEF Init, Content, Memory, Aloof, Owed, Mine, Settled, Present, LiveMatches
<1> QED
  BY <1>1, <1>3, <1>4, <1>5, <1>6 DEF IInv

\* Nothing changes: every part says the same of the next state.
LEMMA StutterInv ==
    ASSUME IInv, UNCHANGED vars
    PROVE  IInv'
<1> USE DEF vars, files, stores, memory, rest, t, Owed, Mine, Aloof, HasSnapshot, Intact
<1>1. TypeOK'
  BY DEF IInv, TypeOK
<1>2. Control'
  BY DEF IInv, Control
<1>3. Begun'
  BY DEF IInv, Begun
<1>4. Swap'
  BY DEF IInv, Swap
<1>5. Journal'
  BY DEF IInv, Journal
<1>6. Identity'
  BY DEF IInv, Identity
<1>7. Host'
  BY DEF IInv, Host
<1>8. Fresh'
  BY DEF IInv, Fresh
<1>9. Backup'
  BY DEF IInv, Backup
<1>10. Material'
  BY DEF IInv, Material
<1>11. Content'
  BY DEF IInv, Content, Settled, Present, Emptied, Holds, Strayed
<1>12. Memory'
  BY DEF IInv, Memory, LiveMatches, Strayed
<1> QED
  BY <1>1, <1>2, <1>3, <1>4, <1>5, <1>6, <1>7, <1>8, <1>9, <1>10, <1>11, <1>12 DEF IInv

\* The files first, then what speaks of more stores.
LEMMA StepInv ==
    ASSUME IInv, Next
    PROVE  IInv'
<1> USE DEF IInv
<1>1. Grows
  BY NextGrows
<1>2. TypeOK'
  BY <1>1, NextTyping
<1>3. Control'
  BY <1>1, NextControl
<1>4. Begun'
  BY <1>1, NextBegun
<1>5. Swap'
  BY <1>1, NextSwap
<1>6. Journal'
  BY <1>1, NextJournal
<1>7. Identity'
  BY <1>1, NextIdentity
<1>8. Host'
  BY <1>1, NextHost
<1>9. Fresh'
  BY <1>1, NextFresh
<1>10. Backup'
  BY <1>1, NextBackup
<1>11. Material'
  BY <1>1, NextMaterial
<1>12. Content'
  BY <1>1, NextContent
<1>13. Memory'
  BY <1>1, <1>12, NextMemory
<1> QED
  BY <1>2, <1>3, <1>4, <1>5, <1>6, <1>7, <1>8, <1>9, <1>10, <1>11, <1>12, <1>13

\* Every part of the invariant holds at every point at which the process may die.
THEOREM PluginInductive == Spec => []IInv
<1>1. Init => IInv
  BY InitInv
<1>2. IInv /\ [Next]_vars => IInv'
  BY StepInv, StutterInv
<1> QED
  BY <1>1, <1>2, PTL DEF Spec

-----------------------------------------------------------------------------
(* The theorems *)

\* Every store keeps its type, and no bound is overrun: the state of the
\* transaction, its rollback and the start is one that the code can be in.
THEOREM PluginInstallTypeOK == Spec => []TypeOK
<1>1. IInv => TypeOK
  BY DEF IInv
<1> QED
  BY <1>1, PluginInductive, PTL

\* Only a container made anew loses its files.
LEMMA SettledOrEmptied ==
    ASSUME TypeOK, Swap, Emptied
    PROVE  docker /\ spent["resets"] # 0
BY DEF Swap, Emptied, TypeOK, Kinds

\* When no change is under way and none is left to be replayed, the run
\* directory, the identity row, the host row, the backup and the process tell
\* of one version: whatever failed, was cancelled, died or came in any order.
THEOREM PluginStoresAgree == Spec => []StoresAgree
<1>1. ASSUME IInv, Quiet PROVE StoresAgree
  <2>1. ~Owed /\ row.phase # "prepared"
    BY <1>1 DEF Quiet, Owed
  <2>2. Intact => Settled /\ LiveMatches
    BY <1>1, <2>1 DEF IInv, Content, Memory
  <2>3. spent["uninstalls"] = 0 => EnabledIsAsDecided
    BY <1>1 DEF IInv, Host, Quiet, EnabledIsAsDecided
  <2>4. spent["backups"] = 0 => BackupMatches
    BY <1>1, <2>1 DEF IInv, Backup, BackupMatches
  <2> QED
    BY <2>2, <2>3, <2>4 DEF StoresAgree
<1>2. IInv => StoresAgree
  BY <1>1 DEF StoresAgree
<1> QED
  BY <1>2, PluginInductive, PTL

\* Whenever the process may die with a journal, the material is there that the
\* replay at the next start needs.
THEOREM PluginRecoverable == Spec => []Recoverable
<1>1. ASSUME IInv PROVE Recoverable
  <2> DEFINE x == row.at.tx
             Calm == 0 \in {spent["resets"], spent["faults"]}
  <2>1. row.phase = "committed" => identity = x
    BY <1>1 DEF IInv, Identity
  <2>2. ASSUME row.phase = "prepared", Calm, Intact
        PROVE  \/ x \in marker /\ (row.at.existed => Present(row.at.identity))
               \/ x \in marker /\ Emptied /\ (row.at.hadBackup => backup # None)
               \/ x \notin marker /\ (row.at.existed => snap[x] = row.at.identity
                                         \/ (snap[x] = Torn /\ Strayed(row.at.identity)))
                  /\ (row.at.hadBackup => previous[x] # None \/ backup # None)
    <3>1. identity = row.at.identity
      BY <1>1, <2>2 DEF IInv, Identity
    <3>2. CASE x \in marker
      BY <1>1, <2>2, <3>1, <3>2 DEF IInv, Content, Material, Owed, Settled
    <3>3. CASE x \notin marker
      BY <1>1, <2>2, <3>1, <3>3 DEF IInv, Content, Material, Owed, Holds
    <3> QED
      BY <3>2, <3>3
  <2>3. ASSUME row.phase = "committed", ~docker, Intact
        PROVE  Present(x)
    <3>1. Settled
      BY <1>1, <2>3 DEF IInv, Content, Owed
    <3> QED
      BY <1>1, <2>1, <2>3, <3>1, SettledOrEmptied DEF IInv, Settled
  <2>4. ASSUME row.phase = "committed", docker, Calm, spent["backups"] = 0
        PROVE  backup = x /\ staging[x] = None
    BY <1>1, <2>4 DEF IInv, Material
  <2> QED
    BY <2>1, <2>2, <2>3, <2>4 DEF Recoverable
<1> QED
  BY <1>1, PluginInductive, PTL

\* The run directory of a committed transaction.
LEMMA CommittedRun ==
    ASSUME IInv, Next, row.phase = "committed", Intact
    PROVE  run' \in {row.at.tx, None}
<1> DEFINE x == row.at.tx
<1>1. /\ identity = x /\ ~Owed /\ run \in {x, None}
      /\ pc \notin Journaled
      /\ NoRow.phase = "none"
      /\ x \in Tx
  BY DEF IInv, TypeOK, Checkpoints, Identity, Owed, Content, Settled, Present, Emptied, Journal, NoRow
<1>2. CASE SwapMovesAside \/ SwapPublishes \/ InstallDependencies
  BY <1>1, <1>2 DEF SwapMovesAside, SwapPublishes, InstallDependencies, Journaled, Forward
<1>3. CASE RestoreMovesAside
  BY <1>1, <1>3 DEF RestoreMovesAside, Moved
<1>4. CASE RestorePlaces
  <2>1. /\ pc = "place" /\ run = None /\ (cp.existed => snap[t] # None)
        /\ aside \in {None, identity} /\ Aloof /\ Torn # None
    BY <1>1, <1>4, InstallAssumption
       DEF RestorePlaces, Holds, IInv, Swap, HasSnapshot, Content, Aloof, Mine, Rollback, Restore,
           Control, Journal
  <2>2. cp.existed => snap[t] = identity
    BY <1>1, <2>1 DEF IInv, Content, Holds
  <2> QED
    BY <1>1, <1>4, <2>1, <2>2 DEF RestorePlaces, LeavesAside
<1>5. CASE Consume
  <2>1. Consumes => backup = identity
    BY <1>1 DEF Consumes, IInv, Swap, Backup, Intact
  <2> QED
    BY <1>1, <1>5, <2>1 DEF Consume
<1>6. CASE NewContainer
  BY <1>6 DEF NewContainer
<1> QED
  BY <1>1, <1>2, <1>3, <1>4, <1>5, <1>6, Writers

\* Once committed a transaction is never rolled back: no step of a later
\* operation, rollback or start takes its identity or its payload back.
THEOREM PluginCommitIsFinal == Spec => CommitIsFinal
<1> DEFINE Final == row.phase = "committed" =>
                        identity' = row.at.tx /\ (Intact => run' \in {row.at.tx, None})
<1>1. ASSUME IInv, Next, row.phase = "committed" PROVE identity' = row.at.tx
  <2>1. ~Commit
    BY <1>1 DEF IInv, Journal, Commit, Journaled, Forward
  <2>2. identity' = identity
    BY <1>1, <2>1, Writers DEF UninstallDisables
  <2> QED
    BY <1>1, <2>2 DEF IInv, Identity
<1>2. IInv /\ [Next]_vars => [Final]_vars
  BY <1>1, CommittedRun
<1> QED
  BY <1>2, PluginInductive, PTL DEF Spec, CommitIsFinal
=============================================================================
