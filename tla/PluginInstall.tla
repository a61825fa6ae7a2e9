--------------------------- MODULE PluginInstall ---------------------------
(***************************************************************************)
(* The installation transaction of one plugin (application/plugin/         *)
(* install.py, recovery.py, transaction.py) with the stores it has to keep *)
(* together: the run directory, the persistent backup of a container, the  *)
(* host row that decides what is loaded, the installed list with the       *)
(* identity of the payload, and the journal.  Every rename is a step, a    *)
(* copy or a removal may fail, and the process may die between any two.    *)
(***************************************************************************)
EXTENDS Integers, FiniteSets

CONSTANTS
    Tx,             \* transactions; each brings a payload of its own
    Base,           \* the payload that may be installed at the beginning
    None,           \* no directory, no payload, no transaction
    Torn,           \* a directory with a part of its files
    MaxFaults,      \* bound of the model: operations that fail
    MaxCrashes,     \* bound of the model: deaths of the process
    MaxStops,       \* bound of the model: orderly restarts
    MaxBackups,     \* bound of the model: calls of backup_plugins
    MaxUninstalls,  \* bound of the model: uninstallations
    MaxResets,      \* bound of the model: containers made anew
    MaxTears        \* bound of the model: clean-ups that fail halfway

Payloads == Tx \union {Base}
Trees    == Payloads \union {None, Torn}

ASSUME InstallAssumption ==
    /\ Base \notin Tx /\ None # Torn
    /\ {None, Torn} \intersect Payloads = {}
    /\ {MaxFaults, MaxCrashes, MaxStops, MaxBackups, MaxUninstalls, MaxResets,
        MaxTears} \subseteq Nat

VARIABLES
    run,            \* the run directory of the plugin
    aside,          \* its sibling that holds what the swap under way moved
    kept,           \* the payloads that swaps without a journal left in siblings
    snap,           \* transaction_dir/package of every transaction
    marker,         \* transactions with a rollback_marker
    backup,         \* plugins_backup/<plugin>
    staging,        \* its staging directory of every transaction
    previous,       \* its previous directory of every transaction
    row,            \* the journal row of the plugin
    member,         \* the installed list has the plugin
    identity,       \* the payload that the identity row describes
    enabled,        \* the host row is enabled
    pc,             \* where the transaction, the start or the uninstallation is
    mode,           \* what the steps of a rollback or of a clean-up serve
    cp,             \* the checkpoint and the facts frozen with it
    did,            \* the flags of _InstallState
    live,           \* the payload that the process has loaded
    docker,         \* the deployment keeps a persistent backup
    reset,          \* the system flag file is missing
    used,           \* transactions begun
    want,           \* what the last finished operation made of the host row
    spent           \* what the bounds have used up

files  == <<run, aside, kept, snap, marker, backup, staging, previous>>
stores == <<row, member, identity, enabled>>
memory == <<pc, mode, cp, did, live>>
rest   == <<docker, reset, used, want>>
vars   == <<files, stores, memory, rest, spent>>

Kinds == {"faults", "crashes", "stops", "backups", "uninstalls", "resets", "tears"}
Limit == [k \in Kinds |->
            CASE k = "faults" -> MaxFaults [] k = "crashes" -> MaxCrashes
              [] k = "stops" -> MaxStops [] k = "backups" -> MaxBackups
              [] k = "uninstalls" -> MaxUninstalls [] k = "resets" -> MaxResets
              [] k = "tears" -> MaxTears]

Spend(k) == spent[k] < Limit[k] /\ spent' = [spent EXCEPT ![k] = @ + 1]
Fault == Spend("faults")

NoCheckpoint == [tx |-> None, existed |-> FALSE, hadBackup |-> FALSE,
                 before |-> FALSE, member |-> FALSE, identity |-> None]
NoRow == [phase |-> "none", at |-> NoCheckpoint]

Forward  == {"checkpoint", "journal", "swap", "publish", "depend", "target",
             "mark", "stage", "activate", "promote", "reload", "register", "commit"}
Restore  == {"tree", "place", "unback", "unstage", "seal"}
Rollback == Restore \union {"runtime", "host", "registrations", "delete", "cleanup"}
Finish   == {"finalize", "drop", "close"}
Start    == {"replay", "verify", "consume"}
Places   == {"down", "idle", "leaving"} \union Forward \union Rollback
                \union Finish \union Start

Checkpoints == [tx : Tx \union {None}, existed : BOOLEAN, hadBackup : BOOLEAN,
                before : BOOLEAN, member : BOOLEAN, identity : Payloads \union {None}]

TypeOK ==
    /\ run \in Trees /\ aside \in Trees /\ backup \in Trees
    /\ snap \in [Tx -> Trees] /\ staging \in [Tx -> Trees] /\ previous \in [Tx -> Trees]
    /\ marker \subseteq Tx /\ kept \subseteq Payloads
    /\ row \in [phase : {"none", "prepared", "committed"}, at : Checkpoints]
    /\ (row.phase = "none") = (row.at.tx = None)
    /\ member \in BOOLEAN /\ enabled \in BOOLEAN
    /\ identity \in Payloads \union {None}
    /\ pc \in Places
    /\ mode \in {"none", "install", "fail", "bare", "replay"}
    /\ cp \in Checkpoints
    /\ did \subseteq {"journal", "host", "runtime", "failed", "again"}
    /\ live \in Trees
    /\ docker \in BOOLEAN /\ reset \in BOOLEAN /\ want \in BOOLEAN
    /\ used \subseteq Tx
    /\ spent \in [Kinds -> Nat] /\ \A k \in Kinds : spent[k] <= Limit[k]

\* What the loader makes of a directory: whatever is there is imported, and
\* a part of the files may be enough for that or not.
Loads(dir) == CASE ~enabled -> {None}
                [] enabled /\ dir = Torn -> {None, Torn}
                [] enabled /\ dir # Torn -> {dir}

\* A process that starts; the plugin was never installed, is installed, is
\* installed and switched off, or is uninstalled with its files left.
Init ==
    /\ run \in {None, Base} /\ identity = run
    /\ member \in BOOLEAN /\ enabled \in BOOLEAN
    /\ (run = None => ~member /\ ~enabled) /\ (enabled => member)
    /\ docker \in BOOLEAN
    /\ backup \in {None, run} /\ (~docker => backup = None)
    /\ aside = None /\ kept = {}
    /\ snap = [t \in Tx |-> None] /\ staging = [t \in Tx |-> None]
    /\ previous = [t \in Tx |-> None] /\ marker = {}
    /\ row = NoRow
    /\ pc = "replay" /\ mode = "none" /\ cp = NoCheckpoint /\ did = {} /\ live = None
    /\ reset = FALSE /\ used = {} /\ want = enabled
    /\ spent = [k \in Kinds |-> 0]

t == cp.tx
Go(where) == pc' = where
\* The operation is over; the start goes on with the next thing it does.
Leave == Go(IF mode = "replay" THEN "consume" ELSE "idle")
-----------------------------------------------------------------------------
(* The transaction, forward.  PluginInstallCommand.__execute_locked.       *)

\* The mutation lease keeps every other change of plugins away until "idle".
Begin(tx) ==
    /\ pc = "idle"
    /\ tx \notin used
    /\ used' = used \union {tx}
    /\ cp' = [tx |-> tx, existed |-> run # None, hadBackup |-> backup # None,
              before |-> enabled, member |-> member, identity |-> identity]
    /\ did' = {} /\ mode' = "install" /\ Go("checkpoint")
    /\ UNCHANGED <<files, stores, live, docker, reset, want, spent>>

Checkpoint ==
    /\ pc = "checkpoint"
    /\ \/ snap' = [snap EXCEPT ![t] = run] /\ Go("journal") /\ UNCHANGED spent
       \/ Fault /\ Go("idle") /\ UNCHANGED snap
    /\ UNCHANGED <<run, aside, kept, marker, backup, staging, previous, stores, mode, cp, did,
                   live, rest>>

\* A new transaction finds no unfinished one of the plugin.
SlotIsFree == row.phase = "none"

\* create(): a conflict, or an answer that is lost before or after the write;
\* the row is then read again, which may fail as well.
CreateJournal ==
    /\ pc = "journal"
    /\ \/ /\ SlotIsFree
          /\ row' = [phase |-> "prepared", at |-> cp]
          /\ \/ did' = did \union {"journal"} /\ Go("swap")
                /\ UNCHANGED <<mode, spent>>
             \/ did' = did \union {"journal"} /\ Go("tree") /\ mode' = "fail" /\ Fault
             \/ Go("idle") /\ UNCHANGED <<did, mode>> /\ Fault
       \/ /\ UNCHANGED <<row, did>>
          /\ \/ ~SlotIsFree /\ Go("tree") /\ mode' = "bare" /\ UNCHANGED spent
             \/ Go("tree") /\ mode' = "bare" /\ Fault
             \/ Go("idle") /\ UNCHANGED mode /\ Fault
    /\ UNCHANGED <<files, member, identity, enabled, cp, live, rest>>

\* __fail_prepared begins.
Fails == Go("tree") /\ mode' = "fail"

\* What a move aside leaves of the run directory.  A directory of the image
\* (overlayfs) cannot be renamed: it is copied, then removed file by file.
\* What a transaction has published lies in the writable layer.
Moved == IF run \in Tx \union {None} THEN {None} ELSE {None, Torn}

\* The content is prepared, and what was installed is moved aside.
SwapMovesAside ==
    /\ pc = "swap"
    /\ \/ /\ aside' = run /\ run' \in Moved /\ Go("publish")
          /\ UNCHANGED <<mode, spent>>
       \/ Fault /\ Fails /\ UNCHANGED <<run, aside>>
    /\ UNCHANGED <<kept, snap, marker, backup, staging, previous, stores, cp, did, live, rest>>

\* The sibling stays where it is, under a name of its own.  With a journal
\* nobody needs it again.
LeavesAside ==
    /\ kept' = IF mode = "bare" /\ aside \in Payloads THEN kept \union {aside} ELSE kept
    /\ aside' = None

\* A swap that fails removes what is left and puts back what it moved, unless
\* that fails as well.
SwapPublishes ==
    /\ pc = "publish"
    /\ \/ /\ run # Torn
          /\ run' = t /\ aside' = None /\ Go("depend")
          /\ UNCHANGED <<kept, mode, spent>>
       \/ run = Torn /\ run' = None /\ UNCHANGED <<aside, kept, pc, mode, spent>>
       \/ run' = aside /\ aside' = None /\ UNCHANGED kept /\ Fault /\ Fails
       \/ LeavesAside /\ run' \in {run, None} /\ Fault /\ Fails
    /\ UNCHANGED <<snap, marker, backup, staging, previous, stores, cp, did, live, rest>>

\* A forced installation keeps no copy: without its dependencies it is removed.
InstallDependencies ==
    /\ pc = "depend"
    /\ \/ Go("target") /\ UNCHANGED <<run, mode, spent>>
       \/ run' \in {None, Torn} /\ Fault /\ Fails
    /\ UNCHANGED <<aside, kept, snap, marker, backup, staging, previous, stores, cp, did, live, rest>>

\* The receipt of the payload becomes the target of the journal.
SetTarget ==
    /\ pc = "target"
    /\ \/ Go("mark") /\ UNCHANGED <<mode, spent>>
       \/ Fault /\ Fails
    /\ UNCHANGED <<files, stores, cp, did, live, rest>>

MarkLoadable ==
    /\ pc = "mark"
    /\ did' = did \union {"host"}
    /\ \/ enabled' = TRUE /\ Go("stage") /\ UNCHANGED <<mode, spent>>
       \/ enabled' \in {enabled, TRUE} /\ Fault /\ Fails
    /\ UNCHANGED <<files, row, member, identity, cp, live, rest>>

StageBackup ==
    /\ pc = "stage"
    /\ \/ /\ staging' = IF docker THEN [staging EXCEPT ![t] = run] ELSE staging
          /\ Go("activate")
          /\ UNCHANGED <<mode, spent>>
       \/ docker /\ staging' = [staging EXCEPT ![t] = Torn] /\ Fault /\ Fails
    /\ UNCHANGED <<run, aside, kept, snap, marker, backup, previous, stores, cp, did, live, rest>>

\* activate_persistent_backup: two renames.
ActivateMovesAside ==
    /\ pc = "activate"
    /\ \/ /\ Go("promote")
          /\ IF docker /\ backup # None /\ previous[t] = None
             THEN previous' = [previous EXCEPT ![t] = backup] /\ backup' = None
             ELSE UNCHANGED <<previous, backup>>
          /\ UNCHANGED <<mode, spent>>
       \/ Fault /\ Fails /\ UNCHANGED <<backup, previous>>
    /\ UNCHANGED <<run, aside, kept, snap, marker, staging, stores, cp, did, live, rest>>

ActivatePromotes ==
    /\ pc = "promote"
    /\ \/ /\ Go("reload")
          /\ IF docker /\ backup = None
             THEN backup' = staging[t] /\ staging' = [staging EXCEPT ![t] = None]
             ELSE UNCHANGED <<backup, staging>>
          /\ UNCHANGED <<mode, spent>>
       \/ docker /\ Fault /\ Fails /\ UNCHANGED <<backup, staging>>
    /\ UNCHANGED <<run, aside, kept, snap, marker, previous, stores, cp, did, live, rest>>

\* A payload whose native dependencies were replaced may wait for a restart.
Reload ==
    /\ pc = "reload"
    /\ did' = did \union {"runtime"}
    /\ \/ live' = run /\ Go("register") /\ UNCHANGED <<mode, spent>>
       \/ live' = None /\ Go("commit") /\ UNCHANGED <<mode, spent>>
       \/ live' = None /\ Fault /\ Fails
    /\ UNCHANGED <<files, stores, cp, rest>>

Register ==
    /\ pc = "register"
    /\ \/ Go("commit") /\ UNCHANGED <<mode, spent>>
       \/ Fault /\ Fails
    /\ UNCHANGED <<files, stores, cp, did, live, rest>>

\* commit_target: the state before is as frozen, and all three are written.
Unmoved == member = row.at.member /\ identity = row.at.identity

Commit ==
    /\ pc = "commit"
    /\ \/ /\ row.phase = "prepared" /\ row.at.tx = t /\ Unmoved
          /\ row' = [row EXCEPT !.phase = "committed"]
          /\ member' = TRUE /\ identity' = t /\ want' = TRUE
          /\ \/ Go("finalize") /\ UNCHANGED spent
             \/ Go("idle") /\ Fault
          /\ UNCHANGED mode
       \/ /\ UNCHANGED <<row, member, identity, want>>
          /\ \/ Fault /\ Fails
             \/ Fault /\ Go("idle") /\ UNCHANGED mode
    /\ UNCHANGED <<files, enabled, cp, did, live, docker, reset, used>>

\* Mutant: a cancellation does not ask whether the database has committed.
CommitIsUnknown == FALSE

CommitIsKnown == pc \in Finish

\* The caller is cancelled.  A side effect under way ends first; then
\* __rollback_cancelled looks at what is known.
Cancelled ==
    /\ mode = "install"
    /\ pc \in (Forward \union Finish) \ {"checkpoint", "publish", "depend", "promote"}
    /\ \/ CommitIsKnown /\ Go("idle") /\ UNCHANGED <<did, mode>>
       \/ ~CommitIsKnown /\ Go("tree") /\ did' = did \union {"again"}
          /\ mode' = IF "journal" \in did THEN "fail" ELSE "bare"
    /\ UNCHANGED <<files, stores, cp, live, rest, spent>>
-----------------------------------------------------------------------------
(* Restoring files: PluginPackageManager.restore, for a failed transaction *)
(* ("fail"), for one without a journal ("bare") and for a start ("replay"). *)

\* Nothing more is tried: the journal, if there is one, is kept.  A
\* cancellation that came meanwhile has the rollback tried once more.
GiveUp ==
    \/ Leave /\ UNCHANGED did
    \/ /\ mode \in {"fail", "bare"} /\ "again" \notin did
       /\ did' = did \union {"again"} /\ Go("tree")

\* The snapshot directory exists.
HasSnapshot == snap[t] # None

RestoreMovesAside ==
    /\ pc = "tree"
    /\ \/ t \in marker /\ Go("runtime") /\ UNCHANGED <<run, aside, did, spent>>
       \/ /\ t \notin marker /\ (cp.existed => HasSnapshot)
          /\ \/ aside' = run /\ run' \in Moved /\ Go("place") /\ UNCHANGED <<did, spent>>
             \/ Fault /\ GiveUp /\ UNCHANGED <<run, aside>>
       \/ /\ t \notin marker /\ cp.existed /\ ~HasSnapshot
          /\ GiveUp /\ UNCHANGED <<run, aside, spent>>
    /\ UNCHANGED <<kept, snap, marker, backup, staging, previous, stores, mode, cp, live, rest>>

RestorePlaces ==
    /\ pc = "place"
    /\ \/ /\ run # Torn
          /\ run' = IF cp.existed THEN snap[t] ELSE None
          /\ aside' = None /\ Go("unback")
          /\ UNCHANGED <<kept, did, spent>>
       \/ run = Torn /\ run' = None /\ UNCHANGED <<aside, kept, pc, did, spent>>
       \/ run' = aside /\ aside' = None /\ UNCHANGED kept /\ Fault /\ GiveUp
       \/ LeavesAside /\ run' \in {run, None} /\ Fault /\ GiveUp
    /\ UNCHANGED <<snap, marker, backup, staging, previous, stores, mode, cp, live, rest>>

\* Mutant: the previous backup is not brought back.
NoPreviousBackup == None

PreviousBackup == IF docker THEN previous[t] ELSE None

\* __rollback_persistent_backup: the previous backup, if there is one, goes
\* back in two renames; otherwise only a backup that is new is removed.
RestoreBackup ==
    /\ pc = "unback"
    /\ LET p == PreviousBackup
           s == IF docker THEN staging[t] ELSE None IN
       \/ p # None /\ backup # None /\ backup' = None
              /\ UNCHANGED <<previous, pc, did, spent>>
       \/ p # None /\ backup = None /\ backup' = p
              /\ previous' = [previous EXCEPT ![t] = None]
              /\ Go("unstage") /\ UNCHANGED <<did, spent>>
       \/ p = None /\ (~docker \/ s # None \/ (cp.hadBackup /\ backup # None))
              /\ Go("unstage") /\ UNCHANGED <<backup, previous, did, spent>>
       \/ p = None /\ docker /\ s = None /\ ~cp.hadBackup
              /\ backup' = None /\ Go("unstage") /\ UNCHANGED <<previous, did, spent>>
       \/ p = None /\ docker /\ s = None /\ cp.hadBackup /\ backup = None
              /\ GiveUp /\ UNCHANGED <<backup, previous, spent>>
       \/ /\ docker /\ Fault /\ GiveUp /\ UNCHANGED previous
          /\ backup' \in IF p = None /\ s = None /\ ~cp.hadBackup /\ backup # None
                         THEN {backup, Torn} ELSE {backup}
    /\ UNCHANGED <<run, aside, kept, snap, marker, staging, stores, mode, cp, live, rest>>

RestoreUnstages ==
    /\ pc = "unstage"
    /\ \/ staging' = [staging EXCEPT ![t] = None] /\ Go("seal") /\ UNCHANGED <<did, spent>>
       \/ /\ staging[t] # None
          /\ staging' = [staging EXCEPT ![t] = Torn] /\ Fault /\ GiveUp
    /\ UNCHANGED <<run, aside, kept, snap, marker, backup, previous, stores, mode, cp, live, rest>>

\* rollback_marker: the restoration is not done a second time.
RestoreSeals ==
    /\ pc = "seal"
    /\ \/ marker' = marker \union {t} /\ Go("runtime") /\ UNCHANGED <<did, spent>>
       \/ Fault /\ GiveUp /\ UNCHANGED marker
    /\ UNCHANGED <<run, aside, kept, snap, backup, staging, previous, stores, mode, cp, live, rest>>
-----------------------------------------------------------------------------
(* After the files: the runtime, the host row, the journal, the material.  *)

Reloads == mode = "fail" /\ "runtime" \in did /\ cp.before

RestoreRuntime ==
    /\ pc = "runtime"
    /\ \/ Reloads /\ live' \in Loads(run) \ {None} /\ Go("host") /\ UNCHANGED <<did, spent>>
       \/ Reloads /\ live' = None /\ did' = did \union {"failed"} /\ Go("host")
                  /\ IF None \in Loads(run) THEN UNCHANGED spent ELSE Fault
       \/ ~Reloads /\ Go(IF mode = "bare" THEN "cleanup" ELSE "host")
                   /\ UNCHANGED <<live, did, spent>>
    /\ UNCHANGED <<files, stores, mode, cp, rest>>

\* Mutant: only a start restores the host row.
RestoresHostAtStart == mode = "replay"

\* restore_plugin_host_enabled stops what runs before it switches off.
RestoresHost == mode = "replay" \/ "host" \in did

RestoreHost ==
    /\ pc = "host"
    /\ \/ /\ IF RestoresHost
             THEN enabled' = cp.before /\ live' = IF cp.before THEN live ELSE None
             ELSE UNCHANGED <<enabled, live>>
          /\ \/ "failed" \in did /\ GiveUp
             \/ "failed" \notin did
                /\ Go(IF "runtime" \in did THEN "registrations" ELSE "delete")
                /\ UNCHANGED did
          /\ UNCHANGED spent
       \/ RestoresHost /\ Fault /\ GiveUp /\ UNCHANGED <<enabled, live>>
    /\ UNCHANGED <<files, row, member, identity, mode, cp, rest>>

RestoreRegistrations ==
    /\ pc = "registrations"
    /\ \/ Go("delete") /\ UNCHANGED <<did, spent>>
       \/ Fault /\ GiveUp
    /\ UNCHANGED <<files, stores, mode, cp, live, rest>>

\* delete_installation: a row that is gone already is as good as deleted.
Gone == IF row.phase = "prepared" /\ row.at.tx = t THEN NoRow ELSE row

\* Mutant: the material is removed although the journal could not be.
DeleteJournalOrMaterial ==
    /\ pc = "delete"
    /\ \/ row' = Gone /\ Go("cleanup") /\ UNCHANGED <<snap, marker, did, spent>>
       \/ /\ UNCHANGED row /\ Fault /\ GiveUp
          /\ snap' = [snap EXCEPT ![t] = None] /\ marker' = marker \ {t}
    /\ UNCHANGED <<run, aside, kept, backup, staging, previous, member, identity, enabled,
                   mode, cp, live, rest>>

DeleteJournal ==
    /\ pc = "delete"
    /\ \/ row' = Gone /\ Go("cleanup") /\ UNCHANGED <<did, spent>>
       \/ row' \in {row, Gone} /\ Fault /\ GiveUp
    /\ UNCHANGED <<files, member, identity, enabled, mode, cp, live, rest>>

Cleanup ==
    /\ pc = "cleanup"
    /\ \/ snap' = [snap EXCEPT ![t] = None] /\ marker' = marker \ {t} /\ UNCHANGED spent
       \/ UNCHANGED <<snap, marker>> /\ Fault
       \/ /\ snap' = [snap EXCEPT ![t] = IF HasSnapshot THEN Torn ELSE None]
          /\ marker' = marker \ {t} /\ Spend("tears")
    /\ GiveUp
    /\ UNCHANGED <<run, aside, kept, backup, staging, previous, stores, mode, cp, live, rest>>

\* A cancellation in a rollback that an error began: __rollback_cancelled
\* begins another one; a second cancellation waits for its end.
CancelledAgain ==
    /\ pc \in {"runtime", "host", "registrations", "delete", "cleanup"}
    /\ mode \in {"fail", "bare"} /\ "again" \notin did
    /\ did' = did \union {"again"} /\ Go("tree")
    /\ UNCHANGED <<files, stores, mode, cp, live, rest, spent>>
-----------------------------------------------------------------------------
(* After the commit, in the transaction or at a start.                     *)

Finalize ==
    /\ pc = "finalize"
    /\ \/ /\ docker => staging[t] = None /\ backup # None
          /\ previous' = IF docker THEN [previous EXCEPT ![t] = None] ELSE previous
          /\ Go("drop") /\ UNCHANGED spent
       \/ docker /\ (staging[t] # None \/ backup = None) /\ Leave
          /\ UNCHANGED <<previous, spent>>
       \/ docker /\ previous[t] # None /\ previous' = [previous EXCEPT ![t] = Torn]
          /\ Leave /\ Fault
    /\ UNCHANGED <<run, aside, kept, snap, marker, backup, staging, stores, mode, cp, did, live, rest>>

DropMaterial ==
    /\ pc = "drop"
    /\ \/ snap' = [snap EXCEPT ![t] = None] /\ marker' = marker \ {t}
          /\ Go("close") /\ UNCHANGED spent
       \/ snap' = [snap EXCEPT ![t] = IF HasSnapshot THEN Torn ELSE None]
          /\ UNCHANGED marker /\ Leave /\ Fault
    /\ UNCHANGED <<run, aside, kept, backup, staging, previous, stores, mode, cp, did, live, rest>>

CloseJournal ==
    /\ pc = "close"
    /\ \/ row' = NoRow /\ UNCHANGED spent
       \/ row' \in {row, NoRow} /\ Fault
    /\ Leave
    /\ UNCHANGED <<files, member, identity, enabled, mode, cp, did, live, rest>>
-----------------------------------------------------------------------------
(* The start: prepare_plugin_restore, then the plugins are loaded.         *)

Replay ==
    /\ pc = "replay"
    /\ cp' = row.at /\ did' = {}
    /\ mode' = "replay"
    /\ Go(CASE row.phase = "none" -> "consume"
            [] row.phase = "prepared" -> "tree"
            [] row.phase = "committed" -> "verify")
    /\ UNCHANGED <<files, stores, live, rest, spent>>

\* Mutant: the receipt is always that of the backup.
VerifiedByBackup == identity = t /\ backup = identity

\* The identity that was committed, and the payload its receipt describes.
Verified ==
    /\ identity = t
    /\ (IF docker THEN backup ELSE run) = identity

VerifyCommitted ==
    /\ pc = "verify"
    /\ \/ Verified /\ Go("finalize") /\ UNCHANGED spent
       \/ ~Verified /\ Leave /\ UNCHANGED spent
       \/ Fault /\ Leave
    /\ UNCHANGED <<files, stores, mode, cp, did, live, rest>>

\* restore_plugins: in a container made anew the backup is used up; then the
\* enabled hosts are loaded.
Consumes == docker /\ reset /\ backup # None

Consume ==
    /\ pc = "consume"
    /\ run' = IF Consumes THEN backup ELSE run
    /\ reset' = FALSE
    /\ IF docker /\ reset
       THEN /\ backup' = None
            /\ staging' = [x \in Tx |-> None] /\ previous' = [x \in Tx |-> None]
       ELSE UNCHANGED <<backup, staging, previous>>
    /\ live' \in Loads(run')
    /\ mode' = "none" /\ cp' = NoCheckpoint /\ did' = {}
    /\ Go("idle")
    /\ UNCHANGED <<aside, kept, snap, marker, stores, docker, used, want, spent>>
-----------------------------------------------------------------------------
(* What else touches these stores.                                         *)

\* uninstall_plugin_runtime: the running plugin and the installed list first,
UninstallLeavesList ==
    /\ pc = "idle"
    /\ Spend("uninstalls")
    /\ live' = None /\ member' = FALSE
    /\ mode' = "none" /\ cp' = NoCheckpoint /\ did' = {} /\ Go("leaving")
    /\ UNCHANGED <<files, row, identity, enabled, rest>>

\* then the host row; its files and its identity stay.
UninstallDisables ==
    /\ pc = "leaving"
    /\ enabled' = FALSE /\ want' = FALSE
    /\ Go("idle")
    /\ UNCHANGED <<files, row, member, identity, mode, cp, did, live, docker, reset, used, spent>>

\* backup_plugins takes no lease: at a restart command, or early in a stop.
BackupPlugins ==
    /\ docker /\ pc \notin {"down"} \union Start
    /\ mode # "replay"
    /\ run # None
    /\ Spend("backups")
    /\ backup' = run
    /\ UNCHANGED <<run, aside, kept, snap, marker, staging, previous, stores, memory, rest>>

Ends ==
    /\ mode' = "none" /\ cp' = NoCheckpoint /\ did' = {} /\ live' = None
    /\ LeavesAside
    /\ UNCHANGED <<run, snap, marker, backup, staging, previous, stores, rest>>
    /\ Go("down")

Stop == pc = "idle" /\ Spend("stops") /\ Ends

Crash == pc # "down" /\ Spend("crashes") /\ Ends

\* A container made anew keeps its configuration directory only.
NewContainer ==
    /\ pc = "down" /\ docker
    /\ Spend("resets")
    /\ run' = None /\ kept' = {} /\ reset' = TRUE
    /\ UNCHANGED <<aside, snap, marker, backup, staging, previous, stores, memory, docker, used, want>>

Restart == pc = "down" /\ Go("replay")
           /\ UNCHANGED <<files, stores, mode, cp, did, live, rest, spent>>
-----------------------------------------------------------------------------
Advance ==
    \/ Checkpoint \/ CreateJournal \/ SwapMovesAside \/ SwapPublishes
    \/ InstallDependencies \/ SetTarget \/ MarkLoadable \/ StageBackup
    \/ ActivateMovesAside \/ ActivatePromotes \/ Reload \/ Register \/ Commit
    \/ RestoreMovesAside \/ RestorePlaces \/ RestoreBackup \/ RestoreUnstages
    \/ RestoreSeals \/ RestoreRuntime \/ RestoreHost \/ RestoreRegistrations
    \/ DeleteJournal \/ Cleanup \/ Finalize \/ DropMaterial \/ CloseJournal
    \/ Replay \/ VerifyCommitted \/ Consume \/ UninstallDisables

Environment ==
    \/ \E x \in Tx : Begin(x)
    \/ Cancelled \/ CancelledAgain \/ UninstallLeavesList \/ BackupPlugins
    \/ Stop \/ Crash \/ NewContainer \/ Restart

Next == Advance \/ Environment

Spec == Init /\ [][Next]_vars

\* Threads and coroutines go on; somebody starts the process again.
FairSpec == Spec /\ WF_vars(Advance) /\ WF_vars(Restart)
-----------------------------------------------------------------------------
(* Properties.                                                             *)

\* No change of the plugin is under way and none is left to be replayed.
Quiet == pc = "idle" /\ row.phase = "none"

\* The payload is in place, or all of it in a sibling of the run directory.
Present(p) == run = p \/ (run \in {None, Torn} /\ p \in (kept \union {aside}) \ {None})

\* A container made anew without a backup of the plugin has lost its files.
Emptied == spent["resets"] # 0 /\ run \in {None, Torn}

\* install.py, recovery.py: whatever failed, was cancelled or died, and
\* whatever the database answered, in the end the run directory holds the
\* payload that the identity row describes.  The one exception is a restoration
\* without a journal that died or failed while it put the snapshot in place:
\* no start replays it, the directory is missing or torn (overlayfs), and all
\* of the payload is in the sibling only.
Settled == Present(identity) \/ Emptied

\* install.py:896, recovery.py:149: a failed installation leaves the host row
\* as it found it, so a plugin that was off does not start after a restart.
EnabledIsAsDecided == enabled = want

\* package.py:564: the persistent backup is brought back as well, so that a
\* container made anew does not revive a payload that was never committed.
BackupMatches == backup # None => backup = identity

\* What the exception has left: the payload is in a sibling, or was there until
\* the container was made anew.
Strayed(p) == p \in kept \/ spent["resets"] # 0

\* install.py:915: the process runs the payload of the identity row, or none, or
\* what the exception of Settled has left of it.
LiveMatches == live # None => live = identity \/ (live = Torn /\ Strayed(identity))

\* Three things that the code does break what follows, and the parts they
\* break are stated without them: a cancelled clean-up that failed halfway, an
\* uninstallation over a journal that is left, and backup_plugins, which takes
\* no lease (and copies a half-removed directory that a container made anew
\* then restores).
Intact == spent["tears"] = 0 /\ 0 \in {spent["backups"], spent["resets"]}

\* All stores tell of one version when nothing is under way.
StoresAgree ==
    Quiet =>
        /\ (Intact => Settled /\ LiveMatches)
        /\ (spent["uninstalls"] = 0 => EnabledIsAsDecided)
        /\ (spent["backups"] = 0 => BackupMatches)

\* recovery.py: whenever the process may die with a journal, the material that
\* the replay needs is there: a copy of what a prepared transaction found (torn
\* only after the exception of Settled) and the backup where there was one, or the committed payload where its receipt is
\* checked.  (A container made anew uses the backups up even when the replay
\* before it failed: stated without a fault beside it.)
Recoverable ==
    LET x == row.at.tx
        old == row.at.identity
        copied == snap[x] = old \/ (snap[x] = Torn /\ Strayed(old)) IN
    /\ row.phase = "committed" => identity = x
    /\ row.phase = "prepared" /\ 0 \in {spent["resets"], spent["faults"]} /\ Intact =>
          \/ x \in marker /\ (row.at.existed => Present(old))
          \/ x \in marker /\ Emptied /\ (row.at.hadBackup => backup # None)
          \/ x \notin marker /\ (row.at.existed => copied)
             /\ (row.at.hadBackup => previous[x] # None \/ backup # None)
    /\ row.phase = "committed" /\ ~docker /\ Intact => Present(x)
    /\ row.phase = "committed" /\ docker /\ 0 \in {spent["resets"], spent["faults"]}
          /\ spent["backups"] = 0 => backup = x /\ staging[x] = None

\* install.py:1010: once committed a transaction is never rolled back, however
\* it is cancelled and whatever fails afterwards: no other payload comes back.
CommitIsFinal ==
    [][row.phase = "committed" =>
           identity' = row.at.tx /\ (Intact => run' \in {row.at.tx, None})]_vars

\* A start that meets no further fault brings a transaction to its end
\* (backup_plugins and a container made anew may have taken its material).
ReplayConverges ==
    (/\ pc = "replay" /\ spent["faults"] = MaxFaults /\ spent["crashes"] = MaxCrashes
     /\ spent["backups"] + spent["resets"] = 0)
        ~> row.phase = "none"

\* Every transaction, rollback and start ends and returns the mutation lease.
LeaseIsReturned == (pc # "idle") ~> (pc = "idle")

\* Both of them.
EveryTransactionEnds == ReplayConverges /\ LeaseIsReturned
=============================================================================
