------------------------------ MODULE Migration ------------------------------
(***************************************************************************)
(* The migration of a VM to another mulchd server (MigrateVM): the source  *)
(* drives its peer with API calls, creates a blank VM there, deactivates   *)
(* its own, sends a backup of it, has it restored and activated, then      *)
(* deletes its VM.  What it has done so far is undone, last step first,    *)
(* when a call fails: Go's deferred functions.                             *)
(*                                                                         *)
(* A call to the peer (peer_call.go) may fail, or be done while its answer *)
(* is lost.  The source may be refused to be activated again, and the save *)
(* of its (de)activation may fail.  Users write to the active VMs.         *)
(***************************************************************************)
EXTENDS Naturals, Sequences

CONSTANTS
    MigrationFaults, \* what may happen: a subset of {"call", "lost", "backup", "unreachable",
                     \* "delete", "stop", "keep", "activate", "save", "refuse"}
    MaxWrites,       \* bound: writes of users
    MaxMigrations    \* bound: requests to migrate

\* The VM that is migrated, its copy on the peer, and an older VM of the same name there.
Copy == {"source", "copy", "older"}

VARIABLES
    exists, active, \* VMs there are, and the ones that serve their domains
    locked,     \* VMs users may not delete
    data,       \* the last write each VM has
    wrote,      \* writes of users so far, to the VM or to its copy
    pc,         \* what MigrateVM does next
    undo,       \* its deferred functions, the last one first
    keep,       \* --keep-source-active
    commit,     \* the migration is a success: what would undo it does nothing
    served,     \* entry.Active: the source was active
    denied,     \* the source could not be (de)activated, in the last migration
    backedUp,   \* what the backup holds
    backupsOf,  \* servers that hold the backup
    killed,     \* how mulchd ended during the last migration: "no", "stopped" or "panicked"
    migrations  \* bound

migrationVars == <<exists, active, locked, data, wrote, pc, undo, keep, commit, served, denied,
                   backedUp, backupsOf, killed, migrations>>
copies == <<exists, active, locked, data>>
request == <<keep, commit, served, denied, migrations>>

\* The next step; with one more function to call at the end.
Goto(next) == pc' = next /\ UNCHANGED undo
GotoDefer(next, f) == pc' = next /\ undo' = <<f>> \o undo
Abort == Goto("return") /\ UNCHANGED killed

\* A call to the peer: done, failed, or done without the source being told.
PeerCall(effect, unchanged, onSuccess) ==
    \/ effect /\ onSuccess
    \/ "call" \in MigrationFaults /\ unchanged /\ Abort
    \/ "lost" \in MigrationFaults /\ effect /\ Abort

-----------------------------------------------------------------------------
(* MigrateVM. *)

\* Its checks, then the search for an active VM of the same name, that only warns.
Migrate ==
    /\ pc = "idle" /\ migrations < MaxMigrations
    /\ migrations' = migrations + 1
    /\ "source" \in exists
    /\ keep' \in IF "keep" \in MigrationFaults THEN BOOLEAN ELSE {FALSE}
    /\ commit' = FALSE /\ served' = FALSE /\ denied' = FALSE
    /\ undo' = <<>>
    /\ pc' = "create" /\ killed' = "no"
    /\ UNCHANGED <<copies, wrote, backedUp, backupsOf>>

\* POST /vm: an inactive VM, blank, with the lock of the source.  It fails if the peer
\* has a VM of that name already, without --new-revision.
CopyExists ==
    /\ exists' = exists \cup {"copy"}
    /\ locked' = IF "source" \in locked THEN locked \cup {"copy"} ELSE locked \ {"copy"}
    /\ data' = [data EXCEPT !["copy"] = 0]

CreateCopy ==
    /\ pc = "create"
    /\ IF "copy" \in exists THEN Abort /\ UNCHANGED copies
       ELSE /\ PeerCall(CopyExists, UNCHANGED <<exists, locked, data>>,
                        GotoDefer("deactivate", "deleteCopy") /\ UNCHANGED killed)
            /\ UNCHANGED active
    /\ UNCHANGED <<wrote, request, backedUp, backupsOf>>

\* (mutant: the source goes on serving during its backup)
KeepsServingAlways == TRUE
KeepsServing == keep

\* SetActiveRevision(RevisionNone).  When its save fails the source is inactive in memory,
\* and MigrateVM returns before it has deferred to activate it again.
DeactivateSource ==
    /\ pc = "deactivate"
    /\ served' = ("source" \in active)
    /\ \/ /\ "source" \notin active \/ KeepsServing
          /\ Goto("backup") /\ UNCHANGED <<active, denied, killed>>
       \/ /\ "source" \in active /\ ~KeepsServing
          /\ active' = active \ {"source"}
          /\ \/ GotoDefer("backup", "reactivate") /\ UNCHANGED <<denied, killed>>
             \/ "save" \in MigrationFaults /\ denied' = TRUE /\ Abort
    /\ UNCHANGED <<exists, locked, data, wrote, keep, commit, backedUp, backupsOf, migrations>>

\* VMBackup.  The deferred function deletes what it has made.
BackupSource ==
    /\ pc = "backup" /\ "source" \in exists
    /\ backedUp' = data["source"]
    /\ backupsOf' = backupsOf \cup {"source"}
    /\ GotoDefer("upload", "deleteBackup")
    /\ UNCHANGED <<copies, wrote, request, killed>>

\* Its error is not looked at: the volume "" is uploaded, that is not found, and the
\* goroutine that reads it panics.
BackupFails ==
    /\ pc = "backup"
    /\ "backup" \in MigrationFaults \/ "source" \notin exists
    /\ pc' = "idle" /\ undo' = <<>> /\ killed' = "panicked"
    /\ UNCHANGED <<copies, wrote, request, backedUp, backupsOf>>

\* POST /backup.
UploadBackup ==
    /\ pc = "upload"
    /\ PeerCall(backupsOf' = backupsOf \cup {"peer"}, UNCHANGED backupsOf,
                GotoDefer("restore", "deletePeerBackup") /\ UNCHANGED killed)
    /\ UNCHANGED <<copies, wrote, request, backedUp>>

\* The connection is refused: the goroutine writes to a part that was not created.
UploadPanics ==
    /\ pc = "upload" /\ "unreachable" \in MigrationFaults
    /\ pc' = "idle" /\ undo' = <<>> /\ killed' = "panicked"
    /\ UNCHANGED <<copies, wrote, request, backedUp, backupsOf>>

\* action=restore.
RestoreCopy ==
    /\ pc = "restore"
    /\ IF {"copy"} \subseteq exists /\ "peer" \in backupsOf
       THEN PeerCall(data' = [data EXCEPT !["copy"] = backedUp], UNCHANGED data,
                     Goto(IF served THEN "activate" ELSE "commit") /\ UNCHANGED killed)
       ELSE Abort /\ UNCHANGED data
    /\ UNCHANGED <<exists, active, locked, wrote, request, backedUp, backupsOf>>

\* action=activate, refused if the VM that is active there is locked.
ActivateCopy ==
    /\ pc = "activate"
    /\ IF "copy" \in exists /\ "older" \notin active \cap locked
       THEN PeerCall(active' = (active \ {"older"}) \cup {"copy"}, UNCHANGED active,
                     Goto("commit") /\ UNCHANGED killed)
       ELSE Abort /\ UNCHANGED active
    /\ UNCHANGED <<exists, locked, data, wrote, request, backedUp, backupsOf>>

\* The migration is a success: the source is unlocked and deleted.  An error of VMDelete
\* is only logged.  Nothing has failed since the copy is active: the function that
\* deactivates it again is never called.
Commit ==
    /\ pc = "commit"
    /\ commit' = TRUE
    /\ Goto("return")
    /\ locked' = locked \ {"source"}
    /\ \/ exists' = exists \ {"source"} /\ active' = active \ {"source"}
       \/ "delete" \in MigrationFaults /\ UNCHANGED <<exists, active>>
    /\ UNCHANGED <<data, wrote, keep, served, denied, backedUp, backupsOf, killed, migrations>>

-----------------------------------------------------------------------------
(* The deferred functions, whose errors are ignored. *)

Undo(f, effect) ==
    /\ pc = "return" /\ undo # <<>> /\ Head(undo) = f
    /\ undo' = Tail(undo)
    /\ effect
    /\ UNCHANGED <<data, wrote, pc, keep, commit, served, migrations, backedUp, killed>>

\* A call that is not looked at.
PeerTries(effect, unchanged) == effect \/ ("call" \in MigrationFaults /\ unchanged)

DeletePeerBackup ==
    Undo("deletePeerBackup",
         /\ PeerTries(backupsOf' = backupsOf \ {"peer"}, UNCHANGED backupsOf)
         /\ UNCHANGED <<exists, active, locked, denied>>)

DeleteBackup ==
    Undo("deleteBackup",
         /\ backupsOf' = backupsOf \ {"source"}
         /\ UNCHANGED <<exists, active, locked, denied>>)

\* (mutant: the source is not activated again)
StaysInactive == UNCHANGED active
ActivatesAgain == active' = active \cup ({"source"} \cap exists)

\* (mutant: the source is activated again after a success too)
ReactivatesAlways == TRUE
Reactivates == ~commit

\* SetActiveRevision(its revision), whose error is ignored.  It is refused when another VM
\* has taken a domain or a port since, or the parent proxy does not answer; when its save
\* fails the source is active in memory only.
ReactivateSource ==
    Undo("reactivate",
         /\ \/ ~Reactivates /\ UNCHANGED <<active, denied>>
            \/ Reactivates /\ ActivatesAgain /\ UNCHANGED denied
            \/ Reactivates /\ "save" \in MigrationFaults /\ ActivatesAgain /\ denied' = TRUE
            \/ Reactivates /\ "refuse" \in MigrationFaults /\ UNCHANGED active /\ denied' = TRUE
         /\ UNCHANGED <<exists, locked, backupsOf>>)

\* It is unlocked first; the older VM is active again if the copy was.
DeleteCopy ==
    Undo("deleteCopy",
         /\ IF commit THEN UNCHANGED <<exists, locked, active>>
            ELSE PeerTries(/\ exists' = exists \ {"copy"} /\ locked' = locked \ {"copy"}
                           /\ active' = IF "copy" \notin active THEN active
                                        ELSE (active \ {"copy"}) \cup ({"older"} \cap exists),
                           UNCHANGED <<exists, locked, active>>)
         /\ UNCHANGED <<backupsOf, denied>>)

Return ==
    /\ pc = "return" /\ undo = <<>>
    /\ pc' = "idle"
    /\ UNCHANGED <<copies, wrote, undo, request, backedUp, backupsOf, killed>>

-----------------------------------------------------------------------------

\* A user of the VM, wherever it is served.
Write ==
    \E c \in active \ {"older"} :
        /\ wrote < MaxWrites
        /\ wrote' = wrote + 1
        /\ data' = [data EXCEPT ![c] = wrote']
        /\ UNCHANGED <<exists, active, locked, pc, undo, request, backedUp, backupsOf, killed>>

\* A user activates the VM again, after mulchd stopped or, since nothing marks a VM that is
\* being migrated, during a migration.
UserActivates ==
    /\ "activate" \in MigrationFaults \/ (pc = "idle" /\ "copy" \notin active)
    /\ "source" \in exists \ active /\ active' = active \cup {"source"}
    /\ UNCHANGED <<exists, locked, data, wrote, pc, undo, request, backedUp, backupsOf, killed>>

\* The mulchd of the source stops.
StopSource ==
    /\ "stop" \in MigrationFaults /\ pc # "idle"
    /\ pc' = "idle" /\ undo' = <<>> /\ killed' = "stopped"
    /\ UNCHANGED <<copies, wrote, request, backedUp, backupsOf>>

MigrationInit ==
    /\ exists \in {{"source"}, {"source", "older"}}
    /\ active \in SUBSET exists
    /\ locked \in SUBSET exists
    /\ data = [c \in Copy |-> 0] /\ wrote = 0
    /\ pc = "idle" /\ undo = <<>>
    /\ keep = FALSE /\ commit = FALSE /\ served = FALSE /\ denied = FALSE
    /\ backedUp = 0 /\ backupsOf = {}
    /\ killed = "no" /\ migrations = 0

MigrationNext ==
    \/ Migrate \/ CreateCopy \/ DeactivateSource \/ BackupSource \/ BackupFails
    \/ UploadBackup \/ UploadPanics \/ RestoreCopy \/ ActivateCopy \/ Commit
    \/ DeletePeerBackup \/ DeleteBackup \/ ReactivateSource \/ DeleteCopy \/ Return
    \/ Write \/ UserActivates \/ StopSource

MigrationSpec == MigrationInit /\ [][MigrationNext]_migrationVars

-----------------------------------------------------------------------------
(* Properties. *)

\* Type correctness: only VMs that exist are active or locked.
MigrationTypeOK ==
    /\ exists \subseteq Copy /\ active \subseteq exists /\ locked \subseteq exists
    /\ pc = "idle" => undo = <<>>

\* What users wrote last is in a VM, wherever a call fails or mulchd stops
\* (controllers/vm.go:1345).
MigratedDataSurvives == \E c \in exists \ {"older"} : data[c] = wrote

\* The VM that serves has what users wrote to the other one: both never serve at once,
\* and the copy does not before it is restored (controllers/vm.go:1219-1308).
ServedCopyIsCurrent == \A c \in active \ {"older"} : data[c] = wrote

\* A VM that was active is served when MigrateVM returns, by one server or the other
\* (controllers/vm.go:1226-1231, "re-activating source VM") ...
SourceIsReactivated ==
    pc = "idle" /\ served /\ killed # "stopped" => active \cap {"source", "copy"} # {}

\* ... whatever call to the peer fails, but not when an error is not looked at
\* (controllers/vm.go:1237, peer_call.go:160), nor when the VM database has refused, or has
\* failed to save, that the source is deactivated or activated again
\* (controllers/vm.go:1222-1230).
MigrationKeepsServing == killed # "panicked" /\ ~denied => SourceIsReactivated

=============================================================================
