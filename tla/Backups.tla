------------------------------- MODULE Backups -------------------------------
(***************************************************************************)
(* The backup database (backup_database.go), the volumes of the storage    *)
(* pool, and what acts on both: uploads, downloads, deletions, changes of  *)
(* the expiration date, and the goroutine that deletes expired backups.    *)
(* The backups VMs make of themselves are in VMLifecycle.                  *)
(*                                                                         *)
(* mulchd may stop at any time, in the middle of a request or of a save.   *)
(* The file is truncated before it is written: a save that fails, or that  *)
(* a stop cuts short, may leave a file that mulchd refuses to start with.  *)
(***************************************************************************)
EXTENDS Naturals

CONSTANTS
    Backup,       \* names of backups
    Client,       \* users; one request each at a time
    Timer,        \* the goroutine of Run
    BackupsTorn,  \* a file that is truncated
    BackupFaults, \* what may happen: a subset of {"stop", "stopSaving", "save", "copy",
                  \* "delete", "reuse", "expire"}
    MaxTime,      \* bound: the clock
    MaxRequests,  \* bound: requests
    MaxKills      \* bound: stops of mulchd

VARIABLES
    alive,      \* mulchd runs
    backups,    \* BackupDatabase.db: [a set of names -> date it expires, Never for none]
    backupFile, \* what its file holds, or BackupsTorn
    pool,       \* the volume of each name: "none", "part" or "whole"
    job,        \* what each client's request does: [pc, name, date]
    expired,    \* deleteExpired: names it still has to delete
    now,        \* the clock
    kept,       \* backups whose upload, or existence, was acknowledged
    removable,  \* names a user asked to delete, or that once had a date
    promised,   \* names whose user was last told that they never expire
    requests, restarts \* bounds

backupVars == <<alive, backups, backupFile, pool, job, expired, now, kept, removable,
                promised, requests, restarts>>
observed == <<kept, removable, promised>>

Process == Client \cup {Timer}
Never == 0
Idle == [pc |-> "idle", name |-> CHOOSE b \in Backup : TRUE, date |-> Never]
At(p, pc) == alive /\ job[p].pc = pc
Proceed(p, pc) == job' = [job EXCEPT ![p].pc = pc]
EndJob(p) == job' = [job EXCEPT ![p] = Idle]
Ask(p, pc, b, d) == job' = [job EXCEPT ![p] = [pc |-> pc, name |-> b, date |-> d]]

\* libvirt does not delete a volume it is reading or writing for a client.
InUse(b) == \E c \in Client : job[c].pc \in {"uploading", "reading"} /\ job[c].name = b

Arrives(c) == At(c, "idle") /\ requests < MaxRequests /\ requests' = requests + 1
Remove(f, b) == [x \in DOMAIN f \ {b} |-> f[x]]
Expiry == {Never, now + 1}

\* save() fails before it truncates the file, or after; the error is returned.
NotSaved == "save" \in BackupFaults /\ backupFile' \in {backupFile, BackupsTorn}

-----------------------------------------------------------------------------
(* UploadBackupController. *)

\* The name is free: the volume is created, which fails if the pool has one.
Upload(c, b) ==
    /\ Arrives(c)
    /\ b \notin DOMAIN backups /\ pool[b] = "none"
    /\ "reuse" \in BackupFaults \/ b \notin kept \cup removable
    /\ pool' = [pool EXCEPT ![b] = "part"]
    /\ \E d \in Expiry : Ask(c, "uploading", b, d)
    /\ UNCHANGED <<alive, backups, backupFile, expired, now, observed, restarts>>

UploadCopied(c) ==
    /\ At(c, "uploading")
    /\ pool' = [pool EXCEPT ![job[c].name] = "whole"]
    /\ Proceed(c, "adding")
    /\ UNCHANGED <<alive, backups, backupFile, expired, now, observed, requests, restarts>>

\* The client is gone, or the disk is full: nothing deletes the volume.
UploadFails(c) ==
    /\ At(c, "uploading") /\ "copy" \in BackupFaults
    /\ EndJob(c)
    /\ UNCHANGED <<alive, backups, backupFile, pool, expired, now, observed, requests,
                   restarts>>

\* (mutant: Add does not save the database)
AddUnsaved(b, d) ==
    /\ backups' = [x \in DOMAIN backups \cup {b} |-> IF x = b THEN d ELSE backups[x]]
    /\ UNCHANGED backupFile
    /\ kept' = kept \cup {b}

\* The upload is acknowledged when the entry is saved; an entry that is not stays in memory.
Add(b, d) ==
    /\ backups' = [x \in DOMAIN backups \cup {b} |-> IF x = b THEN d ELSE backups[x]]
    /\ \/ backupFile' = backups' /\ kept' = kept \cup {b}
       \/ NotSaved /\ UNCHANGED kept

UploadAdded(c) ==
    LET b == job[c].name
        d == job[c].date
    IN  /\ At(c, "adding") /\ b \notin DOMAIN backups
        /\ Add(b, d)
        /\ removable' = IF d = Never THEN removable ELSE removable \cup {b}
        /\ EndJob(c)
        /\ UNCHANGED <<alive, pool, expired, now, promised, requests, restarts>>

UploadRefused(c) ==
    /\ At(c, "adding") /\ job[c].name \in DOMAIN backups
    /\ EndJob(c)
    /\ UNCHANGED <<alive, backups, backupFile, pool, expired, now, observed, requests,
                   restarts>>

-----------------------------------------------------------------------------
(* DownloadBackupController. *)

Download(c, b) ==
    /\ Arrives(c)
    /\ b \in DOMAIN backups /\ pool[b] # "none"
    /\ Ask(c, "reading", b, Never)
    /\ UNCHANGED <<alive, backups, backupFile, pool, expired, now, observed, restarts>>

DownloadEnds(c) ==
    /\ At(c, "reading")
    /\ EndJob(c)
    /\ UNCHANGED <<alive, backups, backupFile, pool, expired, now, observed, requests,
                   restarts>>

-----------------------------------------------------------------------------
(* BackupDelete, for a client or for the timer: the name is looked up, then  *)
(* the volume is deleted, then the entry.                                    *)

Delete(c, b) ==
    /\ Arrives(c)
    /\ b \in DOMAIN backups
    /\ removable' = removable \cup {b}
    /\ Ask(c, "deleting", b, Never)
    /\ UNCHANGED <<alive, backups, backupFile, pool, expired, now, kept, promised, restarts>>

DeleteVolume(p) ==
    LET b == job[p].name
    IN  /\ At(p, "deleting") /\ pool[b] # "none" /\ ~InUse(b)
        /\ pool' = [pool EXCEPT ![b] = "none"]
        /\ Proceed(p, "forgetting")
        /\ UNCHANGED <<alive, backups, backupFile, expired, now, observed, requests, restarts>>

\* No volume, a volume in use, or an error of libvirt.
DeleteVolumeFails(p) ==
    LET b == job[p].name
    IN  /\ At(p, "deleting")
        /\ pool[b] = "none" \/ InUse(b) \/ "delete" \in BackupFaults
        /\ EndJob(p)
        /\ UNCHANGED <<alive, backups, backupFile, pool, expired, now, observed, requests,
                       restarts>>

\* The entry leaves the memory, even if the save fails; another deletion may have removed it.
DeleteEntry(p) ==
    /\ At(p, "forgetting")
    /\ backups' = Remove(backups, job[p].name)
    /\ IF job[p].name \in DOMAIN backups
       THEN backupFile' = backups' \/ NotSaved
       ELSE UNCHANGED backupFile
    /\ EndJob(p)
    /\ UNCHANGED <<alive, pool, expired, now, observed, requests, restarts>>

-----------------------------------------------------------------------------
(* Expiration. *)

ExpiredNames == {b \in DOMAIN backups : backups[b] # Never /\ backups[b] < now}

ListExpired ==
    /\ At(Timer, "idle") /\ expired = {}
    /\ ExpiredNames # {}
    /\ expired' = ExpiredNames
    /\ UNCHANGED <<alive, backups, backupFile, pool, job, now, observed, requests, restarts>>

\* The name may be gone since: BackupDelete returns an error, that is logged.
NextExpired(b) ==
    /\ At(Timer, "idle") /\ b \in expired
    /\ expired' = expired \ {b}
    /\ IF b \in DOMAIN backups THEN Ask(Timer, "deleting", b, Never) ELSE UNCHANGED job
    /\ UNCHANGED <<alive, backups, backupFile, pool, now, observed, requests, restarts>>

\* SetBackupExpireController and BackupDatabase.Expire, which does not save.
SetExpire(c, b) ==
    /\ "expire" \in BackupFaults
    /\ Arrives(c)
    /\ b \in DOMAIN backups
    /\ \E d \in Expiry :
          /\ backups' = [backups EXCEPT ![b] = d]
          /\ IF d = Never
             THEN promised' = promised \cup {b} /\ UNCHANGED removable
             ELSE promised' = promised \ {b} /\ removable' = removable \cup {b}
    /\ UNCHANGED <<alive, backupFile, pool, job, expired, now, kept, restarts>>

Tick ==
    /\ now < MaxTime /\ now' = now + 1
    /\ UNCHANGED <<alive, backups, backupFile, pool, job, expired, observed, requests, restarts>>

-----------------------------------------------------------------------------

Saving(p) ==
    \/ At(p, "adding") /\ job[p].name \notin DOMAIN backups
    \/ At(p, "forgetting") /\ job[p].name \in DOMAIN backups

\* Anywhere: in the middle of the save of a request too.
StopMulchd ==
    /\ alive /\ "stop" \in BackupFaults /\ restarts < MaxKills
    /\ alive' = FALSE /\ restarts' = restarts + 1
    /\ \/ UNCHANGED backupFile
       \/ /\ "stopSaving" \in BackupFaults /\ \E p \in Process : Saving(p)
          /\ backupFile' = BackupsTorn
    /\ job' = [p \in Process |-> Idle] /\ expired' = {}
    /\ UNCHANGED <<backups, pool, now, observed, requests>>

\* NewBackupDatabase reads the file, which it must, and writes it again.
StartMulchd ==
    /\ ~alive /\ backupFile # BackupsTorn
    /\ alive' = TRUE /\ backups' = backupFile
    /\ UNCHANGED <<backupFile, pool, job, expired, now, observed, requests, restarts>>

\* It cannot write it, or stops while it does: mulchd has not started.
StartFails ==
    /\ ~alive /\ backupFile # BackupsTorn
    /\ {"save", "stopSaving"} \cap BackupFaults # {}
    /\ backupFile' = BackupsTorn
    /\ UNCHANGED <<alive, backups, pool, job, expired, now, observed, requests, restarts>>

\* A server that has made backups, with or without a date.
BackupsInit ==
    /\ alive = TRUE /\ now = 0
    /\ \E some \in SUBSET Backup : \E dates \in [some -> Expiry] :
          /\ backups = dates /\ backupFile = dates
          /\ pool = [b \in Backup |-> IF b \in some THEN "whole" ELSE "none"]
          /\ kept = some /\ removable = {b \in some : dates[b] # Never}
    /\ job = [p \in Process |-> Idle] /\ expired = {}
    /\ promised = {}
    /\ requests = 0 /\ restarts = 0

BackupsNext ==
    \/ \E c \in Client, b \in Backup :
          Upload(c, b) \/ Download(c, b) \/ Delete(c, b) \/ SetExpire(c, b)
    \/ \E c \in Client :
          UploadCopied(c) \/ UploadFails(c) \/ UploadAdded(c) \/ UploadRefused(c) \/ DownloadEnds(c)
    \/ \E p \in Process : DeleteVolume(p) \/ DeleteVolumeFails(p) \/ DeleteEntry(p)
    \/ ListExpired \/ \E b \in Backup : NextExpired(b)
    \/ Tick \/ StopMulchd \/ StartMulchd \/ StartFails

BackupsSpec == BackupsInit /\ [][BackupsNext]_backupVars

-----------------------------------------------------------------------------
(* Properties. *)

\* Type correctness: an upload owns a volume that is not whole yet.
BackupsTypeOK ==
    /\ DOMAIN backups \subseteq Backup
    /\ backupFile = BackupsTorn \/ DOMAIN backupFile \subseteq Backup
    /\ \A c \in Client : job[c].pc = "uploading" => pool[job[c].name] = "part"
    /\ ~alive => \A p \in Process : job[p] = Idle

\* A backup mulchd acknowledged, that nobody deletes and that never had a date, is
\* never forgotten, whatever requests cross, whatever saves fail and wherever mulchd
\* stops: it keeps its whole volume, and its entry in memory; it is in the file as well,
\* unless a save that failed or was cut short has left it unreadable, with which mulchd
\* does not start (backup_database.go:28, 59-70, 104, backup.go:19,
\* controllers/backup.go:159).
KeptBackupsAreStored ==
    \A b \in kept \ removable :
        /\ pool[b] = "whole"
        /\ alive => b \in DOMAIN backups
        /\ backupFile # BackupsTorn => b \in DOMAIN backupFile

\* mulchd can start again (backup_database.go:28-33).
BackupFileIsReadable == ~alive => backupFile # BackupsTorn

\* "backup will never expire" (controllers/backup.go:266), until its user says
\* otherwise: the date does not come back.
ExpirationIsKept ==
    alive => \A b \in promised \cap DOMAIN backups : backups[b] = Never

\* The timer does not delete a backup whose user was told so since it made its list
\* (backup_database.go:104-126).
TimerKeepsPromises ==
    \A b \in promised : ~(At(Timer, "forgetting") /\ job[Timer].name = b)

\* What is in the database is in the pool, but for a deletion that is going on: an
\* entry without its volume cannot be deleted, and makes every list of backups fail
\* (backup.go:25-35, controllers/backup.go:47).
EntriesAreStored ==
    \A b \in DOMAIN backups :
        \/ pool[b] = "whole"
        \/ \E p \in Process : job[p].pc = "forgetting" /\ job[p].name = b

=============================================================================
