------------------------------ MODULE VMLifecycle ------------------------------
(***************************************************************************)
(* The life of a VM in mulchd (server/vm.go): creation, backup, restore,   *)
(* rebuild and deletion, with the resources they handle: disk volumes,     *)
(* libvirt domains, backup volumes, the entries of the VM database, the    *)
(* backup database, locks and work-in-progress marks.                      *)
(*                                                                         *)
(* Each operation is a long sequence of calls to libvirt and of scripts    *)
(* run inside the VM, any of which may fail; the functions undo what they  *)
(* did with deferred calls.  An operation is a record of its request, one  *)
(* action per step; NewVM, VMBackup, VMRestoreNoChecks and VMDelete are    *)
(* also steps of VMRebuild, and return to it.                              *)
(*                                                                         *)
(* The module follows the revisions of one VM name.  Conflicts with other  *)
(* names, the greenhouse and the files are those of module VMDatabase:     *)
(* here its operations are atomic, durable, and may refuse.                *)
(***************************************************************************)
EXTENDS Integers, FiniteSets

CONSTANTS
    MaxRevision,  \* bound: the highest revision number
    VM,           \* VM objects; each is also the UUID of the domain it defines
    Backup,       \* names of backup volumes
    MaxWrites,    \* bound: how many times the service writes
    Request,      \* the requests being handled
    Setting,      \* which circumstances are considered, see below
    None

Revision == 0..MaxRevision
Content == SUBSET (1..MaxWrites)

(***************************************************************************)
(* A setting: whether requests may overlap; what goes wrong besides steps  *)
(* that fail without effect ("partial": a step that fails may have had     *)
(* some of its effect, and the calls that undo may fail too; "crash":      *)
(* mulchd may stop and start again); whether the configuration of the VM   *)
(* has backup and restore scripts; the operations that are requested and   *)
(* the number of writes of the service (bounds).                           *)
(***************************************************************************)
Kind == {"create", "backup", "restore", "rebuild", "delete", "drop"}

ASSUME LifecycleAssumption ==
    /\ MaxRevision \in Nat /\ MaxWrites \in Nat
    /\ VM # {}
    /\ Setting \subseteq [overlap : BOOLEAN, fault : {"none", "partial", "crash"},
                          scripts : BOOLEAN, kinds : SUBSET Kind, writes : 0..MaxWrites]
    /\ None \notin VM /\ None \notin Backup /\ None \notin Revision
    /\ \A c \in Content : c # None

VARIABLES
    setting,
    disk,      \* the content of the disk volume of each revision: a set of writes
    dom,       \* the UUID of the libvirt domain of each revision
    on,        \* the domains that are running
    attached,  \* the backup volume attached to each domain
    bvol,      \* the content of the backup volumes
    db,        \* the VM database: the VM object of each revision
    active,    \* the revision that is active: it receives the requests of the users
    locked,    \* the VM objects that are locked
    wip,       \* the VM objects with a work in progress
    bdb,       \* the backup database
    op,        \* the operation of each request
    data,      \* what the users expect to find, None if they want no active VM
    wrote      \* how many writes the service made

libvirt == <<disk, dom, on, attached, bvol>>
mulch == <<db, active, locked, wip, bdb>>
users == <<data, wrote>>
vars == <<setting, libvirt, mulch, op, users>>

Partial == setting.fault = "partial"

\* The steps of each function.
NewVMLabel == {"disk", "define", "boot", "prepare", "add", "undomain", "undisk"}
VolumeLabel == {"battach", "bscripts", "bdetach", "badd", "bundo"}
BackupLabel == {"backup", "bmark", "bvolume"} \cup VolumeLabel
RestoreLabel == {"rmark", "rattach", "rscripts", "rdetach"}
DomainLabel == {"destroy", "deldisk", "undefine"}
DeleteLabel == {"delete", "delentry", "dhcp"} \cup DomainLabel
RebuildLabel == {"deactivate", "activate", "unlock", "relock", "drop", "dropvol", "reactivate"}
DropLabel == {"delvol", "deldb"}

Label == NewVMLabel \cup BackupLabel \cup RestoreLabel \cup DeleteLabel
            \cup RebuildLabel \cup DropLabel

Op == [kind : Kind, pc : Label,
       rev : Revision \cup {None},   \* the revision the request is about
       new : Revision \cup {None},   \* the revision NewVM builds
       vm : VM \cup {None},          \* the VM object NewVM builds
       held : VM \cup {None},        \* the VM object whose WIP is set
       bk : Backup \cup {None},
       target : Revision \cup {None}, \* what VMDelete deletes
       handle : VM \cup {None},       \* the domain VMDelete found
       flag : BOOLEAN,      \* active (create), sourceIsActive (rebuild)
       lock : BOOLEAN,      \* rebuild: lock || originalLocked
       ok : BOOLEAN]        \* rebuild: success; restore: err = nil

ASSUME SentinelAssumption == None \notin Op

(***************************************************************************)
(* What the record of an operation holds at step l.                        *)
(***************************************************************************)
Fits(o, l) ==
    /\ l \in NewVMLabel => o.kind \in {"create", "rebuild"}
    /\ l \in BackupLabel => o.kind \in {"backup", "rebuild"}
    /\ l \in RestoreLabel => o.kind \in {"create", "restore", "rebuild"}
    /\ l \in DeleteLabel => o.kind \in {"delete", "rebuild"} /\ o.target \in Revision
    /\ l \in RebuildLabel => o.kind = "rebuild"
    /\ l \in DropLabel => o.kind = "drop"
    /\ o.kind \in {"backup", "restore", "rebuild", "delete"} => o.rev \in Revision
    /\ o.kind \in {"create", "rebuild"} => o.new \in Revision /\ o.vm \in VM
    /\ l \in VolumeLabel \cup RestoreLabel \cup DropLabel \cup {"drop", "dropvol"} =>
            o.bk \in Backup
    /\ l \in (BackupLabel \ {"backup"}) \cup RestoreLabel /\ o.kind # "create" => o.held \in VM
    /\ l \in DomainLabel => o.handle \in VM
    /\ l \in NewVMLabel /\ o.kind = "rebuild" => o.bk = None

WellFormed(o) == Fits(o, o.pc)

-----------------------------------------------------------------------------
Present == {i \in Revision : db[i] # None}
Running(i) == dom[i] # None /\ dom[i] \in on

\* GetNextRevisionForName.
NextRevision == CHOOSE n \in 0..(MaxRevision + 1) :
                    IF Present = {} THEN n = 0
                    ELSE \E i \in Present : n = i + 1 /\ \A j \in Present : j <= i

\* A VM object that nothing refers to any more.
Unused(v) == /\ \A i \in Revision : db[i] # v /\ dom[i] # v
             /\ \A r \in Request : op[r] # None =>
                    v \notin {op[r].vm, op[r].held, op[r].handle}

\* The users' view of active revision a and disks d.
Stored(content) == IF content = None THEN {} ELSE content
Expected(a, d) == IF a = None THEN None ELSE Stored(d[a])

\* The users had revision i replaced or deleted: the disks are now d.
Asked(i, d) == CASE active = i -> Stored(d[i]) [] active = None -> None [] OTHER -> data

IsHighest(i, S) == i \in S /\ \A j \in S : j <= i

\* (mutant: the revision being deleted is not left out)
FallbackOfAll(i) ==
    IF active # i THEN active ELSE CHOOSE j \in Present : IsHighest(j, Present)

\* The active revision after the deletion of revision i: VMDatabase.Delete.
Fallback(i) ==
    IF active # i THEN active
    ELSE IF \E j \in Present : IsHighest(j, Present \ {i})
    THEN CHOOSE j \in Present : IsHighest(j, Present \ {i})
    ELSE None

-----------------------------------------------------------------------------
(* Operations. *)

Alone == \A r \in Request : op[r] = None
Free(r, kind) ==
    op[r] = None /\ (setting.overlap \/ Alone) /\ kind \in setting.kinds

Operation(kind, pc, i) ==
    [kind |-> kind, pc |-> pc, rev |-> i, new |-> None, vm |-> None, held |-> None,
     bk |-> None, target |-> None, handle |-> None, flag |-> FALSE, lock |-> FALSE, ok |-> FALSE]

At(r, label) == op[r] # None /\ op[r].pc = label
Put(r, o) == op' = [op EXCEPT ![r] = o]
Go(r, label) == op' = [op EXCEPT ![r].pc = label]
End(r) == op' = [op EXCEPT ![r] = None]

-----------------------------------------------------------------------------
(* NewVM. *)

\* The revision is chosen, and its domain must not exist in libvirt.
NewVM(r, o) ==
    /\ NextRevision \in Revision
    /\ dom[NextRevision] = None
    /\ \E v \in VM : Unused(v)
    /\ Put(r, [o EXCEPT !.new = NextRevision, !.vm = CHOOSE v \in VM : Unused(v)])
    /\ UNCHANGED <<setting, libvirt, mulch, users>>

\* NewVMController: with the backup to restore, if any.
CreateVM(r, act, b) ==
    /\ Free(r, "create")
    /\ b # None => setting.scripts /\ b \in bdb
    /\ NewVM(r, [Operation("create", "disk", None) EXCEPT !.flag = act, !.bk = b])

(***************************************************************************)
(* The volume may be created and its copy fail: the rollback is registered *)
(* only afterwards, and the volume stays.                                  *)
(***************************************************************************)
CreateDiskFromSeed(r) ==
    /\ At(r, "disk")
    /\ LET i == op[r].new IN
       \/ /\ disk[i] = None
          /\ disk' = [disk EXCEPT ![i] = {}]
          /\ Go(r, "define") \/ (Partial /\ End(r))
       \/ End(r) /\ UNCHANGED disk
    /\ UNCHANGED <<setting, dom, on, attached, bvol, mulch, users>>

\* ResizeDisk, then DomainDefineXML.
DefineDomain(r) ==
    /\ At(r, "define")
    /\ \/ /\ dom[op[r].new] = None
          /\ dom' = [dom EXCEPT ![op[r].new] = op[r].vm]
          /\ Go(r, "boot")
       \/ Go(r, "undisk") /\ UNCHANGED dom
    /\ UNCHANGED <<setting, disk, on, attached, bvol, mulch, users>>

Boot(r) ==
    /\ At(r, "boot")
    /\ \/ on' = on \cup {op[r].vm} /\ Go(r, "prepare")
       \/ Go(r, "undomain") /\ UNCHANGED on
    /\ UNCHANGED <<setting, disk, dom, attached, bvol, mulch, users>>

(***************************************************************************)
(* The VM phones home and runs its prepare scripts, then either restores a *)
(* backup, or runs its install scripts.  With BackupBlankRestore (rebuild  *)
(* of a VM that has scripts) it does neither.                              *)
(***************************************************************************)
Prepare(r) ==
    /\ At(r, "prepare")
    /\ Go(r, "undomain") \/ Go(r, IF op[r].bk # None THEN "rmark" ELSE "add")
    /\ UNCHANGED <<setting, libvirt, mulch, users>>

(***************************************************************************)
(* VMDatabase.Add may refuse (a conflict); when its save fails, the other  *)
(* revisions have already lost their Active flag.                          *)
(***************************************************************************)
Add(r) ==
    /\ At(r, "add")
    /\ LET o == op[r] IN
       \/ /\ db[o.new] = None
          /\ db' = [db EXCEPT ![o.new] = o.vm]
          /\ active' = IF o.flag THEN o.new ELSE active
          /\ data' = IF o.flag THEN Expected(o.new, disk) ELSE data
          /\ IF o.kind = "create" THEN End(r) ELSE Go(r, "deactivate")
       \/ /\ active' \in {active} \cup (IF o.flag /\ Partial THEN {None} ELSE {})
          /\ Go(r, "undomain")
          /\ UNCHANGED <<db, data>>
    /\ UNCHANGED <<setting, libvirt, locked, wip, bdb, wrote>>

\* The deferred calls of NewVM, last registered first.
RollbackDomain(r) ==
    /\ At(r, "undomain")
    /\ LET i == op[r].new  v == op[r].vm IN
       /\ on' = on \ {v}
       /\ attached' = [attached EXCEPT ![v] = None]
       /\ \/ dom' = [dom EXCEPT ![i] = IF @ = v THEN None ELSE @]
          \/ Partial /\ UNCHANGED dom
    /\ Go(r, "undisk")
    /\ UNCHANGED <<setting, disk, bvol, mulch, users>>

\* (mutant: the rollback of the disk is forgotten)
RollbackDiskForgotten(r) ==
    /\ At(r, "undisk")
    /\ End(r)
    /\ UNCHANGED <<setting, libvirt, mulch, users>>

RollbackDisk(r) ==
    /\ At(r, "undisk")
    /\ \/ disk' = [disk EXCEPT ![op[r].new] = None]
       \/ Partial /\ UNCHANGED disk
    /\ End(r)
    /\ UNCHANGED <<setting, dom, on, attached, bvol, mulch, users>>

-----------------------------------------------------------------------------
(* VMBackup: the backup action, and a step of VMRebuild. *)

BackupVM(r, i) ==
    /\ Free(r, "backup")
    /\ i \in Present
    /\ Put(r, Operation("backup", "backup", i))
    /\ UNCHANGED <<setting, libvirt, mulch, users>>

(***************************************************************************)
(* The deferred calls of VMRebuild, last registered first: delete the      *)
(* backup, success or not; then, without success, set the original active  *)
(* again if it was, and delete the new VM.                                 *)
(***************************************************************************)
Discarded(o) == [o EXCEPT !.pc = "delete", !.target = o.new]

Reverted(o) ==
    IF o.ok THEN None
    ELSE IF o.flag THEN [o EXCEPT !.pc = "reactivate"]
    ELSE Discarded(o)

Unwound(o) == IF o.bk # None THEN [o EXCEPT !.pc = "drop"] ELSE Reverted(o)

\* VMBackup returned an error.
BackupFails(r) ==
    IF op[r].kind = "backup" THEN End(r)
    ELSE Put(r, Reverted([op[r] EXCEPT !.bk = None, !.held = None]))

\* (mutant: the mark stays)
ClearOperationNever(r) == UNCHANGED wip

\* The deferred SetOperation(VMOperationNone).
ClearOperation(r) == wip' = wip \ {op[r].held}

CheckOperation(r) ==
    /\ At(r, "backup")
    /\ LET i == op[r].rev IN
       IF i \in Present /\ db[i] \notin wip
       THEN Put(r, [op[r] EXCEPT !.pc = "bmark", !.held = db[i]])
       ELSE BackupFails(r)
    /\ UNCHANGED <<setting, libvirt, mulch, users>>

SetOperation(r, label) ==
    /\ wip' = wip \cup {op[r].held}
    /\ Go(r, label)
    /\ UNCHANGED <<setting, libvirt, db, active, locked, bdb, users>>

MarkBackup(r) == At(r, "bmark") /\ SetOperation(r, "bvolume")

\* Names are made of the date: none is used twice.
NewBackupName(b) ==
    bvol[b] = None /\ b \notin bdb /\ \A q \in Request : op[q] # None => op[q].bk # b

\* VMCreateBackupDisk, once the VM is known to run and to have scripts.
CreateBackupDisk(r) ==
    /\ At(r, "bvolume")
    /\ \/ /\ Running(op[r].rev) /\ setting.scripts
          /\ \E b \in Backup :
                /\ NewBackupName(b)
                /\ bvol' = [bvol EXCEPT ![b] = {}]
                /\ \/ /\ Put(r, [op[r] EXCEPT !.pc = "battach", !.bk = b])
                      /\ UNCHANGED wip
                   \/ Partial /\ ClearOperation(r) /\ BackupFails(r)
       \/ ClearOperation(r) /\ BackupFails(r) /\ UNCHANGED bvol
    /\ UNCHANGED <<setting, disk, dom, on, attached, db, active, locked, bdb, users>>

\* Only a running domain whose device is free takes an existing volume.
CanAttach(i, b) == Running(i) /\ attached[dom[i]] = None /\ bvol[b] # None

(***************************************************************************)
(* VMAttachBackup.  The rollback is registered only after it, and after    *)
(* the scripts were opened: a failure leaves the volume, and the           *)
(* attachment in the second case.                                          *)
(***************************************************************************)
AttachBackup(r) ==
    /\ At(r, "battach")
    /\ LET o == op[r] IN
       \/ /\ CanAttach(o.rev, o.bk)
          /\ attached' = [attached EXCEPT ![dom[o.rev]] = o.bk]
          /\ \/ Go(r, "bscripts") /\ UNCHANGED wip
             \/ Partial /\ ClearOperation(r) /\ BackupFails(r)
       \/ ClearOperation(r) /\ BackupFails(r) /\ UNCHANGED attached
    /\ UNCHANGED <<setting, disk, dom, on, bvol, db, active, locked, bdb, users>>

Mounted(i, b) == Running(i) /\ attached[dom[i]] = b

\* The scripts write to the attached volume.
BackupScripts(r) ==
    /\ At(r, "bscripts")
    /\ LET o == op[r] IN
       \/ /\ Mounted(o.rev, o.bk) /\ disk[o.rev] # None
          /\ bvol' = [bvol EXCEPT ![o.bk] = disk[o.rev]]
          /\ Go(r, "bdetach")
       \/ Go(r, "bundo") /\ UNCHANGED bvol
    /\ UNCHANGED <<setting, disk, dom, on, attached, mulch, users>>

\* VMDetachBackup: whatever backup volume is attached to the domain.
Detach(i) ==
    attached' = IF dom[i] = None THEN attached ELSE [attached EXCEPT ![dom[i]] = None]

DetachBackup(r) ==
    /\ At(r, "bdetach")
    /\ LET i == op[r].rev IN
       \/ Running(i) /\ attached[dom[i]] # None /\ Detach(i) /\ Go(r, "badd")
       \/ Go(r, "bundo") /\ UNCHANGED attached
    /\ UNCHANGED <<setting, disk, dom, on, bvol, mulch, users>>

(***************************************************************************)
(* The backup is compressed (the volume is deleted and uploaded again),    *)
(* then added to the backup database; the error of Add is ignored.         *)
(***************************************************************************)
AddBackup(r) ==
    /\ At(r, "badd")
    /\ LET o == op[r] IN
       \/ /\ bdb' = bdb \cup {o.bk}
          /\ ClearOperation(r)
          /\ IF o.kind = "backup" THEN End(r)
             ELSE Put(r, [o EXCEPT !.pc = "rmark", !.held = o.vm])
          /\ UNCHANGED bvol
       \/ /\ bvol' \in {bvol} \cup (IF Partial THEN {[bvol EXCEPT ![o.bk] = None]} ELSE {})
          /\ Go(r, "bundo")
          /\ UNCHANGED <<bdb, wip>>
    /\ UNCHANGED <<setting, disk, dom, on, attached, db, active, locked, users>>

UndoBackup(r) ==
    /\ At(r, "bundo")
    /\ Detach(op[r].rev) \/ (Partial /\ UNCHANGED attached)
    /\ \/ bvol' = [bvol EXCEPT ![op[r].bk] = None]
       \/ Partial /\ UNCHANGED bvol
    /\ ClearOperation(r)
    /\ BackupFails(r)
    /\ UNCHANGED <<setting, disk, dom, on, db, active, locked, bdb, users>>

-----------------------------------------------------------------------------
(* VMRestoreNoChecks: the restore action, and a step of NewVM and VMRebuild. *)

\* RestoreVM, the controller.  A locked VM is restored with --force.
RestoreVM(r, i, b) ==
    /\ Free(r, "restore")
    /\ setting.scripts /\ i \in Present /\ Running(i) /\ db[i] \notin wip /\ b \in bdb
    /\ Put(r, [Operation("restore", "rmark", i) EXCEPT !.held = db[i], !.bk = b])
    /\ UNCHANGED <<setting, libvirt, mulch, users>>

\* The revision being restored.
Restored(o) == IF o.kind = "restore" THEN o.rev ELSE o.new

(***************************************************************************)
(* A rebuild looks its own backup up first, which may have been deleted.   *)
(* The VM that NewVM builds is not in the database: nobody sees its mark.  *)
(***************************************************************************)
MarkRestore(r) ==
    /\ At(r, "rmark")
    /\ IF op[r].kind = "rebuild" /\ op[r].bk \notin bdb
       THEN /\ Put(r, Unwound([op[r] EXCEPT !.held = None]))
            /\ UNCHANGED <<setting, libvirt, mulch, users>>
       ELSE IF op[r].kind = "create"
       THEN Go(r, "rattach") /\ UNCHANGED <<setting, libvirt, mulch, users>>
       ELSE SetOperation(r, "rattach")

\* (mutant: a rebuild goes on after a restore that failed)
RestoreReturnsAnyway(r, ok) ==
    LET o == op[r] IN
    CASE o.kind = "restore" -> End(r)
      [] o.kind = "create"  -> Go(r, "add")
      [] o.kind = "rebuild" ->
            Put(r, [o EXCEPT !.pc = IF o.flag THEN "activate" ELSE "unlock",
                             !.held = None, !.ok = FALSE])

\* The function returns; a creation may go on after a failure (keep_on_failure).
RestoreReturns(r, ok) ==
    LET o == op[r] IN
    CASE o.kind = "restore" -> End(r)
      [] o.kind = "create"  -> Go(r, "add") \/ (~ok /\ Go(r, "undomain"))
      [] o.kind = "rebuild" ->
            LET p == [o EXCEPT !.held = None, !.ok = FALSE]
            IN  Put(r, IF ok THEN [p EXCEPT !.pc = IF o.flag THEN "activate" ELSE "unlock"]
                       ELSE Unwound(p))

AttachRestore(r) ==
    /\ At(r, "rattach")
    /\ LET i == Restored(op[r]) IN
       \/ /\ CanAttach(i, op[r].bk)
          /\ attached' = [attached EXCEPT ![dom[i]] = op[r].bk]
          /\ Go(r, "rscripts")
          /\ UNCHANGED wip
       \/ ClearOperation(r) /\ RestoreReturns(r, FALSE) /\ UNCHANGED attached
    /\ UNCHANGED <<setting, disk, dom, on, bvol, db, active, locked, bdb, users>>

\* What the domain reads: of a volume deleted since it was attached, we do not know.
Readable(b) == IF bvol[b] = None THEN Content ELSE {bvol[b]}

(***************************************************************************)
(* The scripts replace the data of the VM; those that fail may leave none. *)
(* The users asked for it when they restore a VM.                          *)
(***************************************************************************)
RestoreScripts(r) ==
    /\ At(r, "rscripts")
    /\ LET i == Restored(op[r])  b == op[r].bk IN
       /\ \/ /\ Mounted(i, b) /\ disk[i] # None
             /\ \E content \in Readable(b) : disk' = [disk EXCEPT ![i] = content]
             /\ Put(r, [op[r] EXCEPT !.pc = "rdetach", !.ok = TRUE])
          \/ /\ disk' \in {disk} \cup (IF disk[i] # None THEN {[disk EXCEPT ![i] = {}]} ELSE {})
             /\ Put(r, [op[r] EXCEPT !.pc = "rdetach", !.ok = FALSE])
       /\ data' = IF op[r].kind = "restore" THEN Asked(i, disk') ELSE data
    /\ UNCHANGED <<setting, dom, on, attached, bvol, mulch, wrote>>

\* The deferred detach; its error is only logged.
DetachRestore(r) ==
    /\ At(r, "rdetach")
    /\ Detach(Restored(op[r])) \/ (Partial /\ UNCHANGED attached)
    /\ ClearOperation(r)
    /\ RestoreReturns(r, op[r].ok)
    /\ UNCHANGED <<setting, disk, dom, on, bvol, db, active, locked, bdb, users>>

-----------------------------------------------------------------------------
(* VMDelete: the delete request, and both ends of VMRebuild. *)

DeleteVM(r, i) ==
    /\ Free(r, "delete")
    /\ i \in Present
    /\ Put(r, [Operation("delete", "delete", i) EXCEPT !.target = i])
    /\ UNCHANGED <<setting, libvirt, mulch, users>>

(***************************************************************************)
(* VMDelete returns.  VMRebuild deletes the original last, which commits,  *)
(* and deletes the new VM in a deferred call, which ends it.               *)
(***************************************************************************)
DeleteReturns(r, ok) ==
    LET o == op[r] IN
    CASE o.kind = "rebuild" /\ o.target = o.rev ->
            IF ok THEN Put(r, [o EXCEPT !.pc = "relock", !.ok = TRUE])
            ELSE Put(r, Unwound(o))
      [] OTHER -> End(r)

DeleteCheck(r) ==
    /\ At(r, "delete")
    /\ LET i == op[r].target IN
       IF i \in Present /\ db[i] \notin locked /\ dom[i] # None
       THEN Put(r, [op[r] EXCEPT !.pc = "destroy", !.handle = dom[i]])
       ELSE DeleteReturns(r, FALSE)
    /\ UNCHANGED <<setting, libvirt, mulch, users>>

Destroy(r) ==
    /\ At(r, "destroy")
    /\ LET h == op[r].handle IN
       \/ /\ dom[op[r].target] = h
          /\ on' = on \ {h}
          /\ attached' = [attached EXCEPT ![h] = None]
          /\ Go(r, "deldisk")
       \/ /\ Partial \/ dom[op[r].target] # h
          /\ DeleteReturns(r, FALSE)
          /\ UNCHANGED <<on, attached>>
    /\ UNCHANGED <<setting, disk, dom, bvol, mulch, users>>

\* The volume is found by its name.
DeleteDisk(r) ==
    /\ At(r, "deldisk")
    /\ LET i == op[r].target IN
       \/ /\ disk[i] # None
          /\ disk' = [disk EXCEPT ![i] = None]
          /\ data' = IF op[r].kind = "delete" THEN Asked(i, disk') ELSE data
          /\ Go(r, "undefine")
       \/ /\ Partial \/ disk[i] = None
          /\ DeleteReturns(r, FALSE)
          /\ UNCHANGED <<disk, data>>
    /\ UNCHANGED <<setting, dom, on, attached, bvol, mulch, wrote>>

Undefine(r) ==
    /\ At(r, "undefine")
    /\ LET i == op[r].target  h == op[r].handle IN
       \/ /\ dom[i] = h
          /\ dom' = [dom EXCEPT ![i] = None]
          /\ Go(r, "delentry")
       \/ /\ Partial \/ dom[i] # h
          /\ DeleteReturns(r, FALSE)
          /\ UNCHANGED dom
    /\ UNCHANGED <<setting, disk, on, attached, bvol, mulch, users>>

(***************************************************************************)
(* VMDatabase.Delete.  It may refuse (the next active revision is in       *)
(* conflict), or its save may fail.                                        *)
(***************************************************************************)
Remove(i, asked) ==
    /\ active' = Fallback(i)
    /\ db' = [db EXCEPT ![i] = None]
    /\ data' = IF asked /\ active = i THEN Expected(Fallback(i), disk) ELSE data

DeleteEntry(r) ==
    /\ At(r, "delentry")
    /\ LET i == op[r].target IN
       \/ /\ i \in Present
          /\ Remove(i, op[r].kind = "delete")
          /\ Go(r, "dhcp") \/ (Partial /\ DeleteReturns(r, FALSE))
       \/ /\ Partial \/ i \notin Present
          /\ DeleteReturns(r, FALSE)
          /\ UNCHANGED <<active, db, data>>
    /\ UNCHANGED <<setting, libvirt, locked, wip, bdb, wrote>>

\* RebuildDHCPStaticLeases: nothing is left of the VM, but it may fail.
RebuildDHCPStaticLeases(r) ==
    /\ At(r, "dhcp")
    /\ DeleteReturns(r, TRUE) \/ (Partial /\ DeleteReturns(r, FALSE))
    /\ UNCHANGED <<setting, libvirt, mulch, users>>

-----------------------------------------------------------------------------
(* VMRebuild. *)

(***************************************************************************)
(* The rebuild action and the automatic rebuild.  The first refuses a      *)
(* locked VM without --force, the second does not look at the lock: both   *)
(* are this action.  NewVM comes first, and the VM has no mark meanwhile.  *)
(***************************************************************************)
RebuildVM(r, i, lock) ==
    /\ Free(r, "rebuild")
    /\ i \in Present /\ db[i] \notin wip /\ Running(i)
    /\ NewVM(r, [Operation("rebuild", "disk", i) EXCEPT !.lock = lock])

\* (mutant: the backup is taken while the users still write)
DeactivateLate(r) ==
    /\ At(r, "deactivate")
    /\ Put(r, [op[r] EXCEPT !.flag = (active = op[r].rev),
                            !.pc = IF setting.scripts THEN "backup"
                                   ELSE IF active = op[r].rev THEN "activate" ELSE "unlock"])
    /\ UNCHANGED <<setting, libvirt, mulch, users>>

(***************************************************************************)
(* The original becomes inactive if it was active.  When the save fails,   *)
(* the call that makes it active again is not registered yet.              *)
(***************************************************************************)
Deactivate(r) ==
    /\ At(r, "deactivate")
    /\ LET o == op[r]
           next == [o EXCEPT !.flag = (active = o.rev),
                             !.pc = IF setting.scripts THEN "backup"
                                    ELSE IF active = o.rev THEN "activate" ELSE "unlock"]
       IN  /\ active' = IF active = o.rev THEN None ELSE active
           /\ Put(r, next) \/ (Partial /\ active = o.rev /\ Put(r, Discarded(o)))
    /\ UNCHANGED <<setting, libvirt, db, locked, wip, bdb, users>>

\* SetActiveRevision may refuse; a save that fails leaves the change in memory.
Activate(r) ==
    /\ At(r, "activate")
    /\ LET o == op[r] IN
       \/ /\ o.new \in Present
          /\ active' = o.new
          /\ Go(r, "unlock") \/ (Partial /\ Put(r, Unwound(o)))
       \/ Put(r, Unwound(o)) /\ UNCHANGED active
    /\ UNCHANGED <<setting, libvirt, db, locked, wip, bdb, users>>

\* The lock of the original is remembered and removed.
UnlockOriginal(r) ==
    /\ At(r, "unlock")
    /\ LET o == op[r] IN
       IF o.rev \in Present
       THEN /\ locked' = locked \ {db[o.rev]}
            /\ Put(r, [o EXCEPT !.pc = "delete", !.target = o.rev,
                                !.lock = @ \/ db[o.rev] \in locked])
       ELSE Put(r, Unwound(o)) /\ UNCHANGED locked
    /\ UNCHANGED <<setting, libvirt, db, active, wip, bdb, users>>

\* The original is deleted: the rebuild is a success, the new VM takes the lock.
LockNew(r) ==
    /\ At(r, "relock")
    /\ LET o == op[r] IN
       /\ locked' = IF o.lock /\ o.new \in Present THEN locked \cup {db[o.new]} ELSE locked
       /\ Put(r, Unwound(o))
    /\ UNCHANGED <<setting, libvirt, db, active, wip, bdb, users>>

DropBackup(r) ==
    /\ At(r, "drop")
    /\ LET o == op[r] IN
       IF o.bk \in bdb
       THEN bdb' = bdb \ {o.bk} /\ Go(r, "dropvol")
       ELSE Put(r, Reverted(o)) /\ UNCHANGED bdb
    /\ UNCHANGED <<setting, libvirt, db, active, locked, wip, users>>

DropVolume(r) ==
    /\ At(r, "dropvol")
    /\ \/ bvol' = [bvol EXCEPT ![op[r].bk] = None]
       \/ Partial /\ UNCHANGED bvol
    /\ Put(r, Reverted(op[r]))
    /\ UNCHANGED <<setting, disk, dom, on, attached, mulch, users>>

\* (mutant: the original is not set active again)
ReactivateNever(r) ==
    /\ At(r, "reactivate")
    /\ Put(r, Discarded(op[r]))
    /\ UNCHANGED <<setting, libvirt, mulch, users>>

\* SetActiveRevision for the original, which may be gone.
Reactivate(r) ==
    /\ At(r, "reactivate")
    /\ active' \in (IF op[r].rev \in Present THEN {op[r].rev} ELSE {active})
                  \cup (IF Partial THEN {active} ELSE {})
    /\ Put(r, Discarded(op[r]))
    /\ UNCHANGED <<setting, libvirt, db, locked, wip, bdb, users>>

-----------------------------------------------------------------------------
(* BackupDelete: a request, or deleteExpired. *)

DeleteBackup(r, b) ==
    /\ Free(r, "drop")
    /\ b \in bdb
    /\ Put(r, [Operation("drop", "delvol", None) EXCEPT !.bk = b])
    /\ UNCHANGED <<setting, libvirt, mulch, users>>

DeleteBackupVolume(r) ==
    /\ At(r, "delvol")
    /\ \/ /\ bvol[op[r].bk] # None
          /\ bvol' = [bvol EXCEPT ![op[r].bk] = None]
          /\ Go(r, "deldb")
       \/ (Partial \/ bvol[op[r].bk] = None) /\ End(r) /\ UNCHANGED bvol
    /\ UNCHANGED <<setting, disk, dom, on, attached, mulch, users>>

\* (mutant: the backup is not removed from the database)
DeleteBackupEntryForgotten(r) ==
    /\ At(r, "deldb")
    /\ End(r)
    /\ UNCHANGED <<setting, libvirt, mulch, users>>

DeleteBackupEntry(r) ==
    /\ At(r, "deldb")
    /\ bdb' = bdb \ {op[r].bk}
    /\ End(r)
    /\ UNCHANGED <<setting, libvirt, db, active, locked, wip, users>>

-----------------------------------------------------------------------------
(* What the users do in one step.  Locks can be forced. *)

UserActs == setting.overlap \/ Alone

\* VMStopByName, or the VM stops by itself: transient attachments are lost.
Stop(i) ==
    /\ UserActs /\ Running(i)
    /\ on' = on \ {dom[i]}
    /\ attached' = [attached EXCEPT ![dom[i]] = None]
    /\ UNCHANGED <<setting, disk, dom, bvol, mulch, op, users>>

\* VMStartByName.
Start(i) ==
    /\ UserActs /\ i \in Present /\ dom[i] # None /\ dom[i] \notin on /\ disk[i] # None
    /\ on' = on \cup {dom[i]}
    /\ UNCHANGED <<setting, disk, dom, attached, bvol, mulch, op, users>>

LockUnlock(i) ==
    /\ UserActs /\ i \in Present
    /\ locked' = IF db[i] \in locked THEN locked \ {db[i]} ELSE locked \cup {db[i]}
    /\ UNCHANGED <<setting, libvirt, db, active, wip, bdb, op, users>>

\* ActivateVM: i may be None, to deactivate the name.
ActivateVM(i) ==
    /\ UserActs /\ Present # {} /\ i \in Present \cup {None}
    /\ active' = i
    /\ data' = Expected(i, disk)
    /\ UNCHANGED <<setting, libvirt, db, locked, wip, bdb, op, wrote>>

\* The service of the active VM stores something new, during operations too.
Write ==
    /\ wrote < setting.writes /\ setting.scripts
    /\ active # None /\ Running(active) /\ disk[active] # None
    /\ wrote' = wrote + 1
    /\ disk' = [disk EXCEPT ![active] = @ \cup {wrote'}]
    /\ data' = IF data = None THEN None ELSE data \cup {wrote'}
    /\ UNCHANGED <<setting, dom, on, attached, bvol, mulch, op>>

(***************************************************************************)
(* mulchd stops between any two steps and starts again: operations and     *)
(* marks are gone, the VMs keep running, and initVMDB deletes the entries  *)
(* whose domain does not exist.                                            *)
(***************************************************************************)
Restart ==
    /\ setting.fault = "crash" /\ ~Alone
    /\ op' = [r \in Request |-> None]
    /\ wip' = {}
    /\ LET kept == {i \in Present : dom[i] # None} IN
       /\ db' = [i \in Revision |-> IF i \in kept THEN db[i] ELSE None]
       /\ active' = IF active \in kept \cup {None} THEN active
                    ELSE IF \E j \in kept : IsHighest(j, kept)
                    THEN CHOOSE j \in kept : IsHighest(j, kept)
                    ELSE None
       /\ data' = IF active' = active THEN data ELSE Expected(active', disk)
    /\ UNCHANGED <<setting, libvirt, locked, bdb, wrote>>

-----------------------------------------------------------------------------
\* One VM, active and running, with its disk.
Init ==
    LET first == CHOOSE v \in VM : TRUE
        Only(x, S) == [i \in S |-> IF i = 0 THEN x ELSE None]
    IN  /\ setting \in Setting
        /\ disk = Only({}, Revision)
        /\ dom = Only(first, Revision)
        /\ on = {first}
        /\ attached = [v \in VM |-> None]
        /\ bvol = [b \in Backup |-> None]
        /\ db = Only(first, Revision)
        /\ active = 0
        /\ locked = {} /\ wip = {} /\ bdb = {}
        /\ op = [r \in Request |-> None]
        /\ data = {} /\ wrote = 0

Begin(r) ==
    \/ \E act \in BOOLEAN, b \in Backup \cup {None} : CreateVM(r, act, b)
    \/ \E i \in Revision :
        \/ BackupVM(r, i) \/ DeleteVM(r, i)
        \/ \E b \in Backup : RestoreVM(r, i, b)
        \/ \E lock \in BOOLEAN : RebuildVM(r, i, lock)
    \/ \E b \in Backup : DeleteBackup(r, b)

Create(r) ==
    \/ CreateDiskFromSeed(r) \/ DefineDomain(r) \/ Boot(r) \/ Prepare(r) \/ Add(r)
    \/ RollbackDomain(r) \/ RollbackDisk(r)

SaveBackup(r) ==
    \/ CheckOperation(r) \/ MarkBackup(r) \/ CreateBackupDisk(r) \/ AttachBackup(r)
    \/ BackupScripts(r) \/ DetachBackup(r) \/ AddBackup(r) \/ UndoBackup(r)

Restore(r) ==
    MarkRestore(r) \/ AttachRestore(r) \/ RestoreScripts(r) \/ DetachRestore(r)

Delete(r) ==
    \/ DeleteCheck(r) \/ Destroy(r) \/ DeleteDisk(r) \/ Undefine(r) \/ DeleteEntry(r)
    \/ RebuildDHCPStaticLeases(r)

Rebuild(r) ==
    \/ Deactivate(r) \/ Activate(r) \/ UnlockOriginal(r) \/ LockNew(r)
    \/ DropBackup(r) \/ DropVolume(r) \/ Reactivate(r)

Users ==
    \/ \E i \in Revision : Stop(i) \/ Start(i) \/ LockUnlock(i)
    \/ \E i \in Revision \cup {None} : ActivateVM(i)
    \/ Write

Next ==
    \/ \E r \in Request :
        \/ Begin(r) \/ Create(r) \/ SaveBackup(r) \/ Restore(r) \/ Delete(r) \/ Rebuild(r)
        \/ DeleteBackupVolume(r) \/ DeleteBackupEntry(r)
    \/ Users
    \/ Restart

Spec == Init /\ [][Next]_vars

-----------------------------------------------------------------------------
(* Properties. *)

\* Types (server/vm.go), and the running domains exist.
TypeOK ==
    /\ setting \in Setting
    /\ disk \in [Revision -> {None} \cup Content]
    /\ dom \in [Revision -> VM \cup {None}]
    /\ on \subseteq VM /\ locked \subseteq VM /\ wip \subseteq VM
    /\ attached \in [VM -> Backup \cup {None}]
    /\ bvol \in [Backup -> {None} \cup Content]
    /\ db \in [Revision -> VM \cup {None}]
    /\ active \in Present \cup {None}
    /\ bdb \subseteq Backup
    /\ op \in [Request -> Op \cup {None}]
    /\ \A r \in Request : op[r] # None => WellFormed(op[r])
    /\ data \in {None} \cup Content
    /\ wrote \in 0..MaxWrites

(***************************************************************************)
(* Requests that do not overlap, calls that undo do not fail: the active   *)
(* VM always has all the data the users expect, at every step of a         *)
(* rebuild, of its failures and of a restart of mulchd.                    *)
(***************************************************************************)
ServedDataIsCurrent ==
    (~setting.overlap /\ ~Partial /\ active # None) =>
        data # None /\ data \subseteq Stored(disk[active])

(***************************************************************************)
(* While a rebuild runs, and whether it succeeds or not, the disk of a VM  *)
(* of the database has all the data the users expect.                      *)
(***************************************************************************)
RebuildKeepsData ==
    data # None => \E i \in Present : data \subseteq Stored(disk[i])

(***************************************************************************)
(* It holds, even if mulchd stops half-way, as long as requests do not     *)
(* overlap and no call fails after having had an effect.                   *)
(***************************************************************************)
DataSurvives == (~setting.overlap /\ ~Partial) => RebuildKeepsData

(***************************************************************************)
(* A VM that the users want active is active again when the operation is   *)
(* over, whatever the step that failed.                                    *)
(***************************************************************************)
ServiceReturns ==
    (~setting.overlap /\ setting.fault = "none" /\ Alone /\ data # None) => active # None

(***************************************************************************)
(* What NewVM creates is never left behind when its steps fail, even with  *)
(* two operations at once: a disk or a domain belongs to an entry, to a    *)
(* creation or to a deletion that is not over.                             *)
(***************************************************************************)
NoOrphans ==
    setting.fault = "none" =>
        \A i \in Revision :
            (disk[i] # None \/ dom[i] # None) =>
                \/ i \in Present
                \/ \E r \in Request : op[r] # None /\ i \in {op[r].new, op[r].target}

(***************************************************************************)
(* The backup database lists only backups that exist, but those that are   *)
(* being deleted.  (One without its volume makes every list of backups     *)
(* fail, and cannot be deleted.)                                           *)
(***************************************************************************)
BackupsAreStored ==
    setting.fault = "none" =>
        \A b \in bdb : \/ bvol[b] # None
                       \/ \E r \in Request : op[r] # None /\ op[r].kind = "drop" /\ op[r].bk = b

(***************************************************************************)
(* A VM is never left marked: each mark is that of an operation that runs. *)
(* (A mark that stays forbids backups, rebuilds and redefinitions.)        *)
(***************************************************************************)
NoStuckOperation ==
    \A v \in wip : \E r \in Request : op[r] # None /\ op[r].held = v
=============================================================================
