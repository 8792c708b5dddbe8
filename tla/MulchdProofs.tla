------------------------------ MODULE MulchdProofs ---------------------------
(***************************************************************************)
(* Proofs about the stores of mulchd (the states of VMs, the backups, the  *)
(* seeds, the DHCP leases and the API keys) and about its migrations.      *)
(* Each part has its own specification, and its section here an inductive  *)
(* invariant of it; the last section is about all of them together.        *)
(***************************************************************************)
EXTENDS MCMulchd, FiniteSetTheorems, TLAPS

-----------------------------------------------------------------------------
(***************************************************************************)
(* Proof about VMStates: the VMs are in their recorded state when their    *)
(* restoration ends, for any number of VMs, of stops and of actions of     *)
(* users, whatever fails, in the middle of saves and of restorations too.  *)
(*                                                                         *)
(* A file that can be read holds the last states that were saved, and so   *)
(* does the memory until the end of the restoration; meanwhile every VM is *)
(* still to be looked at, is on its way, or is in its state.               *)
(***************************************************************************)
NotRestored == {"creating", "cooldown", "restoring", "restored"}

StatesTypes ==
    /\ \A v \in DOMAIN recorded : recorded[v] \in BOOLEAN
    /\ \A v \in DOMAIN states : states[v] \in BOOLEAN
    /\ restoring \in [VM -> {"none", "start", "stop"}]
    /\ vms \subseteq VM
    /\ phase # "restoring" => restoring = NoneRestoring

RecordedIsKept ==
    /\ stateFile # Broken => stateFile = recorded
    /\ phase \in NotRestored => states = recorded

\* VMs that nobody has an excuse for.
NotExcused == (vms \cap DOMAIN recorded) \ excused

OnTheirWay ==
    /\ phase = "restoring" =>
          \A v \in NotExcused :
              \/ v \in toVisit
              \/ restoring[v] = "start" /\ recorded[v]
              \/ restoring[v] = "stop" /\ ~recorded[v]
              \/ restoring[v] = "none" /\ (v \in up <=> recorded[v])
    /\ phase = "restored" => \A v \in NotExcused : v \in up <=> recorded[v]

StatesIInv == StatesTypes /\ RecordedIsKept /\ OnTheirWay

\* It holds initially.
LEMMA StatesInitIInv == StatesInit => StatesIInv
BY DEF StatesInit, StatesIInv, StatesTypes, RecordedIsKept, OnTheirWay, NotExcused, NotRestored, NoneRestoring

(***************************************************************************)
(* Every step keeps the invariant.                                         *)
(***************************************************************************)
LEMMA StatesNextIInv == StatesIInv /\ [StatesNext]_stateVars => StatesIInv'
<1> SUFFICES ASSUME StatesIInv, [StatesNext]_stateVars PROVE StatesIInv'
  OBVIOUS
<1> USE DEF StatesIInv, StatesTypes, RecordedIsKept, OnTheirWay, NotExcused, NotRestored, NoneRestoring
<1>1. ASSUME NEW v \in VM, UserAction(v)
      PROVE  StatesIInv'
  BY <1>1 DEF UserAction, dbVars
<1>2. ASSUME NEW v \in VM, Visit(v)
      PROVE  StatesIInv'
  BY <1>2 DEF Visit
<1>3. ASSUME NEW v \in VM, Restore(v)
      PROVE  StatesIInv'
  BY <1>3 DEF Restore
<1>4. CASE RestoreBegins
  BY <1>4 DEF RestoreBegins
<1>5. CASE RestoreEnds
  BY <1>5 DEF RestoreEnds
<1>6. CASE Update
  <2> DEFINE new == [v \in vms |-> v \in up]
  <2>1. /\ phase \in {"restored", "running"}
        /\ UNCHANGED <<vms, up, toVisit, restoring, recorded, excused>>
        /\ \/ phase' = "running" /\ UNCHANGED <<states, stateFile>> /\ new = states
           \/ phase' = "saving" /\ states' = new /\ stateFile' = Broken
    BY <1>6 DEF Update, UpdatePhases
  <2>2. \A v \in vms : new[v] \in BOOLEAN /\ (new[v] <=> v \in up)
    <3> HIDE DEF StatesIInv, StatesTypes, RecordedIsKept, OnTheirWay, NotExcused, NotRestored, NoneRestoring
    <3>1. TAKE v \in vms
    <3>2. new[v] = (v \in up)
      BY Zenon
    <3>3. CASE v \in up
      <4>1. new[v] = TRUE
        BY Zenon, <3>2, <3>3
      <4> QED BY <4>1, <3>3
    <3>4. CASE v \notin up
      <4>1. (v \in up) = FALSE
        BY <3>4
      <4>2. new[v] = FALSE
        BY Zenon, <3>2, <4>1
      <4> QED BY <4>2, <3>4
    <3> QED BY <3>3, <3>4
  <2>3. DOMAIN new = vms
    OBVIOUS
  <2> HIDE DEF new
  <2> QED BY <2>1, <2>2, <2>3
<1>7. CASE SaveEnds
  BY <1>7 DEF SaveEnds
<1>8. CASE SaveFails
  BY <1>8 DEF SaveFails
<1>9. CASE Stop
  BY <1>9 DEF Stop
<1>10. CASE Start
  BY <1>10 DEF Start
<1>11. CASE StartEnds
  BY <1>11 DEF StartEnds
<1>12. CASE UNCHANGED stateVars
  BY <1>12 DEF stateVars
<1>13. QED
  BY <1>1, <1>2, <1>3, <1>4, <1>5, <1>6, <1>7, <1>8, <1>9, <1>10, <1>11, <1>12
  DEF StatesNext

(***************************************************************************)
(* However often mulchd and the host stop before the restoration is over,  *)
(* every VM is in its last recorded state when it ends, but the ones users *)
(* have changed since and the ones that could not be started or stopped    *)
(* (vmstate_database.go:137-213).                                          *)
(***************************************************************************)
THEOREM StatesRestored == StatesSpec => []StatesAreRestored
<1>1. StatesIInv => StatesAreRestored
  BY DEF StatesIInv, StatesTypes, OnTheirWay, NotExcused, StatesAreRestored
<1>2. QED BY StatesInitIInv, StatesNextIInv, <1>1, PTL DEF StatesSpec

-----------------------------------------------------------------------------
(***************************************************************************)
(* Proof about Backups: a backup that was acknowledged, that nobody asked  *)
(* to delete and that never had a date, keeps its volume and its entry,    *)
(* for any number of backups and of users, whatever may happen (all the    *)
(* faults of BackupFaults: saves that fail or that a stop cuts short too). *)
(*                                                                         *)
(* The property says nothing of the requests that are going on.  The       *)
(* invariant adds why none of them can hurt: what is deleted, or expires,  *)
(* is removable, and what is about to be added has a whole volume.         *)
(***************************************************************************)
JobPc == {"idle", "uploading", "adding", "reading", "deleting", "forgetting"}

\* The types the steps need.  Idle has any name.
JobsOK ==
    /\ now \in Nat
    /\ pool \in [Backup -> {"none", "part", "whole"}]
    /\ job \in [Process -> [pc : JobPc, name : Backup \cup {Idle.name}, date : Nat]]
    /\ \A p \in Process : job[p].pc # "idle" => job[p].name \in Backup

\* What is deleted or expires is removable, in memory and in the file.
DatedAreRemovable ==
    /\ expired \subseteq removable
    /\ \A p \in Process : job[p].pc \in {"deleting", "forgetting"} => job[p].name \in removable
    /\ \A b \in DOMAIN backups : backups[b] # Never => b \in removable
    /\ backupFile # BackupsTorn =>
          \A b \in DOMAIN backupFile : backupFile[b] # Never => b \in removable

\* What an upload adds is whole.
AddedAreWhole ==
    \A p \in Process :
        job[p].pc = "adding" /\ job[p].name \notin removable => pool[job[p].name] = "whole"

\* The property, and the database in memory.
KeptAreInMemory ==
    \A b \in kept \ removable :
        /\ pool[b] = "whole" /\ b \in Backup /\ b \in DOMAIN backups
        /\ backupFile # BackupsTorn => b \in DOMAIN backupFile

BackupsIInv == JobsOK /\ DatedAreRemovable /\ AddedAreWhole /\ KeptAreInMemory

\* It holds initially.
LEMMA BackupsInitIInv == BackupsInit => BackupsIInv
<1> SUFFICES ASSUME BackupsInit PROVE BackupsIInv
  OBVIOUS
<1>1. Idle = [pc |-> "idle", name |-> Idle.name, date |-> 0]
  BY DEF Idle, Never
<1> DEFINE i == Idle
<1>2. job = [p \in Process |-> i] /\ now = 0
  BY DEF BackupsInit
<1> HIDE DEF i
<1>3. \A p \in Process : job[p].pc = "idle"
  BY <1>1, <1>2 DEF i
<1>4. PICK some \in SUBSET Backup : \E dates \in [some -> Expiry] :
        /\ backups = dates /\ backupFile = dates
        /\ pool = [b \in Backup |-> IF b \in some THEN "whole" ELSE "none"]
        /\ kept = some /\ removable = {b \in some : dates[b] # Never}
  BY Zenon DEF BackupsInit
<1>5. PICK dates \in [some -> Expiry] :
        /\ backups = dates /\ backupFile = dates
        /\ pool = [b \in Backup |-> IF b \in some THEN "whole" ELSE "none"]
        /\ kept = some /\ removable = {b \in some : dates[b] # Never}
  BY <1>4, Zenon
<1>6. JobsOK
  BY <1>1, <1>2, <1>3, <1>5 DEF JobsOK, JobPc, i
<1>7. expired = {} /\ DOMAIN dates = some
  BY <1>5, Zenon DEF BackupsInit
<1>8. QED BY <1>3, <1>5, <1>6, <1>7 DEF BackupsIInv, DatedAreRemovable, AddedAreWhole, KeptAreInMemory

(***************************************************************************)
(* Every step keeps the invariant.                                         *)
(***************************************************************************)
LEMMA BackupsNextIInv == BackupsIInv /\ [BackupsNext]_backupVars => BackupsIInv'
<1> SUFFICES ASSUME BackupsIInv, [BackupsNext]_backupVars PROVE BackupsIInv'
  OBVIOUS
<1> USE DEF BackupsIInv, JobsOK, DatedAreRemovable, AddedAreWhole, KeptAreInMemory
<1>1. ASSUME NEW c \in Client, NEW b \in Backup, Upload(c, b)
       PROVE  BackupsIInv'
  BY <1>1 DEF Upload, Arrives, At, Ask, Process, JobPc, Expiry, Never, observed, Idle
<1>2. ASSUME NEW c \in Client, NEW b \in Backup, Download(c, b)
       PROVE  BackupsIInv'
  BY <1>2 DEF Download, Arrives, At, Ask, Process, JobPc, Never, observed, Idle
<1>3. ASSUME NEW c \in Client, NEW b \in Backup, Delete(c, b)
       PROVE  BackupsIInv'
  BY <1>3 DEF Delete, Arrives, At, Ask, Process, JobPc, Never, Idle
<1>4. ASSUME NEW c \in Client, NEW b \in Backup, SetExpire(c, b)
       PROVE  BackupsIInv'
  BY <1>4 DEF SetExpire, Arrives, At, Process, JobPc, Expiry, Never
<1>5. ASSUME NEW c \in Client, UploadCopied(c)
       PROVE  BackupsIInv'
  BY <1>5 DEF UploadCopied, At, Proceed, Process, JobPc, observed
<1>6. ASSUME NEW c \in Client, UploadFails(c)
       PROVE  BackupsIInv'
  BY <1>6 DEF UploadFails, At, EndJob, Process, JobPc, observed, Idle, Never
<1>7. ASSUME NEW c \in Client, UploadAdded(c)
       PROVE  BackupsIInv'
  BY <1>7 DEF UploadAdded, At, Add, NotSaved, EndJob, Process, JobPc, Idle, Never
<1>8. ASSUME NEW c \in Client, UploadRefused(c)
       PROVE  BackupsIInv'
  BY <1>8 DEF UploadRefused, At, EndJob, Process, JobPc, observed, Idle, Never
<1>9. ASSUME NEW c \in Client, DownloadEnds(c)
       PROVE  BackupsIInv'
  BY <1>9 DEF DownloadEnds, At, EndJob, Process, JobPc, observed, Idle, Never
<1>10. ASSUME NEW p \in Process, DeleteVolume(p)
       PROVE  BackupsIInv'
  BY <1>10 DEF DeleteVolume, At, Proceed, Process, JobPc, observed
<1>11. ASSUME NEW p \in Process, DeleteVolumeFails(p)
       PROVE  BackupsIInv'
  BY <1>11 DEF DeleteVolumeFails, At, EndJob, Process, JobPc, observed, Idle, Never
<1>12. ASSUME NEW p \in Process, DeleteEntry(p)
       PROVE  BackupsIInv'
  BY <1>12 DEF DeleteEntry, NotSaved, At, EndJob, Remove, Process, JobPc, observed, Idle, Never
<1>13. CASE ListExpired
  BY <1>13 DEF ListExpired, At, ExpiredNames, Process, JobPc, observed
<1>14. ASSUME NEW b \in Backup, NextExpired(b)
       PROVE  BackupsIInv'
  BY <1>14 DEF NextExpired, At, Ask, Process, JobPc, observed, Never, Idle
<1>15. CASE Tick
  BY <1>15 DEF Tick, Process, JobPc, observed
<1>16. CASE StopMulchd
  BY <1>16 DEF StopMulchd, Process, JobPc, observed, Idle, Never
<1>17. CASE StartMulchd \/ StartFails
  BY <1>17 DEF StartMulchd, StartFails, Process, JobPc, observed
<1>18. CASE UNCHANGED backupVars
  BY <1>18 DEF backupVars, Process, JobPc
<1>19. QED
  BY <1>1, <1>2, <1>3, <1>4, <1>5, <1>6, <1>7, <1>8, <1>9, <1>10, <1>11, <1>12,
     <1>13, <1>14, <1>15, <1>16, <1>17, <1>18
  DEF BackupsNext

(***************************************************************************)
(* A backup mulchd acknowledged, that nobody deletes and that never had a  *)
(* date, keeps its whole volume, its entry in memory, and its entry in     *)
(* the file as long as it can be read, whatever requests cross, whatever   *)
(* saves fail and wherever mulchd stops (backup_database.go:28, 59-70,     *)
(* 104, backup.go:19, controllers/backup.go:159).                          *)
(***************************************************************************)
THEOREM KeptBackups == BackupsSpec => []KeptBackupsAreStored
<1>1. BackupsIInv => KeptBackupsAreStored
  BY DEF BackupsIInv, KeptAreInMemory, KeptBackupsAreStored
<1>2. QED BY BackupsInitIInv, BackupsNextIInv, <1>1, PTL DEF BackupsSpec

-----------------------------------------------------------------------------
(***************************************************************************)
(* Proof about Addresses: until libvirt refuses something, every VM and    *)
(* every creation has its lease, for any number of VMs and addresses,      *)
(* whatever creations, deletions and restarts cross.                       *)
(*                                                                         *)
(* A rebuild compares names only: it keeps the lease of a name it knows.   *)
(* What makes it right is that a lease under a name is always the one of   *)
(* the VM, or of the creation, that has this name, and that the leases of  *)
(* a VM that was deleted are removed before its name is used again.        *)
(***************************************************************************)
Leases == [name : Guest, ip : Address]

CreationPc == {"no", "drawn", "leased", "ending", "deleted"}

LeasesTypes ==
    /\ guests \in [DOMAIN guests -> Address] /\ DOMAIN guests \subseteq Guest
    /\ creating \in [Guest -> [pc : CreationPc, ip : Address]]
    /\ transient \subseteq Leases /\ known \subseteq Leases /\ network \subseteq Leases

\* What each step of a creation or of a deletion knows.
CreationSteps ==
    /\ \A g \in DOMAIN guests :
          /\ creating[g].pc \in {"no", "ending"}
          /\ creating[g].pc = "ending" => guests[g] = creating[g].ip
    /\ \A l \in transient :
          creating[l.name].pc \in {"leased", "ending"} /\ l.ip = creating[l.name].ip
    /\ \A g \in Guest : creating[g].pc \in {"leased", "ending"} =>
          Lease(g, creating[g].ip) \in transient

\* The lease of a name is the one of who has it.
Owned ==
    /\ known = network
    /\ \A l \in known :
          /\ creating[l.name].pc = "no" => l.name \in DOMAIN guests /\ l.ip = guests[l.name]
          /\ creating[l.name].pc # "drawn"
          /\ creating[l.name].pc \in {"leased", "ending"} => l.ip = creating[l.name].ip
    /\ LeasesOf(guests) \cup transient \subseteq network

AddressesIInv == LeasesTypes /\ CreationSteps /\ (~failed => Owned)

\* It holds initially.
LEMMA AddressesInitIInv == ASSUME Address # {}, AddressesInit PROVE AddressesIInv
<1>1. Quiet \in [pc : CreationPc, ip : Address] /\ Quiet.pc = "no"
  BY DEF Quiet, CreationPc
<1>2. guests \in [DOMAIN guests -> Address] /\ DOMAIN guests \subseteq Guest
  BY DEF AddressesInit
<1>3. QED BY <1>1, <1>2 DEF AddressesInit, AddressesIInv, LeasesTypes, CreationSteps, Owned, LeasesOf, Lease, Leases

(***************************************************************************)
(* A rebuild that succeeds gives their leases to the VMs of the database   *)
(* and to the creations that it was given.                                 *)
(***************************************************************************)
LEMMA Rebuilt ==
    ASSUME known = network, NEW leases,
           \A l \in known : l.name \in DOMAIN guests => l = Lease(l.name, guests[l.name]),
           \A l \in known, m \in leases : l.name = m.name => l = m,
           RebuildSucceeds(guests, leases)
    PROVE  /\ known' = network' /\ failed' = failed
           /\ LeasesOf(guests) \cup leases \subseteq network'
           /\ network' \subseteq known \cup LeasesOf(guests) \cup leases
           /\ \A l \in network' : l.name \in DOMAIN guests \cup NamesOf(leases)
<1>1. /\ network' = (network \ Outdated(guests, leases)) \cup Missing(guests, leases)
      /\ known' = network' /\ failed' = failed
  BY DEF RebuildSucceeds
<1>2. ASSUME NEW l \in LeasesOf(guests) \cup leases
      PROVE  l \in network'
  <2>1. l.name \in DOMAIN guests \cup NamesOf(leases)
    BY DEF LeasesOf, Lease, NamesOf
  <2>2. CASE l.name \notin NamesOf(known)
    BY <1>1, <2>2 DEF Missing
  <2>3. CASE l.name \in NamesOf(known)
    <3>1. PICK k \in known : k.name = l.name
      BY <2>3 DEF NamesOf
    <3>2. k = l
      BY <3>1 DEF LeasesOf, Lease
    <3>3. QED BY <1>1, <2>1, <3>2 DEF Outdated
  <2>4. QED BY <2>2, <2>3
<1>3. \A l \in network' : l.name \in DOMAIN guests \cup NamesOf(leases)
  BY <1>1 DEF Outdated, Missing, LeasesOf, Lease, NamesOf
<1>4. network' \subseteq known \cup LeasesOf(guests) \cup leases
  BY <1>1 DEF Missing
<1>5. QED BY <1>1, <1>2, <1>3, <1>4

(***************************************************************************)
(* Whatever becomes of a rebuild: an error is remembered.                  *)
(***************************************************************************)
LEMMA Rebuilds ==
    ASSUME guests \in [DOMAIN guests -> Address], DOMAIN guests \subseteq Guest,
           known \subseteq Leases, network \subseteq Leases,
           NEW leases, leases \subseteq Leases,
           ~failed =>
              /\ known = network
              /\ \A l \in known : l.name \in DOMAIN guests => l.ip = guests[l.name]
              /\ \A l \in known, m \in leases : l.name = m.name => l.ip = m.ip,
           Rebuild(guests, leases)
    PROVE  /\ known' \subseteq Leases /\ network' \subseteq Leases
           /\ ~failed' =>
                /\ ~failed /\ known' = network'
                /\ LeasesOf(guests) \cup leases \subseteq network'
                /\ network' \subseteq known \cup LeasesOf(guests) \cup leases
                /\ \A l \in network' : l.name \in DOMAIN guests \cup NamesOf(leases)
<1>1. LeasesOf(guests) \subseteq Leases
  BY DEF LeasesOf, Lease, Leases
<1>2. CASE RebuildFails(guests, leases)
  <2>1. Missing(guests, leases) \subseteq Leases
    BY <1>1 DEF Missing
  <2>2. failed' = TRUE /\ UNCHANGED known
    BY <1>2 DEF RebuildFails
  <2>3. network' \subseteq network \cup Missing(guests, leases)
    BY <1>2 DEF RebuildFails
  <2>4. QED BY <2>1, <2>2, <2>3
<1>3. CASE RebuildSucceeds(guests, leases) /\ failed
  <2>1. Missing(guests, leases) \subseteq Leases
    BY <1>1 DEF Missing
  <2>2. /\ network' = (network \ Outdated(guests, leases)) \cup Missing(guests, leases)
        /\ known' = network' /\ failed' = failed
    BY <1>3 DEF RebuildSucceeds
  <2>3. QED BY <1>3, <2>1, <2>2
<1>4. CASE RebuildSucceeds(guests, leases) /\ ~failed
  <2>1. \A l \in known : l.name \in DOMAIN guests => l = Lease(l.name, guests[l.name])
    BY <1>4 DEF Leases, Lease
  <2>2. \A l \in known, m \in leases : l.name = m.name => l = m
    BY <1>4 DEF Leases
  <2>3. QED BY <1>1, <1>4, <2>1, <2>2, Rebuilt
<1>5. QED BY <1>2, <1>3, <1>4 DEF Rebuild

(***************************************************************************)
(* Every step keeps the invariant.                                         *)
(***************************************************************************)
LEMMA AddressesNextIInv == ASSUME Address # {}, AddressesIInv, [AddressesNext]_addressVars PROVE AddressesIInv'
<1>0. Quiet \in [pc : CreationPc, ip : Address] /\ Quiet.pc = "no"
  BY DEF Quiet, CreationPc
<1> USE DEF AddressesIInv, LeasesTypes, CreationSteps, CreationPc, InStep, Enter, Leave
<1>1. ASSUME NEW g \in Guest, NEW a \in Address, Draw(g, a)
      PROVE  AddressesIInv'
  BY <1>1 DEF Draw, Owned, LeasesOf
<1>2. ASSUME NEW g \in Guest, AddTransient(g)
      PROVE  AddressesIInv'
  <2> DEFINE own == Lease(g, creating[g].ip)
  <2>1. /\ creating[g].pc = "drawn" /\ g \notin DOMAIN guests
        /\ transient' = transient \cup {own}
        /\ creating' = [creating EXCEPT ![g].pc = "leased"]
        /\ guests' = guests /\ Rebuild(guests, transient')
    BY <1>2 DEF AddTransient
  <2>2. own \in Leases /\ own.name = g /\ own.ip = creating[g].ip
    BY DEF Lease, Leases
  <2>9. /\ creating'[g].ip = creating[g].ip /\ creating'[g].pc = "leased"
        /\ \A h \in Guest : h # g => creating'[h] = creating[h]
    BY <2>1
  <2>10. Lease(g, creating'[g].ip) \in transient'
    BY <2>1, <2>9
  <2> HIDE DEF own
  <2>3. transient' \subseteq Leases
    BY <2>1, <2>2
  <2>4. ~failed => /\ known = network
                   /\ \A l \in known : l.name \in DOMAIN guests => l.ip = guests[l.name]
                   /\ \A l \in known, m \in transient' : l.name = m.name => l.ip = m.ip
    BY <2>1, <2>2 DEF Owned
  <2>5. /\ known' \subseteq Leases /\ network' \subseteq Leases
        /\ ~failed' =>
              /\ ~failed /\ known' = network'
              /\ LeasesOf(guests) \cup transient' \subseteq network'
              /\ network' \subseteq known \cup LeasesOf(guests) \cup transient'
              /\ \A l \in network' : l.name \in DOMAIN guests \cup NamesOf(transient')
    BY <2>1, <2>3, <2>4, Rebuilds
  <2>6. LeasesTypes' /\ CreationSteps'
    <3>1. LeasesTypes'
      BY <2>1, <2>3, <2>5
    <3>2. QED BY <2>1, <2>2, <2>9, <2>10, <3>1
  <2>7. ~failed' => Owned'
    BY <2>1, <2>2, <2>5 DEF Owned, LeasesOf, Lease
  <2>8. QED BY <2>6, <2>7
<1>3. ASSUME NEW g \in Guest, Created(g)
      PROVE  AddressesIInv'
  <2>1. /\ creating[g].pc = "leased"
        /\ guests' = [h \in DOMAIN guests \cup {g} |->
                          IF h = g THEN creating[g].ip ELSE guests[h]]
        /\ creating' = [creating EXCEPT ![g].pc = "ending"]
        /\ UNCHANGED <<transient, network, known, failed>>
    BY <1>3 DEF Created
  <2>2. LeasesTypes' /\ CreationSteps'
    BY <2>1
  <2>3. ~failed => Lease(g, creating[g].ip) \in network
    BY <2>1 DEF Owned, Lease
  <2>4. LeasesOf(guests)' \subseteq LeasesOf(guests) \cup {Lease(g, creating[g].ip)}
    BY <2>1 DEF LeasesOf, Lease
  <2>5. \A h \in Guest : h # g => creating'[h] = creating[h]
    BY <2>1
  <2>6. /\ creating'[g].ip = creating[g].ip /\ creating'[g].pc = "ending"
        /\ \A h \in DOMAIN guests : h # g => guests'[h] = guests[h]
    BY <2>1
  <2>7. ~failed' => Owned'
    <3> SUFFICES ASSUME ~failed PROVE Owned'
      BY <2>1
    <3>1. (LeasesOf(guests) \cup transient)' \subseteq network'
      BY <2>1, <2>3, <2>4 DEF Owned
    <3>2. \A l \in known :
            /\ creating'[l.name].pc = "no" =>
                  l.name \in DOMAIN guests' /\ l.ip = guests'[l.name]
            /\ creating'[l.name].pc # "drawn"
            /\ creating'[l.name].pc \in {"leased", "ending"} => l.ip = creating'[l.name].ip
      <4> SUFFICES ASSUME NEW l \in known
                   PROVE  /\ creating'[l.name].pc = "no" =>
                                l.name \in DOMAIN guests' /\ l.ip = guests'[l.name]
                          /\ creating'[l.name].pc # "drawn"
                          /\ creating'[l.name].pc \in {"leased", "ending"} =>
                                l.ip = creating'[l.name].ip
        OBVIOUS
      <4>1. CASE l.name = g
        BY <2>1, <2>6, <4>1 DEF Owned
      <4>2. CASE l.name # g
        BY <2>1, <2>5, <2>6, <4>2 DEF Owned, Leases
      <4>3. QED BY <4>1, <4>2
    <3>3. QED BY <2>1, <3>1, <3>2 DEF Owned
  <2>8. QED BY <2>2, <2>7
<1>4. ASSUME NEW g \in Guest, CreationFails(g)
      PROVE  AddressesIInv'
  BY <1>4 DEF CreationFails, Owned, LeasesOf
<1>5. ASSUME NEW g \in Guest, RemoveTransient(g)
      PROVE  AddressesIInv'
  <2>1. /\ creating[g].pc = "ending"
        /\ transient' = {l \in transient : l.name # g}
        /\ creating' = [creating EXCEPT ![g] = Quiet]
        /\ guests' = guests
    BY <1>5 DEF RemoveTransient
  <2>0. Rebuild(guests, transient')
    BY <1>5 DEF RemoveTransient
  <2>2. transient' \subseteq Leases
    BY <2>1
  <2>3. ~failed => /\ known = network
                   /\ \A l \in known : l.name \in DOMAIN guests => l.ip = guests[l.name]
                   /\ \A l \in known, m \in transient' : l.name = m.name => l.ip = m.ip
    BY <2>1 DEF Owned
  <2>4. /\ known' \subseteq Leases /\ network' \subseteq Leases
        /\ ~failed' =>
              /\ ~failed /\ known' = network'
              /\ LeasesOf(guests) \cup transient' \subseteq network'
              /\ network' \subseteq known \cup LeasesOf(guests) \cup transient'
              /\ \A l \in network' : l.name \in DOMAIN guests \cup NamesOf(transient')
    BY <2>0, <2>2, <2>3, Rebuilds
  <2>5. LeasesTypes' /\ CreationSteps'
    BY <1>0, <2>1, <2>2, <2>4 DEF Lease
  <2>6. ~failed' => Owned'
    BY <1>0, <2>1, <2>4 DEF Owned, LeasesOf, Lease, NamesOf
  <2>7. QED BY <2>5, <2>6
<1>6. ASSUME NEW g \in Guest, DeleteGuest(g)
      PROVE  AddressesIInv'
  BY <1>6 DEF DeleteGuest, Owned, LeasesOf, Lease
<1>7. ASSUME NEW g \in Guest, GuestDeleted(g)
      PROVE  AddressesIInv'
  <2>1. /\ creating[g].pc = "deleted"
        /\ transient' = transient
        /\ creating' = [creating EXCEPT ![g] = Quiet]
        /\ guests' = guests /\ Rebuild(guests, transient')
    BY <1>7 DEF GuestDeleted
  <2>2. transient' \subseteq Leases
    BY <2>1
  <2>3. ~failed => /\ known = network
                   /\ \A l \in known : l.name \in DOMAIN guests => l.ip = guests[l.name]
                   /\ \A l \in known, m \in transient' : l.name = m.name => l.ip = m.ip
    BY <2>1 DEF Owned
  <2>4. /\ known' \subseteq Leases /\ network' \subseteq Leases
        /\ ~failed' =>
              /\ ~failed /\ known' = network'
              /\ LeasesOf(guests) \cup transient' \subseteq network'
              /\ network' \subseteq known \cup LeasesOf(guests) \cup transient'
              /\ \A l \in network' : l.name \in DOMAIN guests \cup NamesOf(transient')
    BY <2>1, <2>2, <2>3, Rebuilds
  <2>5. LeasesTypes' /\ CreationSteps'
    BY <1>0, <2>1, <2>2, <2>4
  <2>6. ~failed' => Owned'
    BY <1>0, <2>1, <2>4 DEF Owned, LeasesOf, Lease, NamesOf
  <2>7. QED BY <2>5, <2>6
<1>8. CASE RestartMulchd
  <2>1. /\ transient' = {} /\ creating' = [g \in Guest |-> Quiet]
        /\ network' = {l \in network : l.name \in DOMAIN guests}
                      \cup {l \in LeasesOf(guests) : l.name \notin NamesOf(network)}
        /\ known' = network' /\ UNCHANGED <<guests, failed>>
    BY <1>8 DEF RestartMulchd
  <2>2. LeasesOf(guests) \subseteq Leases
    BY DEF LeasesOf, Lease, Leases
  <2>3. LeasesTypes' /\ CreationSteps'
    BY <1>0, <2>1, <2>2
  <2>4. ~failed' => Owned'
    <3> SUFFICES ASSUME ~failed PROVE Owned'
      BY <2>1
    <3>1. LeasesOf(guests) \subseteq network
      BY DEF Owned
    <3>2. LeasesOf(guests) \subseteq network'
      BY <2>1, <3>1 DEF LeasesOf, Lease
    <3>3. network' \subseteq network /\ \A l \in network' : l.name \in DOMAIN guests
      BY <2>1, <3>1 DEF LeasesOf, Lease
    <3>4. \A l \in known : l.name \in DOMAIN guests => l.ip = guests[l.name]
      BY DEF Owned
    <3>5. LeasesOf(guests)' = LeasesOf(guests)
      BY <2>1 DEF LeasesOf
    <3>6. QED BY <1>0, <2>1, <2>3, <3>2, <3>3, <3>4, <3>5 DEF Owned
  <2>5. QED BY <2>3, <2>4
<1>9. CASE UNCHANGED addressVars
  BY <1>9 DEF addressVars, Owned, LeasesOf
<1> HIDE DEF AddressesIInv
<1>10. QED
  BY <1>1, <1>2, <1>3, <1>4, <1>5, <1>6, <1>7, <1>8, <1>9 DEF AddressesNext

(***************************************************************************)
(* Every VM has its lease, from the first step of its creation that needs  *)
(* it, whatever creations, deletions and restarts cross, as long as        *)
(* libvirt refuses nothing (libvirt_dhcp.go:53-165).                       *)
(***************************************************************************)
THEOREM Leased == ASSUME Address # {} PROVE AddressesSpec => []VMsHaveLeases
<1>1. AddressesIInv => VMsHaveLeases
  BY DEF AddressesIInv, Owned, VMsHaveLeases
<1>2. AddressesInit => AddressesIInv
  BY AddressesInitIInv
<1>3. AddressesIInv /\ [AddressesNext]_addressVars => AddressesIInv'
  BY AddressesNextIInv
<1>4. QED BY <1>1, <1>2, <1>3, PTL DEF AddressesSpec

-----------------------------------------------------------------------------
(***************************************************************************)
(* Proof about APIKeys: what was acknowledged of the rights of a key is in *)
(* the key, and in the file if it can be read, for any number of keys,     *)
(* rights, VMs, requests and restarts, whatever saves fail or are cut      *)
(* short, if two requests do not change one key at once.                   *)
(*                                                                         *)
(* A request that changes a key has a list that agrees with everything     *)
(* that was acknowledged, since no other request changes this key; once it *)
(* has stored its list in the key, the save of any other request may take  *)
(* it to the file before it is acknowledged.                               *)
(***************************************************************************)
KeyRecord == [comment : Comment, rights : [Right -> {0, 1}], trusted : SUBSET Guarded]

KeyEdit == [pc : {"read", "written"}, key : Key, rights : [Right -> {0, 1}],
         trusted : SUBSET Guarded, done : SUBSET (Key \X Right),
         undone : SUBSET (Key \X (Right \cup Guarded))]

Editing(a) == edit[a].pc # "idle"

KeysTypes ==
    /\ DOMAIN keyring \subseteq Key /\ \A k \in DOMAIN keyring : keyring[k] \in KeyRecord
    /\ keyFile # KeysTorn =>
          DOMAIN keyFile \subseteq Key /\ \A k \in DOMAIN keyFile : keyFile[k] \in KeyRecord
    /\ edit \in [Admin -> KeyEdit \cup {NoEdit}]

\* What was acknowledged is about keys that exist, and that the file has.
AboutKeys ==
    \A p \in present \cup absent : /\ p[1] \in DOMAIN keyring
                                   /\ keyFile # KeysTorn => p[1] \in DOMAIN keyFile

\* A list of rights and of trusted VMs that agrees with what was acknowledged.
Fits(k, key) ==
    /\ \A r \in Right : /\ <<k, r>> \in present => key.rights[r] = 1
                        /\ <<k, r>> \in absent => key.rights[r] = 0
    /\ \A v \in Guarded : <<k, v>> \in present => v \in key.trusted

\* The list has the change the request will acknowledge.
KeyChanged(e, key) ==
    \A r \in Right : /\ <<e.key, r>> \in e.done => key.rights[r] = 1
                     /\ <<e.key, r>> \in e.undone => key.rights[r] = 0

\* Each request changes a key of its own, that exists.
EditOK(a) ==
    LET e == edit[a]
    IN  /\ e.key \in DOMAIN keyring
        /\ \A p \in e.done \cup e.undone : p[1] = e.key
        /\ \A b \in Admin \ {a} : Editing(b) => edit[b].key # e.key
        /\ e.pc = "read" => LET new == Edited(a, keyring[e.key])
                            IN  new \in KeyRecord /\ Fits(e.key, new) /\ KeyChanged(e, new)
        /\ e.pc = "written" => KeyChanged(e, keyring[e.key])

RingFits == \A k \in DOMAIN keyring : Fits(k, keyring[k])
FileFits == keyFile # KeysTorn => \A k \in DOMAIN keyFile : Fits(k, keyFile[k])

KeysIInv ==
    /\ KeysTypes /\ AboutKeys /\ RingFits /\ FileFits
    /\ \A a \in Admin : Editing(a) => EditOK(a)

\* The names of rights and of VMs differ, rights have one header at most, and a key is
\* changed by one request at a time.
KeysHypothesis == Right \cap Guarded = {} /\ Ambiguous = {} /\ "overlap" \notin KeyFaults

LEMMA KeysInitIInv == KeysInit => KeysIInv
<1> SUFFICES ASSUME KeysInit PROVE KeysIInv
  OBVIOUS
<1>1. /\ DOMAIN keyring \subseteq Key /\ keyFile = keyring
      /\ \A k \in DOMAIN keyring : \E c \in Comment : keyring[k] = NewKey(c)
      /\ present = {} /\ absent = {} /\ edit = [a \in Admin |-> NoEdit]
  BY DEF KeysInit
<1>2. \A c \in Comment : NewKey(c) \in KeyRecord
  BY DEF NewKey, NoRights, KeyRecord
<1>3. NoEdit.pc = "idle"
  BY DEF NoEdit
<1> QED BY <1>1, <1>2, <1>3 DEF KeysIInv, KeysTypes, AboutKeys, RingFits, FileFits, Fits, Editing

\* A request begins to change key k, that will be new, as e says.
Begins(a, k, e, new) ==
    /\ k \in DOMAIN keyring /\ ~Editing(a) /\ (\A b \in Admin : Editing(b) => edit[b].key # k)
    /\ e \in KeyEdit /\ e.pc = "read" /\ e.key = k
    /\ \A p \in e.done \cup e.undone : p[1] = k
    /\ edit' = [edit EXCEPT ![a] = e]
    /\ present' = present \ e.undone /\ absent' = absent \ e.done
    /\ UNCHANGED <<keyring, dropped, keyFile>>
    /\ new \in KeyRecord /\ Fits(k, new)' /\ KeyChanged(e, new)
    /\ new = IF e.done \cup e.undone \subseteq Key \X Right /\ e.done \cup e.undone # {}
             THEN [keyring[k] EXCEPT !.rights = e.rights]
             ELSE [keyring[k] EXCEPT !.trusted = e.trusted]

LEMMA BeginsKeeps ==
    ASSUME KeysIInv, NEW a \in Admin, NEW k, NEW e, NEW new, Begins(a, k, e, new)
    PROVE  KeysIInv'
<1>1. /\ k \in DOMAIN keyring /\ ~Editing(a) /\ edit' = [edit EXCEPT ![a] = e]
      /\ present' = present \ e.undone /\ absent' = absent \ e.done
      /\ UNCHANGED <<keyring, dropped, keyFile>>
      /\ \A b \in Admin : Editing(b) => edit[b].key # k
      /\ e \in KeyEdit /\ e.pc = "read" /\ e.key = k
      /\ \A p \in e.done \cup e.undone : p[1] = k
      /\ new \in KeyRecord /\ Fits(k, new)' /\ KeyChanged(e, new)
  BY DEF Begins
<1>2. edit'[a] = e /\ \A b \in Admin \ {a} : edit'[b] = edit[b]
  BY <1>1 DEF KeysIInv, KeysTypes
<1>3. KeysTypes' /\ AboutKeys'
  BY <1>1 DEF KeysIInv, KeysTypes, AboutKeys
<1>4. \A l, key : Fits(l, key) => Fits(l, key)'
  BY <1>1 DEF Fits
<1>5. RingFits' /\ FileFits'
  BY <1>1, <1>4 DEF KeysIInv, RingFits, FileFits
<1>6. ASSUME NEW b \in Admin \ {a}, Editing(b)'
      PROVE  EditOK(b)'
  <2>1. Editing(b) /\ EditOK(b) /\ edit'[b] = edit[b] /\ edit[b].key # k
    BY <1>1, <1>2, <1>6 DEF Editing, KeysIInv
  <2>2. \A c \in Admin \ {b} : Editing(c)' => edit'[c].key # edit[b].key
    BY <1>1, <1>2, <2>1 DEF EditOK, Editing
  <2>3. \A key : Edited(b, key)' = Edited(b, key)
    BY <2>1 DEF Edited
  <2> QED BY <1>1, <1>4, <2>1, <2>2, <2>3 DEF EditOK, KeyChanged
<1>7. EditOK(a)'
  <2>1. Edited(a, keyring[k])' = new
    BY <1>1, <1>2 DEF Edited, Begins
  <2>2. \A c \in Admin \ {a} : Editing(c)' => edit'[c].key # k
    BY <1>1, <1>2 DEF Editing
  <2> QED BY <1>1, <1>2, <2>1, <2>2 DEF EditOK, KeyChanged
<1> QED BY <1>1, <1>3, <1>5, <1>6, <1>7 DEF KeysIInv

\* The three kinds of requests begin with lists that agree with what was acknowledged.
LEMMA EditsKeep ==
    ASSUME KeysIInv, KeysHypothesis, NEW a \in Admin, NEW k \in Key,
           CleanTrusted(a, k) \/ \E r \in Right : AddRight(a, k, r) \/ RemoveRight(a, k, r)
    PROVE  KeysIInv'
<1>1. /\ k \in DOMAIN keyring /\ keyring[k] \in KeyRecord /\ Fits(k, keyring[k])
      /\ keyring[k].rights \in [Right -> {0, 1}] /\ keyring[k].trusted \in SUBSET Guarded
  BY DEF KeysIInv, KeysTypes, RingFits, KeyRecord, CleanTrusted, AddRight, RemoveRight
<1>2. ASSUME NEW r \in Right, AddRight(a, k, r) \/ RemoveRight(a, k, r)
      PROVE  KeysIInv'
  <2>1. PICK n \in {0, 1}, done \in SUBSET {<<k, r>>}, undone \in SUBSET {<<k, r>>} :
           /\ (n = 1 /\ done = {<<k, r>>} /\ undone = {})
              \/ (n = 0 /\ done = {} /\ undone = {<<k, r>>})
           /\ Reads(a, k, [keyring[k].rights EXCEPT ![r] = n], {}, done, undone)
    BY <1>1, <1>2 DEF AddRight, RemoveRight, KeysHypothesis
  <2>2. PICK rights : rights = [keyring[k].rights EXCEPT ![r] = n]
    OBVIOUS
  <2>3. PICK new : new = [keyring[k] EXCEPT !.rights = rights]
    OBVIOUS
  <2>4. PICK e : e = [pc |-> "read", key |-> k, rights |-> rights, trusted |-> {},
                      done |-> done, undone |-> undone]
    OBVIOUS
  <2>5. /\ rights \in [Right -> {0, 1}] /\ rights[r] = n
        /\ \A q \in Right \ {r} : rights[q] = keyring[k].rights[q]
    BY <1>1, <2>2
  <2>6. /\ new \in KeyRecord /\ new.rights = rights /\ new.trusted = keyring[k].trusted
        /\ e \in KeyEdit /\ e.pc = "read" /\ e.key = k /\ e.done = done /\ e.undone = undone
        /\ e.rights = rights
    BY <1>1, <2>3, <2>4, <2>5 DEF KeyRecord, KeyEdit
  <2>7. /\ ~Editing(a) /\ \A b \in Admin : Editing(b) => edit[b].key # k
        /\ edit' = [edit EXCEPT ![a] = e]
        /\ present' = present \ undone /\ absent' = absent \ done
        /\ UNCHANGED <<keyring, dropped, keyFile>>
    BY <2>1, <2>2, <2>4 DEF Reads, Holds, Alone, Editing, KeysHypothesis
  <2>8. Fits(k, new)' /\ KeyChanged(e, new)
    BY <1>1, <2>1, <2>5, <2>6, <2>7 DEF Fits, KeyChanged, KeysHypothesis
  <2>9. /\ e.done \cup e.undone = {<<k, r>>}
        /\ {<<k, r>>} \subseteq Key \X Right /\ {<<k, r>>} # {}
    BY <2>1, <2>6
  <2>10. new = IF e.done \cup e.undone \subseteq Key \X Right /\ e.done \cup e.undone # {}
               THEN [keyring[k] EXCEPT !.rights = e.rights]
               ELSE [keyring[k] EXCEPT !.trusted = e.trusted]
    BY <2>3, <2>6, <2>9
  <2>11. Begins(a, k, e, new)
    BY <1>1, <2>6, <2>7, <2>8, <2>9, <2>10 DEF Begins
  <2> QED BY <2>11, BeginsKeeps
<1>3. ASSUME CleanTrusted(a, k)
      PROVE  KeysIInv'
  <2>1. PICK inactive \in SUBSET keyring[k].trusted :
           Reads(a, k, NoRights, keyring[k].trusted \ inactive, {}, {k} \X inactive)
    BY <1>3 DEF CleanTrusted
  <2>2. PICK new : new = [keyring[k] EXCEPT !.trusted = keyring[k].trusted \ inactive]
    OBVIOUS
  <2>3. PICK e : e = [pc |-> "read", key |-> k, rights |-> NoRights,
                      trusted |-> keyring[k].trusted \ inactive, done |-> {},
                      undone |-> {k} \X inactive]
    OBVIOUS
  <2>4. /\ new \in KeyRecord /\ new.rights = keyring[k].rights
        /\ new.trusted = keyring[k].trusted \ inactive
        /\ e \in KeyEdit /\ e.pc = "read" /\ e.key = k /\ e.done = {}
        /\ e.undone = {k} \X inactive /\ e.trusted = keyring[k].trusted \ inactive
    BY <1>1, <2>2, <2>3 DEF KeyRecord, KeyEdit, NoRights
  <2>5. /\ ~Editing(a) /\ \A b \in Admin : Editing(b) => edit[b].key # k
        /\ edit' = [edit EXCEPT ![a] = e]
        /\ present' = present \ e.undone /\ absent' = absent \ e.done
        /\ UNCHANGED <<keyring, dropped, keyFile>>
    BY <2>1, <2>3, <2>4 DEF Reads, Holds, Alone, Editing, KeysHypothesis
  <2>6. \A r \in Right : <<k, r>> \notin e.undone
    BY <1>1, <2>4 DEF KeysHypothesis
  <2>7. Fits(k, new)' /\ KeyChanged(e, new)
    BY <1>1, <2>4, <2>5, <2>6 DEF Fits, KeyChanged
  <2>8. ~(e.done \cup e.undone \subseteq Key \X Right /\ e.done \cup e.undone # {})
    BY <1>1, <2>4 DEF KeysHypothesis
  <2> QED BY <1>1, <2>2, <2>4, <2>5, <2>7, <2>8, BeginsKeeps DEF Begins
<1> QED BY <1>2, <1>3

\* A step that changes neither a request nor the keys they hold.
LEMMA RequestsKeep ==
    ASSUME KeysIInv, edit' = edit,
           \A k \in DOMAIN keyring :
              (\E a \in Admin : Editing(a) /\ edit[a].key = k)
              => /\ k \in DOMAIN keyring' /\ keyring'[k] = keyring[k]
                 /\ \A r \in Right \cup Guarded : /\ <<k, r>> \in present' => <<k, r>> \in present
                                                  /\ <<k, r>> \in absent' => <<k, r>> \in absent
    PROVE  \A a \in Admin : Editing(a)' => EditOK(a)'
<1> SUFFICES ASSUME NEW a \in Admin, Editing(a) PROVE EditOK(a)'
  BY DEF Editing
<1>1. EditOK(a) /\ edit'[a] = edit[a]
  BY DEF KeysIInv
<1>2. PICK k : k = edit[a].key
  OBVIOUS
<1>3. /\ k \in DOMAIN keyring /\ k \in DOMAIN keyring' /\ keyring'[k] = keyring[k]
      /\ \A r \in Right \cup Guarded : /\ <<k, r>> \in present' => <<k, r>> \in present
                                       /\ <<k, r>> \in absent' => <<k, r>> \in absent
  BY <1>1, <1>2 DEF EditOK
<1>4. \A key : Edited(a, key)' = Edited(a, key) /\ (Fits(k, key) => Fits(k, key)')
  BY <1>3 DEF Edited, Fits
<1> QED BY <1>1, <1>2, <1>3, <1>4 DEF EditOK, Editing, KeyChanged

LEMMA TrustedKeep ==
    ASSUME KeysIInv, KeysHypothesis, NEW k \in Key, NEW v \in Guarded,
           AllowSSHFingerprint(k, v) \/ RemoveSSHFingerprints(k, v)
    PROVE  KeysIInv'
<1>1. PICK guarded : guarded = IF AllowSSHFingerprint(k, v) THEN keyring[k].trusted \cup {v}
                       ELSE keyring[k].trusted \ {v}
  OBVIOUS
<1>2. /\ k \in DOMAIN keyring /\ \A a \in Admin : Editing(a) => edit[a].key # k
      /\ keyring' = [keyring EXCEPT ![k].trusted = guarded]
      /\ UNCHANGED <<edit, absent>>
  BY <1>1 DEF AllowSSHFingerprint, RemoveSSHFingerprints, Alone, KeysHypothesis, Editing
<1>3. \/ guarded = keyring[k].trusted \cup {v} /\ keyFile' = keyring' /\ present' = present \cup {<<k, v>>}
      \/ guarded = keyring[k].trusted \cup {v} /\ keyFile' \in {keyFile, KeysTorn}
         /\ present' = present
      \/ /\ guarded = keyring[k].trusted \ {v} /\ keyFile' \in {keyring', keyFile, KeysTorn}
         /\ present' = present \ {<<k, v>>}
  BY <1>1 DEF AllowSSHFingerprint, RemoveSSHFingerprints, SaveKeys
<1>4. PICK new : new = [keyring[k] EXCEPT !.trusted = guarded]
  OBVIOUS
<1>5. /\ keyring[k] \in KeyRecord /\ Fits(k, keyring[k]) /\ guarded \subseteq Guarded
      /\ new \in KeyRecord /\ new.rights = keyring[k].rights /\ new.trusted = guarded
  <2>1. keyring[k] \in KeyRecord /\ Fits(k, keyring[k])
    BY <1>2 DEF KeysIInv, KeysTypes, RingFits
  <2> QED BY <1>1, <1>4, <2>1 DEF KeyRecord
<1>6. /\ DOMAIN keyring' = DOMAIN keyring /\ keyring'[k] = new
      /\ \A l \in DOMAIN keyring \ {k} : keyring'[l] = keyring[l]
  BY <1>2, <1>4
<1>7. KeysTypes' /\ AboutKeys'
  BY <1>2, <1>3, <1>5, <1>6 DEF KeysIInv, KeysTypes, AboutKeys
<1>8. \A r \in Right : <<k, r>> # <<k, v>>
  BY DEF KeysHypothesis
<1>9. Fits(k, new)' /\ \A l, key : l # k /\ Fits(l, key) => Fits(l, key)'
  BY <1>2, <1>3, <1>5, <1>8 DEF Fits
<1>10. RingFits'
  BY <1>6, <1>9 DEF KeysIInv, RingFits
<1>11. FileFits'
  <2>1. CASE keyFile' = keyring'
    BY <1>10, <2>1 DEF RingFits, FileFits
  <2>2. CASE keyFile' \in {keyFile, KeysTorn} /\ present' \subseteq present
    BY <1>2, <2>2 DEF KeysIInv, FileFits, Fits
  <2> QED BY <1>3, <2>1, <2>2
<1>12. \A a \in Admin : Editing(a)' => EditOK(a)'
  <2>1. \A l \in DOMAIN keyring : l # k => \A r \in Right \cup Guarded :
           <<l, r>> \in present' => <<l, r>> \in present
    BY <1>3
  <2> QED BY <1>2, <1>6, <2>1, RequestsKeep
<1> QED BY <1>7, <1>10, <1>11, <1>12 DEF KeysIInv

LEMMA WritesKeeps ==
    ASSUME KeysIInv, KeysHypothesis, NEW a \in Admin, Writes(a)
    PROVE  KeysIInv'
<1>1. PICK k : k = edit[a].key
  OBVIOUS
<1>2. PICK new : new = Edited(a, keyring[k])
  OBVIOUS
<1>3. /\ Editing(a) /\ EditOK(a) /\ edit[a].pc = "read"
      /\ keyring' = [l \in DOMAIN keyring |-> IF l = k THEN new ELSE keyring[l]]
      /\ edit' = [edit EXCEPT ![a].pc = "written"]
      /\ UNCHANGED <<keyFile, present, absent>>
  BY <1>1, <1>2 DEF Writes, Holds, Editing, KeysIInv
<1>4. /\ k \in DOMAIN keyring /\ new \in KeyRecord /\ Fits(k, new) /\ KeyChanged(edit[a], new)
      /\ \A p \in edit[a].done \cup edit[a].undone : p[1] = k
      /\ \A b \in Admin \ {a} : Editing(b) => edit[b].key # k
  BY <1>1, <1>2, <1>3 DEF EditOK
<1>5. PICK e : e = [edit[a] EXCEPT !.pc = "written"]
  OBVIOUS
<1>6. /\ edit[a] \in KeyEdit /\ edit'[a] = e /\ edit' \in [Admin -> KeyEdit \cup {NoEdit}]
      /\ \A b \in Admin \ {a} : edit'[b] = edit[b]
  <2>1. edit[a] \in KeyEdit
    BY <1>3 DEF KeysIInv, KeysTypes, Editing, NoEdit
  <2>2. e \in KeyEdit
    BY <1>5, <2>1 DEF KeyEdit
  <2> QED BY <1>3, <1>5, <2>1, <2>2 DEF KeysIInv, KeysTypes
<1>7. e.pc = "written" /\ e.key = k /\ e.done = edit[a].done /\ e.undone = edit[a].undone
  BY <1>1, <1>5, <1>6 DEF KeyEdit
<1>8. /\ DOMAIN keyring' = DOMAIN keyring /\ keyring'[k] = new
      /\ \A l \in DOMAIN keyring \ {k} : keyring'[l] = keyring[l]
  BY <1>3, <1>4
<1>9. KeysTypes' /\ AboutKeys'
  BY <1>3, <1>4, <1>6, <1>8 DEF KeysIInv, KeysTypes, AboutKeys
<1>10. \A l, key : Fits(l, key)' = Fits(l, key)
  BY <1>3 DEF Fits
<1>11. ASSUME NEW b \in Admin \ {a}, Editing(b)'
       PROVE  EditOK(b)'
  <2>1. Editing(b) /\ EditOK(b) /\ edit'[b] = edit[b] /\ edit[b].key # k
    BY <1>4, <1>6, <1>11 DEF Editing, KeysIInv
  <2>2. \A c \in Admin \ {b} : Editing(c)' => edit'[c].key # edit[b].key
    BY <1>6, <1>7, <2>1 DEF EditOK, Editing
  <2>3. /\ \A key : Edited(b, key)' = Edited(b, key)
        /\ edit[b].key \in DOMAIN keyring' /\ keyring'[edit[b].key] = keyring[edit[b].key]
    BY <1>8, <2>1 DEF Edited, EditOK
  <2> QED BY <1>10, <2>1, <2>2, <2>3 DEF EditOK, KeyChanged
<1>12. EditOK(a)'
  <2>1. \A c \in Admin \ {a} : Editing(c)' => edit'[c].key # k
    BY <1>4, <1>6 DEF Editing
  <2>2. KeyChanged(e, new) /\ (\A p \in e.done \cup e.undone : p[1] = k) /\ k \in DOMAIN keyring'
    BY <1>1, <1>4, <1>7, <1>8 DEF KeyChanged
  <2>3. edit'[a] = e /\ keyring'[k] = new
    BY <1>6, <1>8
  <2>4. KeyChanged(e, new)' = KeyChanged(e, new)
    BY DEF KeyChanged
  <2> QED BY <1>7, <2>1, <2>2, <2>3, <2>4 DEF EditOK, KeyChanged
<1>13. RingFits' /\ FileFits'
  BY <1>3, <1>4, <1>8, <1>10 DEF KeysIInv, RingFits, FileFits
<1> QED BY <1>9, <1>11, <1>12, <1>13 DEF KeysIInv

LEMMA SavesKeeps ==
    ASSUME KeysIInv, KeysHypothesis, NEW a \in Admin, Saves(a)
    PROVE  KeysIInv'
<1>1. PICK e : e = edit[a]
  OBVIOUS
<1>2. /\ Editing(a) /\ EditOK(a) /\ e.pc = "written" /\ UNCHANGED keyring
      /\ edit' = [edit EXCEPT ![a] = NoEdit]
      /\ \/ /\ keyFile' = keyring'
            /\ present' = (IF e.key \in DOMAIN keyring THEN present \cup e.done ELSE present)
            /\ absent' = absent \cup (e.undone \cap (Key \X Right))
         \/ keyFile' \in {keyFile, KeysTorn} /\ UNCHANGED <<present, absent>>
  BY <1>1 DEF Saves, Saved, SaveKeys, Holds, Editing, KeysIInv
<1>3. /\ e \in KeyEdit /\ e.key \in DOMAIN keyring /\ KeyChanged(e, keyring[e.key])
      /\ \A p \in e.done \cup e.undone : p[1] = e.key
      /\ \A b \in Admin \ {a} : Editing(b) => edit[b].key # e.key
  BY <1>1, <1>2 DEF EditOK, KeysIInv, KeysTypes, Editing, NoEdit
<1>4. /\ edit'[a].pc = "idle" /\ edit' \in [Admin -> KeyEdit \cup {NoEdit}]
      /\ \A b \in Admin \ {a} : edit'[b] = edit[b]
  BY <1>2 DEF KeysIInv, KeysTypes, NoEdit
<1>5. ASSUME keyFile' \in {keyFile, KeysTorn}, UNCHANGED <<present, absent>>
      PROVE  KeysTypes' /\ AboutKeys' /\ (\A l, key : Fits(l, key)' = Fits(l, key))
  BY <1>2, <1>4, <1>5 DEF KeysIInv, KeysTypes, AboutKeys, Fits
<1>6. ASSUME keyFile' = keyring', present' = present \cup e.done,
             absent' = absent \cup (e.undone \cap (Key \X Right))
      PROVE  KeysTypes' /\ AboutKeys' /\ Fits(e.key, keyring[e.key])'
             /\ (\A l, key : l # e.key => Fits(l, key)' = Fits(l, key))
  <2>1. KeysTypes' /\ AboutKeys'
    BY <1>2, <1>3, <1>4, <1>6 DEF KeysIInv, KeysTypes, AboutKeys
  <2>2. \A l, key : l # e.key => Fits(l, key)' = Fits(l, key)
    BY <1>3, <1>6 DEF Fits
  <2>3. Fits(e.key, keyring[e.key]) /\ e.done \subseteq Key \X Right
    BY <1>3 DEF KeysIInv, RingFits, KeyEdit
  <2>4. \A v \in Guarded : <<e.key, v>> \notin e.done
    BY <2>3 DEF KeysHypothesis
  <2>5. Fits(e.key, keyring[e.key])'
    BY <1>2, <1>3, <1>6, <2>3, <2>4 DEF Fits, KeyChanged
  <2> QED BY <2>1, <2>2, <2>5
<1>7. ASSUME NEW b \in Admin, Editing(b)'
      PROVE  EditOK(b)'
  <2>1. b # a /\ Editing(b) /\ EditOK(b) /\ edit'[b] = edit[b] /\ edit[b].key # e.key
    BY <1>3, <1>4, <1>7 DEF Editing, KeysIInv
  <2>2. \A c \in Admin \ {b} : Editing(c)' => edit'[c].key # edit[b].key
    BY <1>4, <2>1 DEF EditOK, Editing
  <2>3. \A key : /\ Edited(b, key)' = Edited(b, key)
                 /\ Fits(edit[b].key, key)' = Fits(edit[b].key, key)
    BY <1>2, <1>3, <1>5, <1>6, <2>1 DEF Edited
  <2> QED BY <1>2, <2>1, <2>2, <2>3 DEF EditOK, KeyChanged
<1>8. KeysTypes' /\ AboutKeys' /\ RingFits' /\ FileFits'
  <2>1. CASE keyFile' \in {keyFile, KeysTorn} /\ UNCHANGED <<present, absent>>
    BY <1>2, <1>5, <2>1 DEF KeysIInv, RingFits, FileFits
  <2>2. CASE keyFile' = keyring' /\ present' = present \cup e.done
             /\ absent' = absent \cup (e.undone \cap (Key \X Right))
    BY <1>2, <1>6, <2>2 DEF KeysIInv, RingFits, FileFits
  <2> QED BY <1>2, <1>3, <2>1, <2>2
<1> QED BY <1>7, <1>8 DEF KeysIInv

\* Every step keeps the invariant.
LEMMA KeysNextIInv ==
    ASSUME KeysHypothesis PROVE KeysIInv /\ [KeysNext]_keyVars => KeysIInv'
<1> SUFFICES ASSUME KeysIInv, [KeysNext]_keyVars PROVE KeysIInv'
  OBVIOUS
<1>0. /\ KeysTypes /\ AboutKeys /\ RingFits /\ FileFits
      /\ \A a \in Admin : Editing(a) => EditOK(a)
  BY DEF KeysIInv
<1>1. ASSUME NEW k \in Key, NEW c \in Comment, AddNew(k, c)
      PROVE  KeysIInv'
  <2>1. /\ k \notin DOMAIN keyring /\ (keyFile # KeysTorn => k \notin DOMAIN keyFile)
        /\ keyring' = [l \in DOMAIN keyring \cup {k} |-> IF l = k THEN NewKey(c) ELSE keyring[l]]
        /\ keyFile' \in {keyring', keyFile, KeysTorn}
        /\ UNCHANGED <<edit, present, absent>>
    BY <1>1 DEF AddNew, SaveKeys, KeysOfFile
  <2>2. NewKey(c) \in KeyRecord
    BY DEF NewKey, NoRights, KeyRecord
  <2>3. /\ DOMAIN keyring' = DOMAIN keyring \cup {k} /\ keyring'[k] = NewKey(c)
        /\ \A l \in DOMAIN keyring : keyring'[l] = keyring[l] /\ l # k
    BY <2>1
  <2>4. KeysTypes' /\ AboutKeys'
    <3>1. DOMAIN keyring' \subseteq Key /\ \A l \in DOMAIN keyring' : keyring'[l] \in KeyRecord
      BY <1>0, <2>2, <2>3 DEF KeysTypes
    <3>2. /\ keyFile' # KeysTorn => keyFile' = keyring' \/ keyFile' = keyFile
          /\ DOMAIN keyring \subseteq DOMAIN keyring'
      BY <2>1, <2>3
    <3>3. KeysTypes'
      BY <1>0, <2>1, <3>1, <3>2 DEF KeysTypes
    <3>4. \A p \in present \cup absent : /\ p[1] \in DOMAIN keyring'
                                         /\ keyFile' # KeysTorn => p[1] \in DOMAIN keyFile'
      BY <1>0, <3>2 DEF AboutKeys
    <3> QED BY <2>1, <3>3, <3>4 DEF AboutKeys
  <2>8. \A p \in present \cup absent : p[1] # k
    <3>1. \A p \in present \cup absent : p[1] \in DOMAIN keyring
      BY <1>0 DEF AboutKeys
    <3> QED BY <2>1, <3>1
  <2>9. \A x : <<k, x>> \notin present \cup absent
    <3> SUFFICES ASSUME NEW x, <<k, x>> \in present \cup absent PROVE FALSE
      OBVIOUS
    <3> QED BY <2>8
  <2>5. /\ Fits(k, NewKey(c))
        /\ \A l, key : Fits(l, key)' = Fits(l, key)
    BY <2>1, <2>9 DEF Fits
  <2>6. RingFits' /\ FileFits'
    BY <1>0, <2>1, <2>3, <2>5 DEF RingFits, FileFits
  <2>7. \A a \in Admin : Editing(a)' => EditOK(a)'
    BY <2>1, <2>3, RequestsKeep
  <2> QED BY <2>4, <2>6, <2>7 DEF KeysIInv
<1>2. ASSUME NEW k \in Key, DeleteKey(k)
      PROVE  KeysIInv'
  <2>1. /\ keyring' = [l \in DOMAIN keyring \ {k} |-> keyring[l]]
        /\ keyFile' \in {keyring', keyFile, KeysTorn}
        /\ present' = {p \in present : p[1] # k} /\ absent' = {p \in absent : p[1] # k}
        /\ edit' = edit /\ \A a \in Admin : Editing(a) => edit[a].key # k
    BY <1>2 DEF DeleteKey, SaveKeys, Alone, KeysHypothesis, Editing
  <2>2. /\ DOMAIN keyring' = DOMAIN keyring \ {k}
        /\ \A l \in DOMAIN keyring' : keyring'[l] = keyring[l]
    BY <2>1
  <2>3. KeysTypes' /\ AboutKeys'
    BY <1>0, <2>1, <2>2 DEF KeysTypes, AboutKeys
  <2>4. \A l, key : Fits(l, key) => Fits(l, key)'
    BY <2>1 DEF Fits
  <2>5. \A a \in Admin : Editing(a)' => EditOK(a)'
    BY <2>1, <2>2, RequestsKeep
  <2>6. RingFits' /\ FileFits'
    BY <1>0, <2>1, <2>2, <2>4 DEF RingFits, FileFits
  <2> QED BY <2>3, <2>5, <2>6 DEF KeysIInv
<1>3. ASSUME NEW k \in Key, NEW v \in Guarded,
             AllowSSHFingerprint(k, v) \/ RemoveSSHFingerprints(k, v)
      PROVE  KeysIInv'
  BY <1>3, TrustedKeep
<1>4. ASSUME NEW k \in Key, NEW a \in Admin,
             CleanTrusted(a, k) \/ \E r \in Right : AddRight(a, k, r) \/ RemoveRight(a, k, r)
      PROVE  KeysIInv'
  BY <1>4, EditsKeep
<1>5. ASSUME NEW a \in Admin, Writes(a)
      PROVE  KeysIInv'
  BY <1>5, WritesKeeps
<1>6. ASSUME NEW a \in Admin, Saves(a)
      PROVE  KeysIInv'
  BY <1>6, SavesKeeps
<1>7. CASE StopKeys \/ Reload
  <2>1. /\ keyring' = keyring \/ (keyFile # KeysTorn /\ keyring' = keyFile)
        /\ keyFile' \in {keyFile, KeysTorn} /\ present' = present /\ absent' = absent
        /\ edit' = [a \in Admin |-> NoEdit] /\ NoEdit.pc = "idle"
    BY <1>7 DEF StopKeys, Reload, NoEdit
  <2>2. \A a \in Admin : ~Editing(a)'
    BY <2>1 DEF Editing
  <2>3. KeysTypes' /\ AboutKeys'
    BY <1>0, <2>1 DEF KeysTypes, AboutKeys
  <2>4. RingFits' /\ FileFits'
    BY <1>0, <2>1 DEF RingFits, FileFits, Fits
  <2> QED BY <2>2, <2>3, <2>4 DEF KeysIInv
<1>9. CASE ReloadFails
  <2>1. keyFile' = KeysTorn /\ UNCHANGED <<keyring, edit, present, absent>>
    BY <1>9 DEF ReloadFails
  <2>2. \A a \in Admin : Editing(a)' => EditOK(a)'
    BY <2>1, RequestsKeep
  <2> QED BY <1>0, <2>1, <2>2 DEF KeysIInv, KeysTypes, AboutKeys, RingFits, FileFits, Fits
<1>8. CASE UNCHANGED keyVars
  <2>1. \A a \in Admin : Editing(a)' => EditOK(a)'
    BY <1>8, RequestsKeep DEF keyVars
  <2> QED BY <1>0, <1>8, <2>1 DEF keyVars, KeysIInv, KeysTypes, AboutKeys, RingFits, FileFits, Fits
<1> QED BY <1>1, <1>2, <1>3, <1>4, <1>5, <1>6, <1>7, <1>8, <1>9 DEF KeysNext

(***************************************************************************)
(* A right or a trusted VM whose addition was acknowledged is in the key   *)
(* until it is removed, and one whose removal was acknowledged is not: in  *)
(* memory, and in the file whenever mulchd can read it.  Saves may fail or *)
(* be cut short, which leaves a file that mulchd cannot read; one request  *)
(* at a time changes a key (api_keys.go:147-162, 464-543, key.go).         *)
(***************************************************************************)
THEOREM RightsStored ==
    ASSUME KeysHypothesis PROVE KeysSpec => []AcknowledgedRightsAreStored
<1>1. ASSUME NEW k, NEW key, Fits(k, key)
      PROVE  /\ \A r \in Right : /\ <<k, r>> \in present => key.rights[r] > 0
                                 /\ <<k, r>> \in absent => key.rights[r] = 0
             /\ \A v \in Guarded : <<k, v>> \in present => v \in key.trusted
  BY <1>1 DEF Fits
<1>2. ASSUME NEW db, \A p \in present : p[1] \in DOMAIN db, \A k \in DOMAIN db : Fits(k, db[k])
      PROVE  StoresRights(db)
  <2>1. ASSUME NEW k \in DOMAIN db
        PROVE  /\ \A r \in Right : /\ <<k, r>> \in present => db[k].rights[r] > 0
                                   /\ <<k, r>> \in absent => db[k].rights[r] = 0
               /\ \A v \in Guarded : <<k, v>> \in present => v \in db[k].trusted
    BY <1>1, <1>2
  <2> QED BY <1>2, <2>1, Zenon DEF StoresRights
<1>3. KeysIInv => AcknowledgedRightsAreStored
  <2> SUFFICES ASSUME KeysIInv PROVE AcknowledgedRightsAreStored
    OBVIOUS
  <2>1. StoresRights(keyring)
    <3>1. \A p \in present : p[1] \in DOMAIN keyring
      BY DEF KeysIInv, AboutKeys
    <3>2. \A k \in DOMAIN keyring : Fits(k, keyring[k])
      BY DEF KeysIInv, RingFits
    <3> QED BY <1>2, <3>1, <3>2
  <2>2. ASSUME keyFile # KeysTorn PROVE StoresRights(keyFile)
    <3>1. \A p \in present : p[1] \in DOMAIN keyFile
      BY <2>2 DEF KeysIInv, AboutKeys
    <3>2. \A k \in DOMAIN keyFile : Fits(k, keyFile[k])
      BY <2>2 DEF KeysIInv, FileFits
    <3> QED BY <1>2, <3>1, <3>2
  <2> QED BY <2>1, <2>2 DEF AcknowledgedRightsAreStored
<1> QED BY <1>3, KeysInitIInv, KeysNextIInv, PTL DEF KeysSpec

-----------------------------------------------------------------------------
(***************************************************************************)
(* Proofs about Seeds, for any number of seeds, users and versions: the    *)
(* seeds that are ready are whole, but for those whose replacement was not *)
(* saved, whichever step or save fails and wherever mulchd stops; the ones *)
(* that are not ready are tried again.  Both need that no two refreshes of *)
(* one seed cross, and the second that no refresh by a user fails: TLC     *)
(* finds them violated otherwise.                                          *)
(***************************************************************************)

SeedsHypothesis == "overlap" \notin SeedFaults /\ Configs \subseteq SUBSET Seed

NoneForcedFails == "failForced" \notin SeedFaults

Replacing == {"replacing", "creating", "copying", "storing"}
WorkPc == {"idle", "downloading", "building"} \cup Replacing
SeedEntry == [ready : BOOLEAN, modified : Nat]
SeedWork == [pc : WorkPc, seed : Seed \cup {NoSeed}, force : BOOLEAN, date : Nat, version : Nat]
IsImage(s) == s \notin Seeders

SeedsTypes ==
    /\ DOMAIN seedDB \subseteq Seed /\ seedDB \in [DOMAIN seedDB -> SeedEntry]
    /\ seedFile # SeedsTorn => seedFile \in [DOMAIN seedDB -> SeedEntry]
    /\ started \in BOOLEAN /\ (~started => unmarked = {})
    /\ image \in [Seed -> Nat] /\ whole \subseteq Seed
    /\ latest \in [Seed -> Nat \ {0}]
    /\ toCheck \subseteq DOMAIN seedDB /\ (~started => toCheck = {})
    /\ work \in [Worker -> SeedWork]
    /\ making \in [Maker -> [pc : {"idle", "ready", "cloning"}, seed : Seed \cup {NoSeed}]]

\* One refresh of a seed at a time; what each knows.
Refreshing ==
    /\ \A w \in Worker : work[w].pc # "idle" =>
          /\ started /\ work[w].seed \in DOMAIN seedDB
          /\ w # Hourly => work[w].force
          /\ work[w].pc = "downloading" => IsImage(work[w].seed)
          /\ work[w].pc = "building" => ~IsImage(work[w].seed)
    /\ \A w, x \in Worker :
          work[w].pc # "idle" /\ work[x].pc # "idle" /\ work[w].seed = work[x].seed => w = x

\* How far the image of a seed is: while it is replaced, the seed is not ready, and the file
\* says so or is known not to.
RefreshProgress ==
    \A w \in Worker :
        LET s == work[w].seed
        IN  /\ work[w].pc \in Replacing =>
                  /\ ~seedDB[s].ready
                  /\ seedFile # SeedsTorn => ~seedFile[s].ready \/ s \in unmarked
            /\ IsImage(s) /\ work[w].pc = "downloading" => work[w].date <= latest[s]
            /\ IsImage(s) /\ work[w].pc \in Replacing =>
                  work[w].date <= work[w].version /\ work[w].version <= latest[s]
            /\ work[w].pc \in {"copying", "storing"} => image[s] = work[w].version
            /\ work[w].pc = "storing" => s \in whole

\* The seeds the database calls ready, and those the file does.
MemoryIsRight == AreWhole(seedDB, misled)
FileIsRight == seedFile # SeedsTorn => AreWhole(seedFile, misled \cup unmarked)

SeedsIInv == SeedsTypes /\ Refreshing /\ RefreshProgress /\ MemoryIsRight /\ FileIsRight

\* It holds initially.
LEMMA SeedsInitIInv == ASSUME SeedsHypothesis, SeedsInit PROVE SeedsIInv
<1> USE DEF SeedsHypothesis, SeedEntry, SeedWork, Free, NotMaking, IsImage
<1>1. DOMAIN seedDB \subseteq Seed /\ seedDB \in [DOMAIN seedDB -> SeedEntry] /\ seedFile = seedDB
  BY DEF SeedsInit
<1>2. \A w \in Worker : work[w] = Free
  BY DEF SeedsInit
<1>3. SeedsTypes
  BY <1>1 DEF SeedsInit, SeedsTypes, WorkPc
<1>4. Refreshing /\ RefreshProgress
  BY <1>2 DEF Refreshing, RefreshProgress, Replacing
<1>5. MemoryIsRight /\ FileIsRight
  <2>1. \A s \in DOMAIN seedDB : seedDB[s].ready =>
            s \in whole /\ image[s] = 1 /\ seedDB[s].modified = 1
    <3>1. PICK conf \in Configs, done \in SUBSET Seed :
            /\ seedDB = [s \in conf |-> [ready |-> s \in done,
                                         modified |-> IF s \in done THEN 1 ELSE 0]]
            /\ image = [s \in Seed |-> IF s \in conf \cap done THEN 1 ELSE 0]
            /\ whole = conf \cap done
      BY DEF SeedsInit
    <3> QED BY <3>1
  <2> QED BY <1>1, <2>1 DEF MemoryIsRight, FileIsRight, AreWhole
<1>6. QED BY <1>3, <1>4, <1>5 DEF SeedsIInv

(***************************************************************************)
(* The types of the changes of a refresh.                                  *)
(***************************************************************************)
LEMMA WorkTypes ==
    ASSUME work \in [Worker -> SeedWork], NEW w \in Worker
    PROVE  /\ work[w].seed \in Seed \cup {NoSeed} /\ work[w].date \in Nat
           /\ work[w].version \in Nat
           /\ \A p \in WorkPc : [work EXCEPT ![w].pc = p] \in [Worker -> SeedWork]
           /\ \A p \in WorkPc, v \in Nat :
                 [work EXCEPT ![w].pc = p, ![w].version = v] \in [Worker -> SeedWork]
           /\ \A p \in WorkPc, s \in Seed, force \in BOOLEAN, date \in Nat :
                 [work EXCEPT ![w] = [pc |-> p, seed |-> s, force |-> force, date |-> date,
                                      version |-> 0]] \in [Worker -> SeedWork]
           /\ [work EXCEPT ![w] = Free] \in [Worker -> SeedWork]
           /\ [x \in Worker |-> Free] \in [Worker -> SeedWork]
<1>1. \A p \in WorkPc : [work EXCEPT ![w].pc = p] \in [Worker -> SeedWork]
  BY DEF SeedWork
<1>2. \A p \in WorkPc, v \in Nat :
         [work EXCEPT ![w].pc = p, ![w].version = v] \in [Worker -> SeedWork]
  <2> SUFFICES ASSUME NEW p \in WorkPc, NEW v \in Nat
               PROVE  [work EXCEPT ![w].pc = p, ![w].version = v] \in [Worker -> SeedWork]
    OBVIOUS
  <2>1. [work[w] EXCEPT !.pc = p, !.version = v] \in SeedWork
    BY DEF SeedWork
  <2> QED BY <2>1
<1>3. Free \in SeedWork
  BY DEF Free, SeedWork, WorkPc
<1>4. /\ [work EXCEPT ![w] = Free] \in [Worker -> SeedWork]
      /\ [x \in Worker |-> Free] \in [Worker -> SeedWork]
  BY <1>3
<1>5. QED BY <1>1, <1>2, <1>4 DEF SeedWork

\* One of them alone.
LEMMA VersionTypes ==
    ASSUME work \in [Worker -> SeedWork], NEW w \in Worker, NEW p \in WorkPc, NEW v \in Nat
    PROVE  [work EXCEPT ![w].pc = p, ![w].version = v] \in [Worker -> SeedWork]
BY WorkTypes

\* The types of the changes of an entry.
LEMMA EntryTypes ==
    ASSUME NEW D, NEW db \in [D -> SeedEntry], NEW s \in D
    PROVE  /\ [db EXCEPT ![s].ready = FALSE] \in [D -> SeedEntry]
           /\ \A e \in SeedEntry : [db EXCEPT ![s] = e] \in [D -> SeedEntry]
BY DEF SeedEntry

\* The entry that Stored makes.
LEMMA StoredEntry ==
    ASSUME NEW w \in Worker, Stored(w), work \in [Worker -> SeedWork],
           work[w].seed \in DOMAIN seedDB, DOMAIN seedDB \subseteq Seed,
           latest \in [Seed -> Nat], seedDB \in [DOMAIN seedDB -> SeedEntry]
    PROVE  /\ seedDB' \in [DOMAIN seedDB -> SeedEntry]
           /\ \E e \in SeedEntry :
                 /\ e.ready /\ (IsImage(work[w].seed) => e.modified = work[w].date)
                 /\ seedDB'[work[w].seed] = e
           /\ \A t \in DOMAIN seedDB : t # work[w].seed => seedDB'[t] = seedDB[t]
<1> DEFINE s == work[w].seed
<1> DEFINE d == IF s \in Seeders THEN latest[s] ELSE work[w].date
<1> DEFINE e == [ready |-> TRUE, modified |-> d]
<1>1. s \in DOMAIN seedDB /\ work[w].date \in Nat
  BY WorkTypes
<1>2. d \in Nat /\ (IsImage(s) => d = work[w].date)
  BY <1>1 DEF IsImage
<1>3. seedDB' = [seedDB EXCEPT ![s] = e]
  BY DEF Stored
<1> HIDE DEF d
<1>4. e \in SeedEntry /\ e.ready /\ e.modified = d
  BY <1>2 DEF SeedEntry
<1> HIDE DEF e
<1>5. [seedDB EXCEPT ![s] = e] \in [DOMAIN seedDB -> SeedEntry]
  BY <1>1, <1>4, EntryTypes
<1> HIDE DEF s
<1>6. seedDB'[s] = e /\ \A t \in DOMAIN seedDB : t # s => seedDB'[t] = seedDB[t]
  BY <1>1, <1>3
<1> QED BY <1>2, <1>3, <1>4, <1>5, <1>6 DEF s

\* What a save leaves in the file is right if the memory is, and the file was.
LEMMA SavedIsRight ==
    ASSUME NEW fresh, SaveSeeds(seedDB', fresh), MemoryIsRight', FileIsRight,
           UNCHANGED <<image, whole>>, misled \ fresh \subseteq misled'
    PROVE  FileIsRight'
<1>1. CASE seedFile' = seedDB' /\ unmarked' = {}
  BY <1>1 DEF MemoryIsRight, FileIsRight, AreWhole
<1>2. CASE seedFile' = seedFile /\ unmarked' = unmarked \cup fresh
  BY <1>2 DEF FileIsRight, AreWhole
<1>3. CASE seedFile' = SeedsTorn
  BY <1>3 DEF FileIsRight
<1> QED BY <1>1, <1>2, <1>3 DEF SaveSeeds

\* It has entries for the same seeds.
LEMMA SavedTypes ==
    ASSUME NEW fresh, SaveSeeds(seedDB', fresh), seedDB' \in [DOMAIN seedDB' -> SeedEntry],
           seedFile # SeedsTorn => seedFile \in [DOMAIN seedDB -> SeedEntry],
           DOMAIN seedDB' = DOMAIN seedDB
    PROVE  seedFile' # SeedsTorn => seedFile' \in [DOMAIN seedDB' -> SeedEntry]
BY DEF SaveSeeds

\* A seed that is not ready is not in the file either, or is known to be there.
LEMMA SavedMarks ==
    ASSUME NEW fresh, SaveSeeds(seedDB', fresh), NEW s, ~seedDB'[s].ready,
           seedFile # SeedsTorn => ~seedFile[s].ready \/ s \in unmarked \/ s \in fresh
    PROVE  seedFile' # SeedsTorn => ~seedFile'[s].ready \/ s \in unmarked'
BY DEF SaveSeeds

\* The image of a seed that is not ready may change.
LEMMA ReplacedIsRight ==
    ASSUME MemoryIsRight, FileIsRight, NEW s, ~seedDB[s].ready,
           seedFile # SeedsTorn => ~seedFile[s].ready \/ s \in unmarked,
           \A t \in Seed \ {s} : image'[t] = image[t] /\ (t \in whole => t \in whole'),
           DOMAIN seedDB \subseteq Seed,
           seedFile # SeedsTorn => DOMAIN seedFile = DOMAIN seedDB,
           UNCHANGED <<seedDB, seedFile, unmarked, misled>>
    PROVE  MemoryIsRight' /\ FileIsRight'
BY DEF MemoryIsRight, FileIsRight, AreWhole

(***************************************************************************)
(* Every step of a refresh keeps the invariant ...                         *)
(***************************************************************************)
LEMMA WorkKeeps ==
    ASSUME SeedsHypothesis, SeedsIInv, NEW w \in Worker,
           \/ Downloaded(w) \/ Built(w) \/ OldVolumeDeleted(w) \/ VolumeCreated(w)
           \/ VolumeCopied(w) \/ Stored(w) \/ Fails(w)
    PROVE  SeedsIInv'
<1> DEFINE s == work[w].seed
<1> USE DEF SeedsIInv, SeedsTypes, Refreshing, RefreshProgress, SeedEntry, SeedWork, IsImage,
            Replacing, WorkPc, IsUp, Does, Ends, marks
<1>0. work[w].pc # "idle" => s \in DOMAIN seedDB /\ started
  OBVIOUS
\* The refreshes of the other seeds.
<1>o. ASSUME NEW x \in Worker, x # w, work[x].pc # "idle", work[w].pc # "idle"
      PROVE  work[x].seed # s /\ work[x].seed \in DOMAIN seedDB
  BY <1>o
<1>1. CASE Downloaded(w)
  <2>0. /\ s \in DOMAIN seedDB /\ seedDB' = [seedDB EXCEPT ![s].ready = FALSE]
        /\ SaveSeeds(seedDB', {s}) /\ misled' = misled \ {s}
        /\ work' = [work EXCEPT ![w].pc = "replacing", ![w].version = latest[s]]
        /\ UNCHANGED <<started, image, whole, latest, toCheck, making>>
        /\ started /\ work[w].pc = "downloading"
    BY <1>1 DEF Downloaded, NotReady
  <2>1. SeedsTypes'
    <3> HIDE DEF SeedWork, SeedEntry
    <3>2. work' \in [Worker -> SeedWork]
      <4>1. latest[s] \in Nat /\ "replacing" \in WorkPc
        BY <2>0
      <4> HIDE DEF s, WorkPc
      <4> QED BY <2>0, <4>1, VersionTypes
    <3>3. seedDB' \in [DOMAIN seedDB -> SeedEntry]
      BY <2>0, EntryTypes
    <3>4. seedFile' # SeedsTorn => seedFile' \in [DOMAIN seedDB' -> SeedEntry]
      BY <2>0, <3>3, SavedTypes
    <3> QED BY <2>0, <3>2, <3>3, <3>4
  <2>2. Refreshing'
    BY <2>0
  <2>3. RefreshProgress'
    <3>1. \A x \in Worker : work'[x].pc \in Replacing =>
             /\ ~seedDB'[work'[x].seed].ready
             /\ seedFile' # SeedsTorn => ~seedFile'[work'[x].seed].ready \/ work'[x].seed \in unmarked'
      <4>1. /\ work'[w].seed = s /\ ~seedDB'[s].ready
            /\ \A x \in Worker \ {w} : work'[x] = work[x]
            /\ \A t \in DOMAIN seedDB \ {s} : seedDB'[t] = seedDB[t]
        BY <2>0
      <4>2. \A x \in Worker \ {w} : work[x].pc \in Replacing =>
               work[x].seed \in DOMAIN seedDB \ {s}
        BY <1>o, <2>0
      <4>3. ASSUME NEW x \in Worker, work'[x].pc \in Replacing
            PROVE  /\ ~seedDB'[work'[x].seed].ready
                   /\ seedFile # SeedsTorn =>
                         ~seedFile[work'[x].seed].ready \/ work'[x].seed \in unmarked \cup {s}
        BY <4>1, <4>2, <4>3
      <4> HIDE DEF s, SeedsTypes, Refreshing, RefreshProgress
      <4> QED BY <2>0, <4>3, SavedMarks
    <3> QED BY <2>0, <3>1
  <2>4. MemoryIsRight'
    BY <2>0 DEF MemoryIsRight, AreWhole
  <2>5. FileIsRight'
    BY <2>0, <2>4, SavedIsRight
  <2> QED BY <2>1, <2>2, <2>3, <2>4, <2>5 DEF SeedsIInv
<1>2. CASE Built(w)
  <2>0. /\ s \in DOMAIN seedDB /\ seedDB' = [seedDB EXCEPT ![s].ready = FALSE]
        /\ misled' = misled \ {s} /\ unmarked' = unmarked \cup {s}
        /\ work' = [work EXCEPT ![w].pc = "replacing", ![w].version = latest[s]]
        /\ UNCHANGED <<seedFile, started, image, whole, latest, toCheck, making>>
        /\ ~IsImage(s) /\ started /\ work[w].pc = "building"
    BY <1>2 DEF Built
  <2>1. SeedsTypes'
    <3> HIDE DEF SeedWork, SeedEntry
    <3>2. work' \in [Worker -> SeedWork]
      <4>1. latest[s] \in Nat /\ "replacing" \in WorkPc
        BY <2>0
      <4> HIDE DEF s, WorkPc
      <4> QED BY <2>0, <4>1, VersionTypes
    <3>3. seedDB' \in [DOMAIN seedDB -> SeedEntry]
      BY <2>0, EntryTypes
    <3> QED BY <2>0, <3>2, <3>3
  <2>2. Refreshing'
    BY <2>0
  <2>3. RefreshProgress'
    BY <2>0
  <2>4. MemoryIsRight' /\ FileIsRight'
    BY <2>0 DEF MemoryIsRight, FileIsRight, AreWhole
  <2> QED BY <2>1, <2>2, <2>3, <2>4 DEF SeedsIInv
<1>3. CASE OldVolumeDeleted(w)
  <2>1. SeedsTypes'
    <3> HIDE DEF SeedWork
    <3>1. work' \in [Worker -> SeedWork]
      BY <1>3, WorkTypes DEF OldVolumeDeleted
    <3> QED BY <1>3, <3>1 DEF OldVolumeDeleted
  <2>2. Refreshing'
    BY <1>3 DEF OldVolumeDeleted
  <2>3. RefreshProgress'
    <3>1. /\ work[w].pc = "replacing" /\ work' = [work EXCEPT ![w].pc = "creating"]
          /\ UNCHANGED <<seedDB, seedFile, unmarked, latest>>
          /\ \/ UNCHANGED <<image, whole>>
             \/ image' = [image EXCEPT ![s] = 0] /\ whole' = whole \ {s}
      BY <1>3 DEF OldVolumeDeleted
    <3> QED BY <1>o, <3>1
  <2>4. MemoryIsRight' /\ FileIsRight'
    <3>1. /\ work[w].pc \in Replacing /\ UNCHANGED <<seedDB, seedFile, unmarked, misled>>
          /\ \/ UNCHANGED <<image, whole>>
             \/ image' = [image EXCEPT ![s] = 0] /\ whole' = whole \ {s}
      BY <1>3 DEF OldVolumeDeleted
    <3>2. \A t \in Seed \ {s} : image'[t] = image[t] /\ (t \in whole => t \in whole')
      <4>1. image \in [Seed -> Nat]
        OBVIOUS
      <4> HIDE DEF s, SeedsIInv, SeedsTypes, Refreshing, RefreshProgress
      <4> QED BY <3>1, <4>1
    <3> QED BY <3>1, <3>2, ReplacedIsRight
  <2> QED BY <2>1, <2>2, <2>3, <2>4 DEF SeedsIInv
<1>4. CASE VolumeCreated(w)
  <2>1. SeedsTypes'
    <3> HIDE DEF SeedWork, SeedEntry
    <3>1. work' \in [Worker -> SeedWork]
      BY <1>4, WorkTypes DEF VolumeCreated
    <3>2. image' \in [Seed -> Nat]
      BY <1>4, WorkTypes DEF VolumeCreated
    <3> QED BY <1>4, <3>1, <3>2 DEF VolumeCreated
  <2>2. Refreshing'
    BY <1>4 DEF VolumeCreated
  <2>3. RefreshProgress'
    BY <1>4 DEF VolumeCreated
  <2>4. MemoryIsRight' /\ FileIsRight'
    <3>1. /\ work[w].pc \in Replacing
          /\ \A t \in Seed \ {s} : image'[t] = image[t] /\ (t \in whole => t \in whole')
          /\ UNCHANGED <<seedDB, seedFile, unmarked, misled>>
      BY <1>4 DEF VolumeCreated
    <3> QED BY <3>1, ReplacedIsRight
  <2> QED BY <2>1, <2>2, <2>3, <2>4 DEF SeedsIInv
<1>5. CASE VolumeCopied(w)
  <2>1. SeedsTypes'
    <3> HIDE DEF SeedWork
    <3>1. work' \in [Worker -> SeedWork]
      BY <1>5, WorkTypes DEF VolumeCopied
    <3> QED BY <1>5, <3>1 DEF VolumeCopied
  <2>2. Refreshing'
    BY <1>5 DEF VolumeCopied
  <2>3. RefreshProgress'
    BY <1>5 DEF VolumeCopied
  <2>4. MemoryIsRight' /\ FileIsRight'
    <3>1. /\ work[w].pc \in Replacing
          /\ \A t \in Seed \ {s} : image'[t] = image[t] /\ (t \in whole => t \in whole')
          /\ UNCHANGED <<seedDB, seedFile, unmarked, misled>>
      BY <1>5 DEF VolumeCopied
    <3> QED BY <3>1, ReplacedIsRight
  <2> QED BY <2>1, <2>2, <2>3, <2>4 DEF SeedsIInv
<1>6. CASE Stored(w)
  <2>0. /\ s \in DOMAIN seedDB /\ s \in whole /\ image[s] = work[w].version
        /\ IsImage(s) => image[s] >= work[w].date
        /\ SaveSeeds(seedDB', {}) /\ misled' = misled
        /\ work' = [work EXCEPT ![w] = Free]
        /\ UNCHANGED <<started, image, whole, latest, toCheck, making>>
        /\ started /\ work[w].pc = "storing"
    BY <1>6 DEF Stored
  <2>e. /\ seedDB' \in [DOMAIN seedDB -> SeedEntry]
        /\ \E e \in SeedEntry : /\ e.ready /\ (IsImage(s) => e.modified = work[w].date)
                                /\ seedDB'[s] = e
        /\ \A t \in DOMAIN seedDB : t # s => seedDB'[t] = seedDB[t]
    BY <1>6, <2>0, StoredEntry
  <2>p. PICK e \in SeedEntry : /\ e.ready /\ (IsImage(s) => e.modified = work[w].date)
                              /\ seedDB'[s] = e
    BY <2>e
  <2>q. /\ DOMAIN seedDB' = DOMAIN seedDB /\ seedDB'[s] = e
        /\ \A t \in DOMAIN seedDB : t # s => seedDB'[t] = seedDB[t]
        /\ work'[w].pc = "idle" /\ \A x \in Worker \ {w} : work'[x] = work[x]
    <3>1. work'[w].pc = "idle" /\ \A x \in Worker \ {w} : work'[x] = work[x]
      BY <2>0 DEF Free
    <3> QED BY <2>e, <2>p, <3>1
  <2>1. SeedsTypes'
    <3> HIDE DEF SeedWork, SeedEntry
    <3>2. work' \in [Worker -> SeedWork]
      BY <2>0, WorkTypes
    <3>5. seedDB' \in [DOMAIN seedDB -> SeedEntry]
      BY <2>e
    <3>6. seedFile' # SeedsTorn => seedFile' \in [DOMAIN seedDB' -> SeedEntry]
      BY <2>0, <2>q, <3>5, SavedTypes
    <3> QED BY <2>0, <2>q, <3>2, <3>5, <3>6
  <2>2. Refreshing'
    BY <2>0, <2>q
  <2>3. RefreshProgress'
    <3>1. ASSUME NEW x \in Worker, work'[x].pc \in Replacing
          PROVE  /\ ~seedDB'[work'[x].seed].ready
                 /\ seedFile' # SeedsTorn =>
                       ~seedFile'[work'[x].seed].ready \/ work'[x].seed \in unmarked'
      <4>1. /\ work'[x] = work[x] /\ work[x].pc \in Replacing
            /\ work[x].seed \in DOMAIN seedDB \ {s}
        BY <1>o, <2>0, <2>q, <3>1
      <4>2. /\ ~seedDB'[work[x].seed].ready
            /\ seedFile # SeedsTorn => ~seedFile[work[x].seed].ready \/ work[x].seed \in unmarked
        BY <2>q, <4>1
      <4> HIDE DEF s, SeedsTypes, Refreshing, RefreshProgress
      <4> QED BY <2>0, <4>1, <4>2, SavedMarks
    <3> QED BY <2>0, <2>q, <3>1
  <2>4. MemoryIsRight'
    <3> HIDE DEF s, SeedsTypes, Refreshing, RefreshProgress
    <3>2. seedDB'[s] = e /\ (IsImage(s) => image[s] >= e.modified)
      BY <2>0, <2>p, <2>q
    <3> QED BY <2>0, <2>q, <3>2 DEF MemoryIsRight, AreWhole
  <2>5. FileIsRight'
    BY <2>0, <2>4, SavedIsRight
  <2> QED BY <2>1, <2>2, <2>3, <2>4, <2>5 DEF SeedsIInv
<1>7. CASE Fails(w)
  <2>0. /\ s \in DOMAIN seedDB /\ started /\ work[w].pc # "idle"
        /\ UNCHANGED <<seedDB, misled, started, image, whole, latest, toCheck, making>>
        /\ work' = [work EXCEPT ![w] = Free]
        /\ SaveSeeds(seedDB', {}) \/ UNCHANGED <<seedFile, unmarked>>
    BY <1>7 DEF Fails
  <2>1. SeedsTypes'
    <3> HIDE DEF SeedWork, SeedEntry
    <3>1. work' \in [Worker -> SeedWork]
      BY <2>0, WorkTypes
    <3>2. seedFile' # SeedsTorn => seedFile' \in [DOMAIN seedDB' -> SeedEntry]
      BY <2>0, SavedTypes
    <3> QED BY <2>0, <3>1, <3>2
  <2>2. Refreshing'
    BY <2>0 DEF Free
  <2>3. RefreshProgress'
    <3>1. \A x \in Worker : work'[x].pc \in Replacing =>
             /\ ~seedDB'[work'[x].seed].ready
             /\ seedFile' # SeedsTorn => ~seedFile'[work'[x].seed].ready \/ work'[x].seed \in unmarked'
      BY <1>o, <2>0, SavedMarks DEF Free
    <3> QED BY <2>0, <3>1 DEF Free
  <2>4. MemoryIsRight'
    BY <2>0 DEF MemoryIsRight, AreWhole
  <2>5. FileIsRight'
    <3>1. CASE SaveSeeds(seedDB', {})
      BY <2>0, <2>4, <3>1, SavedIsRight
    <3>2. CASE UNCHANGED <<seedFile, unmarked>>
      BY <2>0, <3>2 DEF FileIsRight, AreWhole
    <3> QED BY <2>0, <3>1, <3>2
  <2> QED BY <2>1, <2>2, <2>3, <2>4, <2>5 DEF SeedsIInv
<1>8. QED BY <1>1, <1>2, <1>3, <1>4, <1>5, <1>6, <1>7

(***************************************************************************)
(* ... a refresh that begins ...                                           *)
(***************************************************************************)
LEMMA BeginKeeps ==
    ASSUME SeedsIInv, NEW w \in Worker, NEW s \in DOMAIN seedDB, NEW force \in BOOLEAN,
           IsUp(w, "idle"), w # Hourly => force, ~IsRefreshed(s), Starts(w, s, force),
           toCheck' \subseteq toCheck,
           UNCHANGED <<marks, seedDB, seedFile, started, image, whole, latest, making>>
    PROVE  SeedsIInv'
<1> USE DEF SeedsIInv, SeedsTypes, Refreshing, IsUp, marks
<1>1. s \in Seed /\ latest[s] \in Nat
  OBVIOUS
<1>2. \E p \in {"downloading", "building"} :
        /\ p = "downloading" <=> IsImage(s)
        /\ \E date \in {0, latest[s]} : Begin(w, p, s, force, date)
  BY DEF Starts, IsImage
<1>3. PICK p \in {"downloading", "building"}, date \in {0, latest[s]} :
        /\ p = "downloading" <=> IsImage(s)
        /\ work' = [work EXCEPT ![w] = [pc |-> p, seed |-> s, force |-> force, date |-> date,
                                      version |-> 0]]
  BY <1>2 DEF Begin
<1>4. SeedsTypes'
  <2>1. date \in Nat /\ p \in WorkPc
    BY <1>1 DEF WorkPc
  <2>2. work' \in [Worker -> SeedWork]
    BY <1>1, <1>3, <2>1, WorkTypes
  <2> QED BY <2>2
<1>5. /\ work'[w].pc = p /\ work'[w].seed = s /\ work'[w].force = force
      /\ work'[w].date = date
      /\ \A x \in Worker : x # w => work'[x] = work[x]
  BY <1>3
<1>6. \A x \in Worker : work[x].pc # "idle" => work[x].seed # s
  BY DEF IsRefreshed
<1>7. Refreshing'
  BY <1>3, <1>5, <1>6 DEF IsImage
<1>8. RefreshProgress'
  BY <1>1, <1>3, <1>5 DEF RefreshProgress, Replacing, IsImage
<1>9. MemoryIsRight' /\ FileIsRight'
  BY DEF MemoryIsRight, FileIsRight, AreWhole
<1>10. QED BY <1>4, <1>7, <1>8, <1>9

(***************************************************************************)
(* ... and so does everything else.                                        *)
(***************************************************************************)
LEMMA SeedsNextIInv == ASSUME SeedsHypothesis, SeedsIInv, [SeedsNext]_seedVars PROVE SeedsIInv'
<1> USE DEF SeedsIInv, SeedsTypes, Refreshing, RefreshProgress, SeedEntry, SeedWork, IsImage,
            Replacing, WorkPc, IsUp, Does, Ends, marks
\* A save of what is in memory.
<1>s. ASSUME SaveSeeds(seedDB, {}) \/ UNCHANGED <<seedFile, unmarked>>, started,
             toCheck' \subseteq toCheck,
             UNCHANGED <<seedDB, misled, started, image, whole, latest, work, making>>
      PROVE  SeedsIInv'
  <2>0. SaveSeeds(seedDB', {}) \/ UNCHANGED <<seedFile, unmarked>>
    BY <1>s
  <2>1. SeedsTypes' /\ Refreshing'
    <3>1. seedFile' # SeedsTorn => seedFile' \in [DOMAIN seedDB' -> SeedEntry]
      BY <1>s, <2>0, SavedTypes
    <3> QED BY <1>s, <3>1
  <2>2. RefreshProgress'
    <3>1. \A x \in Worker : work'[x].pc \in Replacing =>
             (seedFile' # SeedsTorn => ~seedFile'[work'[x].seed].ready \/ work'[x].seed \in unmarked')
      BY <1>s, <2>0, SavedMarks
    <3> QED BY <1>s, <3>1
  <2>3. MemoryIsRight'
    BY <1>s DEF MemoryIsRight, AreWhole
  <2>4. FileIsRight'
    <3>1. CASE SaveSeeds(seedDB', {})
      BY <1>s, <2>3, <3>1, SavedIsRight
    <3>2. CASE UNCHANGED <<seedFile, unmarked>>
      BY <1>s, <3>2 DEF FileIsRight, AreWhole
    <3> QED BY <2>0, <3>1, <3>2
  <2> QED BY <2>1, <2>2, <2>3, <2>4
\* The steps that change neither the seeds nor their images.
<1>u. ASSUME UNCHANGED <<marks, seedDB, seedFile, image, whole>>
      PROVE  MemoryIsRight' /\ FileIsRight'
  BY <1>u DEF MemoryIsRight, FileIsRight, AreWhole
<1>1. CASE RoundBegins
  BY <1>1, <1>u DEF RoundBegins
<1>2. CASE PauseSeed
  <2> HIDE DEF SeedsIInv
  <2> QED BY <1>2, <1>s DEF PauseSeed
<1>3. CASE Crash
  <2>0. seedFile' \in {seedFile, SeedsTorn}
    BY <1>3 DEF Crash
  <2>1. SeedsTypes'
    <3> HIDE DEF SeedWork, SeedEntry
    <3>1. work' \in [Worker -> SeedWork]
      BY <1>3, WorkTypes DEF Crash, Worker
    <3> QED BY <1>3, <2>0, <3>1 DEF Crash, NotMaking
  <2>2. Refreshing'
    BY <1>3 DEF Crash, Free
  <2>3. RefreshProgress'
    BY <1>3 DEF Crash, Free
  <2>4. MemoryIsRight' /\ FileIsRight'
    BY <1>3, <2>0 DEF Crash, MemoryIsRight, FileIsRight, AreWhole
  <2> QED BY <2>1, <2>2, <2>3, <2>4 DEF SeedsIInv
<1>4. CASE Restarts
  <2>0. PICK conf \in Configs :
          /\ seedDB' = [s \in conf |-> IF s \in DOMAIN seedFile THEN Reset(seedFile[s])
                                       ELSE [ready |-> FALSE, modified |-> 0]]
          /\ misled' = misled \cap conf
          /\ \E gone \in SUBSET (DOMAIN seedFile \ conf) : VolumesGone(gone)
    <3> HIDE DEF SeedsIInv, SeedsTypes, Refreshing, RefreshProgress
    <3> QED BY <1>4, Zenon DEF Restarts
  <2>r. /\ ~started /\ seedFile # SeedsTorn /\ seedFile' = seedDB' /\ started' = TRUE
        /\ seedFile \in [DOMAIN seedDB -> SeedEntry] /\ unmarked = {} /\ unmarked' = {}
        /\ UNCHANGED <<latest, toCheck, work, making>> /\ toCheck = {}
        /\ DOMAIN seedFile = DOMAIN seedDB /\ conf \subseteq Seed
    BY <1>4 DEF Restarts, SeedsHypothesis
  <2>1. SeedsTypes'
    <3> HIDE DEF SeedWork, SeedEntry
    <3>3. [ready |-> FALSE, modified |-> 0] \in SeedEntry
      BY DEF SeedEntry
    <3>4. \A e \in SeedEntry : Reset(e) \in SeedEntry
      BY <3>3 DEF Reset
    <3>5. seedDB' \in [conf -> SeedEntry] /\ DOMAIN seedDB' = conf
      BY <2>0, <2>r, <3>3, <3>4
    <3>6. image' \in [Seed -> Nat] /\ whole' \subseteq Seed
      BY <2>0 DEF VolumesGone
    <3> QED BY <2>r, <3>5, <3>6
  <2>2. Refreshing'
    BY <2>r
  <2>3. RefreshProgress'
    BY <2>r
  <2>4. MemoryIsRight'
    <3>1. ASSUME NEW s \in conf, seedDB'[s].ready, s \notin misled
          PROVE  s \in whole' /\ (s \notin Seeders => image'[s] >= seedDB'[s].modified)
      <4>1. s \in DOMAIN seedFile /\ seedFile[s].ready /\ seedDB'[s] = seedFile[s]
        BY <2>0, <2>r, <3>1 DEF Reset
      <4>2. s \in whole /\ (s \notin Seeders => image[s] >= seedFile[s].modified)
        BY <2>r, <3>1, <4>1 DEF FileIsRight, AreWhole
      <4>3. s \in whole' /\ image'[s] = image[s]
        BY <2>0, <2>r, <4>2 DEF VolumesGone
      <4> QED BY <4>1, <4>2, <4>3
    <3> QED BY <2>0, <3>1 DEF MemoryIsRight, AreWhole
  <2>5. FileIsRight'
    BY <2>r, <2>4 DEF MemoryIsRight, FileIsRight
  <2> QED BY <2>1, <2>2, <2>3, <2>4, <2>5 DEF SeedsIInv
<1>14. CASE RestartFails
  <2>0. PICK gone : VolumesGone(gone) /\ gone \subseteq DOMAIN seedFile /\ misled' = misled \cup gone
    BY <1>14 DEF RestartFails
  <2>r. /\ ~started /\ seedFile # SeedsTorn /\ seedFile' \in {seedFile, SeedsTorn}
        /\ UNCHANGED <<seedDB, started, latest, toCheck, work, making, unmarked>>
        /\ DOMAIN seedFile = DOMAIN seedDB
    BY <1>14 DEF RestartFails
  <2>1. SeedsTypes'
    <3>1. image' \in [Seed -> Nat] /\ whole' \subseteq Seed
      BY <2>0 DEF VolumesGone
    <3> QED BY <2>r, <3>1
  <2>2. Refreshing' /\ RefreshProgress'
    BY <2>r
  <2>3. MemoryIsRight' /\ FileIsRight'
    <3>1. \A s \in DOMAIN seedDB \ misled' :
             s \notin misled /\ image'[s] = image[s] /\ (s \in whole => s \in whole')
      BY <2>0, <2>r DEF VolumesGone
    <3> QED BY <2>r, <2>0, <3>1 DEF MemoryIsRight, FileIsRight, AreWhole
  <2> QED BY <2>1, <2>2, <2>3 DEF SeedsIInv
<1>5. ASSUME NEW s \in Seed, Skips(s)
      PROVE  SeedsIInv'
  <2>1. /\ SaveSeeds(seedDB, {}) \/ UNCHANGED <<seedFile, unmarked>>
        /\ started /\ toCheck' \subseteq toCheck
        /\ UNCHANGED <<seedDB, misled, started, image, whole, latest, work, making>>
    BY <1>5 DEF Skips
  <2> HIDE DEF SeedsIInv
  <2> QED BY <1>s, <2>1
<1>6. ASSUME NEW s \in Seed, Refreshes(s)
      PROVE  SeedsIInv'
  <2>1. Hourly \in Worker /\ s \in DOMAIN seedDB /\ toCheck' \subseteq toCheck
    BY <1>6 DEF Refreshes, Turn, Worker
  <2>2. /\ IsUp(Hourly, "idle") /\ ~IsRefreshed(s) /\ Starts(Hourly, s, FALSE)
        /\ UNCHANGED <<marks, seedDB, seedFile, started, image, whole, latest, making>>
    BY <1>6 DEF Refreshes, SeedsHypothesis
  <2> HIDE DEF SeedsIInv
  <2> QED BY <2>1, <2>2, BeginKeeps
<1>7. ASSUME NEW u \in User, NEW s \in Seed, ForcedRefresh(u, s)
      PROVE  SeedsIInv'
  <2>1. u \in Worker /\ s \in DOMAIN seedDB /\ toCheck' \subseteq toCheck
    BY <1>7 DEF ForcedRefresh, Worker
  <2>2. /\ IsUp(u, "idle") /\ ~IsRefreshed(s) /\ Starts(u, s, TRUE)
        /\ UNCHANGED <<marks, seedDB, seedFile, started, image, whole, latest, making>>
    BY <1>7 DEF ForcedRefresh, SeedsHypothesis
  <2> HIDE DEF SeedsIInv
  <2> QED BY <2>1, <2>2, BeginKeeps
<1>8. ASSUME NEW s \in Seed, Publish(s)
      PROVE  SeedsIInv'
  <2>1. SeedsTypes'
    <3> HIDE DEF SeedWork
    <3>1. work' \in [Worker -> SeedWork]
      BY <1>8, WorkTypes DEF Publish
    <3> QED BY <1>8, <3>1 DEF Publish
  <2>2. Refreshing'
    BY <1>8 DEF Publish
  <2>3. RefreshProgress'
    BY <1>8 DEF Publish
  <2>4. MemoryIsRight' /\ FileIsRight'
    BY <1>8, <1>u DEF Publish
  <2> QED BY <2>1, <2>2, <2>3, <2>4 DEF SeedsIInv
<1>9. ASSUME NEW m \in Maker, NEW s \in Seed, SeedIsReady(m, s)
      PROVE  SeedsIInv'
  BY <1>9, <1>u DEF SeedIsReady
<1>10. ASSUME NEW m \in Maker, CloneBegins(m)
       PROVE  SeedsIInv'
  BY <1>10, <1>u DEF CloneBegins, NotMaking
<1>11. ASSUME NEW m \in Maker, CloneEnds(m)
       PROVE  SeedsIInv'
  BY <1>11, <1>u DEF CloneEnds, NotMaking
<1>12. CASE UNCHANGED seedVars
  BY <1>12, <1>u DEF seedVars
<1> HIDE DEF SeedsIInv
<1>13. QED
  BY <1>1, <1>2, <1>3, <1>4, <1>5, <1>6, <1>7, <1>8, <1>9, <1>10, <1>11, <1>12, <1>14, WorkKeeps
  DEF SeedsNext

(***************************************************************************)
(* A seed the database, or its file, calls ready has a complete image, at  *)
(* least as new as it claims, but for a seed whose replacement was not     *)
(* saved: the file may still call it ready, and so may mulchd once it has  *)
(* stopped meanwhile and reads the file (seeds.go:333-363, 369-436).       *)
(***************************************************************************)
THEOREM ReadySeeds == ASSUME SeedsHypothesis PROVE SeedsSpec => []ReadyIsWhole
<1>1. SeedsIInv => ReadyIsWhole
  BY DEF SeedsIInv, MemoryIsRight, FileIsRight, ReadyIsWhole
<1>2. SeedsInit => SeedsIInv
  BY SeedsInitIInv
<1>3. SeedsIInv /\ [SeedsNext]_seedVars => SeedsIInv'
  BY SeedsNextIInv
<1>4. QED BY <1>1, <1>2, <1>3, PTL DEF SeedsSpec

-----------------------------------------------------------------------------
(* The seeds that are not ready. *)

\* Only a refresh that users asked for replaces an image that is the last one, and it
\* does not fail, as no creation uses the image meanwhile.
Retried ==
    /\ \A s \in DOMAIN seedDB :
          /\ seedDB[s].modified <= latest[s]
          /\ seedFile # SeedsTorn => seedFile[s].modified <= latest[s]
          /\ started /\ IsImage(s) /\ ~seedDB[s].ready =>
                seedDB[s].modified < latest[s] \/ IsRefreshed(s)
    /\ \A w \in Worker : work[w].pc # "idle" /\ IsImage(work[w].seed) =>
          /\ ~work[w].force => seedDB[work[w].seed].modified < latest[work[w].seed]
          /\ work[w].force => w \in User /\ ~IsUsed(work[w].seed)
          /\ work[w].pc = "creating" => image[work[w].seed] = 0

\* Initially, the seeds that are not ready have never been downloaded.
LEMMA SeedsInitRetried == ASSUME SeedsHypothesis, SeedsInit PROVE Retried
<1>1. \A w \in Worker : work[w].pc = "idle"
  BY DEF SeedsInit, Free
<1>2. PICK conf \in Configs, done \in SUBSET Seed :
        seedDB = [s \in conf |-> [ready |-> s \in done,
                                  modified |-> IF s \in done THEN 1 ELSE 0]]
  BY DEF SeedsInit
<1>3. seedFile = seedDB /\ latest = [s \in Seed |-> 1] /\ DOMAIN seedDB \subseteq Seed
  BY <1>2 DEF SeedsInit, SeedsHypothesis
<1>4. \A s \in DOMAIN seedDB :
         /\ seedDB[s].modified \in {0, 1}
         /\ ~seedDB[s].ready => seedDB[s].modified < 1
  <2> SUFFICES ASSUME NEW s \in DOMAIN seedDB
               PROVE  /\ seedDB[s].modified \in {0, 1}
                      /\ ~seedDB[s].ready => seedDB[s].modified < 1
    OBVIOUS
  <2>1. CASE s \in done
    <3>1. (s \in done) = TRUE
      BY <2>1
    <3>2. seedDB[s] = [ready |-> TRUE, modified |-> 1]
      BY <1>2, <2>1, <3>1
    <3> QED BY <3>2
  <2>2. CASE s \notin done
    BY <1>2, <2>2
  <2>3. QED BY <2>1, <2>2
<1>5. \A s \in DOMAIN seedDB : latest[s] = 1
  BY <1>3
<1>6. \A s \in DOMAIN seedDB :
         /\ seedDB[s].modified <= latest[s] /\ seedFile[s].modified <= latest[s]
         /\ ~seedDB[s].ready => seedDB[s].modified < latest[s]
  <2> SUFFICES ASSUME NEW s \in DOMAIN seedDB
               PROVE  /\ seedDB[s].modified <= latest[s]
                      /\ seedFile[s].modified <= latest[s]
                      /\ ~seedDB[s].ready => seedDB[s].modified < latest[s]
    OBVIOUS
  <2>1. seedFile[s].modified = seedDB[s].modified
    BY <1>3
  <2>2. seedDB[s].modified \in {0, 1} /\ latest[s] = 1
    BY <1>4, <1>5
  <2>3. ~seedDB[s].ready => seedDB[s].modified < 1
    BY <1>4
  <2> QED BY <2>1, <2>2, <2>3
<1>7. QED BY <1>1, <1>6 DEF Retried

\* The steps of a refresh leave the image replaced, or still to be replaced.
LEMMA WorkRetried ==
    ASSUME SeedsHypothesis, NoneForcedFails, SeedsIInv, Retried, NEW w \in Worker,
           \/ Downloaded(w) \/ Built(w) \/ OldVolumeDeleted(w) \/ VolumeCreated(w)
           \/ VolumeCopied(w) \/ Stored(w) \/ Fails(w)
    PROVE  Retried'
<1> DEFINE s == work[w].seed
<1> USE DEF SeedsIInv, SeedsTypes, Refreshing, RefreshProgress, SeedEntry, SeedWork, IsImage, Replacing,
            WorkPc, IsUp, Does, Ends, Retried, IsRefreshed, IsUsed
<1>1. CASE Downloaded(w)
  <2>1. /\ s \in DOMAIN seedDB /\ seedDB' = [seedDB EXCEPT ![s].ready = FALSE]
        /\ work' = [work EXCEPT ![w].pc = "replacing", ![w].version = latest[s]]
        /\ UNCHANGED <<started, image, latest, making>> /\ work[w].pc = "downloading"
        /\ seedFile' \in {seedFile, seedDB', SeedsTorn}
    BY <1>1 DEF Downloaded, NotReady, SaveSeeds
  <2>2. /\ DOMAIN seedDB' = DOMAIN seedDB
        /\ \A t \in DOMAIN seedDB :
              /\ seedDB'[t].modified = seedDB[t].modified
              /\ t # s => seedDB'[t] = seedDB[t]
    BY <2>1
  <2>3. \A x \in Worker :
            /\ work'[x].pc = "idle" <=> work[x].pc = "idle"
            /\ work'[x].pc = "creating" <=> work[x].pc = "creating"
            /\ work'[x].seed = work[x].seed /\ work'[x].force = work[x].force
    BY <2>1
  <2>4. \A t : (IsRefreshed(t)' <=> IsRefreshed(t)) /\ (IsUsed(t)' <=> IsUsed(t))
    BY <2>1, <2>3
  <2>5. \A t : t = s => IsRefreshed(t)'
    BY <2>1, <2>3
  <2>6. \A x \in Worker : work[x].pc # "idle" => work[x].seed \in DOMAIN seedDB
    OBVIOUS
  <2>7. ASSUME NEW t \in DOMAIN seedDB'
        PROVE  /\ seedDB'[t].modified <= latest'[t]
               /\ seedFile' # SeedsTorn => seedFile'[t].modified <= latest'[t]
               /\ started' /\ IsImage(t) /\ ~seedDB'[t].ready =>
                     seedDB'[t].modified < latest'[t] \/ IsRefreshed(t)'
    <3> HIDE DEF s, SeedsIInv, SeedsTypes, Refreshing, RefreshProgress, IsRefreshed, IsUsed,
                 SeedWork, SeedEntry, WorkPc, IsImage
    <3>1. t \in DOMAIN seedDB /\ latest' = latest /\ seedDB'[t].modified = seedDB[t].modified
      BY <2>1, <2>2
    <3>2. seedDB'[t].modified <= latest'[t]
      BY <3>1
    <3>3. seedFile' # SeedsTorn => seedFile'[t].modified <= latest'[t]
      BY <2>1, <3>1, <3>2
    <3>4. CASE t = s
      BY <2>5, <3>2, <3>3, <3>4
    <3>5. CASE t # s
      BY <2>1, <2>2, <2>4, <3>1, <3>2, <3>3, <3>5
    <3> QED BY <3>4, <3>5
  <2>8. ASSUME NEW x \in Worker, work'[x].pc # "idle", IsImage(work'[x].seed)
        PROVE  /\ ~work'[x].force => seedDB'[work'[x].seed].modified < latest'[work'[x].seed]
               /\ work'[x].force => x \in User /\ ~IsUsed(work[x].seed)'
               /\ work'[x].pc = "creating" => image'[work'[x].seed] = 0
    <3> HIDE DEF s, SeedsIInv, SeedsTypes, Refreshing, RefreshProgress, IsRefreshed, IsUsed,
                 SeedWork, SeedEntry, WorkPc, IsImage
    <3>1. /\ work[x].pc # "idle" /\ work'[x].seed = work[x].seed
          /\ work[x].seed \in DOMAIN seedDB /\ IsImage(work[x].seed)
      BY <2>3, <2>6, <2>8
    <3>2. IsUsed(work[x].seed)' <=> IsUsed(work[x].seed)
      BY <2>1, <3>1 DEF IsUsed
    <3>3. /\ ~work[x].force => seedDB[work[x].seed].modified < latest[work[x].seed]
          /\ work[x].force => x \in User /\ ~IsUsed(work[x].seed)
          /\ work[x].pc = "creating" => image[work[x].seed] = 0
      BY <3>1
    <3>4. /\ ~work'[x].force => seedDB'[work'[x].seed].modified < latest'[work'[x].seed]
          /\ work'[x].pc = "creating" => image'[work'[x].seed] = 0
      <4> HIDE DEF Retried
      <4>1. UNCHANGED <<image, latest>>
        BY <2>1
      <4>2. /\ work'[x].seed = work[x].seed /\ work'[x].force = work[x].force
            /\ work'[x].pc = "creating" => work[x].pc = "creating"
            /\ seedDB'[work[x].seed].modified = seedDB[work[x].seed].modified
        BY <2>2, <2>3, <3>1
      <4> QED BY <3>3, <4>1, <4>2
    <3>5. work'[x].force => x \in User /\ ~IsUsed(work[x].seed)'
      <4> HIDE DEF Retried
      <4> QED BY <2>3, <3>2, <3>3
    <3> QED BY <3>4, <3>5
  <2> QED
    <3> HIDE DEF s, SeedsIInv, SeedsTypes, Refreshing, RefreshProgress, IsRefreshed, IsUsed,
                 SeedWork, SeedEntry, WorkPc
    <3> QED BY <2>7, <2>8
<1>2. CASE Built(w)
  <2>1. s \in DOMAIN seedDB /\ ~IsImage(s) /\ DOMAIN seedDB' = DOMAIN seedDB
        /\ seedDB' = [seedDB EXCEPT ![s].ready = FALSE]
    BY <1>2 DEF Built
  <2>2. \A t \in DOMAIN seedDB :
            /\ seedDB'[t].modified = seedDB[t].modified
            /\ t # s => seedDB'[t] = seedDB[t]
    BY <2>1
  <2>3. \A x \in Worker :
            /\ work'[x].pc = "idle" <=> work[x].pc = "idle"
            /\ work'[x].pc = "creating" <=> work[x].pc = "creating"
            /\ work'[x].seed = work[x].seed /\ work'[x].force = work[x].force
    BY <1>2 DEF Built
  <2>4. UNCHANGED <<seedFile, started, image, latest, making>>
    BY <1>2 DEF Built
  <2>5. \A t \in DOMAIN seedDB : IsImage(t) => seedDB'[t] = seedDB[t]
    BY <2>1, <2>2
  <2>6. \A t : (IsRefreshed(t)' <=> IsRefreshed(t)) /\ (IsUsed(t)' <=> IsUsed(t))
    BY <2>3, <2>4
  <2> HIDE DEF SeedsIInv, SeedsTypes, Refreshing, RefreshProgress, IsRefreshed, IsUsed
  <2> QED BY <2>1, <2>2, <2>3, <2>4, <2>5, <2>6
<1>3. CASE OldVolumeDeleted(w)
  BY <1>3 DEF OldVolumeDeleted
<1>4. CASE VolumeCreated(w)
  BY <1>4 DEF VolumeCreated
<1>5. CASE VolumeCopied(w)
  BY <1>5 DEF VolumeCopied
<1>6. CASE Stored(w)
  BY <1>6 DEF Stored, Free, SaveSeeds
<1>7. CASE Fails(w)
  BY <1>7 DEF Fails, SaveSeeds, MayFail, Busy, Free, NoneForcedFails
<1>8. QED BY <1>1, <1>2, <1>3, <1>4, <1>5, <1>6, <1>7

\* A refresh that begins is needed, or was asked for.
LEMMA BeginRetried ==
    ASSUME SeedsIInv, Retried, NEW w \in Worker, NEW s \in DOMAIN seedDB, NEW force \in BOOLEAN,
           IsUp(w, "idle"), Starts(w, s, force), force => w \in User /\ ~IsUsed(s),
           UNCHANGED <<seedDB, seedFile, started, image, latest, making>>
    PROVE  Retried'
<1> USE DEF SeedsIInv, SeedsTypes, Refreshing, IsUp, Retried
<1>1. s \in Seed /\ latest[s] \in Nat /\ seedDB[s].modified \in Nat
  BY DEF SeedEntry
<1>2. IsImage(s) /\ ~force => seedDB[s].modified < latest[s]
  <2> SUFFICES ASSUME IsImage(s), ~force PROVE seedDB[s].modified < latest[s]
    OBVIOUS
  <2>1. seedDB[s].modified # latest[s]
    BY DEF Starts, IsImage
  <2>2. seedDB[s].modified <= latest[s]
    OBVIOUS
  <2> HIDE DEF SeedsIInv, SeedsTypes, Refreshing, IsUp, Retried
  <2> QED BY <1>1, <2>1, <2>2
<1>3. PICK p \in {"downloading", "building"}, date \in {0, latest[s]} :
        work' = [work EXCEPT ![w] = [pc |-> p, seed |-> s, force |-> force, date |-> date,
                                      version |-> 0]]
  BY DEF Starts, Begin
<1>4. /\ work'[w].pc = p /\ work'[w].seed = s /\ work'[w].force = force
      /\ \A x \in Worker : x # w => work'[x] = work[x]
  BY <1>3
<1>5. \A t : /\ IsRefreshed(t) => IsRefreshed(t)'
             /\ IsUsed(t)' <=> IsUsed(t)
  BY <1>4 DEF IsRefreshed, IsUsed
<1>6. QED BY <1>1, <1>2, <1>4, <1>5

\* Every other step keeps the dates and the uses apart.
LEMMA SeedsNextRetried ==
    ASSUME SeedsHypothesis, NoneForcedFails, SeedsIInv, Retried, [SeedsNext]_seedVars
    PROVE  Retried'
<1> USE DEF SeedsIInv, SeedsTypes, Refreshing, SeedEntry, SeedWork, IsImage, IsUp, Retried, IsRefreshed, IsUsed
<1>1. CASE RoundBegins
  BY <1>1 DEF RoundBegins
<1>2. CASE PauseSeed
  BY <1>2 DEF PauseSeed, SaveSeeds
<1>3. CASE Crash
  BY <1>3 DEF Crash, Free, NotMaking
<1>4. CASE Restarts
  BY <1>4 DEF Restarts, Reset, SeedsHypothesis, VolumesGone
<1>14. CASE RestartFails
  BY <1>14 DEF RestartFails
<1>5. ASSUME NEW s \in Seed, Skips(s)
      PROVE  Retried'
  BY <1>5 DEF Skips, SaveSeeds
<1>6. ASSUME NEW s \in Seed, Refreshes(s)
      PROVE  Retried'
  <2>1. Hourly \in Worker /\ s \in DOMAIN seedDB
    BY <1>6 DEF Refreshes, Turn, Worker
  <2>2. /\ IsUp(Hourly, "idle") /\ Starts(Hourly, s, FALSE)
        /\ UNCHANGED <<seedDB, seedFile, started, image, latest, making>>
    BY <1>6 DEF Refreshes
  <2> HIDE DEF SeedsIInv, Retried
  <2> QED BY <2>1, <2>2, BeginRetried
<1>7. ASSUME NEW u \in User, NEW s \in Seed, ForcedRefresh(u, s)
      PROVE  Retried'
  <2>1. u \in Worker /\ s \in DOMAIN seedDB
    BY <1>7 DEF ForcedRefresh, Worker
  <2>2. /\ IsUp(u, "idle") /\ Starts(u, s, TRUE) /\ ~IsUsed(s)
        /\ UNCHANGED <<seedDB, seedFile, started, image, latest, making>>
    BY <1>7 DEF ForcedRefresh, NoneForcedFails
  <2> HIDE DEF SeedsIInv, Retried
  <2> QED BY <2>1, <2>2, BeginRetried
<1>8. ASSUME NEW s \in Seed, Publish(s)
      PROVE  Retried'
  BY <1>8 DEF Publish
<1>9. ASSUME NEW m \in Maker, NEW s \in Seed, SeedIsReady(m, s)
      PROVE  Retried'
  BY <1>9 DEF SeedIsReady, UserRefreshes, NoneForcedFails
<1>10. ASSUME NEW m \in Maker, CloneBegins(m)
       PROVE  Retried'
  BY <1>10 DEF CloneBegins, NotMaking
<1>11. ASSUME NEW m \in Maker, CloneEnds(m)
       PROVE  Retried'
  BY <1>11 DEF CloneEnds, NotMaking
<1>12. CASE UNCHANGED seedVars
  BY <1>12 DEF seedVars
<1> HIDE DEF SeedsIInv, Retried
<1>13. QED
  BY <1>1, <1>2, <1>3, <1>4, <1>5, <1>6, <1>7, <1>8, <1>9, <1>10, <1>11, <1>12, <1>14, WorkRetried
  DEF SeedsNext

(***************************************************************************)
(* An image that is not ready and that nobody refreshes is downloaded by   *)
(* the next round, though its site be unchanged (seeds.go:62-67, 391).     *)
(***************************************************************************)
THEOREM RetriedSeeds ==
    ASSUME SeedsHypothesis, NoneForcedFails PROVE SeedsSpec => []NotReadyIsRetried
<1>1. SeedsIInv /\ Retried => NotReadyIsRetried
  BY DEF SeedsIInv, SeedsTypes, SeedEntry, Retried, IsImage, NotReadyIsRetried
<1>2. SeedsInit => SeedsIInv /\ Retried
  BY SeedsInitIInv, SeedsInitRetried
<1>3. (SeedsIInv /\ Retried) /\ [SeedsNext]_seedVars => (SeedsIInv /\ Retried)'
  BY SeedsNextIInv, SeedsNextRetried
<1>4. QED BY <1>1, <1>2, <1>3, PTL DEF SeedsSpec

-----------------------------------------------------------------------------
(***************************************************************************)
(* Proofs about Migration: whatever calls fail, whatever step the source   *)
(* stops or panics at, for any number of migrations and of writes, what    *)
(* users wrote last is in a VM, and the VM that serves them has it.        *)
(*                                                                         *)
(* Three circumstances are excluded, in which TLC finds the two properties *)
(* violated: the source stays active on request, an answer of the peer is  *)
(* lost after its effect, or users activate the VM while it is migrated.   *)
(***************************************************************************)

MigrationExcluded == {"keep", "lost", "activate"}

\* The steps of MigrateVM after the source was found, or made, inactive.
Copying == {"backup", "upload", "restore", "activate", "commit"}

MigrationTypes ==
    /\ exists \subseteq Copy /\ active \subseteq exists
    /\ wrote \in Nat
    /\ data \in [Copy -> Nat]
    /\ pc \in {"idle", "create", "deactivate", "return"} \cup Copying
    /\ keep = FALSE /\ served \in BOOLEAN

\* The last write is in the copy once it serves or is alone, otherwise in the source.
LastWrite ==
    /\ "copy" \in active => "source" \notin active /\ data["copy"] = wrote
    /\ "source" \in exists /\ "copy" \notin active => data["source"] = wrote
    /\ "source" \notin exists => "copy" \in exists /\ data["copy"] = wrote

\* How far the migration is.
MigrationProgress ==
    /\ pc = "create" => undo = <<>>
    /\ pc = "deactivate" => "copy" \notin active
    /\ pc \in Copying => "source" \notin active /\ (pc # "commit" => "copy" \notin active)
    /\ pc \in {"upload", "restore", "activate"} => backedUp = wrote
    /\ pc \in {"activate", "commit"} => "copy" \in exists /\ data["copy"] = wrote
    /\ pc = "activate" => served
    /\ pc = "commit" /\ served => "copy" \in active
    /\ pc \notin {"idle", "return"} => ~commit /\ "source" \in exists

\* What is left to undo does no harm.
Undoable ==
    pc = "return" /\ undo # <<>> /\ ~commit => "source" \in exists /\ "copy" \notin active

MigrationIInv == MigrationTypes /\ LastWrite /\ MigrationProgress /\ Undoable

\* It holds initially.
LEMMA MigrationInitIInv == MigrationInit => MigrationIInv
<1> SUFFICES ASSUME MigrationInit PROVE MigrationIInv
  OBVIOUS
<1>1. /\ "source" \in exists /\ "copy" \notin exists
      /\ exists \subseteq Copy /\ active \subseteq exists
  BY DEF MigrationInit, Copy
<1>2. pc = "idle" /\ undo = <<>> /\ keep = FALSE /\ served = FALSE /\ wrote = 0
      /\ data = [c \in Copy |-> 0]
  BY DEF MigrationInit
<1>3. MigrationTypes
  BY <1>1, <1>2 DEF MigrationTypes
<1>4. LastWrite
  BY <1>1, <1>2 DEF LastWrite, Copy
<1>5. MigrationProgress /\ Undoable
  BY <1>2 DEF MigrationProgress, Undoable, Copying
<1>6. QED BY <1>3, <1>4, <1>5 DEF MigrationIInv

(***************************************************************************)
(* Every step keeps the invariant, without the three circumstances.        *)
(***************************************************************************)
LEMMA MigrationNextIInv ==
    ASSUME MigrationFaults \cap MigrationExcluded = {}, MigrationIInv, [MigrationNext]_migrationVars
    PROVE  MigrationIInv'
<1> USE DEF MigrationIInv, MigrationTypes, LastWrite, MigrationProgress, Undoable, Copy, Copying, MigrationExcluded
<1>1. CASE Migrate
  BY <1>1 DEF Migrate, copies
<1>2. CASE CreateCopy
  <2>1. pc = "create" /\ undo = <<>> /\ ~commit /\ "source" \in exists
    BY <1>2 DEF CreateCopy
  <2>2. CASE pc' = "return" /\ UNCHANGED <<undo, copies, wrote, request, backedUp>>
    BY <2>1, <2>2 DEF copies, request
  <2>3. CASE /\ "copy" \notin exists /\ CopyExists /\ pc' = "deactivate"
             /\ UNCHANGED <<active, wrote, request, backedUp>>
    BY <2>1, <2>3 DEF CopyExists, request
  <2>4. QED
    BY <1>2, <2>2, <2>3 DEF CreateCopy, PeerCall, Abort, Goto, GotoDefer, CopyExists, copies
<1>3. CASE DeactivateSource
  <2>1. pc = "deactivate" /\ pc' \in {"backup", "return"} /\ active' = active \ {"source"}
        /\ served' \in BOOLEAN
        /\ UNCHANGED <<exists, locked, data, wrote, keep, commit, backedUp>>
    BY <1>3 DEF DeactivateSource, Goto, GotoDefer, KeepsServing, Abort
  <2>2. QED BY <2>1
<1>4. CASE BackupSource
  BY <1>4 DEF BackupSource, GotoDefer, copies, request
<1>5. CASE BackupFails
  BY <1>5 DEF BackupFails, copies, request
<1>6. CASE UploadBackup
  BY <1>6 DEF UploadBackup, PeerCall, Abort, Goto, GotoDefer, copies, request
<1>7. CASE UploadPanics
  BY <1>7 DEF UploadPanics, copies, request
<1>8. CASE RestoreCopy
  BY <1>8 DEF RestoreCopy, PeerCall, Abort, Goto, request
<1>9. CASE ActivateCopy
  BY <1>9 DEF ActivateCopy, PeerCall, Abort, Goto, request
<1>10. CASE Commit
  BY <1>10 DEF Commit, Goto
<1>11. CASE DeletePeerBackup
  BY <1>11 DEF DeletePeerBackup, Undo, PeerTries, request
<1>12. CASE DeleteBackup
  BY <1>12 DEF DeleteBackup, Undo, request
<1>13. CASE ReactivateSource
  BY <1>13 DEF ReactivateSource, Undo, ActivatesAgain, Reactivates, request
<1>14. CASE DeleteCopy
  <2>1. pc = "return" /\ pc' = "return" /\ undo # <<>>
        /\ UNCHANGED <<data, wrote, keep, commit, served, backedUp>>
    BY <1>14 DEF DeleteCopy, Undo, request
  <2>2. CASE commit /\ UNCHANGED <<exists, active>>
    BY <2>1, <2>2
  <2>3. CASE ~commit /\ "copy" \notin active /\ "source" \in exists
             /\ exists' \in {exists, exists \ {"copy"}} /\ UNCHANGED active
    BY <2>1, <2>3
  <2>4. QED
    BY <1>14, <2>1, <2>2, <2>3 DEF DeleteCopy, Undo, PeerTries
<1>15. CASE Return
  BY <1>15 DEF Return, copies, request
<1>16. CASE Write
  BY <1>16 DEF Write, request
<1>17. CASE UserActivates
  BY <1>17 DEF UserActivates, request
<1>18. CASE StopSource
  BY <1>18 DEF StopSource, copies, request
<1>19. CASE UNCHANGED migrationVars
  BY <1>19 DEF migrationVars
<1>20. QED
  BY <1>1, <1>2, <1>3, <1>4, <1>5, <1>6, <1>7, <1>8, <1>9, <1>10, <1>11, <1>12,
     <1>13, <1>14, <1>15, <1>16, <1>17, <1>18, <1>19
  DEF MigrationNext

(***************************************************************************)
(* What users wrote last is in a VM, wherever a call fails or mulchd stops *)
(* (controllers/vm.go:1345).                                               *)
(***************************************************************************)
THEOREM MigratedData ==
    ASSUME MigrationFaults \cap MigrationExcluded = {}
    PROVE  MigrationSpec => []MigratedDataSurvives
<1>1. MigrationIInv => MigratedDataSurvives
  <2>1. ASSUME MigrationIInv
        PROVE  \/ "copy" \in exists /\ data["copy"] = wrote
               \/ "source" \in exists /\ data["source"] = wrote
    BY <2>1 DEF MigrationIInv, MigrationTypes, LastWrite
  <2>2. QED BY <2>1 DEF MigratedDataSurvives
<1>2. MigrationIInv /\ [MigrationNext]_migrationVars => MigrationIInv'
  BY MigrationNextIInv
<1>3. QED BY MigrationInitIInv, <1>1, <1>2, PTL DEF MigrationSpec

(***************************************************************************)
(* The VM that serves has what users wrote to the other one: both never    *)
(* serve at once, and the copy does not before it is restored              *)
(* (controllers/vm.go:1219-1308).                                          *)
(***************************************************************************)
THEOREM ServedCopy ==
    ASSUME MigrationFaults \cap MigrationExcluded = {}
    PROVE  MigrationSpec => []ServedCopyIsCurrent
<1>1. MigrationIInv => ServedCopyIsCurrent
  BY DEF MigrationIInv, MigrationTypes, Copy, LastWrite, ServedCopyIsCurrent
<1>2. MigrationIInv /\ [MigrationNext]_migrationVars => MigrationIInv'
  BY MigrationNextIInv
<1>3. QED BY MigrationInitIInv, <1>1, <1>2, PTL DEF MigrationSpec

-----------------------------------------------------------------------------
(* One of the two VMs serves, whatever may happen. *)

Deferred == {"deleteCopy", "reactivate", "deleteBackup", "deletePeerBackup"}
Migrating == {"create", "deactivate", "return"} \cup Copying

\* The source will be active when what is left to undo is done.
SourceReturns ==
    \/ "source" \in active
    \/ "source" \in exists /\ \E i \in DOMAIN undo : undo[i] = "reactivate"

ServingIInv ==
    /\ undo \in Seq(Deferred) /\ active \subseteq exists
    /\ killed \in {"no", "stopped", "panicked"}
    /\ pc \in {"idle"} \cup Migrating
    /\ pc \in {"create", "deactivate"} => ~served
    /\ pc \in Migrating \ {"return"} => ~commit /\ "source" \in exists
    /\ pc = "commit" /\ served => "copy" \in active
    /\ pc \in Migrating /\ served /\ ~commit => denied \/ SourceReturns
    /\ pc = "activate" => served
    /\ served /\ ~denied /\ killed = "no" /\ (pc = "idle" \/ (pc = "return" /\ commit))
          => active \cap {"source", "copy"} # {}

\* Pushing a function keeps the ones that were there.
LEMMA Defers ==
    ASSUME undo \in Seq(Deferred), NEW f \in Deferred, NEW next, GotoDefer(next, f)
    PROVE  /\ undo' \in Seq(Deferred)
           /\ undo'[1] = f /\ 1 \in DOMAIN undo'
           /\ (\E i \in DOMAIN undo : undo[i] = "reactivate")
                => \E i \in DOMAIN undo' : undo'[i] = "reactivate"
<1>1. undo' = <<f>> \o undo
  BY DEF GotoDefer
<1>2. undo' \in Seq(Deferred) /\ undo'[1] = f /\ 1 \in DOMAIN undo'
  BY <1>1
<1>3. ASSUME NEW i \in DOMAIN undo, undo[i] = "reactivate"
      PROVE  i + 1 \in DOMAIN undo' /\ undo'[i + 1] = "reactivate"
  BY <1>1, <1>3
<1>4. QED BY <1>2, <1>3

\* Calling one keeps the others.
LEMMA Undoes ==
    ASSUME undo \in Seq(Deferred), NEW f \in Deferred \ {"reactivate"},
           undo # <<>>, Head(undo) = f, undo' = Tail(undo)
    PROVE  /\ undo' \in Seq(Deferred)
           /\ (\E i \in DOMAIN undo : undo[i] = "reactivate")
                => \E i \in DOMAIN undo' : undo'[i] = "reactivate"
<1>1. undo' \in Seq(Deferred)
  OBVIOUS
<1>2. ASSUME NEW i \in DOMAIN undo, undo[i] = "reactivate"
      PROVE  i - 1 \in DOMAIN undo' /\ undo'[i - 1] = "reactivate"
  <2>1. i \in 1..Len(undo) /\ undo[1] = f /\ i # 1
    BY <1>2
  <2>2. i - 1 \in 1..(Len(undo) - 1) /\ Len(undo') = Len(undo) - 1
    BY <2>1
  <2>3. undo'[i - 1] = undo[i]
    BY <2>1, <2>2
  <2>4. QED BY <1>1, <1>2, <2>2, <2>3
<1>3. QED BY <1>1, <1>2

\* It holds initially.
LEMMA ServingInitIInv == MigrationInit => ServingIInv
BY DEF MigrationInit, ServingIInv, Migrating, Copying, Deferred

(***************************************************************************)
(* Every step keeps the invariant.                                         *)
(***************************************************************************)
LEMMA ServingNextIInv ==
    ASSUME ServingIInv, [MigrationNext]_migrationVars
    PROVE  ServingIInv'
<1> USE DEF ServingIInv, SourceReturns, Migrating, Copying
<1>1. CASE Migrate
  BY <1>1 DEF Migrate, copies
<1>2. CASE CreateCopy
  BY <1>2, Defers DEF CreateCopy, Abort, Goto, GotoDefer, Deferred, PeerCall, CopyExists, copies,
     request
<1>3. CASE DeactivateSource
  BY <1>3, Defers DEF DeactivateSource, Goto, GotoDefer, Deferred, KeepsServing, Abort
<1>4. CASE BackupSource
  BY <1>4, Defers DEF BackupSource, GotoDefer, Deferred, copies, request
<1>5. CASE BackupFails
  BY <1>5 DEF BackupFails, copies, request
<1>6. CASE UploadBackup
  BY <1>6, Defers DEF UploadBackup, PeerCall, Abort, Goto, GotoDefer, Deferred,
     copies, request
<1>7. CASE UploadPanics
  BY <1>7 DEF UploadPanics, copies, request
<1>8. CASE RestoreCopy
  BY <1>8 DEF RestoreCopy, PeerCall, Abort, Goto, request
<1>9. CASE ActivateCopy
  BY <1>9 DEF ActivateCopy, PeerCall, Abort, Goto, request
<1>10. CASE Commit
  BY <1>10 DEF Commit, Goto
<1>11. CASE DeletePeerBackup
  BY <1>11, Undoes DEF DeletePeerBackup, Undo, PeerTries, request, Deferred
<1>12. CASE DeleteBackup
  BY <1>12, Undoes DEF DeleteBackup, Undo, request, Deferred
<1>13. CASE ReactivateSource
  BY <1>13 DEF ReactivateSource, Undo, ActivatesAgain, Reactivates, request, Deferred
<1>14. CASE DeleteCopy
  BY <1>14, Undoes DEF DeleteCopy, Undo, PeerTries, request, Deferred
<1>15. CASE Return
  BY <1>15 DEF Return, copies, request
<1>16. CASE Write
  BY <1>16 DEF Write, request
<1>17. CASE UserActivates
  BY <1>17 DEF UserActivates, request
<1>18. CASE StopSource
  BY <1>18 DEF StopSource, copies, request
<1>19. CASE UNCHANGED migrationVars
  BY <1>19 DEF migrationVars
<1>20. QED
  BY <1>1, <1>2, <1>3, <1>4, <1>5, <1>6, <1>7, <1>8, <1>9, <1>10, <1>11, <1>12,
     <1>13, <1>14, <1>15, <1>16, <1>17, <1>18, <1>19
  DEF MigrationNext

(***************************************************************************)
(* A VM that was active is served when MigrateVM returns, by one server or *)
(* the other, whatever call to the peer fails or loses its answer, unless  *)
(* an error is not looked at, or the VM database has refused or failed to  *)
(* (de)activate the source as asked (controllers/vm.go:1222-1237).         *)
(***************************************************************************)
THEOREM MigrationServes == MigrationSpec => []MigrationKeepsServing
<1>1. ServingIInv => MigrationKeepsServing
  BY DEF ServingIInv, MigrationKeepsServing, SourceIsReactivated
<1>2. ServingIInv /\ [MigrationNext]_migrationVars => ServingIInv'
  BY ServingNextIInv
<1>3. QED BY ServingInitIInv, <1>1, <1>2, PTL DEF MigrationSpec


-----------------------------------------------------------------------------
(***************************************************************************)
(* The types of the parts, whatever fails and whatever crosses: these hold *)
(* without the hypotheses of the sections above.                           *)
(***************************************************************************)

\* VMStates: only VMs of the database run or have a state.
StatesAreOfVMs ==
    /\ StatesTypeOK /\ DOMAIN states \subseteq VM
    /\ restoring \in [VM -> {"none", "start", "stop"}]

LEMMA StatesTypeInit == StatesInit => StatesAreOfVMs
BY DEF StatesInit, StatesAreOfVMs, StatesTypeOK, NoneRestoring

LEMMA StatesTypeNext == StatesAreOfVMs /\ [StatesNext]_stateVars => StatesAreOfVMs'
<1> SUFFICES ASSUME StatesAreOfVMs, [StatesNext]_stateVars PROVE StatesAreOfVMs'
  OBVIOUS
<1> USE DEF StatesAreOfVMs, StatesTypeOK, NoneRestoring
<1>1. ASSUME NEW v \in VM, UserAction(v) \/ Visit(v) \/ Restore(v) PROVE StatesAreOfVMs'
  <2>1. CASE UserAction(v)
    BY <2>1 DEF UserAction, dbVars
  <2>2. CASE Visit(v)
    BY <2>2 DEF Visit
  <2>3. CASE Restore(v)
    BY <2>3 DEF Restore
  <2> QED BY <1>1, <2>1, <2>2, <2>3
<1>2. CASE RestoreBegins \/ RestoreEnds
  BY <1>2 DEF RestoreBegins, RestoreEnds
<1>3. CASE Update \/ SaveEnds \/ SaveFails
  BY <1>3 DEF Update, SaveEnds, SaveFails, UpdatePhases
<1>4. CASE Stop \/ Start \/ StartEnds
  BY <1>4 DEF Stop, Start, StartEnds
<1>5. CASE UNCHANGED stateVars
  BY <1>5 DEF stateVars
<1> QED BY <1>1, <1>2, <1>3, <1>4, <1>5 DEF StatesNext

\* Backups: a volume has one upload.
UploadsAreAlone ==
    /\ BackupsTypeOK /\ JobsOK
    /\ \A c, d \in Client :
          job[c].pc = "uploading" /\ job[d].pc = "uploading" /\ job[c].name = job[d].name
              => c = d

LEMMA UploadsInit == BackupsInit => UploadsAreAlone
<1> SUFFICES ASSUME BackupsInit PROVE UploadsAreAlone
  OBVIOUS
<1>1. JobsOK
  BY BackupsInitIInv DEF BackupsIInv
<1>2. alive /\ \A p \in Process : job[p].pc = "idle"
  BY DEF BackupsInit, Idle
<1>3. DOMAIN backups \subseteq Backup /\ DOMAIN backupFile \subseteq Backup
  <2>1. PICK some \in SUBSET Backup : \E dates \in [some -> Expiry] :
          backups = dates /\ backupFile = dates
    BY DEF BackupsInit
  <2> QED BY <2>1
<1>4. BackupsTypeOK
  BY <1>2, <1>3 DEF BackupsTypeOK, Process
<1>5. \A c \in Client : job[c].pc # "uploading"
  BY <1>2 DEF Process
<1> QED BY <1>1, <1>4, <1>5 DEF UploadsAreAlone

LEMMA UploadsNext ==
    BackupsIInv /\ BackupsIInv' /\ UploadsAreAlone /\ [BackupsNext]_backupVars => UploadsAreAlone'
<1> SUFFICES ASSUME BackupsIInv', UploadsAreAlone, [BackupsNext]_backupVars
             PROVE  UploadsAreAlone'
  OBVIOUS
<1>0. JobsOK'
  BY DEF BackupsIInv
<1> USE <1>0 DEF UploadsAreAlone, BackupsTypeOK, JobsOK, Process
<1>1. ASSUME NEW c \in Client, NEW b \in Backup,
             Upload(c, b) \/ Download(c, b) \/ Delete(c, b) \/ SetExpire(c, b)
      PROVE  UploadsAreAlone'
  <2>1. CASE Upload(c, b)
    BY <2>1 DEF Upload, Arrives, At, Ask
  <2>2. CASE Download(c, b)
    BY <2>2 DEF Download, Arrives, At, Ask
  <2>3. CASE Delete(c, b)
    BY <2>3 DEF Delete, Arrives, At, Ask
  <2>4. CASE SetExpire(c, b)
    BY <2>4 DEF SetExpire, Arrives, At
  <2> QED BY <1>1, <2>1, <2>2, <2>3, <2>4
<1>2. ASSUME NEW c \in Client,
             \/ UploadCopied(c) \/ UploadFails(c) \/ UploadAdded(c) \/ UploadRefused(c)
             \/ DownloadEnds(c)
      PROVE  UploadsAreAlone'
  <2>1. CASE UploadCopied(c)
    <3>1. /\ alive /\ alive' /\ UNCHANGED <<backups, backupFile>>
          /\ job' = [job EXCEPT ![c].pc = "adding"] /\ job[c].pc = "uploading"
          /\ pool' = [pool EXCEPT ![job[c].name] = "whole"]
      BY <2>1 DEF UploadCopied, At, Proceed
    <3> QED BY <3>1
  <2>2. CASE UploadFails(c) \/ UploadRefused(c) \/ DownloadEnds(c)
    <3>1. /\ alive /\ alive' /\ UNCHANGED <<backups, backupFile, pool>>
          /\ job' = [job EXCEPT ![c] = Idle]
      BY <2>2 DEF UploadFails, UploadRefused, DownloadEnds, At, EndJob
    <3> QED BY <3>1 DEF Idle
  <2>3. CASE UploadAdded(c)
    BY <2>3 DEF UploadAdded, At, Add, NotSaved, EndJob, Idle
  <2> QED BY <1>2, <2>1, <2>2, <2>3
<1>3. ASSUME NEW p \in Process, DeleteVolume(p) \/ DeleteVolumeFails(p) \/ DeleteEntry(p)
      PROVE  UploadsAreAlone'
  <2>1. CASE DeleteVolume(p)
    BY <2>1 DEF DeleteVolume, At, Proceed, InUse
  <2>2. CASE DeleteVolumeFails(p)
    BY <2>2 DEF DeleteVolumeFails, At, EndJob, Idle
  <2>3. CASE DeleteEntry(p)
    BY <2>3 DEF DeleteEntry, NotSaved, At, EndJob, Remove, Idle
  <2> QED BY <1>3, <2>1, <2>2, <2>3
<1>4. CASE ListExpired \/ \E b \in Backup : NextExpired(b)
  BY <1>4 DEF ListExpired, NextExpired, At, Ask
<1>5. CASE Tick \/ StartMulchd \/ StartFails
  BY <1>5 DEF Tick, StartMulchd, StartFails
<1>6. CASE StopMulchd
  <2>1. /\ UNCHANGED <<backups, pool>> /\ backupFile' \in {backupFile, BackupsTorn}
        /\ \A p \in Process : job'[p] = Idle
    BY <1>6 DEF StopMulchd
  <2>2. \A c \in Client : job'[c].pc = "idle"
    <3>1. Idle.pc = "idle"
      BY DEF Idle
    <3> QED BY <2>1, <3>1
  <2>3. BackupsTypeOK'
    BY <2>1, <2>2
  <2> QED BY <2>2, <2>3
<1>7. CASE UNCHANGED backupVars
  BY <1>7 DEF backupVars
<1> QED BY <1>1, <1>2, <1>3, <1>4, <1>5, <1>6, <1>7 DEF BackupsNext

\* Migration: VMs that are gone are neither active nor locked.
LEMMA MigrationTypeInit == MigrationInit => MigrationTypeOK
BY DEF MigrationInit, MigrationTypeOK, Copy

LEMMA MigrationTypeNext ==
    MigrationTypeOK /\ [MigrationNext]_migrationVars => MigrationTypeOK'
<1> SUFFICES ASSUME MigrationTypeOK, [MigrationNext]_migrationVars PROVE MigrationTypeOK'
  OBVIOUS
<1> USE DEF MigrationTypeOK, Copy, copies, request
<1>1. CASE Migrate \/ CreateCopy \/ DeactivateSource
  BY <1>1 DEF Migrate, CreateCopy, DeactivateSource, PeerCall, CopyExists, Abort, Goto, GotoDefer
<1>2. CASE BackupSource \/ BackupFails \/ UploadBackup \/ UploadPanics
  BY <1>2 DEF BackupSource, BackupFails, UploadBackup, UploadPanics, PeerCall, Abort, Goto, GotoDefer
<1>3. CASE RestoreCopy \/ ActivateCopy \/ Commit
  BY <1>3 DEF RestoreCopy, ActivateCopy, Commit, PeerCall, Abort, Goto
<1>4. CASE DeletePeerBackup \/ DeleteBackup \/ ReactivateSource \/ DeleteCopy
  BY <1>4 DEF DeletePeerBackup, DeleteBackup, ReactivateSource, DeleteCopy, Undo, PeerTries,
              ActivatesAgain, Reactivates
<1>5. CASE Return \/ Write \/ UserActivates \/ StopSource
  BY <1>5 DEF Return, Write, UserActivates, StopSource
<1>6. CASE UNCHANGED migrationVars
  BY <1>6 DEF migrationVars
<1> QED BY <1>1, <1>2, <1>3, <1>4, <1>5, <1>6 DEF MigrationNext

\* Addresses: libvirt never holds two leases of one name or one address.
LEMMA AddressesTypeInit ==
    ASSUME IsFiniteSet(Guest), AddressesInit PROVE AddressesTypeOK
<1>1. PICK some \in SUBSET Guest : \E ips \in [some -> Address] :
         Cardinality({ips[g] : g \in some}) = Cardinality(some) /\ guests = ips
  BY DEF AddressesInit
<1>2. PICK ips \in [some -> Address] :
         Cardinality({ips[g] : g \in some}) = Cardinality(some) /\ guests = ips
  BY <1>1
<1>3. \A g, h \in some : ips[g] = ips[h] => g = h
  <2>1. PICK range : range = {ips[g] : g \in some}
    OBVIOUS
  <2>2. IsFiniteSet(some)
    BY FS_Subset
  <2>3. ips \in Surjection(some, range)
    BY <2>1 DEF Surjection
  <2>4. ips \in Injection(some, range)
    BY <1>2, <2>1, <2>2, <2>3, FS_SurjSameCardinalityImpliesInj
  <2> QED BY <2>4 DEF Injection, IsInjective
<1>4. Compatible(network)
  BY <1>2, <1>3 DEF AddressesInit, Compatible, LeasesOf, Lease
<1> QED BY <1>2, <1>4 DEF AddressesInit, AddressesTypeOK

LEMMA FewerCompatible ==
    ASSUME NEW leases, Compatible(leases), NEW some \in SUBSET leases
    PROVE  Compatible(some)
BY DEF Compatible

LEMMA RebuildCompatible ==
    ASSUME Compatible(network), NEW d, NEW leases, Rebuild(d, leases)
    PROVE  Compatible(network')
<1>1. CASE RebuildSucceeds(d, leases)
  BY <1>1 DEF RebuildSucceeds
<1>2. CASE RebuildFails(d, leases)
  BY <1>2, FewerCompatible DEF RebuildFails
<1> QED BY <1>1, <1>2 DEF Rebuild

LEMMA AddressesTypeNext ==
    ASSUME AddressesIInv', AddressesTypeOK, [AddressesNext]_addressVars
    PROVE  AddressesTypeOK'
<1>1. Compatible(network')
  BY RebuildCompatible DEF AddressesTypeOK, AddressesNext, addressVars, Draw, AddTransient,
     Created, CreationFails, RemoveTransient, DeleteGuest, GuestDeleted, RestartMulchd
<1> QED BY <1>1 DEF AddressesIInv, LeasesTypes, CreationSteps, AddressesTypeOK

\* Seeds: a complete volume exists, and a refresh that copies has made its volume.
VolumesExist ==
    /\ SeedsTypeOK
    /\ whole \subseteq Seed
    /\ image \in [Seed -> Nat] /\ latest \in [Seed -> Nat \ {0}]
    /\ work \in [Worker -> SeedWork]
    /\ \A w \in Worker :
          /\ work[w].pc # "idle" => work[w].seed \in Seed
          /\ work[w].pc \in Replacing => work[w].version # 0
          /\ work[w].pc = "copying" => image[work[w].seed] # 0

LEMMA FreeWork == Free \in SeedWork /\ Free.pc = "idle"
BY DEF Free, SeedWork, WorkPc, Replacing

LEMMA VolumesInit == ASSUME Configs \subseteq SUBSET Seed, SeedsInit PROVE VolumesExist
<1>1. PICK conf \in Configs, done \in SUBSET Seed :
         /\ seedDB = [s \in conf |-> [ready |-> s \in done,
                                      modified |-> IF s \in done THEN 1 ELSE 0]]
         /\ image = [s \in Seed |-> IF s \in conf \cap done THEN 1 ELSE 0]
         /\ whole = conf \cap done
  BY DEF SeedsInit
<1>2. DOMAIN seedDB \subseteq Seed /\ DOMAIN seedFile \subseteq Seed
  BY <1>1 DEF SeedsInit
<1>3. image \in [Seed -> Nat] /\ \A s \in whole : image[s] # 0
  BY <1>1
<1>4. PICK free : free = Free
  OBVIOUS
<1>5. started /\ latest = [s \in Seed |-> 1] /\ work = [w \in Worker |-> free]
  BY <1>4 DEF SeedsInit
<1>6. free \in SeedWork /\ free.pc = "idle"
  BY <1>4, FreeWork
<1>7. SeedsTypeOK
  BY <1>2, <1>3, <1>5 DEF SeedsTypeOK
<1> QED BY <1>1, <1>3, <1>5, <1>6, <1>7 DEF VolumesExist, Replacing

\* The steps of a refresh.
LEMMA WorkVolumes ==
    ASSUME VolumesExist, NEW w \in Worker,
           \/ Downloaded(w) \/ Built(w) \/ OldVolumeDeleted(w) \/ VolumeCreated(w)
           \/ VolumeCopied(w) \/ Stored(w) \/ Fails(w)
    PROVE  VolumesExist'
<1> USE DEF VolumesExist, SeedsTypeOK
<1>0. PICK s \in Seed : s = work[w].seed
  BY DEF IsUp, Downloaded, Built, OldVolumeDeleted, VolumeCreated, VolumeCopied, Stored, Fails
<1>1. CASE Downloaded(w) \/ Built(w)
  <2>1. /\ work' = [work EXCEPT ![w].pc = "replacing", ![w].version = latest[s]]
        /\ started /\ UNCHANGED <<started, image, whole, latest>> /\ work[w].pc # "idle"
        /\ DOMAIN seedDB' = DOMAIN seedDB /\ seedFile' \in {seedFile, seedDB', SeedsTorn}
    BY <1>0, <1>1 DEF Downloaded, Built, NotReady, IsUp, SaveSeeds
  <2>2. work' \in [Worker -> SeedWork]
    <3>1. "replacing" \in WorkPc /\ latest[s] \in Nat
      BY DEF WorkPc, Replacing
    <3> QED BY <2>1, <3>1, VersionTypes
  <2> QED BY <1>0, <2>1, <2>2 DEF SeedWork, Replacing
<1>2. CASE OldVolumeDeleted(w)
  <2>1. /\ work' = [work EXCEPT ![w].pc = "creating"] /\ work[w].pc = "replacing"
        /\ started /\ UNCHANGED <<started, seedDB, seedFile, latest>>
        /\ \/ UNCHANGED <<image, whole>>
           \/ /\ ~Busy(s) /\ image' = [image EXCEPT ![s] = 0] /\ whole' = whole \ {s}
    BY <1>0, <1>2 DEF OldVolumeDeleted, IsUp, Does
  <2>2. work' \in [Worker -> SeedWork]
    BY <2>1 DEF SeedWork, WorkPc, Replacing
  <2>3. ~Busy(s) => \A x \in Worker : ~(work[x].pc = "copying" /\ work[x].seed = s)
    BY DEF Busy
  <2> QED BY <1>0, <2>1, <2>2, <2>3 DEF SeedWork, Replacing
<1>3. CASE VolumeCreated(w)
  <2>1. /\ work' = [work EXCEPT ![w].pc = "copying"] /\ work[w].pc = "creating"
        /\ started /\ UNCHANGED <<started, seedDB, seedFile, latest, whole>>
        /\ image[s] = 0 /\ image' = [image EXCEPT ![s] = work[w].version]
    BY <1>0, <1>3 DEF VolumeCreated, IsUp, Does
  <2>2. work' \in [Worker -> SeedWork]
    BY <2>1 DEF SeedWork, WorkPc, Replacing
  <2>3. work[w].version \in Nat \ {0}
    BY <2>1 DEF SeedWork, Replacing
  <2>4. image' \in [Seed -> Nat] /\ image'[s] # 0 /\ \A x \in Seed \ {s} : image'[x] = image[x]
    BY <2>1, <2>3
  <2> QED BY <1>0, <2>1, <2>2, <2>4 DEF SeedWork, Replacing
<1>4. CASE VolumeCopied(w)
  <2>1. /\ work' = [work EXCEPT ![w].pc = "storing"] /\ work[w].pc = "copying"
        /\ started /\ UNCHANGED <<started, seedDB, seedFile, latest, image>>
        /\ whole' = whole \cup {s}
    BY <1>0, <1>4 DEF VolumeCopied, IsUp, Does
  <2>2. work' \in [Worker -> SeedWork]
    BY <2>1 DEF SeedWork, WorkPc, Replacing
  <2> QED BY <1>0, <2>1, <2>2 DEF SeedWork, Replacing
<1>5. CASE Stored(w) \/ Fails(w)
  <2>1. PICK free : free = Free
    OBVIOUS
  <2>2. /\ work' = [work EXCEPT ![w] = free] /\ started
        /\ UNCHANGED <<started, image, whole, latest>>
        /\ DOMAIN seedDB' = DOMAIN seedDB /\ seedFile' \in {seedFile, seedDB', SeedsTorn}
    BY <1>5, <2>1 DEF Stored, Fails, IsUp, Ends, SaveSeeds
  <2>3. free \in SeedWork /\ free.pc = "idle"
    BY <2>1, FreeWork
  <2> QED BY <2>2, <2>3 DEF Replacing
<1> QED BY <1>1, <1>2, <1>3, <1>4, <1>5

\* The beginning of a refresh.
LEMMA BeginVolumes ==
    ASSUME VolumesExist, NEW w \in Worker, NEW s \in Seed, NEW force \in BOOLEAN,
           Starts(w, s, force), started,
           UNCHANGED <<seedDB, image, whole, latest, started>>,
           seedFile' = seedFile
    PROVE  VolumesExist'
<1> USE DEF VolumesExist, SeedsTypeOK
<1>1. PICK begun \in SeedWork : /\ work' = [work EXCEPT ![w] = begun] /\ begun.seed = s
                                /\ begun.pc \in {"downloading", "building"}
  BY DEF Starts, Begin, SeedWork, WorkPc
<1> QED BY <1>1 DEF Replacing

LEMMA VolumesNext ==
    ASSUME Configs \subseteq SUBSET Seed, VolumesExist, [SeedsNext]_seedVars
    PROVE  VolumesExist'
<1> USE DEF VolumesExist, SeedsTypeOK
<1>1. CASE \E w \in Worker : \/ Downloaded(w) \/ Built(w) \/ OldVolumeDeleted(w)
                             \/ VolumeCreated(w) \/ VolumeCopied(w) \/ Stored(w) \/ Fails(w)
  BY <1>1, WorkVolumes
<1>2. CASE RoundBegins \/ PauseSeed
  <2>1. /\ started /\ seedFile' \in {seedFile, seedDB, SeedsTorn}
        /\ UNCHANGED <<seedDB, started, work, image, whole, latest>>
    BY <1>2 DEF RoundBegins, PauseSeed, SaveSeeds, IsUp
  <2> QED BY <2>1
<1>3. CASE Crash
  <2>1. PICK free : free = Free
    OBVIOUS
  <2>2. /\ work' = [w \in Worker |-> free]
        /\ UNCHANGED <<seedDB, image, whole, latest>> /\ seedFile' \in {seedFile, SeedsTorn}
    BY <1>3, <2>1 DEF Crash
  <2>3. free \in SeedWork /\ free.pc = "idle"
    BY <2>1, FreeWork
  <2> QED BY <2>1, <2>2, <2>3 DEF Replacing
<1>4. CASE Restarts
  <2>1. PICK conf, gone :
           /\ conf \in Configs /\ DOMAIN seedDB' = conf
           /\ image' = [s \in Seed |-> IF s \in gone THEN 0 ELSE image[s]]
           /\ whole' = whole \ gone
    BY <1>4 DEF Restarts, VolumesGone
  <2>2. ~started /\ started' /\ seedFile' = seedDB' /\ UNCHANGED <<work, latest>>
    BY <1>4 DEF Restarts
  <2>3. image' \in [Seed -> Nat]
    BY <2>1
  <2>4. \A w \in Worker : work[w].pc = "idle"
    BY <2>2, FreeWork
  <2>5. SeedsTypeOK'
    BY <2>1, <2>2
  <2> QED BY <2>1, <2>2, <2>3, <2>4, <2>5 DEF Replacing
<1>11. CASE RestartFails
  <2>1. PICK gone : /\ image' = [s \in Seed |-> IF s \in gone THEN 0 ELSE image[s]]
                    /\ whole' = whole \ gone
    BY <1>11 DEF RestartFails, VolumesGone
  <2>2. /\ ~started /\ seedFile' \in {seedFile, SeedsTorn}
        /\ UNCHANGED <<started, seedDB, work, latest>>
    BY <1>11 DEF RestartFails
  <2>3. \A w \in Worker : work[w].pc = "idle"
    BY <2>2, FreeWork
  <2>4. image' \in [Seed -> Nat]
    BY <2>1
  <2> QED BY <2>1, <2>2, <2>3, <2>4 DEF Replacing
<1>5. ASSUME NEW s \in Seed, Skips(s) PROVE VolumesExist'
  <2>1. /\ started /\ seedFile' \in {seedFile, seedDB, SeedsTorn}
        /\ UNCHANGED <<seedDB, started, work, image, whole, latest>>
    BY <1>5 DEF Skips, SaveSeeds, IsUp
  <2> QED BY <2>1
<1>6. ASSUME NEW s \in Seed, Refreshes(s) PROVE VolumesExist'
  <2>1. /\ Starts(Hourly, s, FALSE) /\ started /\ Hourly \in Worker
        /\ UNCHANGED <<seedDB, seedFile, image, whole, latest, started>>
    BY <1>6 DEF Refreshes, IsUp, Worker
  <2> HIDE DEF VolumesExist
  <2> QED BY <2>1, BeginVolumes
<1>7. ASSUME NEW u \in User, NEW s \in Seed, ForcedRefresh(u, s) PROVE VolumesExist'
  <2>1. /\ Starts(u, s, TRUE) /\ started /\ u \in Worker
        /\ UNCHANGED <<seedDB, seedFile, image, whole, latest, started>>
    BY <1>7 DEF ForcedRefresh, IsUp, Worker
  <2> HIDE DEF VolumesExist
  <2> QED BY <2>1, BeginVolumes
<1>8. ASSUME NEW s \in Seed, Publish(s) PROVE VolumesExist'
  BY <1>8 DEF Publish
<1>9. CASE \/ \E m \in Maker, s \in Seed : SeedIsReady(m, s)
           \/ \E m \in Maker : CloneBegins(m) \/ CloneEnds(m)
  BY <1>9 DEF SeedIsReady, CloneBegins, CloneEnds
<1>10. CASE UNCHANGED seedVars
  BY <1>10 DEF seedVars
<1> HIDE DEF VolumesExist
<1> QED
  BY <1>1, <1>2, <1>3, <1>4, <1>5, <1>6, <1>7, <1>8, <1>9, <1>10, <1>11 DEF SeedsNext

\* A comment names one key, in memory and in the file, whatever fails.
AnyKey == [comment : Comment, rights : [Right -> Int], trusted : SUBSET Guarded]
AnyEdit == [pc : {"idle", "read", "written"}, key : Key \cup {NoEdit.key},
            rights : [Right -> Int], trusted : SUBSET Guarded,
            done : SUBSET (Key \X Right), undone : SUBSET (Key \X (Right \cup Guarded))]
Distinct(db) ==
    /\ DOMAIN db \subseteq Key /\ db \in [DOMAIN db -> AnyKey]
    /\ \A k, l \in DOMAIN db : db[k].comment = db[l].comment => k = l

OneKeyPerComment ==
    /\ Distinct(keyring) /\ (keyFile # KeysTorn => Distinct(keyFile))
    /\ edit \in [Admin -> AnyEdit]

LEMMA NoEditTypes == NoEdit \in AnyEdit
<1>1. NoRights \in [Right -> Int]
  BY DEF NoRights
<1>2. PICK k : k = CHOOSE x \in Key : TRUE
  OBVIOUS
<1> QED BY <1>1, <1>2 DEF NoEdit, AnyEdit

LEMMA CommentsInit == KeysInit => OneKeyPerComment
<1> SUFFICES ASSUME KeysInit PROVE OneKeyPerComment
  OBVIOUS
<1>1. PICK some \in SUBSET Key, names \in [Key -> Comment] :
         /\ \A k, l \in some : names[k] = names[l] => k = l
         /\ keyring = [k \in some |-> NewKey(names[k])]
  BY DEF KeysInit
<1>2. \A k \in some : keyring[k] \in AnyKey /\ keyring[k].comment = names[k]
  BY <1>1 DEF NewKey, NoRights, AnyKey
<1>3. PICK e : e = NoEdit
  OBVIOUS
<1>4. edit = [a \in Admin |-> e] /\ e \in AnyEdit /\ keyFile = keyring
  BY <1>3, NoEditTypes DEF KeysInit
<1>5. Distinct(keyring)
  BY <1>1, <1>2 DEF Distinct
<1> QED BY <1>4, <1>5 DEF OneKeyPerComment

\* A change of the keys that keeps their comments.
LEMMA SameComments ==
    ASSUME NEW db, NEW new, Distinct(db), DOMAIN new \subseteq DOMAIN db,
           new \in [DOMAIN new -> AnyKey],
           \A k \in DOMAIN new : new[k].comment = db[k].comment
    PROVE  Distinct(new)
BY DEF Distinct

\* The requests that begin.
LEMMA ReadsComments ==
    ASSUME OneKeyPerComment, NEW a \in Admin, NEW k \in Key, NEW rights \in [Right -> Int],
           NEW trusted \in SUBSET Guarded, NEW done \in SUBSET (Key \X Right),
           NEW undone \in SUBSET (Key \X (Right \cup Guarded)),
           Reads(a, k, rights, trusted, done, undone)
    PROVE  OneKeyPerComment'
<1>1. UNCHANGED <<keyring, keyFile>>
  BY DEF Reads
<1>2. PICK e \in AnyEdit : edit' = [edit EXCEPT ![a] = e]
  <2>1. [pc |-> "read", key |-> k, rights |-> rights, trusted |-> trusted,
         done |-> done, undone |-> undone] \in AnyEdit
    BY DEF AnyEdit
  <2> QED BY <2>1 DEF Reads
<1> QED BY <1>1, <1>2 DEF OneKeyPerComment, Distinct

LEMMA CommentsNext ==
    ASSUME OneKeyPerComment, [KeysNext]_keyVars
    PROVE  OneKeyPerComment'
<1>0. /\ Distinct(keyring) /\ (keyFile # KeysTorn => Distinct(keyFile)) /\ edit \in [Admin -> AnyEdit]
      /\ \A k \in DOMAIN keyring : k \in Key /\ keyring[k] \in AnyKey
  BY DEF OneKeyPerComment, Distinct
\* What is saved is what is in memory.
<1>1. ASSUME Distinct(keyring'), edit' = edit, keyFile' \in {keyFile, keyring', KeysTorn}
      PROVE  OneKeyPerComment'
  BY <1>0, <1>1 DEF OneKeyPerComment, Distinct
<1>2. ASSUME NEW k \in Key, NEW c \in Comment, AddNew(k, c) PROVE OneKeyPerComment'
  <2>1. /\ k \notin DOMAIN keyring
        /\ \A l \in DOMAIN keyring : keyring[l].comment # c
        /\ keyring' = [l \in DOMAIN keyring \cup {k} |->
                          IF l = k THEN NewKey(c) ELSE keyring[l]]
        /\ edit' = edit /\ keyFile' \in {keyFile, keyring', KeysTorn}
    BY <1>2 DEF AddNew, keyExists, SaveKeys
  <2>2. NewKey(c) \in AnyKey /\ NewKey(c).comment = c
    BY DEF NewKey, NoRights, AnyKey
  <2>3. Distinct(keyring')
    <3>1. PICK new : new = NewKey(c)
      OBVIOUS
    <3> QED BY <1>0, <2>1, <2>2, <3>1 DEF Distinct
  <2> QED BY <1>1, <2>1, <2>3
<1>3. ASSUME NEW k \in Key, DeleteKey(k) PROVE OneKeyPerComment'
  <2>1. /\ keyring' = [l \in DOMAIN keyring \ {k} |-> keyring[l]]
        /\ edit' = edit /\ keyFile' \in {keyFile, keyring', KeysTorn}
    BY <1>3 DEF DeleteKey, SaveKeys
  <2>2. Distinct(keyring')
    BY <1>0, <2>1, SameComments
  <2> QED BY <1>1, <2>1, <2>2
<1>4. ASSUME NEW k \in Key, NEW v \in Guarded,
             AllowSSHFingerprint(k, v) \/ RemoveSSHFingerprints(k, v)
      PROVE  OneKeyPerComment'
  <2>1. PICK trusted \in SUBSET Guarded : keyring' = [keyring EXCEPT ![k].trusted = trusted]
    <3>1. /\ k \in DOMAIN keyring
          /\ \/ keyring' = [keyring EXCEPT ![k].trusted = @ \cup {v}]
             \/ keyring' = [keyring EXCEPT ![k].trusted = @ \ {v}]
      BY <1>4 DEF AllowSSHFingerprint, RemoveSSHFingerprints
    <3>2. keyring[k].trusted \in SUBSET Guarded
      BY <1>0, <3>1 DEF AnyKey
    <3> QED BY <3>1, <3>2
  <2>2. k \in DOMAIN keyring /\ edit' = edit /\ keyFile' \in {keyFile, keyring', KeysTorn}
    BY <1>4 DEF AllowSSHFingerprint, RemoveSSHFingerprints, SaveKeys
  <2>3. \A l \in DOMAIN keyring' : keyring'[l] \in AnyKey /\ keyring'[l].comment = keyring[l].comment
    BY <1>0, <2>1, <2>2 DEF AnyKey
  <2>4. Distinct(keyring')
    BY <1>0, <2>1, <2>3, SameComments
  <2> QED BY <1>1, <2>2, <2>4
<1>5. ASSUME NEW k \in Key, NEW a \in Admin, NEW r \in Right,
             AddRight(a, k, r) \/ RemoveRight(a, k, r)
      PROVE  OneKeyPerComment'
  <2>1. k \in DOMAIN keyring /\ keyring[k].rights \in [Right -> Int]
    BY <1>0, <1>5 DEF AddRight, RemoveRight, AnyKey
  <2>2. /\ [keyring[k].rights EXCEPT ![r] = @ + 1] \in [Right -> Int]
        /\ [keyring[k].rights EXCEPT ![r] = @ - 1] \in [Right -> Int]
    BY <2>1
  <2>3. <<k, r>> \in Key \X Right /\ <<k, r>> \in Key \X (Right \cup Guarded)
    OBVIOUS
  <2>4. CASE AddRight(a, k, r)
    <3>1. Reads(a, k, [keyring[k].rights EXCEPT ![r] = @ + 1], {}, {<<k, r>>}, {})
      BY <2>4 DEF AddRight
    <3> QED BY <2>2, <2>3, <3>1, ReadsComments
  <2>5. CASE RemoveRight(a, k, r)
    <3>1. Reads(a, k, [keyring[k].rights EXCEPT ![r] = @ - 1], {}, {}, {<<k, r>>})
      BY <2>5 DEF RemoveRight
    <3> QED BY <2>2, <2>3, <3>1, ReadsComments
  <2> QED BY <1>5, <2>4, <2>5
<1>6. ASSUME NEW k \in Key, NEW a \in Admin, CleanTrusted(a, k) PROVE OneKeyPerComment'
  <2>1. PICK inactive \in SUBSET keyring[k].trusted :
           Reads(a, k, NoRights, keyring[k].trusted \ inactive, {}, {k} \X inactive)
    BY <1>6 DEF CleanTrusted
  <2>2. keyring[k].trusted \in SUBSET Guarded
    BY <1>0, <1>6 DEF CleanTrusted, AnyKey
  <2>3. {k} \X inactive \in SUBSET (Key \X (Right \cup Guarded))
    BY <2>2
  <2>4. NoRights \in [Right -> Int]
    BY DEF NoRights
  <2> QED BY <2>1, <2>2, <2>3, <2>4, ReadsComments
<1>7. ASSUME NEW a \in Admin, Writes(a) PROVE OneKeyPerComment'
  <2>1. \A key \in AnyKey : Edited(a, key) \in AnyKey /\ Edited(a, key).comment = key.comment
    <3>1. edit[a].rights \in [Right -> Int] /\ edit[a].trusted \in SUBSET Guarded
      BY <1>0 DEF AnyEdit
    <3>2. ASSUME NEW key \in AnyKey
          PROVE  LET r == [key EXCEPT !.rights = edit[a].rights]
                     t == [key EXCEPT !.trusted = edit[a].trusted]
                 IN  /\ r \in AnyKey /\ r.comment = key.comment
                     /\ t \in AnyKey /\ t.comment = key.comment
      BY <3>1 DEF AnyKey
    <3> QED BY <3>2 DEF Edited
  <2>2. PICK k : keyring' = [l \in DOMAIN keyring |->
                               IF l = k THEN Edited(a, keyring[l]) ELSE keyring[l]]
    BY <1>7 DEF Writes
  <2>3. Distinct(keyring')
    <3>1. \A l \in DOMAIN keyring' :
             keyring'[l] \in AnyKey /\ keyring'[l].comment = keyring[l].comment
      BY <1>0, <2>1, <2>2
    <3> QED BY <1>0, <2>2, <3>1, SameComments
  <2>4. edit' = [edit EXCEPT ![a].pc = "written"] /\ keyFile' = keyFile
    BY <1>7 DEF Writes
  <2>5. edit' \in [Admin -> AnyEdit]
    <3>1. PICK e : e \in AnyEdit /\ e = edit[a]
      BY <1>0
    <3>2. [e EXCEPT !.pc = "written"] \in AnyEdit
      BY <3>1 DEF AnyEdit
    <3>3. edit' = [edit EXCEPT ![a] = [e EXCEPT !.pc = "written"]]
      BY <2>4, <3>1
    <3> QED BY <1>0, <3>2, <3>3
  <2> QED BY <1>0, <2>3, <2>4, <2>5 DEF OneKeyPerComment, Distinct
<1>8. ASSUME NEW a \in Admin, Saves(a) PROVE OneKeyPerComment'
  <2>1. PICK e : e = NoEdit
    OBVIOUS
  <2>2. /\ keyring' = keyring /\ keyFile' \in {keyFile, keyring', KeysTorn}
        /\ edit' = [edit EXCEPT ![a] = e]
    BY <1>8, <2>1 DEF Saves, Saved, SaveKeys
  <2> QED BY <1>0, <2>1, <2>2, NoEditTypes DEF OneKeyPerComment, Distinct
<1>9. CASE StopKeys \/ Reload \/ ReloadFails
  <2>1. PICK e : e = NoEdit
    OBVIOUS
  <2>2. /\ keyring' = keyring \/ (keyFile # KeysTorn /\ keyring' = keyFile)
        /\ keyFile' \in {keyFile, KeysTorn} /\ edit' \in {edit, [a \in Admin |-> e]}
    BY <1>9, <2>1 DEF StopKeys, Reload, ReloadFails
  <2> QED BY <1>0, <2>1, <2>2, NoEditTypes DEF OneKeyPerComment, Distinct
<1>10. CASE UNCHANGED keyVars
  BY <1>0, <1>10 DEF keyVars, OneKeyPerComment, Distinct
<1> QED BY <1>2, <1>3, <1>4, <1>5, <1>6, <1>7, <1>8, <1>9, <1>10 DEF KeysNext

LEMMA CommentsType == OneKeyPerComment => KeysTypeOK
BY DEF OneKeyPerComment, Distinct, AnyEdit, KeysTypeOK

-----------------------------------------------------------------------------
(***************************************************************************)
(* Proofs about all the parts together.  A step of mulchd is a step of one *)
(* part and leaves the variables of the others alone, so that a behavior   *)
(* of mulchd is one of each part.                                          *)
(***************************************************************************)
LEMMA MulchdIsItsParts ==
    Spec => /\ StatesSpec /\ BackupsSpec /\ SeedsSpec
            /\ MigrationSpec /\ AddressesSpec /\ KeysSpec
<1>1. Init => /\ StatesInit /\ BackupsInit /\ SeedsInit
              /\ MigrationInit /\ AddressesInit /\ KeysInit
  BY DEF Init
<1>2. [Next]_vars => /\ [StatesNext]_stateVars /\ [BackupsNext]_backupVars
                     /\ [SeedsNext]_seedVars /\ [MigrationNext]_migrationVars
                     /\ [AddressesNext]_addressVars /\ [KeysNext]_keyVars
  BY DEF Next, vars, NextStates, NextBackups, NextSeeds, NextMigration, NextAddresses, NextKeys
<1> QED BY <1>1, <1>2, PTL DEF Spec, StatesSpec, BackupsSpec, SeedsSpec,
                               MigrationSpec, AddressesSpec, KeysSpec

\* Type correctness of the stores and of the migrations (MCMulchd.tla, all the parts).
THEOREM MulchdTypes ==
    ASSUME Address # {}, IsFiniteSet(Guest), Configs \subseteq SUBSET Seed
    PROVE  Spec => []TypeOK
<1>1. StatesSpec => []StatesTypeOK
  <2>1. StatesAreOfVMs => StatesTypeOK
    BY DEF StatesAreOfVMs
  <2> QED BY StatesTypeInit, StatesTypeNext, <2>1, PTL DEF StatesSpec
<1>2. BackupsSpec => []BackupsTypeOK
  <2>1. UploadsAreAlone => BackupsTypeOK
    BY DEF UploadsAreAlone
  <2> QED BY BackupsInitIInv, BackupsNextIInv, UploadsInit, UploadsNext, <2>1, PTL
          DEF BackupsSpec
<1>3. SeedsSpec => []SeedsTypeOK
  <2>1. VolumesExist => SeedsTypeOK
    BY DEF VolumesExist
  <2>2. SeedsInit => VolumesExist
    BY VolumesInit
  <2>3. VolumesExist /\ [SeedsNext]_seedVars => VolumesExist'
    BY VolumesNext
  <2> QED BY <2>1, <2>2, <2>3, PTL DEF SeedsSpec
<1>4. MigrationSpec => []MigrationTypeOK
  BY MigrationTypeInit, MigrationTypeNext, PTL DEF MigrationSpec
<1>5. AddressesSpec => []AddressesTypeOK
  <2>1. AddressesInit => AddressesIInv /\ AddressesTypeOK
    BY AddressesInitIInv, AddressesTypeInit
  <2>2. AddressesIInv /\ [AddressesNext]_addressVars => AddressesIInv'
    BY AddressesNextIInv
  <2>3. AddressesIInv' /\ AddressesTypeOK /\ [AddressesNext]_addressVars => AddressesTypeOK'
    BY AddressesTypeNext
  <2> QED BY <2>1, <2>2, <2>3, PTL DEF AddressesSpec
<1>6. KeysSpec => []KeysTypeOK
  <2>1. KeysInit => OneKeyPerComment
    BY CommentsInit
  <2>2. OneKeyPerComment /\ [KeysNext]_keyVars => OneKeyPerComment'
    BY CommentsNext
  <2> QED BY <2>1, <2>2, CommentsType, PTL DEF KeysSpec
<1>7. TypeOK <=> /\ StatesTypeOK /\ BackupsTypeOK /\ SeedsTypeOK
                 /\ MigrationTypeOK /\ AddressesTypeOK /\ KeysTypeOK
  BY DEF TypeOK
<1> QED BY MulchdIsItsParts, <1>1, <1>2, <1>3, <1>4, <1>5, <1>6, <1>7, PTL

\* All that is proved of the parts is true of mulchd (MCMulchd.tla), under the hypotheses
\* of each: no VM, backup, seed, lease, right or migrated VM is lost.
THEOREM MulchdKeepsItsStores ==
    ASSUME Address # {}, KeysHypothesis, SeedsHypothesis, NoneForcedFails,
           MigrationFaults \cap MigrationExcluded = {}
    PROVE  Spec => [](/\ StatesAreRestored /\ KeptBackupsAreStored /\ VMsHaveLeases
                      /\ AcknowledgedRightsAreStored /\ ReadyIsWhole /\ NotReadyIsRetried
                      /\ MigratedDataSurvives /\ ServedCopyIsCurrent /\ MigrationKeepsServing)
<1>1. AddressesSpec => []VMsHaveLeases
  BY Leased
<1>2. KeysSpec => []AcknowledgedRightsAreStored
  BY RightsStored
<1>3. SeedsSpec => []ReadyIsWhole /\ []NotReadyIsRetried
  BY ReadySeeds, RetriedSeeds
<1>4. MigrationSpec => []MigratedDataSurvives /\ []ServedCopyIsCurrent
  BY MigratedData, ServedCopy
<1> QED BY MulchdIsItsParts, StatesRestored, KeptBackups, MigrationServes,
           <1>1, <1>2, <1>3, <1>4, PTL

=============================================================================
