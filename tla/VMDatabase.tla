------------------------------ MODULE VMDatabase ------------------------------
(***************************************************************************)
(* The VM database of mulchd (server/vm_database.go): the map of VM        *)
(* entries, the greenhouse of the VMs being built, and the three files     *)
(* every change is saved to: the database itself, the domain list and the  *)
(* public port list that mulch-proxy reads.                                *)
(*                                                                         *)
(* The HTTP handlers run concurrently.  A mutex protects each access to    *)
(* the maps, but the operations are not atomic: Add, SetActiveRevision,    *)
(* Delete and the redefine handler check for conflicts first, outside the  *)
(* lock, then take the lock, change the maps and save.  Each request below *)
(* therefore goes through one step per critical section.                   *)
(***************************************************************************)
EXTENDS Integers, FiniteSets

CONSTANTS
    Name,         \* names of VMs
    MaxRevision,  \* bound: the highest revision number of a name
    VM,           \* VM objects, each known by its secret UUID
    Domain,       \* DNS names a VM may serve
    PublicPort,   \* TCP ports mulch-proxy may listen to
    Config,       \* the configuration files users may submit
    Blank,        \* a configuration with neither domain nor public port
    Request,      \* the requests being handled by the API server
    Disk,         \* the disks considered: "sound", "failing"
    None,         \* no VM, no name, no argument
    Corrupt       \* content of a file that was truncated and not written

Revision == 0..MaxRevision
RevisionNone == -1
VMName == Name \X Revision

(***************************************************************************)
(* A configuration: its domains, and its exports to @PUBLIC as pairs of    *)
(* the public port and the port of the VM.                                 *)
(***************************************************************************)
ASSUME ConfigAssumption ==
    /\ MaxRevision \in Nat
    /\ Blank \in Config
    /\ \A c \in Config : /\ c.domains \subseteq Domain
                         /\ \A p \in c.ports : p[1] \in PublicPort

ASSUME DiskAssumption == Disk \subseteq {"sound", "failing"}

ASSUME SentinelAssumption == None \notin VM /\ None \notin VMName

ASSUME CorruptAssumption ==
    Corrupt \notin [db : [VMName -> VM \cup {None}], active : SUBSET VMName,
                   conf : [VM -> Config]]

VARIABLES
    disk,         \* "sound", or "failing": writes may fail or be cut short
    status,       \* of the daemon: "down", "starting", "up" or "failed"
    db,           \* the entries: the VM of each VMName, or None
    active,       \* the names of the entries whose Active flag is set
    greenhouse,   \* the VMs being built
    conf,         \* the configuration of each VM object (vm.Config)
    vmFile,       \* mulch-vm-v2.db
    domainFile,   \* mulch-proxy-domains.db: the VM name serving each domain
    portFile,     \* mulch-proxy-ports-v2.db: the VM name behind each public port
    pc,           \* where each request is
    arg           \* what each request is about

memory == <<db, active, greenhouse, conf>>
files == <<vmFile, domainFile, portFile>>
vars == <<disk, status, db, active, greenhouse, conf, vmFile, domainFile, portFile, pc, arg>>

Arg == [id : VMName, rev : Revision \cup {RevisionNone}, vm : VM \cup {None},
        conf : Config, active : BOOLEAN]

ASSUME NoArgAssumption == None \notin Arg

PC == {"idle", "building", "adding", "uproot", "fallback", "falling",
       "deleting", "activating", "redefining", "updating"}

-----------------------------------------------------------------------------
(* Lookups. *)

Present == {id \in VMName : db[id] # None}
EntriesOf(n) == {id \in Present : id[1] = n}
Served(n) == \E id \in active : id[1] = n

IsHighest(rev, ids) ==
    /\ \E id \in ids : id[2] = rev
    /\ \A id \in ids : id[2] <= rev

\* The highest revision of a set of names, RevisionNone if it is empty.
MaxRevisionOf(ids) ==
    IF \E rev \in Revision : IsHighest(rev, ids)
    THEN CHOOSE rev \in Revision : IsHighest(rev, ids)
    ELSE RevisionNone

GetNextRevisionForName(n) == MaxRevisionOf(EntriesOf(n)) + 1

(***************************************************************************)
(* CheckDomainsConflicts and CheckPortsConflicts for a configuration of    *)
(* name n: only the active entries of other names count.                   *)
(***************************************************************************)
DomainsFree(n, c) ==
    \A id \in active : id[1] # n => conf[db[id]].domains \cap c.domains = {}

PortsFree(n, c) ==
    \A id \in active : id[1] # n =>
        \A p \in conf[db[id]].ports, q \in c.ports : p[1] # q[1]

\* (mutant: the check of the ports is forgotten)
ConflictFreeDomainsOnly(n, c) == DomainsFree(n, c)

ConflictFree(n, c) == DomainsFree(n, c) /\ PortsFree(n, c)

-----------------------------------------------------------------------------
(* Saving.  d, a and k stand for the maps being saved. *)

DomainClash(d, a, k) ==
    \E x, y \in a : x # y /\ k[d[x]].domains \cap k[d[y]].domains # {}

PortClash(d, a, k) ==
    \E x, y \in a : \E p \in k[d[x]].ports, q \in k[d[y]].ports :
        <<x, p>> # <<y, q>> /\ p[1] = q[1]

DomainIndex(d, a, k) ==
    [dom \in Domain |-> IF \E x \in a : dom \in k[d[x]].domains
                        THEN CHOOSE x \in a : dom \in k[d[x]].domains
                        ELSE None]

PortIndex(d, a, k) ==
    [port \in PublicPort |->
        IF \E x \in a : \E p \in k[d[x]].ports : p[1] = port
        THEN CHOOSE x \in a : \E p \in k[d[x]].ports : p[1] = port
        ELSE None]

\* The JSON image of the database: the configurations of its VMs only.
Image(d, a, k) ==
    [db |-> d, active |-> a,
     conf |-> [v \in VM |-> IF \E id \in VMName : d[id] = v THEN k[v] ELSE Blank]]

(***************************************************************************)
(* Writing a file truncates it first: an I/O error comes before or after   *)
(* that.  A duplicated domain or public port is found before the file is   *)
(* opened, and leaves it as it was.                                        *)
(***************************************************************************)
genDomainsDB(d, a, k, ok) ==
    \/ /\ ok /\ ~DomainClash(d, a, k)
       /\ domainFile' = DomainIndex(d, a, k)
    \/ /\ ~ok /\ DomainClash(d, a, k)
       /\ UNCHANGED domainFile
    \/ /\ ~ok /\ ~DomainClash(d, a, k)
       /\ disk = "failing" /\ domainFile' \in {domainFile, Corrupt}

genPortsDB(d, a, k, ok) ==
    \/ /\ ok /\ ~PortClash(d, a, k)
       /\ portFile' = PortIndex(d, a, k)
    \/ /\ ~ok /\ PortClash(d, a, k)
       /\ UNCHANGED portFile
    \/ /\ ~ok /\ ~PortClash(d, a, k)
       /\ disk = "failing" /\ portFile' \in {portFile, Corrupt}

\* (mutant: the database file is written last)
saveDomainsFirst(d, a, k, ok) ==
    \/ ~ok /\ genDomainsDB(d, a, k, FALSE) /\ UNCHANGED <<vmFile, portFile>>
    \/ genDomainsDB(d, a, k, TRUE) /\ genPortsDB(d, a, k, ok) /\ vmFile' = Image(d, a, k)

(***************************************************************************)
(* save(): the database file first, then the domains, then the ports; the  *)
(* first error ends it, and what was written before stays.                 *)
(***************************************************************************)
save(d, a, k, ok) ==
    \/ /\ ~ok
       /\ disk = "failing" /\ vmFile' \in {vmFile, Corrupt}
       /\ UNCHANGED <<domainFile, portFile>>
    \/ /\ vmFile' = Image(d, a, k)
       /\ \/ ~ok /\ genDomainsDB(d, a, k, FALSE) /\ UNCHANGED portFile
          \/ genDomainsDB(d, a, k, TRUE) /\ genPortsDB(d, a, k, ok)

(***************************************************************************)
(* What a save leaves if mulchd stops meanwhile, on any disk: a file is    *)
(* truncated in place, then written.                                       *)
(***************************************************************************)
cutSave(d, a, k) ==
    \/ /\ vmFile' \in {vmFile, Corrupt}
       /\ UNCHANGED <<domainFile, portFile>>
    \/ /\ vmFile' = Image(d, a, k)
       /\ \/ UNCHANGED domainFile
          \/ ~DomainClash(d, a, k) /\ domainFile' = Corrupt
       /\ UNCHANGED portFile
    \/ /\ vmFile' = Image(d, a, k)
       /\ ~DomainClash(d, a, k) /\ domainFile' = DomainIndex(d, a, k)
       /\ \/ UNCHANGED portFile
          \/ ~PortClash(d, a, k) /\ portFile' = Corrupt

-----------------------------------------------------------------------------
(* Requests. *)

Serving == status = "up"

\* The loop of initVMDB deletes entries before the API server starts.
Running == status \in {"starting", "up"}

Idle(r) ==
    /\ pc[r] = "idle"
    /\ status = "starting" => \A q \in Request : pc[q] = "idle"

Goto(r, label, a) ==
    /\ pc' = [pc EXCEPT ![r] = label]
    /\ arg' = [arg EXCEPT ![r] = a]

Done(r) == Goto(r, "idle", None)

\* A VM object nobody holds and no file remembers.
Fresh(v) ==
    /\ \A id \in VMName : db[id] # v /\ greenhouse[id] # v
    /\ \A r \in Request : arg[r] # None => arg[r].vm # v
    /\ vmFile # Corrupt => \A id \in VMName : vmFile.db[id] # v

-----------------------------------------------------------------------------
(* NewVM: a VM is built in the greenhouse, then added. *)

(***************************************************************************)
(* The revision is chosen and the VM is put in the greenhouse.  The error  *)
(* of AddToGreenhouse is ignored: a save that fails as well as a name that *)
(* is already there.                                                       *)
(***************************************************************************)
AddToGreenhouse(id, v) ==
    IF greenhouse[id] # None
    THEN UNCHANGED <<greenhouse, files>>
    ELSE /\ greenhouse' = [greenhouse EXCEPT ![id] = v]
         /\ \E ok \in BOOLEAN : save(db, active, conf, ok)

NewVM(r, n, c, act) ==
    LET rev == GetNextRevisionForName(n) IN
    /\ Serving /\ Idle(r)
    /\ rev \in Revision
    /\ \E v \in VM :
        /\ Fresh(v)
        /\ conf' = [conf EXCEPT ![v] = c]
        /\ AddToGreenhouse(<<n, rev>>, v)
        /\ Goto(r, "building", [id |-> <<n, rev>>, rev |-> rev, vm |-> v,
                                conf |-> c, active |-> act])
    /\ UNCHANGED <<status, db, active>>

(***************************************************************************)
(* Every step of the construction may fail, the early conflict check and   *)
(* the check of Add among them (the proxy-chain parent may be unreachable, *)
(* a VM may be deleted during the scan); the deferred call takes the VM    *)
(* out of the greenhouse.                                                  *)
(***************************************************************************)
BuildFails(r) ==
    /\ pc[r] = "building"
    /\ Goto(r, "uproot", arg[r])
    /\ UNCHANGED <<status, memory, files>>

\* Add, before it takes the lock.
AddCheck(r) ==
    /\ pc[r] = "building"
    /\ arg[r].active => ConflictFree(arg[r].id[1], conf[arg[r].vm])
    /\ Goto(r, "adding", arg[r])
    /\ UNCHANGED <<status, memory, files>>

\* (mutant: the other revisions keep their flag)
DeactivateNone(n) == active

\* The active entries once those of name n are set inactive.
DeactivateAll(n) == {id \in active : id[1] # n}

AddExists(r) ==
    /\ pc[r] = "adding"
    /\ db[arg[r].id] # None
    /\ Goto(r, "uproot", arg[r])
    /\ UNCHANGED <<status, memory, files>>

(***************************************************************************)
(* Add, under the lock.  If the save fails the new entry is removed from   *)
(* the map, but the entries set inactive remain so.                        *)
(***************************************************************************)
AddCommit(r) ==
    LET a == arg[r]
        others == IF a.active THEN DeactivateAll(a.id[1]) ELSE active
        added == IF a.active THEN others \cup {a.id} ELSE others
        with == [db EXCEPT ![a.id] = a.vm]
    IN  /\ pc[r] = "adding"
        /\ db[a.id] = None
        /\ \E ok \in BOOLEAN :
            /\ save(with, added, conf, ok)
            /\ db' = IF ok THEN with ELSE db
            /\ active' = IF ok THEN added ELSE others
        /\ Goto(r, "uproot", a)
        /\ UNCHANGED <<status, greenhouse, conf>>

\* The deferred call of NewVM, whatever the outcome.  Nothing is saved.
DeleteFromGreenhouse(r) ==
    /\ pc[r] = "uproot"
    /\ greenhouse' = [greenhouse EXCEPT ![arg[r].id] = None]
    /\ Done(r)
    /\ UNCHANGED <<status, db, active, conf, files>>

-----------------------------------------------------------------------------
(* SetActiveRevision, called by the activate handler and by Delete. *)

\* (mutant: no conflict check)
CanActivateUnchecked(n, rev) ==
    IF rev = RevisionNone THEN EntriesOf(n) # {} ELSE <<n, rev>> \in Present

\* The sanity checks, out of the lock.
CanActivate(n, rev) ==
    IF rev = RevisionNone
    THEN EntriesOf(n) # {}
    ELSE /\ <<n, rev>> \in Present
         /\ ConflictFree(n, conf[db[<<n, rev>>]])

\* (mutant: the flags of the other revisions are not cleared)
ActiveAfterAdding(n, rev) == active \cup {id \in EntriesOf(n) : id[2] = rev}

\* Under the lock: the flag of each entry of the name is recomputed.
ActiveAfter(n, rev) ==
    DeactivateAll(n) \cup {id \in EntriesOf(n) : id[2] = rev}

SetActiveRevision(n, rev, ok) ==
    /\ active' = ActiveAfter(n, rev)
    /\ save(db, ActiveAfter(n, rev), conf, ok)
    /\ UNCHANGED <<db, greenhouse, conf>>

ActivateCheck(r, n, rev) ==
    /\ Serving /\ Idle(r)
    /\ CanActivate(n, rev)
    /\ Goto(r, "activating", [id |-> <<n, 0>>, rev |-> rev, vm |-> None,
                              conf |-> Blank, active |-> FALSE])
    /\ UNCHANGED <<status, memory, files>>

ActivateCommit(r) ==
    /\ pc[r] = "activating"
    /\ \E ok \in BOOLEAN : SetActiveRevision(arg[r].id[1], arg[r].rev, ok)
    /\ Done(r)
    /\ UNCHANGED status

-----------------------------------------------------------------------------
(* Delete, called by VMDelete and, while mulchd starts, by initVMDB. *)

\* (mutant: the revision being deleted is not left out)
FallbackRevisionOfAll(id) == MaxRevisionOf(EntriesOf(id[1]))

\* The other revisions of the name, from which a new active one is taken.
FallbackRevision(id) == MaxRevisionOf(EntriesOf(id[1]) \ {id})

DeleteLookup(r, id) ==
    LET rev == FallbackRevision(id)
        fallback == id \in active /\ rev # RevisionNone
    IN  /\ Running /\ Idle(r)
        /\ id \in Present
        /\ Goto(r, IF fallback THEN "fallback" ELSE "deleting",
                [id |-> id, rev |-> rev, vm |-> None,
                 conf |-> Blank, active |-> id \in active])
        /\ UNCHANGED <<status, memory, files>>

FallbackCheck(r) ==
    /\ pc[r] = "fallback"
    /\ CanActivate(arg[r].id[1], arg[r].rev)
    /\ Goto(r, "falling", arg[r])
    /\ UNCHANGED <<status, memory, files>>

(***************************************************************************)
(* The revision is gone, a domain or a port is in conflict, or the parent  *)
(* of the proxy chain refuses: Delete returns, the entry stays.            *)
(***************************************************************************)
FallbackRefused(r) ==
    /\ pc[r] = "fallback"
    /\ Done(r)
    /\ UNCHANGED <<status, memory, files>>

FallbackCommit(r) ==
    /\ pc[r] = "falling"
    /\ \E ok \in BOOLEAN :
        /\ SetActiveRevision(arg[r].id[1], arg[r].rev, ok)
        /\ IF ok THEN Goto(r, "deleting", arg[r]) ELSE Done(r)
    /\ UNCHANGED status

\* (mutant: the maps are saved before the entry is removed)
DeleteCommitSavedFirst(r) ==
    /\ pc[r] = "deleting"
    /\ db' = [db EXCEPT ![arg[r].id] = None]
    /\ active' = active \ {arg[r].id}
    /\ \E ok \in BOOLEAN : save(db, active, conf, ok)
    /\ Done(r)
    /\ UNCHANGED <<status, greenhouse, conf>>

\* (mutant: the Active flag outlives the entry)
DeleteCommitFlagKept(r) ==
    /\ pc[r] = "deleting"
    /\ db' = [db EXCEPT ![arg[r].id] = None]
    /\ \E ok \in BOOLEAN : save(db', active \ {arg[r].id}, conf, ok)
    /\ Done(r)
    /\ UNCHANGED <<status, active, greenhouse, conf>>

DeleteCommit(r) ==
    LET without == [db EXCEPT ![arg[r].id] = None]
        remaining == active \ {arg[r].id}
    IN  /\ pc[r] = "deleting"
        /\ db' = without
        /\ active' = remaining
        /\ \E ok \in BOOLEAN : save(without, remaining, conf, ok)
        /\ Done(r)
        /\ UNCHANGED <<status, greenhouse, conf>>

-----------------------------------------------------------------------------
\* (mutant: the new configuration is not checked)
RedefineUnchecked(r, id, c) ==
    /\ Serving /\ Idle(r)
    /\ id \in Present
    /\ Goto(r, "redefining", [id |-> id, rev |-> id[2], vm |-> db[id],
                              conf |-> c, active |-> id \in active])
    /\ UNCHANGED <<status, memory, files>>

(***************************************************************************)
(* RedefineVM: the handler has looked the entry up (its VM and its Active  *)
(* flag), checks the new configuration if it was active, replaces the      *)
(* configuration of the VM object without any lock, then calls Update.     *)
(***************************************************************************)
RedefineCheck(r, id, c) ==
    /\ Serving /\ Idle(r)
    /\ id \in Present
    /\ id \in active => ConflictFree(id[1], c)
    /\ Goto(r, "redefining", [id |-> id, rev |-> id[2], vm |-> db[id],
                              conf |-> c, active |-> id \in active])
    /\ UNCHANGED <<status, memory, files>>

RedefineWrite(r) ==
    /\ pc[r] = "redefining"
    /\ conf' = [conf EXCEPT ![arg[r].vm] = arg[r].conf]
    /\ Goto(r, "updating", arg[r])
    /\ UNCHANGED <<status, db, active, greenhouse, files>>

Update(r) ==
    /\ pc[r] = "updating"
    /\ \E ok \in BOOLEAN : save(db, active, conf, ok)
    /\ Done(r)
    /\ UNCHANGED <<status, memory>>

-----------------------------------------------------------------------------
(* The daemon. *)

NoEntries == [id \in VMName |-> None]
AllIdle == [r \in Request |-> "idle"]

\* What is saved when mulchd stops: the change of a request, or the maps as they are (by
\* a construction that begins, a redefinition, the end of the start).
Stops ==
    \/ cutSave(db, active, conf)
    \/ \E r \in Request :
          LET a == arg[r] IN
          \/ /\ pc[r] = "adding" /\ db[a.id] = None
             /\ cutSave([db EXCEPT ![a.id] = a.vm],
                        IF a.active THEN DeactivateAll(a.id[1]) \cup {a.id} ELSE active, conf)
          \/ /\ pc[r] \in {"activating", "falling"}
             /\ cutSave(db, ActiveAfter(a.id[1], a.rev), conf)
          \/ /\ pc[r] = "deleting"
             /\ cutSave([db EXCEPT ![a.id] = None], active \ {a.id}, conf)

\* The process stops: the memory is lost.
Crash ==
    /\ Running
    /\ status' = "down"
    /\ db' = NoEntries /\ active' = {} /\ greenhouse' = NoEntries
    /\ conf' = [v \in VM |-> Blank]
    /\ pc' = AllIdle /\ arg' = [r \in Request |-> None]
    /\ Stops

(***************************************************************************)
(* NewVMDatabase: the file is loaded, then saved at once; an error of      *)
(* either is fatal.                                                        *)
(***************************************************************************)
Start ==
    /\ status = "down"
    /\ UNCHANGED <<greenhouse, pc, arg>>
    /\ IF vmFile = Corrupt
       THEN status' = "failed" /\ UNCHANGED <<db, active, conf, files>>
       ELSE /\ db' = vmFile.db /\ active' = vmFile.active /\ conf' = vmFile.conf
            /\ \E ok \in BOOLEAN :
                /\ save(vmFile.db, vmFile.active, vmFile.conf, ok)
                /\ status' = IF ok THEN "starting" ELSE "failed"

\* It stops before that save has ended.
StartStops ==
    /\ status = "down" /\ vmFile # Corrupt
    /\ cutSave(vmFile.db, vmFile.active, vmFile.conf)
    /\ UNCHANGED <<status, memory, pc, arg>>

(***************************************************************************)
(* initVMDB deletes the entries that libvirt does not know (any of them),  *)
(* one after the other, ignoring the errors, then calls Update.            *)
(***************************************************************************)
InitVMDB ==
    /\ status = "starting"
    /\ pc = AllIdle
    /\ \E ok \in BOOLEAN : save(db, active, conf, ok)
    /\ status' = "up"
    /\ UNCHANGED <<memory, pc, arg>>

\* No file yet: the first start creates them.
Init ==
    /\ disk \in Disk
    /\ status = "down"
    /\ db = NoEntries /\ active = {} /\ greenhouse = NoEntries
    /\ conf = [v \in VM |-> Blank]
    /\ vmFile = Image(db, active, conf)
    /\ domainFile = [dom \in Domain |-> None]
    /\ portFile = [port \in PublicPort |-> None]
    /\ pc = AllIdle /\ arg = [r \in Request |-> None]

Handle(r) ==
    \/ \E n \in Name, c \in Config, act \in BOOLEAN : NewVM(r, n, c, act)
    \/ BuildFails(r) \/ AddCheck(r) \/ AddExists(r) \/ AddCommit(r)
    \/ DeleteFromGreenhouse(r)
    \/ \E n \in Name, rev \in Revision \cup {RevisionNone} : ActivateCheck(r, n, rev)
    \/ ActivateCommit(r)
    \/ \E id \in VMName : DeleteLookup(r, id)
    \/ FallbackCheck(r) \/ FallbackRefused(r) \/ FallbackCommit(r) \/ DeleteCommit(r)
    \/ \E id \in VMName, c \in Config : RedefineCheck(r, id, c)
    \/ RedefineWrite(r) \/ Update(r)

Next ==
    /\ Crash \/ Start \/ StartStops \/ InitVMDB \/ \E r \in Request : Handle(r)
    /\ UNCHANGED disk

Spec == Init /\ [][Next]_vars

-----------------------------------------------------------------------------
(* Properties. *)

(***************************************************************************)
(* The types; an Active flag belongs to an entry, in memory as in the      *)
(* file; a request that builds holds a VM object.                          *)
(***************************************************************************)
TypeOK ==
    /\ disk \in Disk
    /\ status \in {"down", "starting", "up", "failed"}
    /\ db \in [VMName -> VM \cup {None}]
    /\ active \in SUBSET Present
    /\ greenhouse \in [VMName -> VM \cup {None}]
    /\ conf \in [VM -> Config]
    /\ vmFile \in [db : [VMName -> VM \cup {None}], active : SUBSET VMName,
                   conf : [VM -> Config]] \cup {Corrupt}
    /\ vmFile # Corrupt => \A id \in vmFile.active : vmFile.db[id] # None
    /\ domainFile \in [Domain -> VMName \cup {None}] \cup {Corrupt}
    /\ portFile \in [PublicPort -> VMName \cup {None}] \cup {Corrupt}
    /\ pc \in [Request -> PC]
    /\ arg \in [Request -> Arg \cup {None}]
    /\ \A r \in Request :
         /\ pc[r] # "idle" => arg[r] \in Arg
         /\ pc[r] \in {"building", "adding"} => arg[r].vm \in VM

(***************************************************************************)
(* "Only one entry can be active per name": in memory and in the file a    *)
(* restart will load, whatever requests are interleaved.                   *)
(***************************************************************************)
OneActive(ids) == \A x, y \in ids : x[1] = y[1] => x = y

OneActivePerName ==
    OneActive(active) /\ (vmFile # Corrupt => OneActive(vmFile.active))

(***************************************************************************)
(* No domain and no public port belongs to two active VMs: what            *)
(* CheckDomainsConflicts and CheckPortsConflicts are there for.            *)
(***************************************************************************)
NoActiveConflict == ~DomainClash(db, active, conf) /\ ~PortClash(db, active, conf)

(***************************************************************************)
(* A change that was made is not lost: unless the disk fails, every entry  *)
(* in memory is in the database file, with its Active flag, so that a      *)
(* restart finds it, but for a stop in the middle of a later save.         *)
(***************************************************************************)
Durable ==
    disk = "sound" /\ Running =>
        /\ \A id \in Present : vmFile.db[id] = db[id]
        /\ active \subseteq vmFile.active

(***************************************************************************)
(* When no request is between a change and its save, the three files say   *)
(* what the memory says: mulch-proxy sends each domain and each public     *)
(* port to the active VM that claims it.                                   *)
(***************************************************************************)
FilesCurrent ==
    (disk = "sound" /\ Running /\ \A r \in Request : pc[r] # "updating") =>
        /\ vmFile = Image(db, active, conf)
        /\ domainFile = DomainIndex(db, active, conf)
        /\ portFile = PortIndex(db, active, conf)

(***************************************************************************)
(* mulchd starts again, wherever it stopped, unless it stopped while it    *)
(* wrote the database file itself: the lists are written again, and the    *)
(* change that was being saved has no conflict.                            *)
(***************************************************************************)
StartsUnlessTorn == disk = "sound" /\ status = "failed" => vmFile = Corrupt

(***************************************************************************)
(* A name that is served and keeps entries stays served, unless a request  *)
(* asked for its deactivation: a rebuild, a deletion or a failed creation  *)
(* never takes a VM off line silently.                                     *)
(***************************************************************************)
KeepsServing ==
    [][\A n \in Name :
         disk = "sound" /\ Served(n) /\ status' = "up" /\ EntriesOf(n)' # {} =>
            \/ Served(n)'
            \/ \E r \in Request : /\ pc[r] = "activating"
                                  /\ arg[r].id[1] = n /\ arg[r].rev = RevisionNone
      ]_vars

\* What a start would load.
Stored == IF vmFile = Corrupt THEN Image(NoEntries, {}, conf) ELSE vmFile

\* The entries mulchd holds, or will find when it starts; none if it cannot.
KnownVMs ==
    IF Running THEN db ELSE IF status = "failed" THEN NoEntries ELSE Stored.db
KnownActive ==
    IF Running THEN active ELSE IF status = "failed" THEN {} ELSE Stored.active

\* mulchd writes the lists again when it starts.
KnownDomains ==
    IF Running THEN domainFile ELSE DomainIndex(Stored.db, Stored.active, Stored.conf)
KnownPorts ==
    IF Running THEN portFile ELSE PortIndex(Stored.db, Stored.active, Stored.conf)

\* A configuration is known once it is saved.
KnownConfs ==
    [id \in VMName |-> IF KnownVMs[id] = None THEN Blank ELSE Stored.conf[KnownVMs[id]]]

Registry == INSTANCE VMRegistry WITH
    vms <- KnownVMs,
    confs <- KnownConfs,
    active <- KnownActive,
    domains <- KnownDomains,
    ports <- KnownPorts

(***************************************************************************)
(* The database and the two lists of mulch-proxy are a registry: a request *)
(* takes effect at once, when it saves, on all of them, whatever checks,   *)
(* builds and restarts are interleaved with it; a save that a stop cuts    *)
(* short takes effect or does not, unless it leaves the database file      *)
(* truncated; loading and saving again change nothing.  That is on a sound *)
(* disk, and when changes do not cross.                                    *)
(***************************************************************************)
ImplementsRegistry ==
    Registry!Init /\ [][disk = "sound" /\ vmFile' # Corrupt => Registry!Next]_(Registry!vars)

(***************************************************************************)
(* Deleting the active revision sets the highest other one active (if      *)
(* any): when Delete goes on to remove the entry, its name is served       *)
(* unless it has no other revision.                                        *)
(***************************************************************************)
FallbackServes ==
    [][\A r \in Request :
         pc[r] = "falling" /\ pc'[r] = "deleting" =>
            LET id == arg[r].id IN
            \/ Served(id[1])'
            \/ EntriesOf(id[1])' \subseteq {id}
      ]_vars

(***************************************************************************)
(* The greenhouse holds all the VMs being built, each under its own name:  *)
(* a phone call of a VM is looked up there by its secret UUID.             *)
(***************************************************************************)
GreenhouseHoldsBuilding ==
    \A r \in Request : pc[r] \in {"building", "adding"} =>
        greenhouse[arg[r].id] = arg[r].vm

=============================================================================
