-------------------------- MODULE VMDatabaseProofs --------------------------
(***************************************************************************)
(* Proofs about VMDatabase, for any number of names, revisions, VMs,       *)
(* configurations and concurrent requests, on sound or failing disks, with *)
(* crashes anywhere: the type invariant, one active entry per name, and,   *)
(* when the disk is sound, the durability of every change; and for changes *)
(* that do not cross, the absence of conflicts, the agreement of the files *)
(* with the memory, the restart and the continuity of the service.         *)
(***************************************************************************)
EXTENDS VMDatabase, WellFoundedInduction, TLAPS

\* What the database file may hold.
VMFileType == [db : [VMName -> VM \cup {None}], active : SUBSET VMName,
               conf : [VM -> Config]] \cup {Corrupt}

DomainFileType == [Domain -> VMName \cup {None}] \cup {Corrupt}
PortFileType == [PublicPort -> VMName \cup {None}] \cup {Corrupt}

FilesTypeOK ==
    /\ vmFile \in VMFileType
    /\ vmFile # Corrupt => \A id \in vmFile.active : vmFile.db[id] # None
    /\ domainFile \in DomainFileType
    /\ portFile \in PortFileType

(***************************************************************************)
(* The domain and port lists that save() generates map each key to one of  *)
(* the active entries, or to none.                                         *)
(***************************************************************************)
LEMMA IndexType ==
    ASSUME NEW d, NEW k, NEW a \in SUBSET VMName
    PROVE  /\ DomainIndex(d, a, k) \in [Domain -> VMName \cup {None}]
           /\ PortIndex(d, a, k) \in [PublicPort -> VMName \cup {None}]
<1>1. DomainIndex(d, a, k) \in [Domain -> VMName \cup {None}]
  <2> DEFINE P(dom, x) == dom \in k[d[x]].domains
  <2>1. ASSUME NEW dom \in Domain, \E x \in a : P(dom, x)
        PROVE  (CHOOSE x \in a : P(dom, x)) \in VMName
    BY <2>1, Zenon
  <2>2. DomainIndex(d, a, k) = [dom \in Domain |-> IF \E x \in a : P(dom, x)
                                  THEN CHOOSE x \in a : P(dom, x) ELSE None]
    BY DEF DomainIndex
  <2> HIDE DEF P
  <2>3. QED BY <2>1, <2>2
<1>2. PortIndex(d, a, k) \in [PublicPort -> VMName \cup {None}]
  <2> DEFINE P(port, x) == \E p \in k[d[x]].ports : p[1] = port
  <2>1. ASSUME NEW port \in PublicPort, \E x \in a : P(port, x)
        PROVE  (CHOOSE x \in a : P(port, x)) \in VMName
    BY <2>1, Zenon
  <2>2. PortIndex(d, a, k) = [port \in PublicPort |-> IF \E x \in a : P(port, x)
                                THEN CHOOSE x \in a : P(port, x) ELSE None]
    BY DEF PortIndex
  <2> HIDE DEF P
  <2>3. QED BY <2>1, <2>2
<1>3. QED BY <1>1, <1>2

(***************************************************************************)
(* Saving well-typed maps leaves well-typed files, whatever fails.         *)
(***************************************************************************)
LEMMA SaveType ==
    ASSUME NEW d \in [VMName -> VM \cup {None}], NEW a \in SUBSET VMName,
           NEW k \in [VM -> Config], NEW ok \in BOOLEAN,
           \A id \in a : d[id] # None,
           FilesTypeOK, save(d, a, k, ok)
    PROVE  FilesTypeOK'
<1>1. Image(d, a, k) \in VMFileType /\ \A id \in Image(d, a, k).active :
                                        Image(d, a, k).db[id] # None
  BY ConfigAssumption DEF Image, VMFileType
<1>2. vmFile' = Image(d, a, k) \/ vmFile' = vmFile \/ vmFile' = Corrupt
  BY DEF save
<1>3. /\ vmFile' \in VMFileType
      /\ vmFile' # Corrupt => \A id \in vmFile'.active : vmFile'.db[id] # None
  <2>1. CASE vmFile' = Image(d, a, k)
    BY <1>1, <2>1
  <2>2. CASE vmFile' = vmFile
    BY <2>2 DEF FilesTypeOK
  <2>3. CASE vmFile' = Corrupt
    BY <2>3 DEF VMFileType
  <2>4. QED BY <1>2, <2>1, <2>2, <2>3
<1>4. /\ DomainIndex(d, a, k) \in [Domain -> VMName \cup {None}]
      /\ PortIndex(d, a, k) \in [PublicPort -> VMName \cup {None}]
  BY IndexType
<1>5. domainFile' \in DomainFileType
  BY <1>4 DEF save, genDomainsDB, FilesTypeOK, DomainFileType
<1>6. portFile' \in PortFileType
  BY <1>4 DEF save, genPortsDB, FilesTypeOK, PortFileType
<1>7. QED BY <1>3, <1>5, <1>6 DEF FilesTypeOK

\* So does a save that a stop cuts short.
LEMMA CutType ==
    ASSUME NEW d \in [VMName -> VM \cup {None}], NEW a \in SUBSET VMName,
           NEW k \in [VM -> Config], \A id \in a : d[id] # None,
           FilesTypeOK, cutSave(d, a, k)
    PROVE  FilesTypeOK'
<1>1. Image(d, a, k) \in VMFileType /\ \A id \in Image(d, a, k).active :
                                        Image(d, a, k).db[id] # None
  BY ConfigAssumption DEF Image, VMFileType
<1>2. vmFile' = Image(d, a, k) \/ vmFile' = vmFile \/ vmFile' = Corrupt
  BY DEF cutSave
<1>3. /\ vmFile' \in VMFileType
      /\ vmFile' # Corrupt => \A id \in vmFile'.active : vmFile'.db[id] # None
  <2>1. CASE vmFile' = Image(d, a, k)
    BY <1>1, <2>1
  <2>2. CASE vmFile' = vmFile
    BY <2>2 DEF FilesTypeOK
  <2>3. CASE vmFile' = Corrupt
    BY <2>3 DEF VMFileType
  <2>4. QED BY <1>2, <2>1, <2>2, <2>3
<1>4. domainFile' \in DomainFileType /\ portFile' \in PortFileType
  <2>1. /\ DomainIndex(d, a, k) \in [Domain -> VMName \cup {None}]
        /\ PortIndex(d, a, k) \in [PublicPort -> VMName \cup {None}]
    BY IndexType
  <2> QED BY <2>1 DEF cutSave, FilesTypeOK, DomainFileType, PortFileType
<1> QED BY <1>3, <1>4 DEF FilesTypeOK

\* The control state of the requests.
RequestsTypeOK ==
    /\ pc \in [Request -> PC]
    /\ arg \in [Request -> Arg \cup {None}]
    /\ \A r \in Request :
         /\ pc[r] # "idle" => arg[r] \in Arg
         /\ pc[r] \in {"building", "adding"} => arg[r].vm \in VM

\* A request that moves on keeps the control state well typed.
LEMMA GotoType ==
    ASSUME NEW r \in Request, NEW label \in PC, NEW a \in Arg,
           label \in {"building", "adding"} => a.vm \in VM,
           RequestsTypeOK, Goto(r, label, a)
    PROVE  RequestsTypeOK'
BY DEF Goto, RequestsTypeOK

\* So does a request that ends.
LEMMA DoneType ==
    ASSUME NEW r \in Request, RequestsTypeOK, Done(r)
    PROVE  RequestsTypeOK'
BY DEF Done, Goto, RequestsTypeOK, PC

\* MaxRevisionOf returns a revision or RevisionNone.
LEMMA MaxRevisionOfType ==
    ASSUME NEW ids
    PROVE  MaxRevisionOf(ids) \in Revision \cup {RevisionNone}
<1>1. CASE \E rev \in Revision : IsHighest(rev, ids)
  <2>1. (CHOOSE rev \in Revision : IsHighest(rev, ids)) \in Revision
    BY <1>1, Zenon
  <2>2. QED BY <1>1, <2>1 DEF MaxRevisionOf
<1>2. CASE ~\E rev \in Revision : IsHighest(rev, ids)
  BY <1>2 DEF MaxRevisionOf
<1>3. QED BY <1>1, <1>2

\* The type of the maps in memory.
MemoryTypeOK ==
    /\ status \in {"down", "starting", "up", "failed"}
    /\ db \in [VMName -> VM \cup {None}]
    /\ active \in SUBSET Present
    /\ greenhouse \in [VMName -> VM \cup {None}]
    /\ conf \in [VM -> Config]

LEMMA TypeParts ==
    TypeOK <=> disk \in Disk /\ MemoryTypeOK /\ FilesTypeOK /\ RequestsTypeOK
BY DEF TypeOK, MemoryTypeOK, FilesTypeOK, RequestsTypeOK, VMFileType,
       DomainFileType, PortFileType

(***************************************************************************)
(* The maps a request saves, once it has changed them.                     *)
(***************************************************************************)
Saved(r, d, a) ==
    LET x == arg[r] IN
    \/ /\ pc[r] = "adding" /\ db[x.id] = None
       /\ d = [db EXCEPT ![x.id] = x.vm]
       /\ a = IF x.active THEN DeactivateAll(x.id[1]) \cup {x.id} ELSE active
    \/ /\ pc[r] \in {"activating", "falling"}
       /\ d = db /\ a = ActiveAfter(x.id[1], x.rev)
    \/ /\ pc[r] = "deleting"
       /\ d = [db EXCEPT ![x.id] = None] /\ a = active \ {x.id}

\* A stop cuts the save of one request short, or of the maps as they are.
LEMMA StopsCut ==
    ASSUME Stops
    PROVE  \/ cutSave(db, active, conf)
           \/ \E r \in Request : \E d, a : Saved(r, d, a) /\ cutSave(d, a, conf)
BY DEF Stops, Saved

\* An Active flag belongs to an entry.
Savable(d, a) ==
    /\ d \in [VMName -> VM \cup {None}] /\ a \in SUBSET VMName
    /\ \A id \in a : d[id] # None

LEMMA SavedTypes ==
    ASSUME MemoryTypeOK, RequestsTypeOK, NEW r \in Request, NEW d, NEW a, Saved(r, d, a)
    PROVE  Savable(d, a)
<1>1. arg[r] \in Arg
  BY DEF Saved, RequestsTypeOK
<1>2. PICK x \in Arg : x = arg[r]
  BY <1>1
<1>3. /\ db \in [VMName -> VM \cup {None}] /\ active \in SUBSET VMName
      /\ \A id \in active : db[id] # None
  BY DEF MemoryTypeOK, Present
<1>4. CASE /\ pc[r] = "adding" /\ d = [db EXCEPT ![x.id] = x.vm]
           /\ a = IF x.active THEN DeactivateAll(x.id[1]) \cup {x.id} ELSE active
  <2>1. x.vm \in VM /\ x.id \in VMName
    BY <1>2, <1>4 DEF RequestsTypeOK, Arg
  <2> QED BY <1>3, <1>4, <2>1, SentinelAssumption DEF Savable, DeactivateAll
<1>5. CASE d = db /\ a = ActiveAfter(x.id[1], x.rev)
  BY <1>3, <1>5 DEF Savable, ActiveAfter, DeactivateAll, EntriesOf, Present
<1>6. CASE d = [db EXCEPT ![x.id] = None] /\ a = active \ {x.id}
  BY <1>3, <1>6 DEF Savable
<1> QED BY <1>2, <1>4, <1>5, <1>6 DEF Saved

LEMMA MemorySavable == MemoryTypeOK => Savable(db, active) /\ conf \in [VM -> Config]
BY DEF MemoryTypeOK, Savable, Present

LEMMA TypeInit == Init => TypeOK
<1> SUFFICES ASSUME Init PROVE TypeOK
  OBVIOUS
<1> USE ConfigAssumption DEF Init
<1>1. db \in [VMName -> VM \cup {None}] /\ active = {} /\ conf \in [VM -> Config]
  BY DEF NoEntries
<1>2. vmFile \in VMFileType /\ vmFile.active = {}
  BY <1>1 DEF Image, VMFileType
<1>3. RequestsTypeOK
  BY DEF RequestsTypeOK, AllIdle, PC
<1>4. MemoryTypeOK
  BY <1>1 DEF MemoryTypeOK, NoEntries
<1>5. FilesTypeOK
  BY <1>2 DEF FilesTypeOK, DomainFileType, PortFileType
<1>6. QED BY <1>3, <1>4, <1>5, TypeParts DEF Init

(***************************************************************************)
(* Every step keeps the types.  One step per action; saving is the         *)
(* business of SaveType, the control state that of GotoType and DoneType.  *)
(***************************************************************************)
LEMMA TypeNext == TypeOK /\ [Next]_vars => TypeOK'
<1>0. disk \in Disk /\ [Next]_vars => (disk \in Disk)'
  BY DEF Next, vars
<1> SUFFICES ASSUME MemoryTypeOK, FilesTypeOK, RequestsTypeOK, [Next]_vars
             PROVE  MemoryTypeOK' /\ FilesTypeOK' /\ RequestsTypeOK'
  BY <1>0, TypeParts, PTL
<1> USE DEF memory, files
<1>1. ASSUME NEW r \in Request, NEW n \in Name, NEW c \in Config, NEW act \in BOOLEAN,
             NewVM(r, n, c, act)
      PROVE  MemoryTypeOK' /\ FilesTypeOK' /\ RequestsTypeOK'
  <2> DEFINE rev == GetNextRevisionForName(n)
  <2>1. PICK v \in VM :
          /\ conf' = [conf EXCEPT ![v] = c]
          /\ AddToGreenhouse(<<n, rev>>, v)
          /\ Goto(r, "building", [id |-> <<n, rev>>, rev |-> rev, vm |-> v,
                                  conf |-> c, active |-> act])
    BY <1>1 DEF NewVM
  <2>2. rev \in Revision
    BY <1>1 DEF NewVM
  <2> HIDE DEF rev
  <2>3. RequestsTypeOK'
    BY <2>1, <2>2, GotoType DEF Arg, PC, VMName
  <2>4. MemoryTypeOK'
    BY <1>1, <2>1, <2>2 DEF NewVM, AddToGreenhouse, MemoryTypeOK, VMName, Present
  <2>5. FilesTypeOK'
    <3>1. CASE UNCHANGED files
      BY <3>1 DEF FilesTypeOK
    <3>2. CASE \E ok \in BOOLEAN : save(db, active, conf, ok)
      BY <3>2, SaveType DEF MemoryTypeOK, Present
    <3>3. QED BY <2>1, <3>1, <3>2 DEF AddToGreenhouse
  <2>6. QED BY <2>3, <2>4, <2>5
<1>2. ASSUME NEW r \in Request,
             \/ BuildFails(r) \/ AddCheck(r) \/ AddExists(r)
             \/ FallbackCheck(r) \/ FallbackRefused(r)
      PROVE  MemoryTypeOK' /\ FilesTypeOK' /\ RequestsTypeOK'
  <2>1. UNCHANGED <<status, memory, files>>
    BY <1>2 DEF BuildFails, AddCheck, AddExists, FallbackCheck, FallbackRefused
  <2>2. MemoryTypeOK' /\ FilesTypeOK'
    BY <2>1 DEF MemoryTypeOK, FilesTypeOK, Present
  <2>3. RequestsTypeOK'
    <3>1. CASE FallbackRefused(r)
      BY <3>1, DoneType DEF FallbackRefused
    <3>2. CASE BuildFails(r) \/ AddExists(r)
      BY <3>2, GotoType DEF BuildFails, AddExists, RequestsTypeOK, PC
    <3>3. CASE AddCheck(r)
      BY <3>3, GotoType DEF AddCheck, RequestsTypeOK, PC
    <3>4. CASE FallbackCheck(r)
      BY <3>4, GotoType DEF FallbackCheck, RequestsTypeOK, PC
    <3>5. QED BY <1>2, <3>1, <3>2, <3>3, <3>4
  <2>4. QED BY <2>2, <2>3
<1>3. ASSUME NEW r \in Request, AddCommit(r)
      PROVE  MemoryTypeOK' /\ FilesTypeOK' /\ RequestsTypeOK'
  <2> DEFINE a == arg[r]
             others == IF a.active THEN DeactivateAll(a.id[1]) ELSE active
             added == IF a.active THEN others \cup {a.id} ELSE others
             with == [db EXCEPT ![a.id] = a.vm]
  <2>1. a \in Arg /\ a.vm \in VM
    BY <1>3 DEF AddCommit, RequestsTypeOK
  <2>2. with \in [VMName -> VM \cup {None}] /\ a.id \in VMName /\ with[a.id] # None
    BY <2>1, SentinelAssumption DEF MemoryTypeOK, Arg
  <2>3. /\ added \in SUBSET VMName
        /\ \A id \in added : with[id] # None
        /\ others \in SUBSET Present
    BY <2>1, <2>2, SentinelAssumption DEF MemoryTypeOK, Present, DeactivateAll, Arg
  <2>4. PICK ok \in BOOLEAN : /\ save(with, added, conf, ok)
                              /\ db' = IF ok THEN with ELSE db
                              /\ active' = IF ok THEN added ELSE others
    BY <1>3 DEF AddCommit
  <2> HIDE DEF a, others, added, with
  <2>5. FilesTypeOK'
    BY <2>2, <2>3, <2>4, SaveType DEF MemoryTypeOK
  <2> USE DEF a, others, added, with
  <2>6. RequestsTypeOK'
    BY <1>3, <2>1, GotoType DEF AddCommit, PC
  <2>7. MemoryTypeOK'
    BY <1>3, <2>2, <2>3, <2>4 DEF AddCommit, MemoryTypeOK, Present
  <2>8. QED BY <2>5, <2>6, <2>7
<1>4. ASSUME NEW r \in Request, DeleteFromGreenhouse(r)
      PROVE  MemoryTypeOK' /\ FilesTypeOK' /\ RequestsTypeOK'
  BY <1>4, DoneType DEF DeleteFromGreenhouse, MemoryTypeOK, FilesTypeOK, Present
<1>5. ASSUME NEW n \in Name, NEW rev \in Revision \cup {RevisionNone}, NEW ok \in BOOLEAN,
             SetActiveRevision(n, rev, ok), UNCHANGED status
      PROVE  MemoryTypeOK' /\ FilesTypeOK'
  <2>1. ActiveAfter(n, rev) \in SUBSET Present
    BY DEF ActiveAfter, DeactivateAll, EntriesOf, MemoryTypeOK
  <2>2. MemoryTypeOK'
    BY <1>5, <2>1 DEF SetActiveRevision, MemoryTypeOK, Present
  <2>3. FilesTypeOK'
    BY <1>5, <2>1, SaveType DEF SetActiveRevision, MemoryTypeOK, Present
  <2>4. QED BY <2>2, <2>3
<1>6. ASSUME NEW r \in Request, NEW n \in Name, NEW rev \in Revision \cup {RevisionNone},
             ActivateCheck(r, n, rev)
      PROVE  MemoryTypeOK' /\ FilesTypeOK' /\ RequestsTypeOK'
  <2>1. [id |-> <<n, 0>>, rev |-> rev, vm |-> None,
         conf |-> Blank, active |-> FALSE] \in Arg
    BY ConfigAssumption DEF Arg, VMName, Revision
  <2>2. RequestsTypeOK'
    BY <1>6, <2>1, GotoType DEF ActivateCheck, PC
  <2>3. QED BY <1>6, <2>2 DEF ActivateCheck, MemoryTypeOK, FilesTypeOK, Present
<1>7. ASSUME NEW r \in Request, ActivateCommit(r)
      PROVE  MemoryTypeOK' /\ FilesTypeOK' /\ RequestsTypeOK'
  <2>1. arg[r].id[1] \in Name /\ arg[r].rev \in Revision \cup {RevisionNone}
    BY <1>7 DEF ActivateCommit, RequestsTypeOK, Arg, VMName
  <2>2. QED BY <1>7, <1>5, <2>1, DoneType DEF ActivateCommit
<1>8. ASSUME NEW r \in Request, NEW id \in VMName, DeleteLookup(r, id)
      PROVE  MemoryTypeOK' /\ FilesTypeOK' /\ RequestsTypeOK'
  <2> DEFINE rev == FallbackRevision(id)
             a == [id |-> id, rev |-> rev, vm |-> None,
                   conf |-> Blank, active |-> id \in active]
  <2>1. rev \in Revision \cup {RevisionNone}
    BY MaxRevisionOfType DEF FallbackRevision
  <2> HIDE DEF rev
  <2>2. a \in Arg
    BY <2>1, ConfigAssumption DEF Arg
  <2>3. \/ Goto(r, "fallback", a)
        \/ Goto(r, "deleting", a)
    BY <1>8 DEF DeleteLookup, rev
  <2>4. RequestsTypeOK'
    BY <2>2, <2>3, GotoType DEF PC
  <2>5. QED BY <1>8, <2>4 DEF DeleteLookup, MemoryTypeOK, FilesTypeOK, Present
<1>9. ASSUME NEW r \in Request, FallbackCommit(r)
      PROVE  MemoryTypeOK' /\ FilesTypeOK' /\ RequestsTypeOK'
  <2>1. arg[r] \in Arg
    BY <1>9 DEF FallbackCommit, RequestsTypeOK
  <2>2. arg[r].id[1] \in Name /\ arg[r].rev \in Revision \cup {RevisionNone}
    BY <2>1 DEF Arg, VMName
  <2>3. MemoryTypeOK' /\ FilesTypeOK'
    BY <1>9, <1>5, <2>2 DEF FallbackCommit
  <2>4. RequestsTypeOK'
    BY <1>9, <2>1, GotoType, DoneType DEF FallbackCommit, PC
  <2>5. QED BY <2>3, <2>4
<1>10. ASSUME NEW r \in Request, DeleteCommit(r)
       PROVE  MemoryTypeOK' /\ FilesTypeOK' /\ RequestsTypeOK'
  <2> DEFINE without == [db EXCEPT ![arg[r].id] = None]
             remaining == active \ {arg[r].id}
  <2>1. /\ without \in [VMName -> VM \cup {None}]
        /\ remaining \in SUBSET VMName
        /\ \A id \in remaining : without[id] # None
    BY DEF MemoryTypeOK, Present
  <2>2. PICK ok \in BOOLEAN : save(without, remaining, conf, ok)
    BY <1>10 DEF DeleteCommit
  <2> HIDE DEF without, remaining
  <2>3. FilesTypeOK'
    BY <2>1, <2>2, SaveType DEF MemoryTypeOK
  <2> USE DEF without, remaining
  <2>4. MemoryTypeOK'
    BY <1>10, <2>1 DEF DeleteCommit, MemoryTypeOK, Present
  <2>5. QED BY <1>10, <2>3, <2>4, DoneType DEF DeleteCommit
<1>11. ASSUME NEW r \in Request, NEW id \in VMName, NEW c \in Config,
              RedefineCheck(r, id, c)
       PROVE  MemoryTypeOK' /\ FilesTypeOK' /\ RequestsTypeOK'
  <2>1. [id |-> id, rev |-> id[2], vm |-> db[id],
         conf |-> c, active |-> id \in active] \in Arg
    BY DEF Arg, VMName, MemoryTypeOK
  <2>2. RequestsTypeOK'
    BY <1>11, <2>1, GotoType DEF RedefineCheck, PC
  <2>3. QED BY <1>11, <2>2 DEF RedefineCheck, MemoryTypeOK, FilesTypeOK, Present
<1>12. ASSUME NEW r \in Request, RedefineWrite(r)
       PROVE  MemoryTypeOK' /\ FilesTypeOK' /\ RequestsTypeOK'
  <2>1. arg[r] \in Arg /\ arg[r].conf \in Config
    BY <1>12 DEF RedefineWrite, RequestsTypeOK, Arg
  <2>2. RequestsTypeOK'
    BY <1>12, <2>1, GotoType DEF RedefineWrite, PC
  <2>3. QED BY <1>12, <2>1, <2>2
            DEF RedefineWrite, MemoryTypeOK, FilesTypeOK, Present
<1>13. ASSUME NEW r \in Request, Update(r)
       PROVE  MemoryTypeOK' /\ FilesTypeOK' /\ RequestsTypeOK'
  <2>1. FilesTypeOK'
    BY <1>13, SaveType DEF Update, MemoryTypeOK, Present
  <2>2. QED BY <1>13, <2>1, DoneType DEF Update, MemoryTypeOK, Present
<1>14. ASSUME Crash
       PROVE  MemoryTypeOK' /\ FilesTypeOK' /\ RequestsTypeOK'
  <2>1. MemoryTypeOK'
    BY <1>14, ConfigAssumption DEF Crash, NoEntries, MemoryTypeOK, Present
  <2>2. FilesTypeOK'
    <3>1. \E d, a : Savable(d, a) /\ cutSave(d, a, conf)
      BY <1>14, StopsCut, SavedTypes, MemorySavable DEF Crash
    <3> QED BY <3>1, CutType, MemorySavable DEF Savable
  <2>3. RequestsTypeOK'
    BY <1>14 DEF Crash, RequestsTypeOK, AllIdle, PC
  <2>4. QED BY <2>1, <2>2, <2>3
<1>15. ASSUME Start
       PROVE  MemoryTypeOK' /\ FilesTypeOK' /\ RequestsTypeOK'
  <2>1. RequestsTypeOK'
    BY <1>15 DEF Start, RequestsTypeOK
  <2>2. CASE vmFile = Corrupt
    BY <1>15, <2>1, <2>2 DEF Start, MemoryTypeOK, FilesTypeOK, Present
  <2>3. CASE vmFile # Corrupt
    <3>1. /\ vmFile.db \in [VMName -> VM \cup {None}]
          /\ vmFile.active \in SUBSET VMName
          /\ vmFile.conf \in [VM -> Config]
          /\ \A id \in vmFile.active : vmFile.db[id] # None
      BY <2>3 DEF FilesTypeOK, VMFileType
    <3>2. PICK ok \in BOOLEAN : /\ save(vmFile.db, vmFile.active, vmFile.conf, ok)
                                /\ status' = IF ok THEN "starting" ELSE "failed"
      BY <1>15, <2>3 DEF Start
    <3>3. FilesTypeOK'
      BY <3>1, <3>2, SaveType
    <3>4. MemoryTypeOK'
      BY <1>15, <2>3, <3>1, <3>2 DEF Start, MemoryTypeOK, Present
    <3>5. QED BY <2>1, <3>3, <3>4
  <2>4. QED BY <2>2, <2>3
<1>16. ASSUME InitVMDB
       PROVE  MemoryTypeOK' /\ FilesTypeOK' /\ RequestsTypeOK'
  <2>1. FilesTypeOK'
    BY <1>16, SaveType DEF InitVMDB, MemoryTypeOK, Present
  <2>2. QED BY <1>16, <2>1 DEF InitVMDB, MemoryTypeOK, RequestsTypeOK, Present
<1>17. ASSUME StartStops
       PROVE  MemoryTypeOK' /\ FilesTypeOK' /\ RequestsTypeOK'
  <2>1. FilesTypeOK'
    BY <1>17, CutType DEF StartStops, FilesTypeOK, VMFileType
  <2>2. QED BY <1>17, <2>1 DEF StartStops, MemoryTypeOK, RequestsTypeOK, Present
<1>18. CASE UNCHANGED vars
  BY <1>18 DEF vars, MemoryTypeOK, FilesTypeOK, RequestsTypeOK, Present
<1>19. QED BY <1>1, <1>2, <1>3, <1>4, <1>6, <1>7, <1>8, <1>9, <1>10, <1>11, <1>12,
              <1>13, <1>14, <1>15, <1>16, <1>17, <1>18 DEF Next, Handle

(***************************************************************************)
(* The maps, the files and the requests keep their types, and the Active   *)
(* flag always belongs to an existing entry: save(), the conflict checks   *)
(* and the generated lists never look up a VM that is not there.           *)
(***************************************************************************)
THEOREM TypeCorrect == Spec => []TypeOK
<1>1. QED BY TypeInit, TypeNext, PTL DEF Spec

-----------------------------------------------------------------------------
(* One active entry per name. *)

\* Saving entries with one active per name leaves such a file, or the old one.
LEMMA SaveOneActive ==
    ASSUME NEW d, NEW a, NEW k, NEW ok \in BOOLEAN,
           OneActive(a), OneActivePerName, save(d, a, k, ok)
    PROVE  vmFile' # Corrupt => OneActive(vmFile'.active)
<1>1. vmFile' = Image(d, a, k) \/ vmFile' = vmFile \/ vmFile' = Corrupt
  BY DEF save
<1>2. Image(d, a, k).active = a
  BY DEF Image
<1>3. QED BY <1>1, <1>2 DEF OneActivePerName

\* So does a save that a stop cuts short.
LEMMA CutOneActive ==
    ASSUME NEW d, NEW a, NEW k, OneActive(a), OneActivePerName, cutSave(d, a, k)
    PROVE  vmFile' # Corrupt => OneActive(vmFile'.active)
<1>1. vmFile' = Image(d, a, k) \/ vmFile' = vmFile \/ vmFile' = Corrupt
  BY DEF cutSave
<1>2. Image(d, a, k).active = a
  BY DEF Image
<1>3. QED BY <1>1, <1>2 DEF OneActivePerName

\* Recomputing the flags of a name leaves at most one of them set.
LEMMA ActiveAfterOne ==
    ASSUME NEW n, NEW rev, OneActive(active)
    PROVE  OneActive(ActiveAfter(n, rev))
BY DEF OneActive, ActiveAfter, DeactivateAll, EntriesOf, Present, VMName

\* A change leaves one active entry per name.
LEMMA SavedOneActive ==
    ASSUME OneActive(active), NEW r \in Request, NEW d, NEW a, Saved(r, d, a)
    PROVE  OneActive(a)
<1>1. OneActive(DeactivateAll(arg[r].id[1]) \cup {arg[r].id})
  BY DEF OneActive, DeactivateAll
<1>2. OneActive(ActiveAfter(arg[r].id[1], arg[r].rev))
  BY ActiveAfterOne
<1>3. OneActive(active \ {arg[r].id})
  BY DEF OneActive
<1> QED BY <1>1, <1>2, <1>3 DEF Saved

LEMMA OneActiveNext == TypeOK /\ OneActivePerName /\ [Next]_vars => OneActivePerName'
<1> SUFFICES ASSUME TypeOK, OneActivePerName, [Next]_vars
             PROVE  OneActivePerName'
  OBVIOUS
<1> USE DEF memory, files
<1>0. OneActive(active) /\ (vmFile # Corrupt => OneActive(vmFile.active))
  BY DEF OneActivePerName
<1>1. ASSUME UNCHANGED <<active, vmFile>>
      PROVE  OneActivePerName'
  BY <1>1 DEF OneActivePerName, OneActive
<1>2. ASSUME NEW d, NEW k, NEW ok \in BOOLEAN, save(d, active, k, ok), UNCHANGED active
      PROVE  OneActivePerName'
  BY <1>0, <1>2, SaveOneActive DEF OneActivePerName, OneActive
<1>3. ASSUME NEW r \in Request, NEW n \in Name, NEW c \in Config, NEW act \in BOOLEAN,
             NewVM(r, n, c, act)
      PROVE  OneActivePerName'
  BY <1>1, <1>2, <1>3 DEF NewVM, AddToGreenhouse
<1>4. ASSUME NEW r \in Request, AddCommit(r)
      PROVE  OneActivePerName'
  <2> DEFINE a == arg[r]
             others == IF a.active THEN DeactivateAll(a.id[1]) ELSE active
             added == IF a.active THEN others \cup {a.id} ELSE others
             with == [db EXCEPT ![a.id] = a.vm]
  <2>1. PICK ok \in BOOLEAN : /\ save(with, added, conf, ok)
                              /\ active' = IF ok THEN added ELSE others
    BY <1>4 DEF AddCommit
  <2>2. OneActive(others) /\ OneActive(added)
    BY <1>0 DEF OneActive, DeactivateAll
  <2> HIDE DEF a, others, added, with
  <2>3. vmFile' # Corrupt => OneActive(vmFile'.active)
    BY <2>1, <2>2, SaveOneActive
  <2>4. QED BY <2>1, <2>2, <2>3 DEF OneActivePerName, OneActive
<1>5. ASSUME NEW n, NEW rev, NEW ok \in BOOLEAN, SetActiveRevision(n, rev, ok)
      PROVE  OneActivePerName'
  <2>1. OneActive(ActiveAfter(n, rev))
    BY <1>0, ActiveAfterOne
  <2>2. vmFile' # Corrupt => OneActive(vmFile'.active)
    BY <1>5, <2>1, SaveOneActive DEF SetActiveRevision
  <2>3. QED BY <1>5, <2>1, <2>2 DEF SetActiveRevision, OneActivePerName, OneActive
<1>6. ASSUME NEW r \in Request, DeleteCommit(r)
      PROVE  OneActivePerName'
  <2> DEFINE without == [db EXCEPT ![arg[r].id] = None]
             remaining == active \ {arg[r].id}
  <2>1. PICK ok \in BOOLEAN : save(without, remaining, conf, ok)
    BY <1>6 DEF DeleteCommit
  <2>2. OneActive(remaining)
    BY <1>0 DEF OneActive
  <2>3. active' = remaining
    BY <1>6 DEF DeleteCommit
  <2> HIDE DEF without, remaining
  <2>4. vmFile' # Corrupt => OneActive(vmFile'.active)
    BY <2>1, <2>2, SaveOneActive
  <2>5. QED BY <2>2, <2>3, <2>4 DEF OneActivePerName, OneActive
<1>7. ASSUME Crash PROVE OneActivePerName'
  <2>1. \E d, a : OneActive(a) /\ cutSave(d, a, conf)
    BY <1>0, <1>7, StopsCut, SavedOneActive DEF Crash
  <2>2. vmFile' # Corrupt => OneActive(vmFile'.active)
    BY <2>1, CutOneActive
  <2>3. QED BY <1>7, <2>2 DEF Crash, OneActivePerName, OneActive
<1>8. ASSUME Start PROVE OneActivePerName'
  <2>1. CASE vmFile = Corrupt
    BY <1>1, <1>8, <2>1 DEF Start
  <2>2. CASE vmFile # Corrupt
    <3>1. PICK ok \in BOOLEAN : save(vmFile.db, vmFile.active, vmFile.conf, ok)
      BY <1>8, <2>2 DEF Start
    <3>2. active' = vmFile.active /\ OneActive(vmFile.active)
      BY <1>0, <1>8, <2>2 DEF Start
    <3>3. vmFile' # Corrupt => OneActive(vmFile'.active)
      BY <3>1, <3>2, SaveOneActive
    <3>4. QED BY <3>2, <3>3 DEF OneActivePerName, OneActive
  <2>3. QED BY <2>1, <2>2
<1>9. ASSUME InitVMDB PROVE OneActivePerName'
  BY <1>2, <1>9 DEF InitVMDB
<1>10. ASSUME NEW r \in Request, Handle(r) PROVE OneActivePerName'
  <2>1. CASE \/ BuildFails(r) \/ AddCheck(r) \/ AddExists(r) \/ DeleteFromGreenhouse(r)
             \/ FallbackCheck(r) \/ FallbackRefused(r) \/ RedefineWrite(r)
    BY <1>1, <2>1 DEF BuildFails, AddCheck, AddExists, DeleteFromGreenhouse,
                      FallbackCheck, FallbackRefused, RedefineWrite
  <2>2. CASE \/ \E n \in Name, rev \in Revision \cup {RevisionNone} : ActivateCheck(r, n, rev)
             \/ \E id \in VMName : DeleteLookup(r, id)
             \/ \E id \in VMName, c \in Config : RedefineCheck(r, id, c)
    BY <1>1, <2>2 DEF ActivateCheck, DeleteLookup, RedefineCheck
  <2>3. CASE ActivateCommit(r) \/ FallbackCommit(r)
    BY <1>5, <2>3 DEF ActivateCommit, FallbackCommit
  <2>4. CASE Update(r)
    BY <1>2, <2>4 DEF Update
  <2>5. QED BY <1>3, <1>4, <1>6, <1>10, <2>1, <2>2, <2>3, <2>4 DEF Handle
<1>11. ASSUME StartStops PROVE OneActivePerName'
  <2>1. vmFile' # Corrupt => OneActive(vmFile'.active)
    BY <1>0, <1>11, CutOneActive DEF StartStops
  <2>2. active' = active
    BY <1>11 DEF StartStops
  <2>3. QED BY <1>0, <2>1, <2>2 DEF OneActivePerName, OneActive
<1>12. CASE UNCHANGED vars
  BY <1>1, <1>12 DEF vars
<1>13. QED BY <1>7, <1>8, <1>9, <1>10, <1>11, <1>12 DEF Next

(***************************************************************************)
(* "Only one entry can be active per name", in memory and in the database  *)
(* file, whatever requests run concurrently, whichever writes fail and     *)
(* wherever mulchd stops: each change of the flags is one critical section *)
(* that recomputes all those of the name.                                  *)
(***************************************************************************)
THEOREM OneActiveRevision == Spec => []OneActivePerName
<1>1. Init => OneActivePerName
  BY DEF Init, Image, OneActivePerName, OneActive
<1>2. QED BY <1>1, OneActiveNext, TypeCorrect, PTL DEF Spec

-----------------------------------------------------------------------------
(* Durability. *)

\* On a sound disk, the database file is what was saved, even if the domain
\* or port list then turns out to be in conflict.
LEMMA SaveWrites ==
    ASSUME NEW d, NEW a, NEW k, NEW ok \in BOOLEAN, disk = "sound", save(d, a, k, ok)
    PROVE  vmFile'.db = d /\ vmFile'.active = a
<1>1. vmFile' = Image(d, a, k)
  BY DEF save
<1>2. QED BY <1>1 DEF Image

LEMMA DurableNext ==
    ASSUME TypeOK, Durable, [Next]_vars
    PROVE  Durable'
<1>0. UNCHANGED disk
  BY DEF Next, vars
<1> SUFFICES ASSUME disk = "sound"
             PROVE  Durable'
  BY <1>0 DEF Durable
<1> USE DEF memory, files
<1>1. ASSUME UNCHANGED <<status, db, active, vmFile>> PROVE Durable'
  BY <1>0, <1>1 DEF Durable, Present, Running
<1>s. ASSUME ~Running' PROVE Durable'
  BY <1>s DEF Durable
<1>2. ASSUME NEW d, NEW a, NEW k, NEW ok \in BOOLEAN, save(d, a, k, ok),
             active' \subseteq a, \A id \in Present' : d[id] = db'[id]
      PROVE  Durable'
  BY <1>2, SaveWrites DEF Durable
<1>3. ASSUME NEW r \in Request, NEW n \in Name, NEW c \in Config, NEW act \in BOOLEAN,
             NewVM(r, n, c, act)
      PROVE  Durable'
  <2>1. CASE UNCHANGED files
    BY <1>1, <1>3, <2>1 DEF NewVM
  <2>2. CASE \E ok \in BOOLEAN : save(db, active, conf, ok)
    BY <1>2, <1>3, <2>2 DEF NewVM, Present
  <2>3. QED BY <1>3, <2>1, <2>2 DEF NewVM, AddToGreenhouse
<1>4. ASSUME NEW r \in Request, AddCommit(r)
      PROVE  Durable'
  <2> DEFINE a == arg[r]
             others == IF a.active THEN DeactivateAll(a.id[1]) ELSE active
             added == IF a.active THEN others \cup {a.id} ELSE others
             with == [db EXCEPT ![a.id] = a.vm]
  <2>1. PICK ok \in BOOLEAN : /\ save(with, added, conf, ok)
                              /\ db' = IF ok THEN with ELSE db
                              /\ active' = IF ok THEN added ELSE others
    BY <1>4 DEF AddCommit
  <2>2. others \subseteq added
    OBVIOUS
  <2>3. \A id \in VMName : db[id] # None => with[id] = db[id]
    BY <1>4 DEF AddCommit, TypeOK
  <2>4. \A id \in Present' : with[id] = db'[id]
    BY <2>1, <2>3 DEF Present
  <2> HIDE DEF a, others, added, with
  <2>5. QED BY <1>2, <2>1, <2>2, <2>4
<1>5. ASSUME NEW n, NEW rev, NEW ok \in BOOLEAN, SetActiveRevision(n, rev, ok)
      PROVE  Durable'
  BY <1>2, <1>5 DEF SetActiveRevision, Present
<1>6. ASSUME NEW r \in Request, DeleteCommit(r)
      PROVE  Durable'
  <2> DEFINE without == [db EXCEPT ![arg[r].id] = None]
             remaining == active \ {arg[r].id}
  <2>1. PICK ok \in BOOLEAN : save(without, remaining, conf, ok)
    BY <1>6 DEF DeleteCommit
  <2>2. db' = without /\ active' = remaining
    BY <1>6 DEF DeleteCommit
  <2> HIDE DEF without, remaining
  <2>3. QED BY <1>2, <2>1, <2>2
<1>7. ASSUME Crash \/ StartStops PROVE Durable'
  BY <1>7, <1>s DEF Crash, StartStops, Running
<1>8. ASSUME Start PROVE Durable'
  <2>1. CASE vmFile = Corrupt
    BY <1>8, <1>s, <2>1 DEF Start, Running
  <2>2. CASE vmFile # Corrupt
    BY <1>2, <1>8, <2>2 DEF Start
  <2>3. QED BY <2>1, <2>2
<1>9. ASSUME InitVMDB PROVE Durable'
  BY <1>2, <1>9 DEF InitVMDB, Present
<1>10. ASSUME NEW r \in Request, Handle(r) PROVE Durable'
  <2>1. CASE \/ BuildFails(r) \/ AddCheck(r) \/ AddExists(r) \/ DeleteFromGreenhouse(r)
             \/ FallbackCheck(r) \/ FallbackRefused(r) \/ RedefineWrite(r)
    BY <1>1, <2>1 DEF BuildFails, AddCheck, AddExists, DeleteFromGreenhouse,
                      FallbackCheck, FallbackRefused, RedefineWrite
  <2>2. CASE \/ \E n \in Name, rev \in Revision \cup {RevisionNone} : ActivateCheck(r, n, rev)
             \/ \E id \in VMName : DeleteLookup(r, id)
             \/ \E id \in VMName, c \in Config : RedefineCheck(r, id, c)
    BY <1>1, <2>2 DEF ActivateCheck, DeleteLookup, RedefineCheck
  <2>3. CASE ActivateCommit(r) \/ FallbackCommit(r)
    BY <1>5, <2>3 DEF ActivateCommit, FallbackCommit
  <2>4. CASE Update(r)
    BY <1>2, <2>4 DEF Update, Present
  <2>5. QED BY <1>3, <1>4, <1>6, <1>10, <2>1, <2>2, <2>3, <2>4 DEF Handle
<1>11. CASE UNCHANGED vars
  BY <1>1, <1>11 DEF vars
<1>12. QED BY <1>7, <1>8, <1>9, <1>10, <1>11 DEF Next

(***************************************************************************)
(* As long as the disk is sound, a change is in the database file before   *)
(* the lock is released, with the Active flags: a restart would find them. *)
(* It holds for concurrent requests, for saves that end on a conflict (the *)
(* database file is written before the conflict is noticed) and across     *)
(* restarts; what a stop may cut short is the save of the next change.     *)
(***************************************************************************)
THEOREM DurableChanges == Spec => []Durable
<1>1. Init => Durable
  BY DEF Init, Image, Durable, Present, NoEntries
<1>2. TypeOK /\ Durable /\ [Next]_vars => Durable'
  BY DurableNext
<1>3. QED BY <1>1, <1>2, TypeCorrect, PTL DEF Spec

-----------------------------------------------------------------------------
(* Revisions. *)

\* A name with entries has a highest revision.
LEMMA HighestExists ==
    ASSUME NEW ids \in SUBSET VMName, ids # {}
    PROVE  MaxRevisionOf(ids) # RevisionNone /\ \E id \in ids : id[2] = MaxRevisionOf(ids)
<1>1. PICK below : below = {MaxRevision - id[2] : id \in ids}
  OBVIOUS
<1>2. below \in SUBSET Nat /\ \A id \in ids : id[2] \in Int
  BY <1>1, ConfigAssumption DEF VMName, Revision
<1>3. PICK least \in below : \A m \in below : least <= m
  <2>1. PICK id \in ids : TRUE
    OBVIOUS
  <2>2. MaxRevision - id[2] \in below
    BY <1>1
  <2>3. PICK m \in below : \A n \in below : <<n, m>> \notin OpToRel(<, Nat)
    BY <1>2, <2>2, NatLessThanWellFounded, WFMin, Zenon
  <2>4. \A n \in below : n \in Nat /\ ~(n < m)
    BY <1>2, <2>3 DEF OpToRel
  <2> QED BY <1>2, <2>4
<1>4. PICK highest \in ids : least = MaxRevision - highest[2]
  BY <1>1
<1>5. highest[2] \in Revision
  BY DEF VMName
<1>6. \A id \in ids : id[2] <= highest[2]
  <2> TAKE id \in ids
  <2>1. least <= MaxRevision - id[2]
    BY <1>1, <1>3
  <2> QED BY <1>2, <1>4, <2>1, ConfigAssumption
<1>7. IsHighest(highest[2], ids)
  BY <1>6 DEF IsHighest
<1>8. PICK rev : rev = MaxRevisionOf(ids)
  OBVIOUS
<1>9. rev \in Revision /\ IsHighest(rev, ids)
  <2>1. \E r \in Revision : IsHighest(r, ids)
    BY <1>5, <1>7
  <2>2. LET m == CHOOSE r \in Revision : IsHighest(r, ids)
        IN  m \in Revision /\ IsHighest(m, ids)
    BY <2>1, Zenon
  <2> QED BY <1>8, <2>1, <2>2 DEF MaxRevisionOf
<1> QED BY <1>8, <1>9, ConfigAssumption DEF IsHighest, Revision, RevisionNone

-----------------------------------------------------------------------------
(* Changes that do not cross.                                              *)

\* A request is between its first check of the maps and its last save.
Changing == {"adding", "fallback", "falling", "deleting",
             "activating", "redefining", "updating"}

(***************************************************************************)
(* One change at a time: any number of VMs may be under construction, but  *)
(* no request checks the maps while another is between its own check and   *)
(* its save.  The code does not enforce it: runs of overlapping requests   *)
(* show what happens otherwise.                                            *)
(***************************************************************************)
Serial ==
    \A r, q \in Request : pc[r] \in Changing /\ pc[q] \in Changing => r = q

\* No configuration has two ports behind the same public port.
OnePortEach ==
    \A c \in Config : \A p, q \in c.ports : p[1] = q[1] => p = q

NoClash(d, a, k) == ~DomainClash(d, a, k) /\ ~PortClash(d, a, k)

\* A VM object has one name.
OwnVM(d) == \A x, y \in VMName : d[x] # None /\ d[x] = d[y] => x = y

Building(r) == pc[r] \in {"building", "adding"}

\* The VM objects being built are not those of the database.
Apart ==
    \A r \in Request : Building(r) =>
        /\ \A id \in VMName : db[id] # arg[r].vm
        /\ \A q \in Request \ {r} : Building(q) => arg[q].vm # arg[r].vm

\* What a request has checked is still true when it changes the maps.
Checked(r) ==
    LET a == arg[r] IN
    /\ pc[r] = "adding" /\ a.active => ConflictFree(a.id[1], conf[a.vm])
    /\ pc[r] \in {"fallback", "falling"} => a.rev # RevisionNone /\ a.rev # a.id[2]
    /\ pc[r] \in {"falling", "activating"} => CanActivate(a.id[1], a.rev)
    /\ pc[r] = "deleting" /\ a.id \in active => EntriesOf(a.id[1]) = {a.id}
    /\ pc[r] = "redefining" =>
          /\ a.id \in Present /\ a.vm = db[a.id]
          /\ a.id \in active => ConflictFree(a.id[1], a.conf)

\* What a restart will load has no conflict.
FileOK ==
    vmFile # Corrupt =>
        /\ OwnVM(vmFile.db)
        /\ NoClash(vmFile.db, vmFile.active, vmFile.conf)

\* On a sound disk, only a stop in the middle of a save leaves a torn file.
Current ==
    disk = "sound" =>
        /\ vmFile = Corrupt => ~Running
        /\ status = "failed" => vmFile = Corrupt
        /\ FilesCurrent

\* A daemon that does not run handles nothing.
Stopped == ~Running => pc = AllIdle

SerialIInv ==
    /\ OwnVM(db) /\ Apart /\ FileOK /\ Current
    /\ NoActiveConflict
    /\ \A r \in Request : Checked(r)

-----------------------------------------------------------------------------
(* Saves without conflict.                                                 *)

\* The image of the database keeps the configurations of its VMs.
LEMMA ImageConf ==
    ASSUME NEW d \in [VMName -> VM \cup {None}], NEW a \in SUBSET VMName, NEW k,
           \A id \in a : d[id] # None
    PROVE  \A id \in a : Image(d, a, k).conf[d[id]] = k[d[id]]
<1> SUFFICES ASSUME NEW id \in a
             PROVE  Image(d, a, k).conf[d[id]] = k[d[id]]
  OBVIOUS
<1>1. d[id] \in VM /\ \E x \in VMName : d[x] = d[id]
  OBVIOUS
<1> QED BY <1>1 DEF Image

\* Only the configurations of the active VMs matter to the conflicts and the lists.
LEMMA SameConf ==
    ASSUME NEW d, NEW a, NEW k, NEW m, \A id \in a : k[d[id]] = m[d[id]]
    PROVE  /\ NoClash(d, a, k) <=> NoClash(d, a, m)
           /\ DomainIndex(d, a, k) = DomainIndex(d, a, m)
           /\ PortIndex(d, a, k) = PortIndex(d, a, m)
<1>1. NoClash(d, a, k) <=> NoClash(d, a, m)
  BY DEF NoClash, DomainClash, PortClash
<1>2. DomainIndex(d, a, k) = DomainIndex(d, a, m)
  <2>1. \A dom : (CHOOSE x \in a : dom \in k[d[x]].domains)
                   = CHOOSE x \in a : dom \in m[d[x]].domains
    OBVIOUS
  <2>2. \A dom : (\E x \in a : dom \in k[d[x]].domains)
                   <=> \E x \in a : dom \in m[d[x]].domains
    OBVIOUS
  <2> QED BY <2>1, <2>2 DEF DomainIndex
<1>3. PortIndex(d, a, k) = PortIndex(d, a, m)
  <2> DEFINE P(port, x) == \E p \in k[d[x]].ports : p[1] = port
             Q(port, x) == \E p \in m[d[x]].ports : p[1] = port
  <2>1. /\ PortIndex(d, a, k) = [port \in PublicPort |-> IF \E x \in a : P(port, x)
                                  THEN CHOOSE x \in a : P(port, x) ELSE None]
        /\ PortIndex(d, a, m) = [port \in PublicPort |-> IF \E x \in a : Q(port, x)
                                  THEN CHOOSE x \in a : Q(port, x) ELSE None]
    BY DEF PortIndex
  <2>2. \A port : \A x \in a : P(port, x) <=> Q(port, x)
    OBVIOUS
  <2> HIDE DEF P, Q
  <2>3. \A port : (CHOOSE x \in a : P(port, x)) = CHOOSE x \in a : Q(port, x)
    BY <2>2
  <2>4. \A port : (\E x \in a : P(port, x)) <=> \E x \in a : Q(port, x)
    BY <2>2
  <2> QED BY <2>1, <2>3, <2>4
<1> QED BY <1>1, <1>2, <1>3

\* A save of entries without conflict leaves a file a restart loads without conflict.
LEMMA SaveKeepsFileOK ==
    ASSUME NEW d \in [VMName -> VM \cup {None}], NEW a \in SUBSET VMName, NEW k,
           NEW ok \in BOOLEAN, \A id \in a : d[id] # None,
           OwnVM(d), NoClash(d, a, k), FileOK, save(d, a, k, ok)
    PROVE  FileOK'
<1>1. vmFile' = Image(d, a, k) \/ vmFile' = vmFile \/ vmFile' = Corrupt
  BY DEF save
<1>2. PICK image : image = Image(d, a, k)
  OBVIOUS
<1>3. image.db = d /\ image.active = a
  BY <1>2 DEF Image
<1>4. NoClash(d, a, image.conf)
  BY <1>2, ImageConf, SameConf
<1> QED BY <1>1, <1>2, <1>3, <1>4 DEF FileOK, NoClash, OwnVM

LEMMA CutKeepsFileOK ==
    ASSUME NEW d \in [VMName -> VM \cup {None}], NEW a \in SUBSET VMName, NEW k,
           \A id \in a : d[id] # None,
           OwnVM(d), NoClash(d, a, k), FileOK, cutSave(d, a, k)
    PROVE  FileOK'
<1>1. vmFile' = Image(d, a, k) \/ vmFile' = vmFile \/ vmFile' = Corrupt
  BY DEF cutSave
<1>2. PICK image : image = Image(d, a, k)
  OBVIOUS
<1>3. image.db = d /\ image.active = a
  BY <1>2 DEF Image
<1>4. NoClash(d, a, image.conf)
  BY <1>2, ImageConf, SameConf
<1> QED BY <1>1, <1>2, <1>3, <1>4 DEF FileOK, NoClash, OwnVM

\* On a sound disk, a save cannot fail, and writes the three files.
LEMMA SaveWritesAll ==
    ASSUME NEW d, NEW a, NEW k, NEW ok \in BOOLEAN,
           disk = "sound", NoClash(d, a, k), save(d, a, k, ok)
    PROVE  /\ ok
           /\ vmFile' = Image(d, a, k)
           /\ domainFile' = DomainIndex(d, a, k)
           /\ portFile' = PortIndex(d, a, k)
BY DEF save, genDomainsDB, genPortsDB, NoClash

(***************************************************************************)
(* An entry of a name that is checked against the active entries of the    *)
(* other names brings no conflict.                                         *)
(***************************************************************************)
Grafts(n, c, others, id, d, k) ==
    /\ ConflictFree(n, c) /\ others \in SUBSET active
    /\ \A x \in others : x[1] # n /\ k[d[x]] = conf[db[x]]
    /\ k[d[id]] = c

LEMMA GraftNoClash ==
    ASSUME OnePortEach, NoActiveConflict, NEW n, NEW c \in Config,
           NEW others, NEW id, NEW d, NEW k, Grafts(n, c, others, id, d, k)
    PROVE  NoClash(d, others \cup {id}, k)
<1> USE DEF Grafts
<1>1. ASSUME NEW x \in others \cup {id}, NEW y \in others \cup {id}, x # y
      PROVE  k[d[x]].domains \cap k[d[y]].domains = {}
  BY <1>1 DEF NoActiveConflict, DomainClash, ConflictFree, DomainsFree
<1>2. ASSUME NEW x \in others \cup {id}, NEW y \in others \cup {id},
             NEW p \in k[d[x]].ports, NEW q \in k[d[y]].ports, p[1] = q[1]
      PROVE  x = y /\ p = q
  <2>1. CASE x \in others /\ y \in others
    BY <1>2, <2>1 DEF NoActiveConflict, PortClash
  <2>2. CASE x = id /\ y = id
    BY <1>2, <2>2 DEF OnePortEach
  <2>3. CASE x \in others /\ y = id
    BY <1>2, <2>3 DEF ConflictFree, PortsFree
  <2>4. CASE x = id /\ y \in others
    BY <1>2, <2>4 DEF ConflictFree, PortsFree
  <2> QED BY <2>1, <2>2, <2>3, <2>4
<1>3. ~DomainClash(d, others \cup {id}, k)
  BY <1>1 DEF DomainClash
<1>4. ~PortClash(d, others \cup {id}, k)
  BY <1>2 DEF PortClash
<1> QED BY <1>3, <1>4 DEF NoClash

\* Fewer active entries, fewer conflicts.
LEMMA FewerNoClash ==
    ASSUME NEW d, NEW a, NEW b \in SUBSET a, NEW k, NEW e, NoClash(d, a, k),
           \A x \in b : e[x] = d[x]
    PROVE  NoClash(e, b, k)
BY DEF NoClash, DomainClash, PortClash

\* Activating a revision that was checked brings no conflict.
LEMMA ActivateNoClash ==
    ASSUME TypeOK, OnePortEach, NoActiveConflict,
           NEW n, NEW rev \in Revision \cup {RevisionNone}, CanActivate(n, rev)
    PROVE  /\ NoClash(db, ActiveAfter(n, rev), conf)
           /\ rev # RevisionNone => <<n, rev>> \in ActiveAfter(n, rev)
<1>1. /\ DeactivateAll(n) \in SUBSET active /\ \A x \in DeactivateAll(n) : x[1] # n
  BY DEF DeactivateAll
<1>2. CASE rev = RevisionNone
  <2>1. ActiveAfter(n, rev) = DeactivateAll(n)
    BY <1>2, ConfigAssumption
       DEF ActiveAfter, EntriesOf, Present, VMName, Revision, RevisionNone
  <2> QED BY <1>1, <1>2, <2>1, FewerNoClash DEF NoActiveConflict, NoClash
<1>3. CASE rev # RevisionNone
  <2>1. <<n, rev>> \in Present /\ ConflictFree(n, conf[db[<<n, rev>>]])
    BY <1>3 DEF CanActivate
  <2>2. ActiveAfter(n, rev) = DeactivateAll(n) \cup {<<n, rev>>}
    BY <2>1 DEF ActiveAfter, EntriesOf, Present, VMName
  <2>3. conf[db[<<n, rev>>]] \in Config
    BY <2>1 DEF Present, TypeOK
  <2>4. NoClash(db, DeactivateAll(n) \cup {<<n, rev>>}, conf)
    <3>1. PICK c, others, id, d, k :
             /\ c \in Config /\ c = conf[db[<<n, rev>>]]
             /\ others = DeactivateAll(n) /\ id = <<n, rev>> /\ d = db /\ k = conf
      BY <2>3
    <3>2. Grafts(n, c, others, id, d, k)
      BY <1>1, <2>1, <3>1 DEF Grafts
    <3>3. NoClash(d, others \cup {id}, k)
      BY <3>1, <3>2, GraftNoClash
    <3> QED BY <3>1, <3>3
  <2> QED BY <2>2, <2>4
<1> QED BY <1>2, <1>3

-----------------------------------------------------------------------------
(* Steps of one request.                                                   *)

\* The other requests stay where they are.
Moves(r) == \A q \in Request \ {r} : pc'[q] = pc[q] /\ arg'[q] = arg[q]

LEMMA GotoMoves ==
    ASSUME TypeOK, NEW r \in Request, NEW label, NEW a, Goto(r, label, a)
    PROVE  Moves(r) /\ pc'[r] = label /\ arg'[r] = a
BY DEF TypeOK, Goto, Moves

\* What the invariant is shown inductive with.
Before == TypeOK /\ OneActivePerName /\ Stopped /\ SerialIInv /\ OnePortEach

\* A request that changes the maps is the only one that has checked anything.
LEMMA OthersUnchecked ==
    ASSUME NEW r \in Request, Moves(r),
           \/ Serial /\ pc[r] \in Changing
           \/ Serial' /\ pc'[r] \in Changing,
           NEW q \in Request \ {r}
    PROVE  Checked(q)'
<1>1. pc'[q] \notin Changing
  BY DEF Serial, Moves
<1> QED BY <1>1 DEF Checked, Changing

\* A step that saves nothing, and leaves the maps alone.
LEMMA QuietKeeps ==
    ASSUME Before, NEW r \in Request, Moves(r), pc[r] # "updating",
           UNCHANGED <<disk, status, db, active, conf, files>>,
           Building(r)' => Building(r) /\ arg'[r].vm = arg[r].vm,
           Checked(r)'
    PROVE  SerialIInv'
<1> USE DEF files
<1>1. OwnVM(db)' /\ FileOK' /\ NoActiveConflict'
  BY DEF Before, SerialIInv, OwnVM, FileOK, NoClash, NoActiveConflict
<1>2. Apart'
  BY DEF Before, SerialIInv, Apart, Building, Moves
<1>3. Current'
  BY DEF Before, SerialIInv, Current, FilesCurrent, Running, Moves
<1>4. ASSUME NEW q \in Request \ {r} PROVE Checked(q)'
  <2>1. Checked(q)
    BY DEF Before, SerialIInv
  <2> QED BY <2>1 DEF Checked, Moves, ConflictFree, DomainsFree, PortsFree,
                      CanActivate, EntriesOf, Present
<1> QED BY <1>1, <1>2, <1>3, <1>4 DEF SerialIInv

\* The steps of a construction that change nothing of the database.
LEMMA BuildKeeps ==
    ASSUME Before, UNCHANGED disk, NEW r \in Request,
           BuildFails(r) \/ AddCheck(r) \/ AddExists(r) \/ DeleteFromGreenhouse(r)
    PROVE  SerialIInv'
<1> USE DEF memory, files
<1>0. TypeOK
  BY DEF Before
<1>1. CASE BuildFails(r) \/ AddExists(r)
  <2>1. /\ Moves(r) /\ pc'[r] = "uproot" /\ pc[r] \in {"building", "adding"}
        /\ UNCHANGED <<status, memory, files>>
    BY <1>0, <1>1, GotoMoves DEF BuildFails, AddExists
  <2>2. Checked(r)' /\ ~Building(r)'
    BY <2>1 DEF Checked, Building
  <2> QED BY <2>1, <2>2, QuietKeeps
<1>2. CASE AddCheck(r)
  <2>1. /\ Moves(r) /\ pc'[r] = "adding" /\ arg'[r] = arg[r] /\ pc[r] = "building"
        /\ UNCHANGED <<status, memory, files>>
        /\ arg[r].active => ConflictFree(arg[r].id[1], conf[arg[r].vm])
    BY <1>0, <1>2, GotoMoves DEF AddCheck
  <2>2. Checked(r)'
    BY <2>1 DEF Checked, ConflictFree, DomainsFree, PortsFree
  <2>3. Building(r) /\ arg'[r].vm = arg[r].vm
    BY <2>1 DEF Building
  <2> QED BY <2>1, <2>2, <2>3, QuietKeeps
<1>3. CASE DeleteFromGreenhouse(r)
  <2>1. /\ Moves(r) /\ pc'[r] = "idle" /\ pc[r] = "uproot"
        /\ UNCHANGED <<status, db, active, conf, files>>
    BY <1>0, <1>3, GotoMoves DEF DeleteFromGreenhouse, Done
  <2>2. Checked(r)' /\ ~Building(r)'
    BY <2>1 DEF Checked, Building
  <2> QED BY <2>1, <2>2, QuietKeeps
<1> QED BY <1>1, <1>2, <1>3

\* The checks that come before a change.
LEMMA CheckKeeps ==
    ASSUME Before, UNCHANGED disk, NEW r \in Request,
           \/ \E n \in Name, rev \in Revision \cup {RevisionNone} : ActivateCheck(r, n, rev)
           \/ \E id \in VMName : DeleteLookup(r, id)
           \/ FallbackCheck(r) \/ FallbackRefused(r)
           \/ \E id \in VMName, c \in Config : RedefineCheck(r, id, c)
    PROVE  SerialIInv'
<1> USE DEF memory, files
<1>0. TypeOK
  BY DEF Before
<1>1. CASE \E n \in Name, rev \in Revision \cup {RevisionNone} : ActivateCheck(r, n, rev)
  <2>1. PICK n \in Name, rev \in Revision \cup {RevisionNone} : ActivateCheck(r, n, rev)
    BY <1>1
  <2>2. /\ Moves(r) /\ pc'[r] = "activating" /\ pc[r] = "idle"
        /\ arg'[r].id[1] = n /\ arg'[r].rev = rev
        /\ UNCHANGED <<status, memory, files>> /\ CanActivate(n, rev)
    BY <1>0, <2>1, GotoMoves DEF ActivateCheck, Idle
  <2>3. Checked(r)' /\ ~Building(r)'
    BY <2>2 DEF Checked, Building, CanActivate, EntriesOf, Present,
                ConflictFree, DomainsFree, PortsFree
  <2> QED BY <2>2, <2>3, QuietKeeps
<1>2. CASE \E id \in VMName : DeleteLookup(r, id)
  <2>1. PICK id \in VMName : DeleteLookup(r, id)
    BY <1>2
  <2>2. PICK rev : rev = FallbackRevision(id)
    OBVIOUS
  <2>3. PICK ids \in SUBSET VMName : ids = EntriesOf(id[1]) \ {id}
    BY DEF EntriesOf, Present
  <2>4. /\ Moves(r) /\ pc[r] = "idle" /\ UNCHANGED <<status, memory, files>>
        /\ pc'[r] = IF id \in active /\ rev # RevisionNone THEN "fallback" ELSE "deleting"
        /\ arg'[r].id = id /\ arg'[r].rev = rev /\ id \in Present
    BY <1>0, <2>1, <2>2, GotoMoves DEF DeleteLookup, Idle
  <2>5. rev # RevisionNone => rev # id[2]
    <3>1. ids # {} => \E x \in ids : x[2] = rev
      BY <2>2, <2>3, HighestExists DEF FallbackRevision
    <3>2. ids = {} => rev = RevisionNone
      BY <2>2, <2>3 DEF FallbackRevision, MaxRevisionOf, IsHighest
    <3>3. \A x \in ids : x[2] # id[2]
      BY <2>3 DEF EntriesOf, VMName
    <3> QED BY <3>1, <3>2, <3>3
  <2>6. rev = RevisionNone => EntriesOf(id[1]) = {id}
    <3>1. rev = RevisionNone => ids = {}
      BY <2>2, <2>3, HighestExists DEF FallbackRevision
    <3>2. id \in EntriesOf(id[1])
      BY <2>4 DEF EntriesOf
    <3> QED BY <2>3, <3>1, <3>2
  <2>7. Checked(r)' /\ ~Building(r)'
    BY <2>4, <2>5, <2>6 DEF Checked, Building, EntriesOf, Present
  <2> QED BY <2>4, <2>7, QuietKeeps
<1>3. CASE FallbackCheck(r)
  <2>1. /\ Moves(r) /\ pc'[r] = "falling" /\ arg'[r] = arg[r] /\ pc[r] = "fallback"
        /\ UNCHANGED <<status, memory, files>>
        /\ CanActivate(arg[r].id[1], arg[r].rev)
    BY <1>0, <1>3, GotoMoves DEF FallbackCheck
  <2>2. arg[r].rev # RevisionNone /\ arg[r].rev # arg[r].id[2]
    BY <2>1 DEF Before, SerialIInv, Checked
  <2>3. Checked(r)' /\ ~Building(r)'
    BY <2>1, <2>2 DEF Checked, Building, CanActivate, EntriesOf, Present,
                      ConflictFree, DomainsFree, PortsFree
  <2> QED BY <2>1, <2>3, QuietKeeps
<1>4. CASE FallbackRefused(r)
  <2>1. /\ Moves(r) /\ pc'[r] = "idle" /\ pc[r] = "fallback"
        /\ UNCHANGED <<status, memory, files>>
    BY <1>0, <1>4, GotoMoves DEF FallbackRefused, Done
  <2>2. Checked(r)' /\ ~Building(r)'
    BY <2>1 DEF Checked, Building
  <2> QED BY <2>1, <2>2, QuietKeeps
<1>5. CASE \E id \in VMName, c \in Config : RedefineCheck(r, id, c)
  <2>1. PICK id \in VMName, c \in Config : RedefineCheck(r, id, c)
    BY <1>5
  <2>2. /\ Moves(r) /\ pc'[r] = "redefining" /\ pc[r] = "idle"
        /\ arg'[r].id = id /\ arg'[r].vm = db[id] /\ arg'[r].conf = c
        /\ id \in Present /\ UNCHANGED <<status, memory, files>>
        /\ id \in active => ConflictFree(id[1], c)
    BY <1>0, <2>1, GotoMoves DEF RedefineCheck, Idle
  <2>3. Checked(r)' /\ ~Building(r)'
    BY <2>2 DEF Checked, Building, Present, ConflictFree, DomainsFree, PortsFree
  <2> QED BY <2>2, <2>3, QuietKeeps
<1> QED BY <1>1, <1>2, <1>3, <1>4, <1>5

-----------------------------------------------------------------------------
(* Steps that save.                                                        *)

\* The image of the database depends on the configurations of its VMs only.
LEMMA SameImage ==
    ASSUME NEW d \in [VMName -> VM \cup {None}], NEW a, NEW k, NEW m,
           \A id \in VMName : d[id] # None => k[d[id]] = m[d[id]]
    PROVE  Image(d, a, k) = Image(d, a, m)
<1>1. \A v \in VM : (IF \E id \in VMName : d[id] = v THEN k[v] ELSE Blank)
                  = (IF \E id \in VMName : d[id] = v THEN m[v] ELSE Blank)
  BY SentinelAssumption
<1> QED BY <1>1 DEF Image

(***************************************************************************)
(* What a save leaves: k is the configurations it writes, which those in   *)
(* memory may differ from only for VMs that are not in the database.       *)
(***************************************************************************)
LEMMA SaveKeeps ==
    ASSUME FileOK, UNCHANGED disk,
           NEW d \in [VMName -> VM \cup {None}], NEW a \in SUBSET VMName,
           NEW k \in [VM -> Config], NEW ok \in BOOLEAN,
           \A id \in a : d[id] # None, OwnVM(d), NoClash(d, a, k), save(d, a, k, ok),
           disk = "sound" /\ ok => status' # "failed",
           ok => /\ db' = d /\ active' = a
                 /\ \A id \in VMName : d[id] # None => conf'[d[id]] = k[d[id]]
    PROVE  FileOK' /\ Current'
<1>1. FileOK'
  BY SaveKeepsFileOK
<1>2. ASSUME disk = "sound"
      PROVE  vmFile' # Corrupt /\ status' # "failed" /\ FilesCurrent'
  <2>1. /\ db' = d /\ active' = a /\ status' # "failed"
        /\ \A id \in VMName : d[id] # None => conf'[d[id]] = k[d[id]]
        /\ vmFile' = Image(d, a, k)
        /\ domainFile' = DomainIndex(d, a, k) /\ portFile' = PortIndex(d, a, k)
    BY <1>2, SaveWritesAll
  <2>2. PICK m : m = conf'
    OBVIOUS
  <2>3. Image(d, a, k) = Image(d, a, m)
    BY <2>1, <2>2, SameImage
  <2>4. /\ DomainIndex(d, a, k) = DomainIndex(d, a, m)
        /\ PortIndex(d, a, k) = PortIndex(d, a, m)
    BY <2>1, <2>2, SameConf
  <2>5. vmFile' # Corrupt
    <3>1. Image(d, a, k) \in [db : [VMName -> VM \cup {None}], active : SUBSET VMName,
                                conf : [VM -> Config]]
      BY ConfigAssumption DEF Image
    <3> QED BY <2>1, <3>1, CorruptAssumption
  <2> QED BY <2>1, <2>2, <2>3, <2>4, <2>5 DEF FilesCurrent
<1> QED BY <1>1, <1>2 DEF Current

LEMMA NewVMKeeps ==
    ASSUME Before, TypeOK', UNCHANGED disk, NEW r \in Request, NEW n \in Name,
           NEW c \in Config, NEW act \in BOOLEAN, NewVM(r, n, c, act)
    PROVE  SerialIInv'
<1> USE DEF files
<1>0. TypeOK /\ SerialIInv
  BY DEF Before
<1>1. PICK v \in VM, id \in VMName : /\ Fresh(v) /\ conf' = [conf EXCEPT ![v] = c]
                         /\ AddToGreenhouse(id, v)
                         /\ Goto(r, "building", [id |-> id, rev |-> id[2], vm |-> v,
                                                 conf |-> c, active |-> act])
  <2>1. GetNextRevisionForName(n) \in Revision
    BY DEF NewVM
  <2>2. <<n, GetNextRevisionForName(n)>> \in VMName
    BY <2>1 DEF VMName
  <2>3. <<n, GetNextRevisionForName(n)>>[2] = GetNextRevisionForName(n)
    OBVIOUS
  <2> QED BY <2>2, <2>3 DEF NewVM
<1>2. /\ UNCHANGED <<status, db, active>> /\ Serving /\ pc[r] = "idle"
      /\ Moves(r) /\ pc'[r] = "building" /\ arg'[r].vm = v
  BY <1>0, <1>1, GotoMoves DEF NewVM, Idle
<1>3. /\ \A x \in VMName : db[x] # v
      /\ \A q \in Request : pc[q] # "idle" => arg[q].vm # v
  BY <1>0, <1>1, NoArgAssumption DEF Fresh, TypeOK
<1>4. PICK k : k = conf'
  OBVIOUS
<1>5. /\ \A x \in Present : k[db[x]] = conf[db[x]]
      /\ Image(db, active, k) = Image(db, active, conf)
      /\ DomainIndex(db, active, k) = DomainIndex(db, active, conf)
      /\ PortIndex(db, active, k) = PortIndex(db, active, conf)
      /\ NoClash(db, active, k) <=> NoClash(db, active, conf)
  <2>1. PICK d, a, m : d = db /\ a = active /\ m = conf
    OBVIOUS
  <2>2. /\ d \in [VMName -> VM \cup {None}] /\ a \in SUBSET VMName /\ m \in [VM -> Config]
        /\ \A x \in a : d[x] # None
    BY <1>0, <2>1 DEF TypeOK, Present
  <2>3. /\ \A x \in VMName : d[x] # None => k[d[x]] = m[d[x]]
        /\ \A x \in a : k[d[x]] = m[d[x]]
    BY <1>1, <1>3, <1>4, <2>1, <2>2
  <2>4. Image(d, a, k) = Image(d, a, m)
    BY <2>2, <2>3, SameImage
  <2>5. /\ DomainIndex(d, a, k) = DomainIndex(d, a, m)
        /\ PortIndex(d, a, k) = PortIndex(d, a, m)
        /\ NoClash(d, a, k) <=> NoClash(d, a, m)
    BY <2>3, SameConf
  <2> QED BY <2>1, <2>3, <2>4, <2>5 DEF Present
<1>6. OwnVM(db)'
  BY <1>0, <1>2 DEF SerialIInv, OwnVM
<1>7. Apart'
  BY <1>0, <1>2, <1>3 DEF SerialIInv, Apart, Building, Moves
<1>8. NoClash(db, active, conf) /\ NoActiveConflict'
  BY <1>0, <1>2, <1>4, <1>5 DEF SerialIInv, NoActiveConflict, NoClash
<1>9. FileOK' /\ Current'
  <2>1. CASE UNCHANGED files
    <3>1. FileOK'
      BY <1>0, <2>1 DEF SerialIInv, FileOK, NoClash
    <3>2. Current'
      BY <1>0, <1>2, <1>4, <1>5, <2>1
         DEF SerialIInv, Current, FilesCurrent, Running, Serving, Moves
    <3> QED BY <3>1, <3>2
  <2>2. CASE \E ok \in BOOLEAN : save(db, active, conf, ok)
    <3>1. PICK ok \in BOOLEAN : save(db, active, conf, ok)
      BY <2>2
    <3>2. /\ db \in [VMName -> VM \cup {None}] /\ active \in SUBSET VMName
          /\ conf \in [VM -> Config] /\ \A x \in active : db[x] # None
      BY <1>0 DEF TypeOK, Present
    <3>3. \A x \in VMName : db[x] # None => conf'[db[x]] = conf[db[x]]
      BY <1>4, <1>5 DEF Present
    <3>4. status' # "failed"
      BY <1>2 DEF Serving
    <3> QED BY <1>0, <1>2, <1>8, <3>1, <3>2, <3>3, <3>4, SaveKeeps DEF SerialIInv
  <2> QED BY <1>1, <2>1, <2>2 DEF AddToGreenhouse
<1>10. ASSUME NEW q \in Request PROVE Checked(q)'
  <2>1. CASE q = r
    BY <1>2, <2>1 DEF Checked
  <2>2. CASE q # r
    <3>1. Checked(q) /\ pc'[q] = pc[q] /\ arg'[q] = arg[q]
      BY <1>0, <1>2, <2>2 DEF SerialIInv, Moves
    <3>2. pc[q] = "adding" => k[arg[q].vm] = conf[arg[q].vm]
      BY <1>0, <1>1, <1>3, <1>4 DEF TypeOK
    <3>3. \A x \in active : k[db[x]] = conf[db[x]]
      BY <1>0, <1>5 DEF TypeOK
    <3>4. \A x \in Present' : x \in Present /\ k[db[x]] = conf[db[x]]
      BY <1>2, <1>5 DEF Present
    <3>5. \A m, e : ConflictFree(m, e) <=> ConflictFree(m, e)'
      BY <1>2, <1>4, <3>3 DEF ConflictFree, DomainsFree, PortsFree
    <3>6. /\ Present' = Present /\ \A m : EntriesOf(m)' = EntriesOf(m)
      BY <1>2 DEF Present, EntriesOf
    <3> QED BY <1>2, <1>4, <1>5, <3>1, <3>2, <3>5, <3>6 DEF Checked, CanActivate
  <2> QED BY <2>1, <2>2
<1> QED BY <1>6, <1>7, <1>8, <1>9, <1>10 DEF SerialIInv

(***************************************************************************)
(* What a request saves has no conflict: it was checked, and no other      *)
(* request has changed the maps since.                                     *)
(***************************************************************************)
LEMMA SavedNoClash ==
    ASSUME Before, NEW r \in Request, NEW d, NEW a, Saved(r, d, a)
    PROVE  OwnVM(d) /\ NoClash(d, a, conf)
<1>0. TypeOK /\ SerialIInv /\ OnePortEach /\ NoClash(db, active, conf) /\ OwnVM(db)
  BY DEF Before, SerialIInv, NoActiveConflict, NoClash
<1>1. PICK x \in Arg : x = arg[r]
  BY <1>0 DEF Saved, TypeOK
<1>2. CASE /\ pc[r] = "adding" /\ db[x.id] = None
           /\ d = [db EXCEPT ![x.id] = x.vm]
           /\ a = IF x.active THEN DeactivateAll(x.id[1]) \cup {x.id} ELSE active
  <2>1. PICK others, id : /\ others = IF x.active THEN DeactivateAll(x.id[1]) ELSE active
                          /\ id = x.id
    OBVIOUS
  <2>2. /\ id \in VMName /\ d[id] = x.vm
        /\ \A y \in VMName \ {id} : d[y] = db[y]
        /\ others \in SUBSET active /\ \A y \in others : y # id /\ d[y] = db[y]
    BY <1>0, <1>1, <1>2, <2>1 DEF TypeOK, Arg, Present, DeactivateAll
  <2>3. OwnVM(d)
    <3>1. \A y \in VMName : db[y] # x.vm
      BY <1>0, <1>1, <1>2 DEF SerialIInv, Apart, Building
    <3> QED BY <1>0, <2>2, <3>1 DEF OwnVM
  <2>4. NoClash(d, others, conf)
    BY <1>0, <2>2, FewerNoClash
  <2>5. CASE x.active
    <3>1. PICK n, k : n = id[1] /\ k = conf
      OBVIOUS
    <3>2. PICK c \in Config : c = conf[x.vm] /\ ConflictFree(n, c)
      BY <1>0, <1>1, <1>2, <2>1, <2>5, <3>1 DEF SerialIInv, Checked, TypeOK
    <3>3. \A y \in others : y[1] # n /\ k[d[y]] = conf[db[y]]
      BY <2>1, <2>2, <2>5, <3>1 DEF DeactivateAll
    <3>4. k[d[id]] = c /\ NoActiveConflict /\ others \in SUBSET active
      BY <1>0, <2>2, <3>1, <3>2 DEF SerialIInv
    <3>5. Grafts(n, c, others, id, d, k)
      BY <3>2, <3>3, <3>4 DEF Grafts
    <3>6. NoClash(d, others \cup {id}, k)
      BY <1>0, <3>4, <3>5, GraftNoClash
    <3> QED BY <1>2, <2>1, <2>3, <2>5, <3>1, <3>6
  <2>6. CASE ~x.active
    BY <1>2, <2>1, <2>3, <2>4, <2>6
  <2> QED BY <2>5, <2>6
<1>3. CASE /\ pc[r] \in {"activating", "falling"}
           /\ d = db /\ a = ActiveAfter(x.id[1], x.rev)
  <2>1. CanActivate(x.id[1], x.rev) /\ x.rev \in Revision \cup {RevisionNone}
    BY <1>0, <1>1, <1>3 DEF SerialIInv, Checked, Arg
  <2> QED BY <1>0, <1>3, <2>1, ActivateNoClash DEF SerialIInv
<1>4. CASE d = [db EXCEPT ![x.id] = None] /\ a = active \ {x.id}
  <2>1. /\ \A y \in VMName : d[y] \in {db[y], None}
        /\ a \in SUBSET active /\ \A y \in a : d[y] = db[y]
    BY <1>0, <1>4 DEF TypeOK, Present
  <2>2. OwnVM(d)
    BY <1>0, <2>1 DEF OwnVM
  <2>3. NoClash(d, a, conf)
    BY <1>0, <2>1, FewerNoClash
  <2> QED BY <2>2, <2>3
<1> QED BY <1>1, <1>2, <1>3, <1>4 DEF Saved

LEMMA AddKeeps ==
    ASSUME Before, TypeOK', Serial, UNCHANGED disk, NEW r \in Request, AddCommit(r)
    PROVE  SerialIInv'
<1>0. TypeOK /\ OneActivePerName /\ SerialIInv /\ OnePortEach
  BY DEF Before
<1>1. PICK a \in Arg : a = arg[r] /\ a.vm \in VM
  BY <1>0 DEF AddCommit, TypeOK
<1>2. PICK others, added, with :
        /\ others = IF a.active THEN DeactivateAll(a.id[1]) ELSE active
        /\ added = IF a.active THEN others \cup {a.id} ELSE others
        /\ with = [db EXCEPT ![a.id] = a.vm]
  OBVIOUS
<1>3. PICK ok \in BOOLEAN : /\ save(with, added, conf, ok)
                            /\ db' = IF ok THEN with ELSE db
                            /\ active' = IF ok THEN added ELSE others
  BY <1>1, <1>2 DEF AddCommit
<1>4. /\ pc[r] = "adding" /\ Moves(r) /\ pc'[r] = "uproot"
      /\ db[a.id] = None /\ UNCHANGED <<status, conf>>
  BY <1>0, <1>1, GotoMoves DEF AddCommit
<1>5. /\ with \in [VMName -> VM \cup {None}] /\ a.id \in VMName /\ with[a.id] = a.vm
      /\ \A id \in VMName \ {a.id} : with[id] = db[id]
      /\ others \in SUBSET active /\ \A id \in others : id # a.id /\ with[id] = db[id]
      /\ conf \in [VM -> Config]
  BY <1>0, <1>1, <1>2, <1>4 DEF TypeOK, Arg, Present, DeactivateAll
<1>6. OwnVM(with) /\ OwnVM(db) /\ NoClash(with, added, conf)
  <2>1. Saved(r, with, added)
    BY <1>1, <1>2, <1>4 DEF Saved
  <2> QED BY <1>0, <2>1, SavedNoClash DEF SerialIInv
<1>7. NoClash(db, others, conf)
  <2>1. NoClash(db, active, conf)
    BY <1>0 DEF SerialIInv, NoActiveConflict, NoClash
  <2> QED BY <1>5, <2>1, FewerNoClash
<1>8. FileOK' /\ Current'
  <2>1. /\ added \in SUBSET VMName /\ \A id \in added : with[id] # None
    BY <1>0, <1>1, <1>2, <1>5, SentinelAssumption DEF TypeOK, Present
  <2>2. disk = "sound" => status' # "failed"
    BY <1>4 DEF Before, Stopped, AllIdle, Running
  <2> QED BY <1>0, <1>3, <1>4, <1>5, <1>6, <1>7, <2>1, <2>2, SaveKeeps DEF SerialIInv
<1>9. OwnVM(db)' /\ NoActiveConflict'
  <2>1. CASE ok
    BY <1>3, <1>4, <1>6, <1>7, <2>1 DEF OwnVM, NoClash, NoActiveConflict
  <2>2. CASE ~ok
    BY <1>3, <1>4, <1>6, <1>7, <2>2 DEF OwnVM, NoClash, NoActiveConflict
  <2> QED BY <2>1, <2>2
<1>10. Apart'
  <2> SUFFICES ASSUME NEW q \in Request, Building(q)'
               PROVE  /\ \A id \in VMName : db'[id] # arg'[q].vm
                      /\ \A s \in Request \ {q} : Building(s)' => arg'[s].vm # arg'[q].vm
    BY DEF Apart
  <2>1. q # r /\ Building(q) /\ Building(r) /\ arg'[q] = arg[q]
    BY <1>4 DEF Building, Moves
  <2>2. a.vm # arg[q].vm /\ \A id \in VMName : db[id] # arg[q].vm
    BY <1>0, <1>1, <2>1 DEF SerialIInv, Apart
  <2>3. \A id \in VMName : db'[id] \in {db[id], a.vm}
    BY <1>3, <1>5
  <2>4. \A s \in Request \ {q} : Building(s)' => s # r /\ Building(s) /\ arg'[s] = arg[s]
    BY <1>4 DEF Building, Moves
  <2> QED BY <1>0, <2>1, <2>2, <2>3, <2>4 DEF SerialIInv, Apart
<1>11. Checked(r)' /\ \A q \in Request \ {r} : Checked(q)'
  <2>1. Checked(r)'
    BY <1>4 DEF Checked
  <2> QED BY <1>4, <2>1, OthersUnchecked DEF Changing
<1> QED BY <1>8, <1>9, <1>10, <1>11 DEF SerialIInv

\* Requests that build nothing leave those that build alone.
LEMMA ApartKeeps ==
    ASSUME Apart, NEW r \in Request, Moves(r), ~Building(r)',
           \A id \in VMName : db'[id] = db[id] \/ \A v \in VM : db'[id] # v,
           TypeOK
    PROVE  Apart'
<1> SUFFICES ASSUME NEW q \in Request, Building(q)'
             PROVE  /\ \A id \in VMName : db'[id] # arg'[q].vm
                    /\ \A s \in Request \ {q} : Building(s)' => arg'[s].vm # arg'[q].vm
  BY DEF Apart
<1>1. \A s \in Request : Building(s)' => Building(s) /\ arg'[s] = arg[s]
  BY DEF Building, Moves
<1>2. arg[q].vm \in VM
  BY <1>1 DEF TypeOK, Building
<1> QED BY <1>1, <1>2 DEF Apart

LEMMA ActivateKeeps ==
    ASSUME Before, TypeOK', Serial, UNCHANGED disk, NEW r \in Request,
           ActivateCommit(r) \/ FallbackCommit(r)
    PROVE  SerialIInv'
<1>0. TypeOK /\ OneActivePerName /\ SerialIInv /\ OnePortEach
  BY DEF Before
<1>1. PICK a \in Arg : a = arg[r]
  BY <1>0 DEF ActivateCommit, FallbackCommit, TypeOK
<1>2. PICK n, rev, after : n = a.id[1] /\ rev = a.rev /\ after = ActiveAfter(n, rev)
  OBVIOUS
<1>3. PICK ok \in BOOLEAN :
         /\ active' = after /\ save(db, after, conf, ok)
         /\ UNCHANGED <<status, db, conf>>
         /\ pc[r] \in {"activating", "falling"} /\ Moves(r)
         /\ \/ pc'[r] = "idle"
            \/ ok /\ pc[r] = "falling" /\ pc'[r] = "deleting" /\ arg'[r] = a
  <2>1. CASE ActivateCommit(r)
    BY <1>0, <1>1, <1>2, <2>1, GotoMoves DEF ActivateCommit, SetActiveRevision, Done
  <2>2. CASE FallbackCommit(r)
    <3>1. PICK ok \in BOOLEAN :
             /\ SetActiveRevision(arg[r].id[1], arg[r].rev, ok)
             /\ IF ok THEN Goto(r, "deleting", arg[r]) ELSE Done(r)
      BY <2>2 DEF FallbackCommit
    <3>2. CASE ok
      BY <1>0, <1>1, <1>2, <2>2, <3>1, <3>2, GotoMoves DEF FallbackCommit, SetActiveRevision
    <3>3. CASE ~ok
      BY <1>0, <1>1, <1>2, <2>2, <3>1, <3>3, GotoMoves
         DEF FallbackCommit, SetActiveRevision, Done
    <3> QED BY <3>2, <3>3
  <2> QED BY <2>1, <2>2
<1>4. /\ CanActivate(n, rev) /\ rev \in Revision \cup {RevisionNone}
      /\ pc[r] = "falling" => rev # RevisionNone /\ rev # a.id[2]
  BY <1>0, <1>1, <1>2, <1>3 DEF SerialIInv, Checked, Arg
<1>5. NoClash(db, after, conf)
  BY <1>0, <1>2, <1>4, ActivateNoClash DEF SerialIInv
<1>6. FileOK' /\ Current'
  <2>1. /\ after \in SUBSET VMName /\ \A id \in after : db[id] # None
        /\ db \in [VMName -> VM \cup {None}] /\ conf \in [VM -> Config]
    BY <1>0, <1>3 DEF TypeOK, Present
  <2>2. (disk = "sound" => status' # "failed") /\ OwnVM(db) /\ FileOK
    BY <1>0, <1>3 DEF Before, SerialIInv, Stopped, AllIdle, Running
  <2> QED BY <1>3, <1>5, <2>1, <2>2, SaveKeeps
<1>7. OwnVM(db)' /\ NoActiveConflict'
  BY <1>0, <1>3, <1>5 DEF SerialIInv, OwnVM, NoActiveConflict, NoClash
<1>8. Apart'
  <2>1. ~Building(r)'
    BY <1>3 DEF Building
  <2> QED BY <1>0, <1>3, <2>1, ApartKeeps DEF SerialIInv
<1>9. Checked(r)'
  <2>1. CASE pc'[r] = "idle"
    BY <2>1 DEF Checked
  <2>2. CASE pc[r] = "falling" /\ pc'[r] = "deleting" /\ arg'[r] = a
    <3>1. a.id \notin after
      BY <1>1, <1>2, <1>4, <2>2
         DEF ActiveAfter, DeactivateAll, EntriesOf, Present
    <3> QED BY <1>3, <2>2, <3>1 DEF Checked
  <2> QED BY <1>3, <2>1, <2>2
<1>10. \A q \in Request \ {r} : Checked(q)'
  BY <1>3, OthersUnchecked DEF Changing
<1> QED BY <1>6, <1>7, <1>8, <1>9, <1>10 DEF SerialIInv

LEMMA DeleteKeeps ==
    ASSUME Before, TypeOK', Serial, UNCHANGED disk, NEW r \in Request, DeleteCommit(r)
    PROVE  SerialIInv'
<1>0. TypeOK /\ OneActivePerName /\ SerialIInv /\ OnePortEach
  BY DEF Before
<1>1. PICK id, without, remaining :
        /\ id = arg[r].id /\ without = [db EXCEPT ![id] = None]
        /\ remaining = active \ {id}
  OBVIOUS
<1>2. PICK ok \in BOOLEAN : save(without, remaining, conf, ok)
  BY <1>1 DEF DeleteCommit
<1>3. /\ db' = without /\ active' = remaining /\ UNCHANGED <<status, conf>>
      /\ pc[r] = "deleting" /\ Moves(r) /\ pc'[r] = "idle"
  BY <1>0, <1>1, GotoMoves DEF DeleteCommit, Done
<1>4. /\ without \in [VMName -> VM \cup {None}]
      /\ \A x \in VMName : without[x] \in {db[x], None}
      /\ remaining \in SUBSET active /\ remaining \in SUBSET VMName
      /\ \A x \in remaining : without[x] = db[x] /\ without[x] # None
      /\ conf \in [VM -> Config]
  BY <1>0, <1>1 DEF TypeOK, Present
<1>5. OwnVM(without)
  BY <1>0, <1>4 DEF SerialIInv, OwnVM
<1>6. NoClash(without, remaining, conf)
  <2>1. NoClash(db, active, conf)
    BY <1>0 DEF SerialIInv, NoActiveConflict, NoClash
  <2> QED BY <1>4, <2>1, FewerNoClash
<1>7. FileOK' /\ Current'
  <2>1. (disk = "sound" => status' # "failed") /\ FileOK
    BY <1>0, <1>3 DEF Before, SerialIInv, Stopped, AllIdle, Running
  <2> QED BY <1>2, <1>3, <1>4, <1>5, <1>6, <2>1, SaveKeeps
<1>8. OwnVM(db)' /\ NoActiveConflict'
  BY <1>3, <1>5, <1>6 DEF OwnVM, NoActiveConflict, NoClash
<1>9. Apart'
  <2>1. ~Building(r)'
    BY <1>3 DEF Building
  <2>2. \A x \in VMName : db'[x] = db[x] \/ \A v \in VM : db'[x] # v
    BY <1>3, <1>4, SentinelAssumption
  <2> QED BY <1>0, <1>3, <2>1, <2>2, ApartKeeps DEF SerialIInv
<1>10. Checked(r)' /\ \A q \in Request \ {r} : Checked(q)'
  <2>1. Checked(r)'
    BY <1>3 DEF Checked
  <2> QED BY <1>3, <2>1, OthersUnchecked DEF Changing
<1> QED BY <1>7, <1>8, <1>9, <1>10 DEF SerialIInv

\* The new configuration was checked if the entry is active, and is that of no other.
LEMMA RedefineKeeps ==
    ASSUME Before, TypeOK', Serial, UNCHANGED disk, NEW r \in Request, RedefineWrite(r)
    PROVE  SerialIInv'
<1> USE DEF files
<1>0. TypeOK /\ OneActivePerName /\ SerialIInv /\ OnePortEach
  BY DEF Before
<1>1. PICK id \in VMName, c \in Config, n \in Name :
         id = arg[r].id /\ c = arg[r].conf /\ n = id[1]
  BY <1>0 DEF RedefineWrite, TypeOK, Arg, VMName
<1>2. /\ pc[r] = "redefining" /\ Moves(r) /\ pc'[r] = "updating"
      /\ UNCHANGED <<status, db, active, files>>
      /\ conf' = [conf EXCEPT ![arg[r].vm] = c]
  BY <1>0, <1>1, GotoMoves DEF RedefineWrite
<1>3. /\ id \in Present /\ arg[r].vm = db[id]
      /\ id \in active => ConflictFree(n, c)
  BY <1>0, <1>1, <1>2 DEF SerialIInv, Checked
<1>4. PICK k : k = conf'
  OBVIOUS
<1>5. k[db[id]] = c /\ \A x \in active : x # id => k[db[x]] = conf[db[x]]
  <2>1. id \in VMName /\ db[id] \in VM /\ active \subseteq VMName
    BY <1>0, <1>3 DEF TypeOK, Present
  <2>2. \A x \in active : db[x] \in VM /\ (x # id => db[x] # db[id])
    BY <1>0, <1>3, <2>1 DEF SerialIInv, OwnVM, TypeOK, Present
  <2> QED BY <1>0, <1>2, <1>3, <1>4, <2>1, <2>2 DEF TypeOK
<1>6. NoActiveConflict'
  <2>1. PICK d, others : d = db /\ others = active \ {id}
    OBVIOUS
  <2>2. CASE id \in active
    <3>1. /\ others \in SUBSET active
          /\ \A x \in others : x[1] # n /\ k[d[x]] = conf[db[x]]
      BY <1>0, <1>1, <1>5, <2>1, <2>2 DEF OneActivePerName, OneActive
    <3>2. k[d[id]] = c /\ NoActiveConflict /\ OnePortEach /\ ConflictFree(n, c)
      BY <1>0, <1>3, <1>5, <2>1, <2>2 DEF SerialIInv
    <3>3. NoClash(d, others \cup {id}, k)
      <4>1. Grafts(n, c, others, id, d, k)
        BY <3>1, <3>2 DEF Grafts
      <4> QED BY <3>2, <4>1, GraftNoClash
    <3>4. others \cup {id} = active
      BY <2>1, <2>2
    <3> QED BY <1>2, <1>4, <2>1, <3>3, <3>4 DEF NoClash, NoActiveConflict
  <2>3. CASE id \notin active
    <3>1. \A x \in active : k[db[x]] = conf[db[x]]
      BY <1>5, <2>3
    <3>2. NoClash(db, active, conf)
      BY <1>0 DEF SerialIInv, NoActiveConflict, NoClash
    <3>3. NoClash(db, active, k)
      BY <3>1, <3>2, SameConf
    <3> QED BY <1>2, <1>4, <3>3 DEF NoClash, NoActiveConflict
  <2> QED BY <2>2, <2>3
<1>7. OwnVM(db)' /\ FileOK'
  BY <1>0, <1>2 DEF SerialIInv, OwnVM, FileOK, NoClash
<1>8. Apart'
  <2>1. ~Building(r)'
    BY <1>2 DEF Building
  <2> QED BY <1>0, <1>2, <2>1, ApartKeeps DEF SerialIInv
<1>9. Current'
  <2>1. pc'[r] = "updating"
    BY <1>2
  <2> QED BY <1>0, <1>2, <2>1 DEF SerialIInv, Current, FilesCurrent, Running
<1>10. Checked(r)' /\ \A q \in Request \ {r} : Checked(q)'
  <2>1. Checked(r)'
    BY <1>2 DEF Checked
  <2> QED BY <1>2, <2>1, OthersUnchecked DEF Changing
<1> QED BY <1>6, <1>7, <1>8, <1>9, <1>10 DEF SerialIInv

\* The memory is saved as it is.
LEMMA SaveMemory ==
    ASSUME Before, UNCHANGED <<disk, db, active, conf>>,
           disk = "sound" => status' # "failed",
           NEW ok \in BOOLEAN, save(db, active, conf, ok)
    PROVE  OwnVM(db)' /\ NoActiveConflict' /\ FileOK' /\ Current'
<1>0. TypeOK /\ SerialIInv
  BY DEF Before
<1>1. /\ db \in [VMName -> VM \cup {None}] /\ active \in SUBSET VMName
      /\ conf \in [VM -> Config] /\ \A id \in active : db[id] # None
  BY <1>0 DEF TypeOK, Present
<1>2. NoClash(db, active, conf) /\ OwnVM(db) /\ FileOK
  BY <1>0 DEF SerialIInv, NoActiveConflict, NoClash
<1>3. FileOK' /\ Current'
  BY <1>1, <1>2, SaveKeeps
<1> QED BY <1>2, <1>3 DEF OwnVM, NoActiveConflict, NoClash

LEMMA UpdateKeeps ==
    ASSUME Before, Serial, UNCHANGED disk, NEW r \in Request, Update(r)
    PROVE  SerialIInv'
<1>0. TypeOK /\ SerialIInv
  BY DEF Before
<1>1. /\ pc[r] = "updating" /\ Moves(r) /\ pc'[r] = "idle"
      /\ UNCHANGED <<status, db, active, conf>>
      /\ \E ok \in BOOLEAN : save(db, active, conf, ok)
  BY <1>0, GotoMoves DEF Update, Done, memory
<1>2. OwnVM(db)' /\ NoActiveConflict' /\ FileOK' /\ Current'
  <2>1. disk = "sound" => status' # "failed"
    BY <1>1 DEF Before, Stopped, AllIdle, Running
  <2> QED BY <1>1, <2>1, SaveMemory
<1>3. Apart'
  <2>1. ~Building(r)'
    BY <1>1 DEF Building
  <2> QED BY <1>0, <1>1, <2>1, ApartKeeps DEF SerialIInv
<1>4. Checked(r)' /\ \A q \in Request \ {r} : Checked(q)'
  <2>1. Checked(r)'
    BY <1>1 DEF Checked
  <2> QED BY <1>1, <2>1, OthersUnchecked DEF Changing
<1> QED BY <1>2, <1>3, <1>4 DEF SerialIInv

-----------------------------------------------------------------------------
(* The daemon stops and starts.                                            *)

LEMMA AllIdleKeeps ==
    ASSUME pc' = AllIdle
    PROVE  Apart' /\ \A r \in Request : Checked(r)'
<1>1. \A r \in Request : pc'[r] = "idle"
  BY DEF AllIdle
<1> QED BY <1>1 DEF Apart, Building, Checked

\* What mulchd saves when it stops has no conflict either.
LEMMA CrashKeeps ==
    ASSUME Before, UNCHANGED disk, Crash
    PROVE  SerialIInv'
<1>0. TypeOK /\ SerialIInv
  BY DEF Before
<1>1. OwnVM(db)' /\ NoActiveConflict'
  BY DEF Crash, NoEntries, OwnVM, NoActiveConflict, DomainClash, PortClash
<1>2. FileOK'
  <2>1. /\ Savable(db, active) /\ OwnVM(db) /\ NoClash(db, active, conf)
        /\ MemoryTypeOK /\ RequestsTypeOK
    BY <1>0, TypeParts, MemorySavable DEF SerialIInv, NoActiveConflict, NoClash
  <2>2. \E d, a : /\ Savable(d, a) /\ OwnVM(d) /\ NoClash(d, a, conf)
                  /\ cutSave(d, a, conf)
    BY <2>1, StopsCut, SavedTypes, SavedNoClash DEF Crash
  <2> QED BY <1>0, <2>2, CutKeepsFileOK DEF Savable, SerialIInv
<1>3. Current'
  BY DEF Crash, Current, FilesCurrent, Running
<1> QED BY <1>1, <1>2, <1>3, AllIdleKeeps DEF Crash, SerialIInv

LEMMA StartStopsKeeps ==
    ASSUME Before, UNCHANGED disk, StartStops
    PROVE  SerialIInv'
<1>0. TypeOK /\ SerialIInv /\ Stopped
  BY DEF Before
<1>1. /\ UNCHANGED <<status, db, active, conf, pc>> /\ status = "down" /\ vmFile # Corrupt
  BY DEF StartStops, memory
<1>2. pc' = AllIdle
  BY <1>0, <1>1 DEF Stopped, Running
<1>3. OwnVM(db)' /\ NoActiveConflict'
  BY <1>0, <1>1 DEF SerialIInv, OwnVM, NoActiveConflict
<1>4. FileOK'
  <2>1. PICK d, a, k : d = vmFile.db /\ a = vmFile.active /\ k = vmFile.conf
    OBVIOUS
  <2>2. /\ d \in [VMName -> VM \cup {None}] /\ a \in SUBSET VMName
        /\ \A id \in a : d[id] # None
    BY <1>0, <1>1, <2>1 DEF TypeOK
  <2>3. OwnVM(d) /\ NoClash(d, a, k) /\ FileOK /\ cutSave(d, a, k)
    BY <1>0, <1>1, <2>1 DEF SerialIInv, FileOK, StartStops
  <2> QED BY <2>2, <2>3, CutKeepsFileOK
<1>5. Current'
  BY <1>1 DEF Current, FilesCurrent, Running
<1> QED BY <1>2, <1>3, <1>4, <1>5, AllIdleKeeps DEF SerialIInv

LEMMA StartKeeps ==
    ASSUME Before, UNCHANGED disk, Start, pc = AllIdle
    PROVE  SerialIInv'
<1> USE DEF files
<1>0. TypeOK /\ SerialIInv
  BY DEF Before
<1>1. Apart' /\ \A r \in Request : Checked(r)'
  BY AllIdleKeeps DEF Start
<1>2. CASE vmFile = Corrupt
  <2>1. UNCHANGED <<db, active, conf, files>> /\ status' = "failed"
    BY <1>2 DEF Start
  <2>2. OwnVM(db)' /\ NoActiveConflict' /\ FileOK'
    BY <1>0, <2>1 DEF SerialIInv, OwnVM, NoActiveConflict, FileOK, NoClash
  <2>3. Current'
    BY <1>2, <2>1 DEF Current, FilesCurrent, Running
  <2> QED BY <1>1, <2>2, <2>3 DEF SerialIInv
<1>3. CASE vmFile # Corrupt
  <2>1. PICK d, a, k : d = vmFile.db /\ a = vmFile.active /\ k = vmFile.conf
    OBVIOUS
  <2>2. PICK ok \in BOOLEAN : /\ save(d, a, k, ok)
                              /\ status' = IF ok THEN "starting" ELSE "failed"
                              /\ db' = d /\ active' = a /\ conf' = k
    BY <1>3, <2>1 DEF Start
  <2>3. /\ d \in [VMName -> VM \cup {None}] /\ a \in SUBSET VMName
        /\ k \in [VM -> Config] /\ \A id \in a : d[id] # None
    BY <1>0, <1>3, <2>1 DEF TypeOK
  <2>4. OwnVM(d) /\ NoClash(d, a, k) /\ FileOK
    BY <1>0, <1>3, <2>1 DEF SerialIInv, FileOK
  <2>5. FileOK' /\ Current'
    BY <2>2, <2>3, <2>4, SaveKeeps
  <2>6. OwnVM(db)' /\ NoActiveConflict'
    BY <2>2, <2>4 DEF OwnVM, NoActiveConflict, NoClash
  <2> QED BY <1>1, <2>5, <2>6 DEF SerialIInv
<1> QED BY <1>2, <1>3

LEMMA InitVMDBKeeps ==
    ASSUME Before, UNCHANGED disk, InitVMDB
    PROVE  SerialIInv'
<1>1. Apart' /\ \A r \in Request : Checked(r)'
  BY AllIdleKeeps DEF InitVMDB
<1>2. OwnVM(db)' /\ NoActiveConflict' /\ FileOK' /\ Current'
  BY SaveMemory DEF InitVMDB, memory
<1> QED BY <1>1, <1>2 DEF SerialIInv

-----------------------------------------------------------------------------
(* The invariant of changes that do not cross.                             *)

LEMMA StoppedNext == TypeOK /\ Stopped /\ [Next]_vars => Stopped'
<1> SUFFICES ASSUME TypeOK, Stopped, [Next]_vars PROVE Stopped'
  OBVIOUS
<1>1. CASE \E r \in Request : Handle(r)
  <2>1. PICK r \in Request : Handle(r)
    BY <1>1
  <2>2. status' = status
    BY <2>1 DEF Handle, NewVM, BuildFails, AddCheck, AddExists, AddCommit,
                DeleteFromGreenhouse, ActivateCheck, ActivateCommit, DeleteLookup,
                FallbackCheck, FallbackRefused, FallbackCommit, DeleteCommit,
                RedefineCheck, RedefineWrite, Update
  <2>3. Running
    <3>1. pc[r] # "idle" \/ Running
      BY <2>1 DEF Handle, NewVM, BuildFails, AddCheck, AddExists, AddCommit,
                  DeleteFromGreenhouse, ActivateCheck, ActivateCommit, DeleteLookup,
                  FallbackCheck, FallbackRefused, FallbackCommit, DeleteCommit,
                  RedefineCheck, RedefineWrite, Update, Serving, Running
    <3> QED BY <3>1 DEF Stopped, AllIdle
  <2> QED BY <2>2, <2>3 DEF Stopped, Running
<1>2. CASE Crash
  BY <1>2 DEF Crash, Stopped
<1>3. CASE Start \/ StartStops
  BY <1>3 DEF Start, StartStops, Stopped, Running
<1>4. CASE InitVMDB
  BY <1>4 DEF InitVMDB, Stopped
<1>5. CASE UNCHANGED vars
  BY <1>5 DEF vars, Stopped, Running
<1> QED BY <1>1, <1>2, <1>3, <1>4, <1>5 DEF Next

LEMMA SerialInit == Init => SerialIInv /\ Stopped
<1> SUFFICES ASSUME Init PROVE SerialIInv /\ Stopped
  OBVIOUS
<1>1. /\ db = NoEntries /\ active = {} /\ pc = AllIdle /\ status = "down"
      /\ vmFile = Image(db, active, conf) /\ conf \in [VM -> Config]
  BY ConfigAssumption DEF Init
<1>2. vmFile.db = NoEntries /\ vmFile.active = {}
  BY <1>1 DEF Image
<1>3. OwnVM(db) /\ NoActiveConflict
  BY <1>1 DEF NoEntries, OwnVM, NoActiveConflict, DomainClash, PortClash
<1>4. FileOK
  BY <1>2 DEF FileOK, NoEntries, OwnVM, NoClash, DomainClash, PortClash
<1>5. vmFile # Corrupt
  <2>1. vmFile \in [db : [VMName -> VM \cup {None}], active : SUBSET VMName,
                    conf : [VM -> Config]]
    BY <1>1, ConfigAssumption DEF Image, NoEntries
  <2> QED BY <2>1, CorruptAssumption
<1>6. Current /\ Apart /\ \A r \in Request : Checked(r)
  BY <1>1, <1>5 DEF Current, FilesCurrent, Running, AllIdle, Apart, Building, Checked
<1> QED BY <1>1, <1>3, <1>4, <1>6 DEF SerialIInv, Stopped

LEMMA SerialHandle ==
    ASSUME Before, TypeOK', Serial, UNCHANGED disk, NEW r \in Request, Handle(r)
    PROVE  SerialIInv'
<1>1. CASE \E n \in Name, c \in Config, act \in BOOLEAN : NewVM(r, n, c, act)
  BY <1>1, NewVMKeeps
<1>2. CASE BuildFails(r) \/ AddCheck(r) \/ AddExists(r) \/ DeleteFromGreenhouse(r)
  BY <1>2, BuildKeeps
<1>3. CASE AddCommit(r)
  BY <1>3, AddKeeps
<1>4. CASE \/ \E n \in Name, rev \in Revision \cup {RevisionNone} : ActivateCheck(r, n, rev)
           \/ \E id \in VMName : DeleteLookup(r, id)
           \/ FallbackCheck(r) \/ FallbackRefused(r)
           \/ \E id \in VMName, c \in Config : RedefineCheck(r, id, c)
  BY <1>4, CheckKeeps
<1>5. CASE ActivateCommit(r) \/ FallbackCommit(r)
  BY <1>5, ActivateKeeps
<1>6. CASE DeleteCommit(r)
  BY <1>6, DeleteKeeps
<1>7. CASE RedefineWrite(r)
  BY <1>7, RedefineKeeps
<1>8. CASE Update(r)
  BY <1>8, UpdateKeeps
<1> QED BY <1>1, <1>2, <1>3, <1>4, <1>5, <1>6, <1>7, <1>8 DEF Handle

LEMMA SerialNext ==
    ASSUME OnePortEach
    PROVE  /\ TypeOK /\ TypeOK' /\ OneActivePerName /\ Serial /\ Stopped
           /\ SerialIInv /\ [Next]_vars
           => SerialIInv'
<1> SUFFICES ASSUME TypeOK, TypeOK', OneActivePerName, Serial, Stopped,
                    SerialIInv, [Next]_vars
             PROVE  SerialIInv'
  OBVIOUS
<1>0. Before /\ UNCHANGED disk
  BY DEF Before, Next, vars
<1>1. CASE \E r \in Request : Handle(r)
  BY <1>0, <1>1, SerialHandle
<1>2. CASE Crash
  BY <1>0, <1>2, CrashKeeps
<1>3. CASE Start \/ StartStops
  <2>1. Start => pc = AllIdle
    BY DEF Start, Stopped, Running
  <2> QED BY <1>0, <1>3, <2>1, StartKeeps, StartStopsKeeps
<1>4. CASE InitVMDB
  BY <1>0, <1>4, InitVMDBKeeps
<1>5. CASE UNCHANGED vars
  <2>1. /\ OwnVM(db)' /\ NoActiveConflict' /\ FileOK' /\ Current' /\ Apart'
    BY <1>5 DEF vars, SerialIInv, OwnVM, NoActiveConflict, FileOK, NoClash, Current,
                FilesCurrent, Running, Apart, Building
  <2>2. \A r \in Request : Checked(r)'
    BY <1>5 DEF vars, SerialIInv, Checked, ConflictFree, DomainsFree, PortsFree,
                CanActivate, EntriesOf, Present
  <2> QED BY <2>1, <2>2 DEF SerialIInv
<1> QED BY <1>1, <1>2, <1>3, <1>4, <1>5 DEF Next

LEMMA SerialInvariant ==
    ASSUME OnePortEach
    PROVE  Spec /\ []Serial => []SerialIInv
<1>1. Spec => []TypeOK /\ []OneActivePerName
  BY TypeCorrect, OneActiveRevision
<1>2. Spec => []Stopped
  BY SerialInit, StoppedNext, TypeCorrect, PTL DEF Spec
<1> QED BY <1>1, <1>2, SerialInit, SerialNext, PTL DEF Spec

\* On a sound disk, the save of a VM that was checked succeeds: its name is served.
LEMMA AddServes ==
    ASSUME Before, disk = "sound", NEW n, Served(n), NEW r \in Request, AddCommit(r)
    PROVE  Served(n)'
<1>0. TypeOK /\ OneActivePerName /\ SerialIInv /\ OnePortEach
  BY DEF Before
<1>1. PICK a \in Arg : a = arg[r] /\ a.vm \in VM
  BY <1>0 DEF AddCommit, TypeOK
<1>2. PICK others, added, with :
        /\ others = IF a.active THEN DeactivateAll(a.id[1]) ELSE active
        /\ added = IF a.active THEN others \cup {a.id} ELSE others
        /\ with = [db EXCEPT ![a.id] = a.vm]
  OBVIOUS
<1>3. PICK ok \in BOOLEAN : /\ save(with, added, conf, ok)
                            /\ active' = IF ok THEN added ELSE others
  BY <1>1, <1>2 DEF AddCommit
<1>4. PICK x \in active : x[1] = n
  BY DEF Served
<1>5. CASE ~a.active
  BY <1>2, <1>3, <1>4, <1>5 DEF Served
<1>6. CASE a.active /\ a.id[1] # n
  BY <1>2, <1>3, <1>4, <1>6 DEF Served, DeactivateAll
<1>7. CASE a.active /\ a.id[1] = n
  <2>1. ok
    <3>1. Saved(r, with, added)
      BY <1>1, <1>2 DEF Saved, AddCommit
    <3>2. NoClash(with, added, conf)
      BY <3>1, SavedNoClash
    <3> QED BY <1>3, <3>2, SaveWritesAll
  <2> QED BY <1>2, <1>3, <1>7, <2>1 DEF Served
<1> QED BY <1>5, <1>6, <1>7

\* The name of a revision that was found is served, the others stay as they are.
LEMMA ActivateServes ==
    ASSUME Before, NEW n, Served(n), NEW r \in Request,
           ActivateCommit(r) \/ FallbackCommit(r)
    PROVE  \/ Served(n)'
           \/ pc[r] = "activating" /\ arg[r].id[1] = n /\ arg[r].rev = RevisionNone
<1>0. TypeOK /\ OneActivePerName /\ SerialIInv /\ OnePortEach
  BY DEF Before
<1>1. PICK m, rev, after : m = arg[r].id[1] /\ rev = arg[r].rev /\ after = ActiveAfter(m, rev)
  OBVIOUS
<1>2. active' = after
  BY <1>1 DEF ActivateCommit, FallbackCommit, SetActiveRevision
<1>3. PICK x \in active : x[1] = n
  BY DEF Served
<1>4. CASE m # n
  <2>1. x \in after
    BY <1>1, <1>3, <1>4 DEF ActiveAfter, DeactivateAll
  <2> QED BY <1>2, <1>3, <2>1 DEF Served
<1>5. CASE m = n /\ rev # RevisionNone
  <2>1. rev \in Revision /\ CanActivate(m, rev)
    BY <1>0, <1>1, <1>5 DEF ActivateCommit, FallbackCommit, TypeOK, Arg, SerialIInv, Checked
  <2>2. <<m, rev>> \in after
    BY <1>1, <1>5, <2>1 DEF CanActivate, ActiveAfter, EntriesOf
  <2> QED BY <1>2, <1>5, <2>2 DEF Served
<1>6. CASE m = n /\ rev = RevisionNone
  <2>1. pc[r] = "activating"
    BY <1>0, <1>1, <1>6 DEF ActivateCommit, FallbackCommit, SerialIInv, Checked
  <2> QED BY <1>1, <1>6, <2>1
<1> QED BY <1>4, <1>5, <1>6

\* Delete removes the flag of a name with its last entry only.
LEMMA DeleteServes ==
    ASSUME Before, NEW n, Served(n), NEW r \in Request, DeleteCommit(r)
    PROVE  Served(n)' \/ EntriesOf(n)' = {}
<1>0. TypeOK /\ SerialIInv
  BY DEF Before
<1>1. PICK x \in active : x[1] = n
  BY DEF Served
<1>2. PICK id : id = arg[r].id
  OBVIOUS
<1>3. /\ active' = active \ {id} /\ db' = [db EXCEPT ![id] = None]
      /\ id \in active => EntriesOf(id[1]) = {id}
  BY <1>0, <1>2 DEF DeleteCommit, SerialIInv, Checked
<1>4. CASE x # id
  BY <1>1, <1>3, <1>4 DEF Served
<1>5. CASE x = id
  <2>1. EntriesOf(n) = {id}
    BY <1>1, <1>3, <1>5
  <2> QED BY <1>0, <1>3, <2>1 DEF EntriesOf, Present, TypeOK
<1> QED BY <1>4, <1>5

LEMMA SerialServes ==
    ASSUME Before, [Next]_vars, NEW n \in Name,
           disk = "sound", Served(n), status' = "up", EntriesOf(n)' # {}
    PROVE  \/ Served(n)'
           \/ \E r \in Request : /\ pc[r] = "activating"
                                 /\ arg[r].id[1] = n /\ arg[r].rev = RevisionNone
<1>1. CASE active' = active
  BY <1>1 DEF Served
<1>2. CASE \E r \in Request : Handle(r)
  <2>1. PICK r \in Request : Handle(r)
    BY <1>2
  <2>2. \/ active' = active \/ AddCommit(r) \/ DeleteCommit(r)
        \/ ActivateCommit(r) \/ FallbackCommit(r)
    BY <2>1 DEF Handle, NewVM, BuildFails, AddCheck, AddExists, memory,
                DeleteFromGreenhouse, ActivateCheck, DeleteLookup, FallbackCheck,
                FallbackRefused, RedefineCheck, RedefineWrite, Update
  <2> QED BY <1>1, <2>2, AddServes, ActivateServes, DeleteServes
<1>3. CASE Crash \/ Start \/ StartStops
  BY <1>3 DEF Crash, Start, StartStops
<1>4. CASE InitVMDB \/ UNCHANGED vars
  BY <1>1, <1>4 DEF InitVMDB, memory, vars
<1> QED BY <1>2, <1>3, <1>4 DEF Next

-----------------------------------------------------------------------------

(***************************************************************************)
(* No domain and no public port belongs to two active VMs, on any disk and *)
(* across restarts, as long as changes do not cross: the conflict checks   *)
(* are enough, and only their distance from the change they allow is not.  *)
(***************************************************************************)
THEOREM SerialHasNoConflict ==
    ASSUME OnePortEach
    PROVE  Spec /\ []Serial => []NoActiveConflict
<1>1. SerialIInv => NoActiveConflict
  BY DEF SerialIInv
<1> QED BY <1>1, SerialInvariant, PTL

(***************************************************************************)
(* Under the same condition, and on a sound disk, the three files say what *)
(* the memory says whenever no redefinition is between its two steps:      *)
(* mulch-proxy sends each domain and port to the active VM that claims it. *)
(***************************************************************************)
THEOREM SerialFilesAreCurrent ==
    ASSUME OnePortEach
    PROVE  Spec /\ []Serial => []FilesCurrent
<1>1. SerialIInv => FilesCurrent
  BY DEF SerialIInv, Current, FilesCurrent
<1> QED BY <1>1, SerialInvariant, PTL

(***************************************************************************)
(* mulchd starts from any file such changes leave: only a stop in the      *)
(* middle of writing the database file itself may keep it from starting    *)
(* again, one while the lists are written does not.                        *)
(***************************************************************************)
THEOREM SerialStartsUnlessTorn ==
    ASSUME OnePortEach
    PROVE  Spec /\ []Serial => []StartsUnlessTorn
<1>1. SerialIInv => StartsUnlessTorn
  BY DEF SerialIInv, Current, StartsUnlessTorn
<1> QED BY <1>1, SerialInvariant, PTL

(***************************************************************************)
(* Neither a creation, nor a rebuild, nor a deletion ever takes a name     *)
(* that keeps entries off line: when the active revision goes, another one *)
(* is active already, because Delete looked for the highest.               *)
(***************************************************************************)
THEOREM SerialKeepsServing ==
    ASSUME OnePortEach
    PROVE  Spec /\ []Serial => KeepsServing
<1>1. TypeOK /\ OneActivePerName /\ Stopped /\ SerialIInv /\ [Next]_vars =>
        [\A n \in Name :
           disk = "sound" /\ Served(n) /\ status' = "up" /\ EntriesOf(n)' # {} =>
              \/ Served(n)'
              \/ \E r \in Request : /\ pc[r] = "activating"
                                    /\ arg[r].id[1] = n /\ arg[r].rev = RevisionNone]_vars
  BY SerialServes DEF Before
<1>2. Spec => []Stopped
  BY SerialInit, StoppedNext, TypeCorrect, PTL DEF Spec
<1> QED BY <1>1, <1>2, SerialInvariant, TypeCorrect, OneActiveRevision, PTL
        DEF KeepsServing, Spec

-----------------------------------------------------------------------------
(***************************************************************************)
(* The database as a registry.                                             *)
(*                                                                         *)
(* On a sound disk, and while mulchd runs, the three files agree, and with *)
(* the memory but for a configuration that is about to be saved: what the  *)
(* registry knows is what the database file holds.                         *)
(***************************************************************************)
FilesAgree ==
    /\ domainFile = DomainIndex(vmFile.db, vmFile.active, vmFile.conf)
    /\ portFile = PortIndex(vmFile.db, vmFile.active, vmFile.conf)

Published ==
    disk = "sound" =>
        /\ status = "failed" => vmFile = Corrupt
        /\ Running => /\ vmFile # Corrupt /\ vmFile.db = db /\ vmFile.active = active
                      /\ FilesAgree

\* The only configuration of the memory that the file does not have.
OthersSaved ==
    disk = "sound" =>
        \A r \in Request : pc[r] = "updating" =>
            \E id \in Present : \A x \in Present \ {id} : conf[db[x]] = vmFile.conf[db[x]]

RegistryInv == Published /\ OthersSaved

\* The configurations of the entries d, as k has them.
ConfsOf(d, k) == [id \in VMName |-> IF d[id] = None THEN Blank ELSE k[d[id]]]

LEMMA Known ==
    ASSUME Published, disk = "sound", vmFile # Corrupt
    PROVE  /\ KnownVMs = vmFile.db /\ KnownActive = vmFile.active
           /\ KnownConfs = ConfsOf(vmFile.db, vmFile.conf)
           /\ KnownDomains = DomainIndex(vmFile.db, vmFile.active, vmFile.conf)
           /\ KnownPorts = PortIndex(vmFile.db, vmFile.active, vmFile.conf)
BY DEF Published, FilesAgree, KnownVMs, KnownActive, KnownConfs, KnownDomains, KnownPorts,
       Stored, ConfsOf

LEMMA KnownNext ==
    ASSUME Published', disk' = "sound", vmFile' # Corrupt
    PROVE  /\ KnownVMs' = vmFile'.db /\ KnownActive' = vmFile'.active
           /\ KnownConfs' = ConfsOf(vmFile'.db, vmFile'.conf)
           /\ KnownDomains' = DomainIndex(vmFile'.db, vmFile'.active, vmFile'.conf)
           /\ KnownPorts' = PortIndex(vmFile'.db, vmFile'.active, vmFile'.conf)
BY DEF Published, FilesAgree, KnownVMs, KnownActive, KnownConfs, KnownDomains, KnownPorts,
       Stored, ConfsOf

\* The lists are what the registry routes.
LEMMA Routes ==
    ASSUME NEW d \in [VMName -> VM \cup {None}], NEW a \in SUBSET VMName, NEW k,
           \A id \in a : d[id] # None, NoClash(d, a, k),
           KnownActive = a, KnownConfs = ConfsOf(d, k),
           KnownDomains = DomainIndex(d, a, k), KnownPorts = PortIndex(d, a, k)
    PROVE  Registry!Routed
<1>1. \A id \in a : KnownConfs[id] = k[d[id]]
  BY DEF ConfsOf
<1>2. KnownDomains \in [Domain -> VMName \cup {None}]
  BY DEF DomainIndex
<1>3. ASSUME NEW dom \in Domain, NEW id \in VMName
      PROVE  KnownDomains[dom] = id <=> id \in a /\ dom \in KnownConfs[id].domains
  <2>1. CASE \E x \in a : dom \in k[d[x]].domains
    <3>1. PICK y \in a : y = KnownDomains[dom] /\ dom \in k[d[y]].domains
      BY <2>1 DEF DomainIndex
    <3>2. \A x \in a : dom \in k[d[x]].domains => x = y
      BY <3>1 DEF NoClash, DomainClash
    <3> QED BY <1>1, <3>1, <3>2
  <2>2. CASE ~\E x \in a : dom \in k[d[x]].domains
    <3>1. KnownDomains[dom] = None
      BY <2>2 DEF DomainIndex
    <3> QED BY <1>1, <2>2, <3>1, SentinelAssumption
  <2> QED BY <2>1, <2>2
<1>4. KnownPorts \in [PublicPort -> VMName \cup {None}]
  <2> DEFINE Claims(x, port) == \E p \in k[d[x]].ports : p[1] = port
  <2>1. KnownPorts = [port \in PublicPort |-> IF \E x \in a : Claims(x, port)
                        THEN CHOOSE x \in a : Claims(x, port) ELSE None]
    BY DEF PortIndex
  <2> HIDE DEF Claims
  <2> QED BY <2>1
<1>5. ASSUME NEW port \in PublicPort, NEW id \in VMName
      PROVE  KnownPorts[port] = id <=> id \in a /\ \E p \in KnownConfs[id].ports : p[1] = port
  <2> DEFINE Claims(x) == \E p \in k[d[x]].ports : p[1] = port
  <2>1. KnownPorts[port] = IF \E x \in a : Claims(x) THEN CHOOSE x \in a : Claims(x) ELSE None
    BY DEF PortIndex
  <2>2. \A x, y \in a : Claims(x) /\ Claims(y) => x = y
    BY DEF NoClash, PortClash
  <2>3. \A x \in a : Claims(x) <=> \E p \in KnownConfs[x].ports : p[1] = port
    BY <1>1
  <2> HIDE DEF Claims
  <2>4. CASE \E x \in a : Claims(x)
    <3>1. PICK y \in a : y = KnownPorts[port] /\ Claims(y)
      BY <2>1, <2>4
    <3> QED BY <2>2, <2>3, <3>1
  <2>5. CASE ~\E x \in a : Claims(x)
    BY <2>1, <2>3, <2>5, SentinelAssumption
  <2> QED BY <2>4, <2>5
<1> QED BY <1>2, <1>3, <1>4, <1>5 DEF Registry!Routed

LEMMA RoutesKnown ==
    TypeOK /\ Published /\ FileOK /\ disk = "sound" /\ vmFile # Corrupt => Registry!Routed
<1> SUFFICES ASSUME TypeOK, Published, FileOK, disk = "sound", vmFile # Corrupt
             PROVE  Registry!Routed
  OBVIOUS
<1>1. PICK d, a, k : d = vmFile.db /\ a = vmFile.active /\ k = vmFile.conf
  OBVIOUS
<1>2. /\ d \in [VMName -> VM \cup {None}] /\ a \in SUBSET VMName
      /\ \A id \in a : d[id] # None
  BY <1>1 DEF TypeOK
<1>3. /\ NoClash(d, a, k) /\ KnownActive = a /\ KnownConfs = ConfsOf(d, k)
      /\ KnownDomains = DomainIndex(d, a, k) /\ KnownPorts = PortIndex(d, a, k)
  BY <1>1, Known DEF FileOK
<1> QED BY <1>2, <1>3, Routes

LEMMA RoutesNext ==
    ASSUME TypeOK', Published', FileOK', disk' = "sound", vmFile' # Corrupt
    PROVE  Registry!Routed'
<1>1. (TypeOK /\ Published /\ FileOK /\ disk = "sound" /\ vmFile # Corrupt
         => Registry!Routed)'
  BY RoutesKnown, PTL
<1> QED BY <1>1

-----------------------------------------------------------------------------
(* Saves.                                                                  *)

\* What a save leaves in the files.
LEMMA SavePublishes ==
    ASSUME NEW d \in [VMName -> VM \cup {None}], NEW a \in SUBSET VMName,
           NEW k \in [VM -> Config], \A id \in a : d[id] # None, NEW ok \in BOOLEAN,
           disk = "sound", save(d, a, k, ok), FileOK'
    PROVE  /\ ok /\ vmFile' = Image(d, a, k) /\ vmFile' # Corrupt
           /\ vmFile'.db = d /\ vmFile'.active = a
           /\ \A id \in VMName : d[id] # None => vmFile'.conf[d[id]] = k[d[id]]
           /\ FilesAgree'
<1>1. PICK image : image = Image(d, a, k)
  OBVIOUS
<1>2. vmFile' = image
  BY <1>1 DEF save
<1>3. image.db = d /\ image.active = a /\ image # Corrupt
  <2>1. image \in [db : [VMName -> VM \cup {None}], active : SUBSET VMName,
                   conf : [VM -> Config]]
    BY <1>1, ConfigAssumption DEF Image
  <2> QED BY <1>1, <2>1, CorruptAssumption DEF Image
<1>4. \A id \in VMName : d[id] # None => image.conf[d[id]] = k[d[id]]
  BY <1>1 DEF Image
<1>5. NoClash(d, a, image.conf)
  BY <1>2, <1>3 DEF FileOK
<1>6. /\ NoClash(d, a, k)
      /\ DomainIndex(d, a, image.conf) = DomainIndex(d, a, k)
      /\ PortIndex(d, a, image.conf) = PortIndex(d, a, k)
  <2>1. \A id \in a : image.conf[d[id]] = k[d[id]]
    BY <1>4
  <2> QED BY <1>5, <2>1, SameConf
<1>7. ok /\ domainFile' = DomainIndex(d, a, k) /\ portFile' = PortIndex(d, a, k)
  BY <1>6, SaveWritesAll
<1> QED BY <1>1, <1>2, <1>3, <1>4, <1>6, <1>7 DEF FilesAgree

\* What the registry then knows, whether the save was cut short or not.
LEMMA ImageKnown ==
    ASSUME NEW d \in [VMName -> VM \cup {None}], NEW a \in SUBSET VMName,
           NEW k \in [VM -> Config], \A id \in a : d[id] # None,
           Published', disk' = "sound", vmFile' = Image(d, a, k)
    PROVE  /\ vmFile' # Corrupt
           /\ KnownVMs' = d /\ KnownActive' = a /\ KnownConfs' = ConfsOf(d, k)
           /\ KnownDomains' = DomainIndex(d, a, k) /\ KnownPorts' = PortIndex(d, a, k)
<1>1. PICK image : image = Image(d, a, k)
  OBVIOUS
<1>2. image.db = d /\ image.active = a /\ image # Corrupt
  <2>1. image \in [db : [VMName -> VM \cup {None}], active : SUBSET VMName,
                   conf : [VM -> Config]]
    BY <1>1, ConfigAssumption DEF Image
  <2> QED BY <1>1, <2>1, CorruptAssumption DEF Image
<1>3. \A id \in VMName : d[id] # None => image.conf[d[id]] = k[d[id]]
  BY <1>1 DEF Image
<1>4. ConfsOf(d, image.conf) = ConfsOf(d, k)
  BY <1>3 DEF ConfsOf
<1>5. /\ DomainIndex(d, a, image.conf) = DomainIndex(d, a, k)
      /\ PortIndex(d, a, image.conf) = PortIndex(d, a, k)
  <2>1. \A id \in a : image.conf[d[id]] = k[d[id]]
    BY <1>3
  <2> QED BY <2>1, SameConf
<1> QED BY <1>1, <1>2, <1>4, <1>5, KnownNext

RegistryStep ==
    \/ Registry!Next
    \/ UNCHANGED <<KnownVMs, KnownConfs, KnownActive, KnownDomains, KnownPorts>>

\* The database file is left alone.
LEMMA SameFile ==
    ASSUME Published, Published', disk = "sound", UNCHANGED <<disk, vmFile>>,
           vmFile # Corrupt
    PROVE  RegistryStep
BY Known, KnownNext DEF RegistryStep

\* A step that changes neither the files nor the entries.
LEMMA QuietStutters ==
    ASSUME Published, disk = "sound", Running, UNCHANGED <<disk, status, db, active, files>>
    PROVE  Published' /\ RegistryStep
<1>1. Published' /\ vmFile # Corrupt
  BY DEF Published, FilesAgree, Running, files
<1> QED BY <1>1, SameFile DEF files

\* It is loaded and written again.
LEMMA SameEntries ==
    ASSUME TypeOK, Published, Published', disk = "sound", UNCHANGED disk, vmFile # Corrupt,
           vmFile' = Image(vmFile.db, vmFile.active, vmFile.conf)
    PROVE  RegistryStep
<1>1. PICK d, a, k : d = vmFile.db /\ a = vmFile.active /\ k = vmFile.conf
  OBVIOUS
<1>2. /\ d \in [VMName -> VM \cup {None}] /\ a \in SUBSET VMName
      /\ k \in [VM -> Config] /\ \A id \in a : d[id] # None
  BY <1>1 DEF TypeOK
<1>3. vmFile' = Image(d, a, k)
  BY <1>1
<1>4. /\ KnownVMs' = d /\ KnownActive' = a /\ KnownConfs' = ConfsOf(d, k)
      /\ KnownDomains' = DomainIndex(d, a, k) /\ KnownPorts' = PortIndex(d, a, k)
  BY <1>2, <1>3, ImageKnown
<1> QED BY <1>1, <1>4, Known DEF RegistryStep

(***************************************************************************)
(* A save of the memory as it is publishes at most the configuration of    *)
(* the request that is about to save it, be it that request or another.    *)
(***************************************************************************)
LEMMA MemoryStep ==
    ASSUME Before, TypeOK', FileOK', RegistryInv, Published', disk = "sound",
           UNCHANGED disk, Running, vmFile' = Image(db, active, conf)
    PROVE  RegistryStep
<1>0. TypeOK /\ SerialIInv /\ Published /\ OthersSaved
  BY DEF Before, RegistryInv
<1>1. /\ db \in [VMName -> VM \cup {None}] /\ active \in SUBSET VMName
      /\ conf \in [VM -> Config] /\ \A id \in active : db[id] # None
  BY <1>0 DEF TypeOK, Present
<1>2. vmFile' # Corrupt /\ KnownVMs' = db /\ KnownActive' = active
      /\ KnownConfs' = ConfsOf(db, conf)
  <2>1. PICK d, a, k : d = db /\ a = active /\ k = conf
    OBVIOUS
  <2>2. vmFile' # Corrupt /\ KnownVMs' = d /\ KnownActive' = a /\ KnownConfs' = ConfsOf(d, k)
    BY <1>0, <1>1, <2>1, ImageKnown
  <2> QED BY <2>1, <2>2
<1>3. /\ vmFile # Corrupt
      /\ KnownVMs = db /\ KnownActive = active /\ KnownConfs = ConfsOf(db, vmFile.conf)
  BY <1>0, Known DEF Published
<1>4. CASE \A r \in Request : pc[r] # "updating"
  <2>1. vmFile' = vmFile
    BY <1>0, <1>4 DEF SerialIInv, Current, FilesCurrent
  <2> QED BY <1>0, <1>3, <2>1, SameFile
<1>5. CASE \E r \in Request : pc[r] = "updating"
  <2>1. PICK id \in Present :
           \A x \in Present \ {id} : conf[db[x]] = vmFile.conf[db[x]]
    BY <1>0, <1>5 DEF OthersSaved
  <2>2. PICK c \in Config : c = conf[db[id]]
    BY <1>1, <2>1 DEF Present
  <2>3. id \in VMName /\ db[id] # None
    BY <2>1 DEF Present
  <2>4. ConfsOf(db, conf) = [ConfsOf(db, vmFile.conf) EXCEPT ![id] = c]
    BY <2>1, <2>2, <2>3 DEF ConfsOf, Present
  <2>5. Registry!Redefine(id, c)
    BY <1>2, <1>3, <2>3, <2>4 DEF Registry!Redefine, Registry!Entries
  <2>6. Registry!Routed'
    BY <1>0, <1>2, RoutesNext
  <2> QED BY <2>3, <2>5, <2>6 DEF RegistryStep, Registry!Next
<1> QED BY <1>4, <1>5

\* mulchd goes on after such a save.
LEMMA MemorySaved ==
    ASSUME Before, TypeOK', SerialIInv', RegistryInv, disk = "sound",
           UNCHANGED <<disk, db, active>>, Running, Running',
           NEW ok \in BOOLEAN, save(db, active, conf, ok)
    PROVE  /\ Published' /\ RegistryStep
           /\ \A id \in Present : vmFile'.conf[db[id]] = conf[db[id]]
<1>0. TypeOK /\ FileOK'
  BY DEF Before, SerialIInv
<1>1. /\ db \in [VMName -> VM \cup {None}] /\ active \in SUBSET VMName
      /\ conf \in [VM -> Config] /\ \A id \in active : db[id] # None
  BY <1>0 DEF TypeOK, Present
<1>2. /\ vmFile' # Corrupt /\ vmFile'.db = db /\ vmFile'.active = active
      /\ vmFile' = Image(db, active, conf)
      /\ \A id \in VMName : db[id] # None => vmFile'.conf[db[id]] = conf[db[id]]
      /\ FilesAgree'
  BY <1>0, <1>1, SavePublishes
<1>3. Published'
  BY <1>2 DEF Published, Running
<1>4. RegistryStep
  BY <1>0, <1>2, <1>3, MemoryStep
<1> QED BY <1>2, <1>3, <1>4 DEF Present

\* No request is about to save a configuration: the file has those of the memory.
LEMMA AllKnown ==
    ASSUME TypeOK, Current, Published, disk = "sound", Running,
           \A q \in Request : pc[q] # "updating"
    PROVE  /\ vmFile # Corrupt /\ vmFile = Image(db, active, conf)
           /\ KnownVMs = db /\ KnownActive = active /\ KnownConfs = ConfsOf(db, conf)
<1>1. vmFile = Image(db, active, conf)
  BY DEF Current, FilesCurrent
<1>2. ConfsOf(db, vmFile.conf) = ConfsOf(db, conf)
  BY <1>1 DEF Image, ConfsOf, TypeOK
<1> QED BY <1>1, <1>2, Known DEF Published

(***************************************************************************)
(* The change of a request reaches the database file: it is a step of the  *)
(* registry, whether mulchd stops then or not.                             *)
(***************************************************************************)
Reaches(r, d, a) ==
    /\ Before /\ Serial /\ TypeOK' /\ FileOK' /\ Published /\ Published'
    /\ disk = "sound" /\ disk' = "sound" /\ Running
    /\ Saved(r, d, a) /\ vmFile' = Image(d, a, conf)

LEMMA ReachesKnown ==
    ASSUME NEW r \in Request, NEW d, NEW a, Reaches(r, d, a)
    PROVE  /\ KnownVMs' = d /\ KnownActive' = a /\ KnownConfs' = ConfsOf(d, conf)
           /\ KnownVMs = db /\ KnownActive = active /\ KnownConfs = ConfsOf(db, conf)
           /\ vmFile # Corrupt /\ vmFile = Image(db, active, conf)
           /\ Registry!Routed'
<1>0. TypeOK /\ MemoryTypeOK /\ RequestsTypeOK /\ Current
  BY TypeParts DEF Reaches, Before, SerialIInv
<1>1. /\ KnownVMs = db /\ KnownActive = active /\ KnownConfs = ConfsOf(db, conf)
      /\ vmFile # Corrupt /\ vmFile = Image(db, active, conf)
  <2>1. \A q \in Request : pc[q] # "updating"
    BY DEF Reaches, Saved, Serial, Changing
  <2> QED BY <1>0, <2>1, AllKnown DEF Reaches
<1>2. /\ vmFile' # Corrupt
      /\ KnownVMs' = d /\ KnownActive' = a /\ KnownConfs' = ConfsOf(d, conf)
  <2>1. PICK k : k = conf
    OBVIOUS
  <2>2. /\ d \in [VMName -> VM \cup {None}] /\ a \in SUBSET VMName
        /\ k \in [VM -> Config] /\ \A id \in a : d[id] # None
    BY <1>0, <2>1, SavedTypes DEF Reaches, Savable, MemoryTypeOK
  <2>3. Published' /\ disk' = "sound" /\ vmFile' = Image(d, a, k)
    BY <2>1 DEF Reaches
  <2>4. /\ vmFile' # Corrupt
        /\ KnownVMs' = d /\ KnownActive' = a /\ KnownConfs' = ConfsOf(d, k)
    BY <2>2, <2>3, ImageKnown
  <2> QED BY <2>1, <2>4
<1>3. Registry!Routed'
  BY <1>2, RoutesNext DEF Reaches
<1> QED BY <1>1, <1>2, <1>3

\* The entry of a VM that is built is added, and takes its name over if it is active.
LEMMA AddStep ==
    ASSUME NEW r \in Request, NEW d, NEW a, Reaches(r, d, a), pc[r] = "adding"
    PROVE  RegistryStep
<1>0. TypeOK
  BY DEF Reaches, Before
<1>1. PICK x \in Arg : x = arg[r] /\ x.vm \in VM
  BY <1>0 DEF TypeOK
<1>2. /\ db[x.id] = None /\ d = [db EXCEPT ![x.id] = x.vm]
      /\ a = IF x.active THEN DeactivateAll(x.id[1]) \cup {x.id} ELSE active
      /\ x.id \in VMName /\ x.active \in BOOLEAN
  BY <1>1 DEF Reaches, Saved, Arg
<1>3. PICK c \in Config : c = conf[x.vm]
  BY <1>0, <1>1 DEF TypeOK
<1>4. ConfsOf(d, conf) = [ConfsOf(db, conf) EXCEPT ![x.id] = c]
  BY <1>0, <1>1, <1>2, <1>3, SentinelAssumption DEF ConfsOf, TypeOK
<1>5. Registry!Add(x.id, x.vm, c, x.active) /\ Registry!Routed'
  BY <1>2, <1>4, ReachesKnown DEF Registry!Add, Registry!OfOthers, DeactivateAll
<1> QED BY <1>1, <1>2, <1>5 DEF RegistryStep, Registry!Next

\* A revision that was found takes its name over, or none does.
LEMMA ActivateStep ==
    ASSUME NEW r \in Request, NEW d, NEW a, Reaches(r, d, a),
           pc[r] \in {"activating", "falling"}
    PROVE  RegistryStep
<1>0. TypeOK /\ SerialIInv
  BY DEF Reaches, Before
<1>1. PICK x \in Arg : x = arg[r]
  BY <1>0 DEF TypeOK
<1>2. PICK n, rev : n = x.id[1] /\ rev = x.rev
  OBVIOUS
<1>3. d = db /\ a = ActiveAfter(n, rev)
  BY <1>1, <1>2 DEF Reaches, Saved
<1>4. n \in Name /\ rev \in Revision \cup {RevisionNone} /\ CanActivate(n, rev)
  BY <1>0, <1>1, <1>2 DEF SerialIInv, Checked, Arg, VMName
<1>5. CASE rev = RevisionNone
  <2>1. a = DeactivateAll(n)
    BY <1>3, <1>5, ConfigAssumption
       DEF ActiveAfter, EntriesOf, Present, VMName, Revision, RevisionNone
  <2>2. Registry!Deactivate(n) /\ Registry!Routed'
    BY <1>3, <2>1, ReachesKnown DEF Registry!Deactivate, Registry!OfOthers, DeactivateAll
  <2> QED BY <1>4, <2>2 DEF RegistryStep, Registry!Next
<1>6. CASE rev # RevisionNone
  <2>1. PICK id \in VMName : id = <<n, rev>> /\ db[id] # None
    BY <1>4, <1>6 DEF CanActivate, Present
  <2>2. a = DeactivateAll(n) \cup {id} /\ id[1] = n
    BY <1>3, <2>1 DEF ActiveAfter, EntriesOf, Present, VMName
  <2>3. Registry!Activate(id) /\ Registry!Routed'
    BY <1>3, <2>1, <2>2, ReachesKnown
       DEF Registry!Activate, Registry!OfOthers, Registry!Entries, DeactivateAll
  <2> QED BY <2>3 DEF RegistryStep, Registry!Next
<1> QED BY <1>5, <1>6

\* An entry is removed once another revision serves its name, or none is left.
LEMMA DeleteStep ==
    ASSUME NEW r \in Request, NEW d, NEW a, Reaches(r, d, a), pc[r] = "deleting"
    PROVE  RegistryStep
<1>0. TypeOK /\ SerialIInv
  BY DEF Reaches, Before
<1>1. PICK id \in VMName : id = arg[r].id
  BY <1>0 DEF TypeOK, Arg
<1>2. d = [db EXCEPT ![id] = None] /\ a = active \ {id}
  BY <1>1 DEF Reaches, Saved
<1>3. ConfsOf(d, conf) = [ConfsOf(db, conf) EXCEPT ![id] = Blank]
  BY <1>0, <1>2 DEF ConfsOf, TypeOK
<1>4. CASE db[id] # None
  <2>1. id \in active => EntriesOf(id[1]) = {id}
    BY <1>0, <1>1 DEF SerialIInv, Checked
  <2>2. Registry!Remove(id) /\ Registry!Routed'
    BY <1>2, <1>3, <1>4, <2>1, ReachesKnown
       DEF Registry!Remove, Registry!Entries, EntriesOf, Present
  <2> QED BY <2>2 DEF RegistryStep, Registry!Next
\* Another deletion of the entry came first.
<1>5. CASE db[id] = None
  <2>1. d = db /\ a = active
    BY <1>0, <1>2, <1>5 DEF TypeOK, Present
  <2>2. vmFile' = vmFile /\ vmFile # Corrupt
    BY <2>1, ReachesKnown DEF Reaches
  <2> QED BY <2>2, SameFile DEF Reaches
<1> QED BY <1>4, <1>5

LEMMA SavedStep ==
    ASSUME NEW r \in Request, NEW d, NEW a, Reaches(r, d, a)
    PROVE  RegistryStep
BY AddStep, ActivateStep, DeleteStep DEF Reaches, Saved

\* A request that saves its change.
LEMMA CommitStep ==
    ASSUME Before, TypeOK', SerialIInv', RegistryInv, Serial, disk = "sound",
           UNCHANGED disk, Running, NEW r \in Request,
           AddCommit(r) \/ ActivateCommit(r) \/ FallbackCommit(r) \/ DeleteCommit(r)
    PROVE  Published' /\ RegistryStep
<1>0. /\ TypeOK /\ MemoryTypeOK /\ RequestsTypeOK /\ Published /\ FileOK'
  BY TypeParts DEF Before, RegistryInv, SerialIInv
<1>1. PICK d, a : /\ Saved(r, d, a) /\ UNCHANGED status
                  /\ \E ok \in BOOLEAN : /\ save(d, a, conf, ok)
                                         /\ ok => db' = d /\ active' = a
  <2>1. CASE AddCommit(r)
    <3>1. PICK d, a : /\ d = [db EXCEPT ![arg[r].id] = arg[r].vm]
                      /\ a = IF arg[r].active
                             THEN DeactivateAll(arg[r].id[1]) \cup {arg[r].id} ELSE active
      OBVIOUS
    <3>2. /\ Saved(r, d, a) /\ UNCHANGED status
          /\ \E ok \in BOOLEAN : save(d, a, conf, ok) /\ (ok => db' = d /\ active' = a)
      BY <2>1, <3>1 DEF AddCommit, Saved
    <3> QED BY <3>2
  <2>2. CASE ActivateCommit(r) \/ FallbackCommit(r)
    <3>1. PICK d, a : d = db /\ a = ActiveAfter(arg[r].id[1], arg[r].rev)
      OBVIOUS
    <3>2. /\ Saved(r, d, a) /\ UNCHANGED status
          /\ \E ok \in BOOLEAN : save(d, a, conf, ok) /\ (ok => db' = d /\ active' = a)
      BY <2>2, <3>1 DEF ActivateCommit, FallbackCommit, SetActiveRevision, Saved
    <3> QED BY <3>2
  <2>3. CASE DeleteCommit(r)
    <3>1. PICK d, a : d = [db EXCEPT ![arg[r].id] = None] /\ a = active \ {arg[r].id}
      OBVIOUS
    <3>2. /\ Saved(r, d, a) /\ UNCHANGED status
          /\ \E ok \in BOOLEAN : save(d, a, conf, ok) /\ (ok => db' = d /\ active' = a)
      BY <2>3, <3>1 DEF DeleteCommit, Saved
    <3> QED BY <3>2
  <2> QED BY <2>1, <2>2, <2>3
<1>2. PICK ok \in BOOLEAN : save(d, a, conf, ok) /\ (ok => db' = d /\ active' = a)
  BY <1>1
<1>3. /\ d \in [VMName -> VM \cup {None}] /\ a \in SUBSET VMName
      /\ conf \in [VM -> Config] /\ \A id \in a : d[id] # None
  BY <1>0, <1>1, SavedTypes DEF Savable, MemoryTypeOK
<1>4. /\ ok /\ vmFile' = Image(d, a, conf) /\ vmFile' # Corrupt
      /\ vmFile'.db = d /\ vmFile'.active = a /\ FilesAgree'
  <2>1. PICK k : k = conf
    OBVIOUS
  <2>2. save(d, a, k, ok) /\ k \in [VM -> Config]
    BY <1>2, <1>3, <2>1
  <2>3. /\ ok /\ vmFile' = Image(d, a, k) /\ vmFile' # Corrupt
        /\ vmFile'.db = d /\ vmFile'.active = a /\ FilesAgree'
    BY <1>0, <1>3, <2>2, SavePublishes
  <2> QED BY <2>1, <2>3
<1>5. Published'
  BY <1>1, <1>2, <1>4 DEF Published, Running
<1>6. RegistryStep
  <2>1. Reaches(r, d, a)
    BY <1>0, <1>1, <1>4, <1>5 DEF Reaches
  <2> QED BY <2>1, SavedStep
<1> QED BY <1>5, <1>6

-----------------------------------------------------------------------------
(* Stopping and starting.                                                  *)

\* The save a stop cuts short takes effect or not, unless it leaves the file truncated.
LEMMA CrashStep ==
    ASSUME Before, TypeOK', SerialIInv', RegistryInv, Serial, disk = "sound",
           UNCHANGED disk, Crash
    PROVE  Published' /\ (vmFile' = Corrupt \/ RegistryStep)
<1>1. Running /\ status' = "down" /\ Stops
  BY DEF Crash
<1>2. Published'
  BY <1>1 DEF Published, Running
<1>3. /\ TypeOK /\ Published /\ vmFile # Corrupt /\ FileOK'
  BY <1>1 DEF Before, RegistryInv, Published, SerialIInv
<1>4. CASE cutSave(db, active, conf)
  <2>1. vmFile' \in {vmFile, Corrupt, Image(db, active, conf)}
    BY <1>4 DEF cutSave
  <2> QED BY <1>1, <1>2, <1>3, <2>1, SameFile, MemoryStep
<1>5. CASE \E r \in Request : \E d, a : Saved(r, d, a) /\ cutSave(d, a, conf)
  <2>1. PICK r \in Request : \E d, a : Saved(r, d, a) /\ cutSave(d, a, conf)
    BY <1>5
  <2>2. PICK d, a : Saved(r, d, a) /\ cutSave(d, a, conf)
    BY <2>1
  <2>3. vmFile' \in {vmFile, Corrupt, Image(d, a, conf)}
    BY <2>2 DEF cutSave
  <2>4. vmFile' = Image(d, a, conf) => Reaches(r, d, a)
    BY <1>1, <1>2, <1>3, <2>2 DEF Reaches
  <2> QED BY <1>2, <1>3, <2>3, <2>4, SameFile, SavedStep
<1> QED BY <1>1, <1>4, <1>5, StopsCut

\* A start loads the file and writes it again.
LEMMA StartStep ==
    ASSUME Before, SerialIInv', Published, disk = "sound", UNCHANGED disk,
           Start \/ StartStops
    PROVE  Published' /\ (vmFile' = Corrupt \/ RegistryStep)
<1>0. TypeOK /\ FileOK'
  BY DEF Before, SerialIInv
<1>1. CASE Start /\ vmFile = Corrupt
  BY <1>1 DEF Start, files, Published, Running
<1>2. CASE Start /\ vmFile # Corrupt
  <2>1. PICK d, a, k : d = vmFile.db /\ a = vmFile.active /\ k = vmFile.conf
    OBVIOUS
  <2>2. PICK ok \in BOOLEAN : /\ save(d, a, k, ok) /\ db' = d /\ active' = a
                              /\ status' = IF ok THEN "starting" ELSE "failed"
    BY <1>2, <2>1 DEF Start
  <2>3. /\ d \in [VMName -> VM \cup {None}] /\ a \in SUBSET VMName
        /\ k \in [VM -> Config] /\ \A id \in a : d[id] # None
    BY <1>0, <1>2, <2>1 DEF TypeOK
  <2>4. /\ ok /\ vmFile' = Image(d, a, k) /\ vmFile' # Corrupt
        /\ vmFile'.db = d /\ vmFile'.active = a /\ FilesAgree'
    BY <1>0, <2>2, <2>3, SavePublishes
  <2>5. Published'
    BY <2>2, <2>4 DEF Published
  <2> QED BY <1>0, <1>2, <2>1, <2>4, <2>5, SameEntries
<1>3. CASE StartStops
  <2>1. /\ vmFile # Corrupt /\ status = "down" /\ UNCHANGED status
        /\ vmFile' \in {vmFile, Corrupt, Image(vmFile.db, vmFile.active, vmFile.conf)}
    BY <1>3 DEF StartStops, cutSave
  <2>2. Published'
    BY <2>1 DEF Published, Running
  <2> QED BY <1>0, <2>1, <2>2, SameFile, SameEntries
<1> QED BY <1>1, <1>2, <1>3

-----------------------------------------------------------------------------
(* The configuration that is not saved yet.                                *)

LEMMA QuietSaved ==
    ASSUME OthersSaved, NEW r \in Request, Moves(r), pc'[r] # "updating",
           UNCHANGED <<disk, db, conf, vmFile>>
    PROVE  OthersSaved'
BY DEF OthersSaved, Moves, Present

\* A request that was the only one to have checked anything has saved.
LEMMA AloneSaved ==
    ASSUME Serial, NEW r \in Request, Moves(r), pc[r] \in Changing, pc'[r] # "updating"
    PROVE  OthersSaved'
BY DEF Serial, Moves, Changing, OthersSaved

\* The steps that leave the maps and the files alone.
LEMMA QuietStep ==
    ASSUME Before, RegistryInv, disk = "sound", UNCHANGED disk, Running, NEW r \in Request,
           \/ BuildFails(r) \/ AddCheck(r) \/ AddExists(r) \/ DeleteFromGreenhouse(r)
           \/ \E n \in Name, rev \in Revision \cup {RevisionNone} : ActivateCheck(r, n, rev)
           \/ \E id \in VMName : DeleteLookup(r, id)
           \/ FallbackCheck(r) \/ FallbackRefused(r)
           \/ \E id \in VMName, c \in Config : RedefineCheck(r, id, c)
    PROVE  RegistryInv' /\ RegistryStep
<1>1. /\ UNCHANGED <<status, db, active, conf, files>>
      /\ Moves(r) /\ pc'[r] # "updating"
  <2>1. UNCHANGED <<status, db, active, conf, files>>
    BY DEF BuildFails, AddCheck, AddExists, DeleteFromGreenhouse, ActivateCheck,
           DeleteLookup, FallbackCheck, FallbackRefused, RedefineCheck, memory
  <2>2. \E label, a : Goto(r, label, a) /\ label # "updating"
    <3>1. CASE BuildFails(r) \/ AddCheck(r) \/ AddExists(r) \/ DeleteFromGreenhouse(r)
      BY <3>1 DEF BuildFails, AddCheck, AddExists, DeleteFromGreenhouse, Done
    <3>2. CASE \E n \in Name, rev \in Revision \cup {RevisionNone} : ActivateCheck(r, n, rev)
      BY <3>2 DEF ActivateCheck
    <3>3. CASE \E id \in VMName : DeleteLookup(r, id)
      <4>1. PICK id \in VMName : DeleteLookup(r, id)
        BY <3>3
      <4>2. PICK label, a : Goto(r, label, a) /\ label \in {"fallback", "deleting"}
        BY <4>1 DEF DeleteLookup
      <4> QED BY <4>2
    <3>4. CASE FallbackCheck(r) \/ FallbackRefused(r)
      BY <3>4 DEF FallbackCheck, FallbackRefused, Done
    <3>5. CASE \E id \in VMName, c \in Config : RedefineCheck(r, id, c)
      BY <3>5 DEF RedefineCheck
    <3> QED BY <3>1, <3>2, <3>3, <3>4, <3>5
  <2> QED BY <2>1, <2>2, GotoMoves DEF Before
<1>2. Published' /\ RegistryStep
  BY <1>1, QuietStutters DEF RegistryInv
<1>3. OthersSaved'
  BY <1>1, QuietSaved DEF RegistryInv, files
<1> QED BY <1>2, <1>3 DEF RegistryInv

\* The configuration of a new VM is that of no entry.
LEMMA NewVMStep ==
    ASSUME Before, TypeOK', SerialIInv', RegistryInv, disk = "sound", UNCHANGED disk,
           NEW r \in Request, NEW n \in Name, NEW c \in Config, NEW act \in BOOLEAN,
           NewVM(r, n, c, act)
    PROVE  RegistryInv' /\ RegistryStep
<1>0. TypeOK /\ Published /\ OthersSaved
  BY DEF Before, RegistryInv
<1>1. PICK v, id, a : /\ v \in VM /\ Fresh(v) /\ conf' = [conf EXCEPT ![v] = c]
                      /\ AddToGreenhouse(id, v) /\ Goto(r, "building", a)
  BY DEF NewVM
<1>2. /\ UNCHANGED <<status, db, active>> /\ status = "up"
      /\ Moves(r) /\ pc'[r] = "building"
  BY <1>0, <1>1, GotoMoves DEF NewVM, Serving
<1>3. \A x \in Present : conf'[db[x]] = conf[db[x]]
  BY <1>0, <1>1 DEF Fresh, TypeOK, Present
<1>4. CASE UNCHANGED files
  <2>1. Published' /\ RegistryStep
    BY <1>0, <1>2, <1>4, QuietStutters DEF Running
  <2>2. OthersSaved'
    BY <1>0, <1>2, <1>3, <1>4 DEF OthersSaved, Moves, Present, files
  <2> QED BY <2>1, <2>2 DEF RegistryInv
<1>5. CASE \E ok \in BOOLEAN : save(db, active, conf, ok)
  <2>1. Running /\ Running'
    BY <1>2 DEF Running
  <2>2. /\ Published' /\ RegistryStep
        /\ \A x \in Present : vmFile'.conf[db[x]] = conf[db[x]]
    BY <1>2, <1>5, <2>1, MemorySaved
  <2>3. OthersSaved'
    <3>1. \A x \in Present : conf'[db[x]] = vmFile'.conf[db[x]]
      BY <1>3, <2>2
    <3>2. ASSUME NEW q \in Request, pc'[q] = "updating" PROVE Present # {}
      <4>1. pc[q] = "updating"
        BY <1>2, <3>2 DEF Moves
      <4> QED BY <1>0, <4>1 DEF OthersSaved
    <3> QED BY <1>2, <3>1, <3>2 DEF OthersSaved, Present
  <2> QED BY <2>2, <2>3 DEF RegistryInv
<1> QED BY <1>1, <1>4, <1>5 DEF AddToGreenhouse

\* The configuration is that of one entry, the only one that is not saved.
LEMMA RedefineStep ==
    ASSUME Before, RegistryInv, Serial, disk = "sound", UNCHANGED disk, Running,
           NEW r \in Request, RedefineWrite(r)
    PROVE  RegistryInv' /\ RegistryStep
<1>0. TypeOK /\ SerialIInv /\ Published
  BY DEF Before, RegistryInv
<1>1. PICK id \in VMName, c \in Config : id = arg[r].id /\ c = arg[r].conf
  BY <1>0 DEF RedefineWrite, TypeOK, Arg
<1>2. /\ pc[r] = "redefining" /\ UNCHANGED <<status, db, active, files>>
      /\ conf' = [conf EXCEPT ![arg[r].vm] = c]
  BY <1>1 DEF RedefineWrite
<1>3. id \in Present /\ arg[r].vm = db[id]
  BY <1>0, <1>1, <1>2 DEF SerialIInv, Checked
<1>4. Published' /\ RegistryStep
  BY <1>0, <1>2, QuietStutters
<1>5. vmFile = Image(db, active, conf)
  <2>1. \A q \in Request : pc[q] # "updating"
    BY <1>2 DEF Serial, Changing
  <2> QED BY <1>0, <2>1 DEF SerialIInv, Current, FilesCurrent
<1>6. \A x \in Present : vmFile.conf[db[x]] = conf[db[x]]
  BY <1>0, <1>5 DEF Image, TypeOK, Present
<1>7. \A x \in Present \ {id} : conf'[db[x]] = conf[db[x]]
  <2>1. \A x \in Present \ {id} : db[x] # db[id] /\ db[x] \in VM
    BY <1>0, <1>3 DEF SerialIInv, OwnVM, TypeOK, Present
  <2> QED BY <1>0, <1>2, <1>3, <2>1 DEF TypeOK
<1>8. OthersSaved'
  <2>1. Present' = Present
    BY <1>2 DEF Present
  <2>2. \A x \in Present' \ {id} : conf'[db'[x]] = vmFile'.conf[db'[x]]
    BY <1>2, <1>6, <1>7, <2>1 DEF files
  <2> QED BY <1>3, <2>1, <2>2 DEF OthersSaved
<1> QED BY <1>4, <1>8 DEF RegistryInv

LEMMA UpdateStep ==
    ASSUME Before, TypeOK', SerialIInv', RegistryInv, Serial, disk = "sound",
           UNCHANGED disk, Running, NEW r \in Request, Update(r)
    PROVE  RegistryInv' /\ RegistryStep
<1>1. /\ pc[r] = "updating" /\ Moves(r) /\ pc'[r] = "idle"
      /\ UNCHANGED <<status, db, active, conf>>
      /\ \E ok \in BOOLEAN : save(db, active, conf, ok)
  BY GotoMoves DEF Before, Update, Done, memory
<1>2. Published' /\ RegistryStep
  BY <1>1, MemorySaved DEF Running
<1>3. OthersSaved'
  BY <1>1, AloneSaved DEF Changing
<1> QED BY <1>2, <1>3 DEF RegistryInv

-----------------------------------------------------------------------------
(* Every step is one of the registry, or none.                             *)

\* A daemon that is down or has failed handles nothing.
LEMMA HandleRuns ==
    ASSUME Stopped, NEW r \in Request, Handle(r)
    PROVE  Running
<1>1. pc[r] # "idle" \/ Running
  BY DEF Handle, NewVM, BuildFails, AddCheck, AddExists, AddCommit,
         DeleteFromGreenhouse, ActivateCheck, ActivateCommit, DeleteLookup,
         FallbackCheck, FallbackRefused, FallbackCommit, DeleteCommit,
         RedefineCheck, RedefineWrite, Update, Serving, Running
<1> QED BY <1>1 DEF Stopped, AllIdle

LEMMA RegistryHandle ==
    ASSUME Before, TypeOK', SerialIInv', RegistryInv, Serial, Stopped, disk = "sound",
           UNCHANGED disk, NEW r \in Request, Handle(r)
    PROVE  RegistryInv' /\ RegistryStep
<1>0. Running
  BY HandleRuns
<1>1. CASE \E n \in Name, c \in Config, act \in BOOLEAN : NewVM(r, n, c, act)
  BY <1>1, NewVMStep
<1>2. CASE \/ BuildFails(r) \/ AddCheck(r) \/ AddExists(r) \/ DeleteFromGreenhouse(r)
           \/ \E n \in Name, rev \in Revision \cup {RevisionNone} : ActivateCheck(r, n, rev)
           \/ \E id \in VMName : DeleteLookup(r, id)
           \/ FallbackCheck(r) \/ FallbackRefused(r)
           \/ \E id \in VMName, c \in Config : RedefineCheck(r, id, c)
  BY <1>0, <1>2, QuietStep
<1>3. CASE AddCommit(r) \/ ActivateCommit(r) \/ FallbackCommit(r) \/ DeleteCommit(r)
  <2>1. Published' /\ RegistryStep
    BY <1>0, <1>3, CommitStep
  <2>2. pc[r] \in Changing /\ Moves(r) /\ pc'[r] # "updating"
    <3>1. PICK label, a : Goto(r, label, a) /\ label # "updating"
      BY <1>3 DEF AddCommit, ActivateCommit, FallbackCommit, DeleteCommit, Done
    <3>2. pc[r] \in Changing
      BY <1>3 DEF AddCommit, ActivateCommit, FallbackCommit, DeleteCommit, Changing
    <3> QED BY <3>1, <3>2, GotoMoves DEF Before
  <2>3. OthersSaved'
    BY <2>2, AloneSaved
  <2> QED BY <2>1, <2>3 DEF RegistryInv
<1>4. CASE RedefineWrite(r)
  BY <1>0, <1>4, RedefineStep
<1>5. CASE Update(r)
  BY <1>0, <1>5, UpdateStep
<1> QED BY <1>1, <1>2, <1>3, <1>4, <1>5 DEF Handle

LEMMA RegistryNext ==
    ASSUME OnePortEach
    PROVE  /\ TypeOK /\ TypeOK' /\ OneActivePerName /\ Serial /\ Stopped
           /\ SerialIInv /\ SerialIInv' /\ RegistryInv /\ [Next]_vars
           => /\ RegistryInv'
              /\ [disk = "sound" /\ vmFile' # Corrupt => Registry!Next]_(Registry!vars)
<1> SUFFICES ASSUME TypeOK, TypeOK', OneActivePerName, Serial, Stopped,
                    SerialIInv, SerialIInv', RegistryInv, [Next]_vars
             PROVE  /\ RegistryInv'
                    /\ [disk = "sound" /\ vmFile' # Corrupt => Registry!Next]_(Registry!vars)
  OBVIOUS
<1>0. Before /\ UNCHANGED disk
  BY DEF Before, Next, vars
<1>1. CASE disk # "sound"
  BY <1>0, <1>1 DEF RegistryInv, Published, OthersSaved
<1>2. CASE disk = "sound"
  <2> SUFFICES RegistryInv' /\ (vmFile' = Corrupt \/ RegistryStep)
    BY DEF RegistryStep, Registry!vars
  <2>0. OthersSaved' \/ \E r \in Request : pc'[r] # "idle"
    BY DEF OthersSaved
  <2>1. CASE \E r \in Request : Handle(r)
    BY <1>0, <1>2, <2>1, RegistryHandle
  <2>2. CASE Crash
    <3>1. \A r \in Request : pc'[r] = "idle"
      BY <2>2 DEF Crash, AllIdle
    <3> QED BY <1>0, <1>2, <2>0, <2>2, <3>1, CrashStep DEF RegistryInv
  <2>3. CASE Start \/ StartStops
    <3>1. \A r \in Request : pc'[r] = "idle"
      BY <2>3 DEF Start, StartStops, Stopped, AllIdle, Running
    <3> QED BY <1>0, <1>2, <2>0, <2>3, <3>1, StartStep DEF RegistryInv
  <2>4. CASE InitVMDB
    <3>1. \A r \in Request : pc'[r] = "idle"
      BY <2>4 DEF InitVMDB, AllIdle
    <3>2. /\ UNCHANGED <<db, active>> /\ Running /\ Running'
          /\ \E ok \in BOOLEAN : save(db, active, conf, ok)
      BY <2>4 DEF InitVMDB, memory, Running
    <3> QED BY <1>0, <1>2, <2>0, <3>1, <3>2, MemorySaved DEF RegistryInv
  <2>5. CASE UNCHANGED vars
    <3>1. RegistryStep
      BY <2>5 DEF vars, RegistryStep, KnownVMs, KnownActive, KnownConfs, KnownDomains,
                  KnownPorts, Stored, Image, DomainIndex, PortIndex, Running
    <3>s. Published'
      BY <2>5 DEF RegistryInv, Published, FilesAgree, Running, vars
    <3>2. OthersSaved'
      BY <2>5 DEF RegistryInv, OthersSaved, Present, vars
    <3> QED BY <3>1, <3>s, <3>2 DEF RegistryInv
  <2> QED BY <2>1, <2>2, <2>3, <2>4, <2>5 DEF Next
<1> QED BY <1>1, <1>2

LEMMA RegistryInit == Init => RegistryInv /\ Registry!Init
<1> SUFFICES ASSUME Init PROVE RegistryInv /\ Registry!Init
  OBVIOUS
<1>1. /\ db = NoEntries /\ active = {} /\ status = "down" /\ pc = AllIdle
      /\ vmFile = Image(db, active, conf)
      /\ domainFile = [dom \in Domain |-> None]
      /\ portFile = [port \in PublicPort |-> None]
  BY DEF Init
<1>2. /\ vmFile # Corrupt /\ vmFile.db = NoEntries /\ vmFile.active = {}
  <2>1. SerialIInv
    BY SerialInit
  <2>2. vmFile \in [db : [VMName -> VM \cup {None}], active : SUBSET VMName,
                    conf : [VM -> Config]]
    BY <1>1, ConfigAssumption DEF Image, NoEntries, Init
  <2> QED BY <1>1, <2>2, CorruptAssumption DEF Image
<1>3. RegistryInv
  BY <1>1 DEF RegistryInv, Published, OthersSaved, Running, AllIdle
<1>4. KnownVMs = NoEntries /\ KnownActive = {} /\ KnownConfs = [id \in VMName |-> Blank]
  BY <1>1, <1>2 DEF KnownVMs, KnownActive, KnownConfs, Stored, Running, NoEntries
<1>5. /\ KnownDomains = [dom \in Domain |-> None]
      /\ KnownPorts = [port \in PublicPort |-> None]
  BY <1>1, <1>2 DEF KnownDomains, KnownPorts, Stored, Running, DomainIndex, PortIndex
<1>6. Registry!Routed
  BY <1>4, <1>5, SentinelAssumption DEF Registry!Routed
<1> QED BY <1>3, <1>4, <1>6 DEF Registry!Init, NoEntries

(***************************************************************************)
(* As long as changes do not cross, the database file and the two lists of *)
(* mulch-proxy are, on a sound disk, a registry whose changes are atomic   *)
(* and survive restarts: a request that was checked and saved under        *)
(* separate locks has the effect of one step, whatever VMs are being       *)
(* built; and a save that a stop cuts short has that effect or none,       *)
(* unless it leaves the database file truncated.                           *)
(***************************************************************************)
THEOREM SerialIsARegistry ==
    ASSUME OnePortEach
    PROVE  Spec /\ []Serial => ImplementsRegistry
<1>1. Spec => []TypeOK /\ []OneActivePerName
  BY TypeCorrect, OneActiveRevision
<1>2. Spec => []Stopped
  BY SerialInit, StoppedNext, TypeCorrect, PTL DEF Spec
<1> QED BY <1>1, <1>2, SerialInvariant, RegistryInit, RegistryNext, PTL
        DEF ImplementsRegistry, Spec
=============================================================================
