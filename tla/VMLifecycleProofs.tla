--------------------------- MODULE VMLifecycleProofs ---------------------------
(***************************************************************************)
(* Theorems about VMLifecycle: its types, the removal of the marks of the  *)
(* work in progress, the backups that exist, nothing left behind, the data *)
(* of the users.  The first two are about what the record of an operation  *)
(* holds at each of its steps: each action puts a well-formed record       *)
(* (Moves), from which both follow (MovesPreserve).  The others are shown  *)
(* the same way: what an action does to the backups (Unstored,             *)
(* TouchingKeeps), to the disks and domains (Tidy, TidyKeeps), and what    *)
(* the next step may count on to have the data (Advances, AdvancesKeeps).  *)
(***************************************************************************)
EXTENDS VMLifecycle, WellFoundedInduction, TLAPS

\* Membership of a label is decided by expanding the sets of labels.
USE DEF Kind, Label, NewVMLabel, VolumeLabel, BackupLabel, RestoreLabel, DomainLabel,
        DeleteLabel, RebuildLabel, DropLabel

\* TypeOK is made of the state of the system and of the operations.
StateOK ==
    /\ setting \in Setting
    /\ disk \in [Revision -> {None} \cup Content]
    /\ dom \in [Revision -> VM \cup {None}]
    /\ on \subseteq VM /\ locked \subseteq VM /\ wip \subseteq VM
    /\ attached \in [VM -> Backup \cup {None}]
    /\ bvol \in [Backup -> {None} \cup Content]
    /\ db \in [Revision -> VM \cup {None}]
    /\ active \in Present \cup {None}
    /\ bdb \subseteq Backup
    /\ data \in {None} \cup Content
    /\ wrote \in 0..MaxWrites

Valid(o) == o = None \/ (o \in Op /\ WellFormed(o))

OpsOK == op \in [Request -> Op \cup {None}] /\ \A r \in Request : Valid(op[r])

LEMMA TypeParts == TypeOK <=> StateOK /\ OpsOK
  BY DEF TypeOK, StateOK, OpsOK, Valid

-----------------------------------------------------------------------------
(* Moves of an operation. *)

\* The steps between SetOperation and its deferred reset.
Marking == {"bvolume", "rattach", "rscripts", "rdetach"} \cup VolumeLabel

Marks(o, v) == o # None /\ o.pc \in Marking /\ o.held = v

MarksOK == \A v \in wip : \E r \in Request : Marks(op[r], v)

\* An operation that is not marked, or whose mark is removed.
Clears(r) == \A v \in wip' : v \in wip /\ ~Marks(op[r], v)

\* Request r goes on with o, and leaves no mark that is not o's.
Moves(r, o) ==
    /\ Put(r, o)
    /\ o \in Op \cup {None} /\ Valid(o)
    /\ \A v \in wip' : (v \in wip /\ ~Marks(op[r], v)) \/ Marks(o, v)

LEMMA MovesPreserve ==
    ASSUME OpsOK, MarksOK, NEW r \in Request, NEW o, Moves(r, o)
    PROVE  OpsOK' /\ MarksOK'
  <1>1. op' \in [Request -> Op \cup {None}] /\ op'[r] = o
        /\ \A q \in Request \ {r} : op'[q] = op[q]
    BY DEF OpsOK, Moves, Put
  <1>2. \A q \in Request : Valid(op'[q])
    BY <1>1 DEF OpsOK, Moves
  <1>3. OpsOK'
    BY <1>1, <1>2 DEF OpsOK, Valid, WellFormed
  <1>4. ASSUME NEW v \in wip' PROVE \E q \in Request : Marks(op'[q], v)
    <2>1. CASE Marks(o, v)
      BY <2>1, <1>1
    <2>2. CASE v \in wip /\ ~Marks(op[r], v)
      BY <2>2, <1>1 DEF MarksOK
    <2> QED BY <2>1, <2>2 DEF Moves
  <1>5. MarksOK'
    BY <1>4 DEF MarksOK, Marks
  <1> QED BY <1>3, <1>5

\* None is a sentinel.
LEMMA NoneIsNoContent ==
    None \notin Content /\ None \notin Revision /\ None \notin VM /\ None \notin Backup
  BY LifecycleAssumption

\* What is shown of each action.
Good(r) == StateOK' /\ \E o \in Op \cup {None} : Moves(r, o)

\* A step that only changes the label.
LEMMA GoMoves ==
    ASSUME OpsOK, NEW r \in Request, op[r] # None, NEW l \in Label, Go(r, l), Fits(op[r], l),
           Clears(r) \/ (l \in Marking /\ wip' \subseteq wip \cup {op[r].held})
    PROVE  \E o \in Op \cup {None} : Moves(r, o)
  <1> DEFINE o == [op[r] EXCEPT !.pc = l]
  <1>1. Put(r, o)
    BY DEF Go, Put, OpsOK
  <1>2. op[r] \in Op
    BY DEF OpsOK
  <1>3. o \in Op
    BY <1>2 DEF Op
  <1>4. /\ o.pc = l /\ o.kind = op[r].kind /\ o.rev = op[r].rev /\ o.new = op[r].new
        /\ o.vm = op[r].vm /\ o.held = op[r].held /\ o.bk = op[r].bk
        /\ o.target = op[r].target /\ o.handle = op[r].handle
    BY <1>2 DEF Op
  <1> HIDE DEF o
  <1>5. WellFormed(o)
    BY <1>4 DEF Fits, WellFormed
  <1>6. CASE Clears(r)
    BY <1>1, <1>3, <1>5, <1>6 DEF Moves, Valid, Clears
  <1>7. CASE l \in Marking /\ wip' \subseteq wip \cup {op[r].held}
    <2>1. ASSUME NEW v \in wip' PROVE (v \in wip /\ ~Marks(op[r], v)) \/ Marks(o, v)
      BY <1>3, <1>4, <1>7, <2>1, SentinelAssumption DEF Marks
    <2> QED BY <1>1, <1>3, <1>5, <2>1 DEF Moves, Valid
  <1> QED BY <1>6, <1>7

\* The end of an operation.
LEMMA EndMoves ==
    ASSUME OpsOK, NEW r \in Request, End(r), Clears(r)
    PROVE  \E o \in Op \cup {None} : Moves(r, o)
  BY DEF Moves, Valid, End, Put, Clears

\* Any other step.
LEMMA PutMoves ==
    ASSUME NEW r \in Request, NEW o \in Op \cup {None}, Put(r, o), Valid(o),
           \A v \in wip' : (v \in wip /\ ~Marks(op[r], v)) \/ Marks(o, v)
    PROVE  \E p \in Op \cup {None} : Moves(r, p)
  BY DEF Moves

\* A record that marks no VM.
Unmarked(o) == o \in Op \cup {None} /\ Valid(o) /\ \A v \in VM : ~Marks(o, v)

LEMMA UnmarkedMoves ==
    ASSUME NEW r \in Request, NEW o, Unmarked(o), Put(r, o), Clears(r)
    PROVE  \E p \in Op \cup {None} : Moves(r, p)
  BY DEF Moves, Unmarked, Clears

\* What stays true of a rebuild once NewVM has begun.
IsRebuild(o) ==
    o \in Op /\ o.kind = "rebuild" /\ o.rev \in Revision /\ o.new \in Revision /\ o.vm \in VM

LEMMA RebuildAt ==
    ASSUME NEW o, IsRebuild(o), o.pc \in RebuildLabel \cup {"delete"},
           o.pc \in {"drop", "dropvol"} => o.bk \in Backup,
           o.pc = "delete" => o.target \in Revision
    PROVE  Unmarked(o)
  <1>1. WellFormed(o)
    BY DEF IsRebuild, WellFormed, Fits
  <1> QED BY <1>1 DEF Unmarked, Valid, Marks, Marking, IsRebuild

\* The deferred calls of VMRebuild.
LEMMA DiscardedUnmarked ==
    ASSUME NEW o, IsRebuild(o)
    PROVE  Unmarked(Discarded(o))
  <1> DEFINE n == [o EXCEPT !.pc = "delete", !.target = o.new]
  <1>1. IsRebuild(n) /\ n.pc = "delete" /\ n.target \in Revision
    BY DEF IsRebuild, Op
  <1> HIDE DEF n
  <1>2. Unmarked(n)
    BY <1>1, RebuildAt
  <1> QED BY <1>2 DEF Discarded, n

LEMMA RevertedUnmarked ==
    ASSUME NEW o, IsRebuild(o)
    PROVE  Unmarked(Reverted(o))
  <1> DEFINE n == [o EXCEPT !.pc = "reactivate"]
  <1>1. IsRebuild(n) /\ n.pc = "reactivate"
    BY DEF IsRebuild, Op
  <1> HIDE DEF n
  <1>2. Unmarked(n)
    BY <1>1, RebuildAt
  <1>3. Unmarked(None)
    BY SentinelAssumption DEF Unmarked, Valid, Marks
  <1> QED BY <1>2, <1>3, DiscardedUnmarked DEF Reverted, n

LEMMA UnwoundUnmarked ==
    ASSUME NEW o, IsRebuild(o)
    PROVE  Unmarked(Unwound(o))
  <1>1. CASE o.bk # None
    <2> DEFINE n == [o EXCEPT !.pc = "drop"]
    <2>1. IsRebuild(n) /\ n.pc = "drop" /\ n.bk \in Backup
      BY <1>1 DEF IsRebuild, Op
    <2> HIDE DEF n
    <2>2. Unmarked(n)
      BY <2>1, RebuildAt
    <2> QED BY <1>1, <2>2 DEF Unwound, n
  <1>2. CASE o.bk = None
    BY <1>2, RevertedUnmarked DEF Unwound
  <1> QED BY <1>1, <1>2

LEMMA WellFormedRebuild ==
    ASSUME NEW o \in Op, WellFormed(o), o.kind = "rebuild"
    PROVE  IsRebuild(o)
  BY DEF WellFormed, Fits, IsRebuild

\* The returns of VMBackup, VMRestoreNoChecks and VMDelete.
LEMMA BackupFailsMoves ==
    ASSUME OpsOK, NEW r \in Request, op[r] # None, op[r].pc \in BackupLabel,
           BackupFails(r), Clears(r)
    PROVE  \E o \in Op \cup {None} : Moves(r, o)
  <1> DEFINE o == [op[r] EXCEPT !.bk = None, !.held = None]
  <1>1. op[r] \in Op /\ WellFormed(op[r])
    BY DEF OpsOK, Valid
  <1>2. CASE op[r].kind = "backup"
    BY <1>2, EndMoves DEF BackupFails
  <1>3. CASE op[r].kind # "backup"
    <2>1. op[r].kind = "rebuild"
      BY <1>1, <1>3 DEF WellFormed, Fits
    <2>2. IsRebuild(op[r])
      BY <1>1, <2>1, WellFormedRebuild
    <2>3. IsRebuild(o)
      BY <2>2 DEF IsRebuild, Op
    <2>4. Put(r, Reverted(o))
      BY <1>3 DEF BackupFails
    <2> HIDE DEF o
    <2> QED BY <2>3, <2>4, RevertedUnmarked, UnmarkedMoves
  <1> QED BY <1>2, <1>3

LEMMA RestoreReturnsMoves ==
    ASSUME OpsOK, NEW r \in Request, op[r] # None, op[r].pc \in RestoreLabel,
           NEW ok \in BOOLEAN, RestoreReturns(r, ok), Clears(r)
    PROVE  \E o \in Op \cup {None} : Moves(r, o)
  <1>1. op[r] \in Op /\ WellFormed(op[r])
    BY DEF OpsOK, Valid
  <1>2. CASE op[r].kind = "restore"
    BY <1>2, EndMoves DEF RestoreReturns
  <1>3. CASE op[r].kind = "create"
    BY <1>1, <1>3, GoMoves DEF RestoreReturns, WellFormed, Fits
  <1>4. CASE op[r].kind = "rebuild"
    <2> DEFINE p == [op[r] EXCEPT !.held = None, !.ok = FALSE]
               n(l) == [p EXCEPT !.pc = l]
    <2>1. IsRebuild(op[r])
      BY <1>1, <1>4, WellFormedRebuild
    <2>2. IsRebuild(p)
      BY <2>1 DEF IsRebuild, Op
    <2>3. Put(r, n("activate")) \/ Put(r, n("unlock")) \/ Put(r, Unwound(p))
      BY <1>4 DEF RestoreReturns
    <2> HIDE DEF p
    <2>4. \A l \in {"activate", "unlock"} : IsRebuild(n(l)) /\ n(l).pc = l
      BY <2>2 DEF IsRebuild, Op
    <2> HIDE DEF n
    <2>5. Unmarked(n("activate")) /\ Unmarked(n("unlock"))
      BY <2>4, RebuildAt
    <2> QED BY <2>2, <2>3, <2>5, UnwoundUnmarked, UnmarkedMoves
  <1> QED BY <1>1, <1>2, <1>3, <1>4 DEF WellFormed, Fits

LEMMA DeleteReturnsMoves ==
    ASSUME OpsOK, NEW r \in Request, op[r] # None, op[r].pc \in DeleteLabel,
           NEW ok \in BOOLEAN, DeleteReturns(r, ok), Clears(r)
    PROVE  \E o \in Op \cup {None} : Moves(r, o)
  <1>1. op[r] \in Op /\ WellFormed(op[r])
    BY DEF OpsOK, Valid
  <1>2. CASE ~(op[r].kind = "rebuild" /\ op[r].target = op[r].rev)
    BY <1>2, EndMoves DEF DeleteReturns
  <1>3. CASE op[r].kind = "rebuild" /\ op[r].target = op[r].rev
    <2> DEFINE n == [op[r] EXCEPT !.pc = "relock", !.ok = TRUE]
    <2>1. IsRebuild(op[r])
      BY <1>1, <1>3, WellFormedRebuild
    <2>2. IsRebuild(n) /\ n.pc = "relock"
      BY <2>1 DEF IsRebuild, Op
    <2>3. Put(r, n) \/ Put(r, Unwound(op[r]))
      BY <1>3 DEF DeleteReturns
    <2> HIDE DEF n
    <2>4. Unmarked(n)
      BY <2>2, RebuildAt
    <2> QED BY <2>1, <2>3, <2>4, UnwoundUnmarked, UnmarkedMoves
  <1> QED BY <1>2, <1>3

-----------------------------------------------------------------------------
(* Operators. *)

\* What the users expect is a content.
LEMMA ContentTypes ==
    ASSUME NEW d \in [Revision -> {None} \cup Content], NEW i \in Revision
    PROVE  Stored(d[i]) \in Content /\ Expected(i, d) \in Content
  BY NoneIsNoContent DEF Stored, Expected, Content

LEMMA AskedType ==
    ASSUME StateOK, NEW d \in [Revision -> {None} \cup Content], NEW i \in Revision
    PROVE  Asked(i, d) \in {None} \cup Content
  BY ContentTypes DEF Asked, StateOK

\* VMDatabase.Delete activates a revision that stays.
LEMMA FallbackPresent ==
    ASSUME StateOK, NEW i \in Revision
    PROVE  Fallback(i) \in (Present \ {i}) \cup {None}
  <1>1. CASE active # i
    BY <1>1 DEF Fallback, StateOK
  <1>2. CASE active = i /\ \E j \in Present : IsHighest(j, Present \ {i})
    <2> DEFINE c == CHOOSE j \in Present : IsHighest(j, Present \ {i})
    <2>1. c \in Present /\ IsHighest(c, Present \ {i})
      BY <1>2
    <2> QED BY <1>2, <2>1 DEF Fallback, IsHighest
  <1>3. CASE active = i /\ ~\E j \in Present : IsHighest(j, Present \ {i})
    BY <1>3 DEF Fallback
  <1> QED BY <1>1, <1>2, <1>3

-----------------------------------------------------------------------------
(* One lemma per part of Next, one step per action. *)

LEMMA AtType ==
    ASSUME OpsOK, NEW r \in Request, NEW l, At(r, l)
    PROVE  op[r] # None /\ op[r] \in Op /\ WellFormed(op[r]) /\ op[r].pc = l
  BY DEF OpsOK, Valid, At

Drop(r) == DeleteBackupVolume(r) \/ DeleteBackupEntry(r)

LEMMA CreateGood ==
    ASSUME TypeOK, MarksOK, NEW r \in Request, Create(r)
    PROVE  Good(r)
  <1>0. OpsOK /\ StateOK /\ \A l : At(r, l) =>
            op[r] # None /\ op[r] \in Op /\ WellFormed(op[r]) /\ op[r].pc = l
    BY TypeParts, AtType
  <1>1. CASE CreateDiskFromSeed(r)
    <2>1. StateOK'
      BY <1>1, <1>0 DEF CreateDiskFromSeed, StateOK, Content, mulch, users, Present
    <2>2. \E o \in Op \cup {None} : Moves(r, o)
      <3>1. At(r, "disk") /\ op[r] # None /\ op[r] \in Op /\ WellFormed(op[r]) /\ op[r].pc = "disk"
        BY <1>1, <1>0 DEF CreateDiskFromSeed
      <3>2. Clears(r)
        BY <1>1, <3>1 DEF CreateDiskFromSeed, Clears, Marks, Marking, mulch
      <3>3. CASE Go(r, "define")
        BY <1>0, <3>1, <3>2, <3>3, GoMoves DEF WellFormed, Fits
      <3>4. CASE End(r)
        BY <1>0, <3>2, <3>4, EndMoves
      <3> QED BY <1>1, <3>3, <3>4 DEF CreateDiskFromSeed
    <2> QED BY <2>1, <2>2 DEF Good
  <1>2. CASE DefineDomain(r)
    <2>1. StateOK'
      BY <1>2, <1>0 DEF DefineDomain, StateOK, WellFormed, Fits, mulch, users, Present
    <2>2. \E o \in Op \cup {None} : Moves(r, o)
      <3>1. At(r, "define") /\ op[r] # None /\ op[r] \in Op /\ WellFormed(op[r]) /\ op[r].pc = "define"
        BY <1>2, <1>0 DEF DefineDomain
      <3>2. Clears(r)
        BY <1>2, <3>1 DEF DefineDomain, Clears, Marks, Marking, mulch
      <3>3. CASE Go(r, "boot")
        BY <1>0, <3>1, <3>2, <3>3, GoMoves DEF WellFormed, Fits
      <3>4. CASE Go(r, "undisk")
        BY <1>0, <3>1, <3>2, <3>4, GoMoves DEF WellFormed, Fits
      <3> QED BY <1>2, <3>3, <3>4 DEF DefineDomain
    <2> QED BY <2>1, <2>2 DEF Good
  <1>3. CASE Boot(r)
    <2>1. StateOK'
      BY <1>3, <1>0 DEF Boot, StateOK, WellFormed, Fits, mulch, users, Present
    <2>2. \E o \in Op \cup {None} : Moves(r, o)
      <3>1. At(r, "boot") /\ op[r] # None /\ op[r] \in Op /\ WellFormed(op[r]) /\ op[r].pc = "boot"
        BY <1>3, <1>0 DEF Boot
      <3>2. Clears(r)
        BY <1>3, <3>1 DEF Boot, Clears, Marks, Marking, mulch
      <3>3. CASE Go(r, "prepare")
        BY <1>0, <3>1, <3>2, <3>3, GoMoves DEF WellFormed, Fits
      <3>4. CASE Go(r, "undomain")
        BY <1>0, <3>1, <3>2, <3>4, GoMoves DEF WellFormed, Fits
      <3> QED BY <1>3, <3>3, <3>4 DEF Boot
    <2> QED BY <2>1, <2>2 DEF Good
  <1>4. CASE Prepare(r)
    <2>1. At(r, "prepare") /\ op[r] # None /\ op[r] \in Op /\ WellFormed(op[r]) /\ op[r].pc = "prepare"
      BY <1>4, <1>0 DEF Prepare
    <2>2. StateOK'
      BY <1>4, <1>0 DEF Prepare, StateOK, libvirt, mulch, users, Present
    <2>3. \E o \in Op \cup {None} : Moves(r, o)
      <3>1. Clears(r)
        BY <1>4, <2>1 DEF Prepare, Clears, Marks, Marking, mulch
      <3>2. CASE Go(r, "undomain") \/ Go(r, "add")
        BY <1>0, <2>1, <3>1, <3>2, GoMoves DEF WellFormed, Fits
      <3>3. CASE op[r].bk # None /\ Go(r, "rmark")
        <4>1. op[r].bk \in Backup /\ op[r].kind = "create"
          BY <2>1, <3>3 DEF Op, WellFormed, Fits
        <4>2. Fits(op[r], "rmark")
          BY <2>1, <4>1 DEF WellFormed, Fits
        <4> QED BY <1>0, <2>1, <3>1, <3>3, <4>2, GoMoves
      <3> QED BY <1>4, <3>2, <3>3 DEF Prepare
    <2> QED BY <2>2, <2>3 DEF Good
  <1>5. CASE Add(r)
    <2>1. StateOK'
      BY <1>5, <1>0, ContentTypes, NoneIsNoContent DEF Add, StateOK, WellFormed, Fits,
         libvirt, Present
    <2>2. \E o \in Op \cup {None} : Moves(r, o)
      <3>1. At(r, "add") /\ op[r] # None /\ op[r] \in Op /\ WellFormed(op[r]) /\ op[r].pc = "add"
        BY <1>5, <1>0 DEF Add
      <3>2. Clears(r)
        <4>1. wip' = wip
          BY <1>5, Zenon DEF Add
        <4>2. op[r].pc \notin Marking
          BY <3>1 DEF Marking
        <4> QED BY <4>1, <4>2 DEF Clears, Marks
      <3>3. CASE op[r].kind # "create" /\ Go(r, "deactivate")
        <4>1. Fits(op[r], "deactivate")
          BY <3>1, <3>3 DEF WellFormed, Fits
        <4> QED BY <1>0, <3>1, <3>2, <3>3, <4>1, GoMoves
      <3>4. CASE Go(r, "undomain")
        <4>1. Fits(op[r], "undomain")
          BY <3>1 DEF WellFormed, Fits
        <4> QED BY <1>0, <3>1, <3>2, <3>4, <4>1, GoMoves
      <3>5. CASE End(r)
        BY <1>0, <3>2, <3>5, EndMoves
      <3> QED BY <1>5, <3>3, <3>4, <3>5 DEF Add
    <2> QED BY <2>1, <2>2 DEF Good
  <1>6. CASE RollbackDomain(r)
    <2>1. StateOK'
      BY <1>6, <1>0 DEF RollbackDomain, StateOK, mulch, users, Present
    <2>2. \E o \in Op \cup {None} : Moves(r, o)
      <3>1. At(r, "undomain") /\ op[r] # None /\ op[r] \in Op /\ WellFormed(op[r]) /\ op[r].pc = "undomain"
        BY <1>6, <1>0 DEF RollbackDomain
      <3>2. Clears(r)
        BY <1>6, <3>1 DEF RollbackDomain, Clears, Marks, Marking, mulch
      <3>3. CASE Go(r, "undisk")
        BY <1>0, <3>1, <3>2, <3>3, GoMoves DEF WellFormed, Fits
      <3> QED BY <1>6, <3>3 DEF RollbackDomain
    <2> QED BY <2>1, <2>2 DEF Good
  <1>7. CASE RollbackDisk(r)
    <2>1. StateOK'
      BY <1>7, <1>0 DEF RollbackDisk, StateOK, mulch, users, Present
    <2>2. \E o \in Op \cup {None} : Moves(r, o)
      BY <1>7, <1>0, EndMoves DEF RollbackDisk, Marks, Marking, Clears, mulch
    <2> QED BY <2>1, <2>2 DEF Good
  <1> QED BY <1>1, <1>2, <1>3, <1>4, <1>5, <1>6, <1>7 DEF Create

LEMMA SaveBackupGood ==
    ASSUME TypeOK, MarksOK, NEW r \in Request, SaveBackup(r)
    PROVE  Good(r)
  <1>0. OpsOK /\ StateOK /\ \A l : At(r, l) =>
            op[r] # None /\ op[r] \in Op /\ WellFormed(op[r]) /\ op[r].pc = l
    BY TypeParts, AtType
  <1>1. CASE CheckOperation(r)
    <2>1. At(r, "backup") /\ op[r] # None /\ op[r] \in Op /\ WellFormed(op[r]) /\ op[r].pc = "backup"
      BY <1>1, <1>0 DEF CheckOperation
    <2>2. StateOK'
      BY <1>1, <1>0 DEF CheckOperation, StateOK, libvirt, mulch, users, Present
    <2>3. \E o \in Op \cup {None} : Moves(r, o)
      <3> DEFINE i == op[r].rev
                 n == [op[r] EXCEPT !.pc = "bmark", !.held = db[i]]
      <3>1. Clears(r) /\ i \in Revision
        BY <1>1, <2>1 DEF CheckOperation, Clears, Marks, Marking, mulch, WellFormed, Fits
      <3>2. CASE ~(i \in Present /\ db[i] \notin wip)
        BY <1>1, <1>0, <3>1, <3>2, BackupFailsMoves DEF CheckOperation
      <3>3. CASE i \in Present /\ db[i] \notin wip
        <4>1. db[i] \in VM
          BY <1>0, <3>3 DEF StateOK, Present
        <4>2. /\ n \in Op /\ n.pc = "bmark" /\ n.held \in VM /\ n.kind = op[r].kind
              /\ n.rev = op[r].rev /\ n.new = op[r].new /\ n.vm = op[r].vm
          BY ZenonT(60), <2>1, <4>1 DEF Op
        <4>3. Put(r, n)
          BY <1>1, <3>3 DEF CheckOperation
        <4> HIDE DEF n
        <4>4. WellFormed(n)
          BY <2>1, <4>2 DEF WellFormed, Fits
        <4> QED BY <3>1, <4>2, <4>3, <4>4, PutMoves DEF Valid, Clears
      <3> QED BY <3>2, <3>3
    <2> QED BY <2>2, <2>3 DEF Good
  <1>2. CASE MarkBackup(r)
    <2>1. StateOK'
      BY <1>2, <1>0 DEF MarkBackup, StateOK, WellFormed, Fits, libvirt, users, Present,
         SetOperation
    <2>2. \E o \in Op \cup {None} : Moves(r, o)
      BY <1>2, <1>0, GoMoves DEF MarkBackup, WellFormed, Fits, Marking, SetOperation
    <2> QED BY <2>1, <2>2 DEF Good
  <1>3. CASE CreateBackupDisk(r)
    <2>1. At(r, "bvolume") /\ op[r] # None /\ op[r] \in Op /\ WellFormed(op[r]) /\ op[r].pc = "bvolume"
      BY <1>3, <1>0 DEF CreateBackupDisk
    <2>2. StateOK'
      <3>1. wip' \subseteq VM
        BY <1>3, <1>0 DEF CreateBackupDisk, ClearOperation, StateOK
      <3>2. bvol' \in [Backup -> {None} \cup Content]
        BY <1>3, <1>0 DEF CreateBackupDisk, StateOK, Content
      <3> QED BY <1>3, <1>0, <3>1, <3>2 DEF CreateBackupDisk, StateOK, users, Present
    <2>3. \E o \in Op \cup {None} : Moves(r, o)
      <3> DEFINE n(b) == [op[r] EXCEPT !.pc = "battach", !.bk = b]
      <3>1. CASE ClearOperation(r) /\ BackupFails(r)
        <4>1. Clears(r)
          BY <3>1 DEF Clears, Marks, ClearOperation
        <4> QED BY <1>0, <2>1, <3>1, <4>1, BackupFailsMoves
      <3>2. ASSUME NEW b \in Backup, Put(r, n(b)), UNCHANGED wip
            PROVE  \E o \in Op \cup {None} : Moves(r, o)
        <4>1. /\ n(b) \in Op /\ n(b).pc = "battach" /\ n(b).bk = b /\ n(b).kind = op[r].kind
              /\ n(b).held = op[r].held /\ n(b).rev = op[r].rev /\ n(b).new = op[r].new
              /\ n(b).vm = op[r].vm
          BY ZenonT(60), <2>1 DEF Op
        <4> HIDE DEF n
        <4>2. WellFormed(n(b))
          BY <2>1, <4>1 DEF WellFormed, Fits
        <4>3. \A v \in wip' : (v \in wip /\ ~Marks(op[r], v)) \/ Marks(n(b), v)
          BY <3>2, <4>1, SentinelAssumption DEF Marks, Marking
        <4> QED BY <3>2, <4>1, <4>2, <4>3, PutMoves DEF Valid
      <3> QED BY <1>3, <3>1, <3>2 DEF CreateBackupDisk
    <2> QED BY <2>2, <2>3 DEF Good
  <1>4. CASE AttachBackup(r)
    <2>1. StateOK'
      BY <1>4, <1>0 DEF AttachBackup, StateOK, WellFormed, Fits, users, Present,
         ClearOperation
    <2>2. \E o \in Op \cup {None} : Moves(r, o)
      <3>1. At(r, "battach") /\ op[r] # None /\ op[r] \in Op /\ WellFormed(op[r]) /\ op[r].pc = "battach"
        BY <1>4, <1>0 DEF AttachBackup
      <3>2. CASE Go(r, "bscripts") /\ UNCHANGED wip
        <4>1. Fits(op[r], "bscripts")
          BY <3>1 DEF WellFormed, Fits
        <4> QED BY <1>0, <3>1, <3>2, <4>1, GoMoves DEF Marking
      <3>3. CASE ClearOperation(r) /\ BackupFails(r)
        <4>1. Clears(r)
          BY <3>1, <3>3 DEF Clears, Marks, ClearOperation
        <4> QED BY <1>0, <3>1, <3>3, <4>1, BackupFailsMoves
      <3> QED BY <1>4, <3>2, <3>3 DEF AttachBackup
    <2> QED BY <2>1, <2>2 DEF Good
  <1>5. CASE BackupScripts(r)
    <2>1. StateOK'
      BY <1>5, <1>0 DEF BackupScripts, StateOK, WellFormed, Fits, mulch, users, Present,
         Mounted, Running
    <2>2. \E o \in Op \cup {None} : Moves(r, o)
      <3>1. At(r, "bscripts") /\ op[r] # None /\ op[r] \in Op /\ WellFormed(op[r]) /\ op[r].pc = "bscripts"
        BY <1>5, <1>0 DEF BackupScripts
      <3>2. wip' = wip
        BY <1>5 DEF BackupScripts, mulch
      <3>3. CASE Go(r, "bdetach")
        <4>1. Fits(op[r], "bdetach")
          BY <3>1 DEF WellFormed, Fits
        <4> QED BY <1>0, <3>1, <3>2, <3>3, <4>1, GoMoves DEF Marking
      <3>4. CASE Go(r, "bundo")
        <4>1. Fits(op[r], "bundo")
          BY <3>1 DEF WellFormed, Fits
        <4> QED BY <1>0, <3>1, <3>2, <3>4, <4>1, GoMoves DEF Marking
      <3> QED BY <1>5, <3>3, <3>4 DEF BackupScripts
    <2> QED BY <2>1, <2>2 DEF Good
  <1>6. CASE DetachBackup(r)
    <2>1. StateOK'
      BY <1>6, <1>0 DEF DetachBackup, StateOK, mulch, users, Present, Detach
    <2>2. \E o \in Op \cup {None} : Moves(r, o)
      <3>1. At(r, "bdetach") /\ op[r] # None /\ op[r] \in Op /\ WellFormed(op[r]) /\ op[r].pc = "bdetach"
        BY <1>6, <1>0 DEF DetachBackup
      <3>2. wip' = wip
        BY <1>6 DEF DetachBackup, mulch
      <3>3. CASE Go(r, "badd")
        <4>1. Fits(op[r], "badd")
          BY <3>1 DEF WellFormed, Fits
        <4> QED BY <1>0, <3>1, <3>2, <3>3, <4>1, GoMoves DEF Marking
      <3>4. CASE Go(r, "bundo")
        <4>1. Fits(op[r], "bundo")
          BY <3>1 DEF WellFormed, Fits
        <4> QED BY <1>0, <3>1, <3>2, <3>4, <4>1, GoMoves DEF Marking
      <3> QED BY <1>6, <3>3, <3>4 DEF DetachBackup
    <2> QED BY <2>1, <2>2 DEF Good
  <1>7. CASE AddBackup(r)
    <2>1. At(r, "badd") /\ op[r] # None /\ op[r] \in Op /\ WellFormed(op[r]) /\ op[r].pc = "badd"
      BY <1>7, <1>0 DEF AddBackup
    <2>2. StateOK'
      BY <1>7, <1>0 DEF AddBackup, StateOK, WellFormed, Fits, users, Present, ClearOperation
    <2>3. \E o \in Op \cup {None} : Moves(r, o)
      <3> DEFINE n == [op[r] EXCEPT !.pc = "rmark", !.held = op[r].vm]
      <3>1. CASE ClearOperation(r)
        <4>1. Clears(r)
          BY <3>1 DEF Clears, Marks, ClearOperation
        <4>2. CASE End(r)
          BY <1>0, <4>1, <4>2, EndMoves
        <4>3. CASE op[r].kind = "rebuild" /\ Put(r, n)
          <5>1. /\ n \in Op /\ n.pc = "rmark" /\ n.held = op[r].vm /\ n.bk = op[r].bk
                /\ n.kind = "rebuild" /\ n.rev = op[r].rev /\ n.new = op[r].new /\ n.vm = op[r].vm
            BY ZenonT(60), <2>1, <4>3 DEF Op
          <5> HIDE DEF n
          <5>2. WellFormed(n)
            BY <2>1, <4>3, <5>1 DEF WellFormed, Fits
          <5> QED BY <4>1, <4>3, <5>1, <5>2, PutMoves DEF Valid, Clears
        <4>4. CASE Go(r, "bundo")
          BY <1>0, <2>1, <4>1, <4>4, GoMoves DEF WellFormed, Fits
        <4> QED BY <1>7, <2>1, <4>2, <4>3, <4>4 DEF AddBackup, WellFormed, Fits
      <3>2. CASE Go(r, "bundo") /\ UNCHANGED wip
        BY <1>0, <2>1, <3>2, GoMoves DEF WellFormed, Fits, Marking
      <3> QED BY <1>7, <3>1, <3>2 DEF AddBackup
    <2> QED BY <2>2, <2>3 DEF Good
  <1>8. CASE UndoBackup(r)
    <2>1. StateOK'
      BY <1>8, <1>0 DEF UndoBackup, StateOK, users, Present, Detach, ClearOperation
    <2>2. \E o \in Op \cup {None} : Moves(r, o)
      BY <1>8, <1>0, BackupFailsMoves DEF UndoBackup, Marks, Clears, ClearOperation
    <2> QED BY <2>1, <2>2 DEF Good
  <1> QED BY <1>1, <1>2, <1>3, <1>4, <1>5, <1>6, <1>7, <1>8 DEF SaveBackup

LEMMA RestoreGood ==
    ASSUME TypeOK, MarksOK, NEW r \in Request, Restore(r)
    PROVE  Good(r)
  <1>0. OpsOK /\ StateOK /\ \A l : At(r, l) =>
            op[r] # None /\ op[r] \in Op /\ WellFormed(op[r]) /\ op[r].pc = l
    BY TypeParts, AtType
  <1>1. CASE MarkRestore(r)
    <2>1. At(r, "rmark") /\ op[r] # None /\ op[r] \in Op /\ WellFormed(op[r]) /\ op[r].pc = "rmark"
      BY <1>1, <1>0 DEF MarkRestore
    <2>2. StateOK'
      BY <1>1, <1>0 DEF MarkRestore, StateOK, WellFormed, Fits, libvirt, mulch, users,
         Present, SetOperation
    <2>3. \E o \in Op \cup {None} : Moves(r, o)
      <3> DEFINE p == [op[r] EXCEPT !.held = None]
      <3>1. CASE op[r].kind = "rebuild" /\ op[r].bk \notin bdb
        <4>1. IsRebuild(p)
          <5>1. IsRebuild(op[r])
            BY <2>1, <3>1, WellFormedRebuild
          <5> QED BY <5>1 DEF IsRebuild, Op
        <4>2. Put(r, Unwound(p)) /\ Clears(r)
          BY <1>1, <2>1, <3>1 DEF MarkRestore, mulch, Clears, Marks, Marking
        <4> HIDE DEF p
        <4> QED BY <4>1, <4>2, UnwoundUnmarked, UnmarkedMoves
      <3>2. CASE ~(op[r].kind = "rebuild" /\ op[r].bk \notin bdb)
        <4>1. Go(r, "rattach") /\ wip' \subseteq wip \cup {op[r].held}
          BY <1>1, <3>2 DEF MarkRestore, SetOperation, mulch
        <4> QED BY <1>0, <2>1, <4>1, GoMoves DEF WellFormed, Fits, Marking
      <3> QED BY <3>1, <3>2
    <2> QED BY <2>2, <2>3 DEF Good
  <1>2. CASE AttachRestore(r)
    <2>1. StateOK'
      BY <1>2, <1>0 DEF AttachRestore, StateOK, WellFormed, Fits, users, Present,
         ClearOperation
    <2>2. \E o \in Op \cup {None} : Moves(r, o)
      BY <1>2, <1>0, GoMoves, RestoreReturnsMoves DEF AttachRestore, WellFormed, Fits,
         Marks, Marking, Clears, ClearOperation
    <2> QED BY <2>1, <2>2 DEF Good
  <1>3. CASE RestoreScripts(r)
    <2>1. At(r, "rscripts") /\ op[r] # None /\ op[r] \in Op /\ WellFormed(op[r]) /\ op[r].pc = "rscripts"
      BY <1>3, <1>0 DEF RestoreScripts
    <2>2. StateOK'
      <3>1. Restored(op[r]) \in Revision /\ op[r].bk \in Backup
        BY <2>1 DEF WellFormed, Fits, Restored
      <3>2. Readable(op[r].bk) \subseteq Content /\ {} \in Content
        BY <1>0, <3>1 DEF Readable, StateOK, Content
      <3>3. disk' \in [Revision -> {None} \cup Content]
        BY <1>3, <1>0, <3>1, <3>2 DEF RestoreScripts, StateOK
      <3>4. data' \in {None} \cup Content
        BY <1>3, <1>0, <3>1, <3>3, AskedType DEF RestoreScripts, StateOK
      <3> QED BY <1>3, <1>0, <3>3, <3>4 DEF RestoreScripts, StateOK, mulch, Present
    <2>3. \E o \in Op \cup {None} : Moves(r, o)
      <3> DEFINE y == [op[r] EXCEPT !.pc = "rdetach", !.ok = TRUE]
                 n == [op[r] EXCEPT !.pc = "rdetach", !.ok = FALSE]
                 Scripted(o) == /\ o \in Op /\ o.pc = "rdetach" /\ o.bk = op[r].bk
                                /\ o.kind = op[r].kind /\ o.held = op[r].held
                                /\ o.rev = op[r].rev /\ o.new = op[r].new /\ o.vm = op[r].vm
      <3>1. Put(r, y) \/ Put(r, n)
        BY <1>3 DEF RestoreScripts
      <3>2. Scripted(y)
        BY ZenonT(60), <2>1 DEF Op
      <3>3. Scripted(n)
        <4>1. n \in Op
          <5> DEFINE m == [op[r] EXCEPT !.pc = "rdetach"]
          <5>1. m \in Op
            BY <2>1 DEF Op
          <5>2. n = [m EXCEPT !.ok = FALSE]
            OBVIOUS
          <5> HIDE DEF m, n
          <5> QED BY ZenonT(60), <5>1, <5>2 DEF Op
        <4> QED BY <4>1 DEF Op
      <3>4. wip' = wip
        BY <1>3 DEF RestoreScripts, mulch
      <3> HIDE DEF y, n
      <3>5. ASSUME NEW o, Scripted(o), Put(r, o)
            PROVE  \E p \in Op \cup {None} : Moves(r, p)
        <4>1. WellFormed(o)
          BY <2>1, <3>5 DEF WellFormed, Fits
        <4>2. \A v \in wip' : (v \in wip /\ ~Marks(op[r], v)) \/ Marks(o, v)
          BY <3>4, <3>5, SentinelAssumption DEF Marks, Marking
        <4> QED BY <3>5, <4>1, <4>2, PutMoves DEF Valid
      <3> QED BY <3>1, <3>2, <3>3, <3>5
    <2> QED BY <2>2, <2>3 DEF Good
  <1>4. CASE DetachRestore(r)
    <2>1. At(r, "rdetach") /\ op[r] # None /\ op[r] \in Op /\ WellFormed(op[r]) /\ op[r].pc = "rdetach"
      BY <1>4, <1>0 DEF DetachRestore
    <2>2. StateOK'
      BY <1>4, <1>0 DEF DetachRestore, StateOK, users, Present, Detach, ClearOperation
    <2>3. \E o \in Op \cup {None} : Moves(r, o)
      <3>1. Clears(r)
        BY <1>4 DEF DetachRestore, ClearOperation, Clears, Marks
      <3>2. op[r].ok \in BOOLEAN /\ RestoreReturns(r, op[r].ok)
        BY <1>4, <2>1 DEF DetachRestore, Op
      <3> QED BY <1>0, <2>1, <3>1, <3>2, RestoreReturnsMoves
    <2> QED BY <2>2, <2>3 DEF Good
  <1> QED BY <1>1, <1>2, <1>3, <1>4 DEF Restore

LEMMA DeleteGood ==
    ASSUME TypeOK, MarksOK, NEW r \in Request, Delete(r)
    PROVE  Good(r)
  <1>0. OpsOK /\ StateOK /\ \A l : At(r, l) =>
            op[r] # None /\ op[r] \in Op /\ WellFormed(op[r]) /\ op[r].pc = l
    BY TypeParts, AtType
  <1>1. CASE DeleteCheck(r)
    <2>1. At(r, "delete") /\ op[r] # None /\ op[r] \in Op /\ WellFormed(op[r]) /\ op[r].pc = "delete"
      BY <1>1, <1>0 DEF DeleteCheck
    <2>2. StateOK'
      BY <1>1, <1>0 DEF DeleteCheck, StateOK, libvirt, mulch, users, Present
    <2>3. \E o \in Op \cup {None} : Moves(r, o)
      <3> DEFINE i == op[r].target
                 n == [op[r] EXCEPT !.pc = "destroy", !.handle = dom[i]]
      <3>1. Clears(r) /\ i \in Revision
        BY <1>1, <2>1 DEF DeleteCheck, Clears, Marks, Marking, mulch, WellFormed, Fits
      <3>2. CASE DeleteReturns(r, FALSE)
        BY <1>0, <2>1, <3>1, <3>2, DeleteReturnsMoves
      <3>3. CASE dom[i] # None /\ Put(r, n)
        <4>1. dom[i] \in VM
          BY <1>0, <3>1, <3>3 DEF StateOK
        <4>a. n \in Op
          BY <2>1, <4>1 DEF Op
        <4>2. /\ n.pc = "destroy" /\ n.handle = dom[i] /\ n.kind = op[r].kind
              /\ n.target = i /\ n.rev = op[r].rev /\ n.new = op[r].new /\ n.vm = op[r].vm
          BY DEF Op
        <4> HIDE DEF n
        <4>3. WellFormed(n)
          BY <2>1, <4>1, <4>2 DEF WellFormed, Fits
        <4> QED BY <3>1, <3>3, <4>a, <4>2, <4>3, PutMoves DEF Valid, Clears
      <3> QED BY <1>1, <3>2, <3>3 DEF DeleteCheck
    <2> QED BY <2>2, <2>3 DEF Good
  <1>2. CASE Destroy(r)
    <2>1. At(r, "destroy") /\ op[r] # None /\ op[r] \in Op /\ WellFormed(op[r]) /\ op[r].pc = "destroy"
      BY <1>2, <1>0 DEF Destroy
    <2>2. StateOK'
      <3>1. op[r].handle \in VM
        BY <2>1 DEF WellFormed, Fits
      <3>2. on' \subseteq VM /\ attached' \in [VM -> Backup \cup {None}]
        BY <1>2, <1>0, <3>1 DEF Destroy, StateOK
      <3> QED BY <1>2, <1>0, <3>2 DEF Destroy, StateOK, mulch, users, Present
    <2>3. \E o \in Op \cup {None} : Moves(r, o)
      BY <1>2, <1>0, <2>1, GoMoves, DeleteReturnsMoves DEF Destroy, WellFormed, Fits, Marks,
         Marking, Clears, mulch
    <2> QED BY <2>2, <2>3 DEF Good
  <1>3. CASE DeleteDisk(r)
    <2>1. At(r, "deldisk") /\ op[r] # None /\ op[r] \in Op /\ WellFormed(op[r]) /\ op[r].pc = "deldisk"
      BY <1>3, <1>0 DEF DeleteDisk
    <2>2. StateOK'
      <3>1. op[r].target \in Revision
        BY <2>1 DEF WellFormed, Fits
      <3>2. disk' \in [Revision -> {None} \cup Content]
        BY <1>3, <1>0, <3>1 DEF DeleteDisk, StateOK
      <3>3. data' \in {None} \cup Content
        <4>1. Asked(op[r].target, disk') \in {None} \cup Content
          BY <1>0, <3>1, <3>2, AskedType
        <4> QED BY <1>3, <1>0, <4>1 DEF DeleteDisk, StateOK
      <3> QED BY <1>3, <1>0, <3>2, <3>3 DEF DeleteDisk, StateOK, mulch, Present
    <2>3. \E o \in Op \cup {None} : Moves(r, o)
      BY <1>3, <1>0, <2>1, GoMoves, DeleteReturnsMoves DEF DeleteDisk, WellFormed, Fits,
         Marks, Marking, Clears, mulch
    <2> QED BY <2>2, <2>3 DEF Good
  <1>4. CASE Undefine(r)
    <2>1. At(r, "undefine") /\ op[r] # None /\ op[r] \in Op /\ WellFormed(op[r]) /\ op[r].pc = "undefine"
      BY <1>4, <1>0 DEF Undefine
    <2>2. StateOK'
      BY <1>4, <1>0 DEF Undefine, StateOK, mulch, users, Present
    <2>3. \E o \in Op \cup {None} : Moves(r, o)
      BY <1>4, <1>0, <2>1, GoMoves, DeleteReturnsMoves DEF Undefine, WellFormed, Fits,
         Marks, Marking, Clears, mulch
    <2> QED BY <2>2, <2>3 DEF Good
  <1>5. CASE DeleteEntry(r)
    <2>1. At(r, "delentry") /\ op[r] # None /\ op[r] \in Op /\ WellFormed(op[r]) /\ op[r].pc = "delentry"
      BY <1>5, <1>0 DEF DeleteEntry
    <2>2. StateOK'
      <3> DEFINE i == op[r].target
      <3>1. i \in Revision
        BY <2>1 DEF WellFormed, Fits
      <3>2. CASE Remove(i, op[r].kind = "delete")
        <4>1. db' \in [Revision -> VM \cup {None}] /\ Present' = Present \ {i}
          BY <1>0, <3>1, <3>2 DEF Remove, StateOK, Present
        <4>2. active' \in Present' \cup {None}
          BY <1>0, <3>1, <3>2, <4>1, FallbackPresent DEF Remove
        <4>3. data' \in {None} \cup Content
          <5>1. Expected(Fallback(i), disk) \in {None} \cup Content
            <6>1. CASE Fallback(i) = None
              BY <6>1 DEF Expected
            <6>2. CASE Fallback(i) \in Revision
              BY <1>0, <6>2, ContentTypes DEF StateOK
            <6> QED BY <1>0, <3>1, <6>1, <6>2, FallbackPresent DEF Present
          <5> QED BY <1>0, <3>2, <5>1 DEF Remove, StateOK
        <4> QED BY <1>5, <1>0, <4>1, <4>2, <4>3 DEF DeleteEntry, StateOK, libvirt
      <3>3. CASE UNCHANGED <<active, db, data>>
        BY <1>5, <1>0, <3>3 DEF DeleteEntry, StateOK, libvirt, Present
      <3> QED BY <1>5, <3>2, <3>3 DEF DeleteEntry
    <2>3. \E o \in Op \cup {None} : Moves(r, o)
      BY <1>5, <1>0, <2>1, GoMoves, DeleteReturnsMoves DEF DeleteEntry, WellFormed, Fits,
         Marks, Marking, Clears
    <2> QED BY <2>2, <2>3 DEF Good
  <1>6. CASE RebuildDHCPStaticLeases(r)
    <2>1. At(r, "dhcp") /\ op[r] # None /\ op[r] \in Op /\ WellFormed(op[r]) /\ op[r].pc = "dhcp"
      BY <1>6, <1>0 DEF RebuildDHCPStaticLeases
    <2>2. StateOK'
      BY <1>6, <1>0 DEF RebuildDHCPStaticLeases, StateOK, libvirt, mulch, users, Present
    <2>3. \E o \in Op \cup {None} : Moves(r, o)
      BY <1>6, <1>0, <2>1, DeleteReturnsMoves DEF RebuildDHCPStaticLeases, Marks, Marking,
         Clears, mulch
    <2> QED BY <2>2, <2>3 DEF Good
  <1> QED BY <1>1, <1>2, <1>3, <1>4, <1>5, <1>6 DEF Delete

LEMMA DropGood ==
    ASSUME TypeOK, MarksOK, NEW r \in Request, Drop(r)
    PROVE  Good(r)
  <1>0. OpsOK /\ StateOK /\ \A l : At(r, l) =>
            op[r] # None /\ op[r] \in Op /\ WellFormed(op[r]) /\ op[r].pc = l
    BY TypeParts, AtType
  <1>1. CASE DeleteBackupVolume(r)
    <2>1. StateOK'
      BY <1>1, <1>0 DEF DeleteBackupVolume, StateOK, mulch, users, Present
    <2>2. \E o \in Op \cup {None} : Moves(r, o)
      BY <1>1, <1>0, GoMoves, EndMoves DEF DeleteBackupVolume, WellFormed, Fits, Marks,
         Marking, Clears, mulch
    <2> QED BY <2>1, <2>2 DEF Good
  <1>2. CASE DeleteBackupEntry(r)
    <2>1. StateOK'
      BY <1>2, <1>0 DEF DeleteBackupEntry, StateOK, libvirt, users, Present
    <2>2. \E o \in Op \cup {None} : Moves(r, o)
      BY <1>2, <1>0, EndMoves DEF DeleteBackupEntry, Marks, Marking, Clears
    <2> QED BY <2>1, <2>2 DEF Good
  <1> QED BY <1>1, <1>2 DEF Drop

LEMMA RebuildGood ==
    ASSUME TypeOK, MarksOK, NEW r \in Request, Rebuild(r)
    PROVE  Good(r)
  <1>0. OpsOK /\ StateOK /\ \A l : At(r, l) =>
            op[r] # None /\ op[r] \in Op /\ WellFormed(op[r]) /\ op[r].pc = l
    BY TypeParts, AtType
  <1>1. CASE Deactivate(r)
    <2>1. At(r, "deactivate") /\ op[r] # None /\ op[r] \in Op /\ WellFormed(op[r]) /\ op[r].pc = "deactivate"
      BY <1>1, <1>0 DEF Deactivate
    <2>2. StateOK'
      BY <1>1, <1>0 DEF Deactivate, StateOK, libvirt, users, Present
    <2>3. \E o \in Op \cup {None} : Moves(r, o)
      <3> DEFINE o == op[r]
                 n(f, l) == [o EXCEPT !.flag = f, !.pc = l]
                 L == {"backup", "activate", "unlock"}
      <3>1. IsRebuild(o) /\ Clears(r)
        BY <1>1, <2>1, WellFormedRebuild DEF Deactivate, Clears, Marks, Marking, WellFormed,
           Fits
      <3>2. \/ \E l \in L : Put(r, n(TRUE, l)) \/ Put(r, n(FALSE, l))
            \/ Put(r, Discarded(o))
        BY <1>1 DEF Deactivate
      <3>3. \A l \in L : n(TRUE, l) \in Op /\ n(FALSE, l) \in Op
        BY ZenonT(60), <3>1 DEF IsRebuild, Op
      <3>4. \A f \in BOOLEAN, l \in L :
              /\ n(f, l).pc = l /\ n(f, l).kind = "rebuild" /\ n(f, l).rev = o.rev
              /\ n(f, l).new = o.new /\ n(f, l).vm = o.vm
        BY <3>1 DEF IsRebuild
      <3> HIDE DEF n
      <3>5. \A f \in BOOLEAN, l \in L : WellFormed(n(f, l))
        BY <3>1, <3>4 DEF IsRebuild, WellFormed, Fits
      <3>6. \A l \in L : Unmarked(n(TRUE, l)) /\ Unmarked(n(FALSE, l))
        BY <3>3, <3>4, <3>5 DEF Unmarked, Valid, Marks, Marking
      <3> QED BY <3>1, <3>2, <3>6, DiscardedUnmarked, UnmarkedMoves
    <2> QED BY <2>2, <2>3 DEF Good
  <1>2. CASE Activate(r)
    <2>1. At(r, "activate") /\ op[r] # None /\ op[r] \in Op /\ WellFormed(op[r]) /\ op[r].pc = "activate"
      BY <1>2, <1>0 DEF Activate
    <2>2. StateOK'
      BY <1>2, <1>0 DEF Activate, StateOK, libvirt, users, Present
    <2>3. \E o \in Op \cup {None} : Moves(r, o)
      <3>1. IsRebuild(op[r]) /\ Clears(r)
        BY <1>2, <2>1, WellFormedRebuild DEF Activate, WellFormed, Fits, Clears, Marks,
           Marking
      <3> QED BY <1>2, <1>0, <3>1, UnwoundUnmarked, UnmarkedMoves, GoMoves DEF Activate,
                 IsRebuild, Fits
    <2> QED BY <2>2, <2>3 DEF Good
  <1>3. CASE UnlockOriginal(r)
    <2>1. At(r, "unlock") /\ op[r] # None /\ op[r] \in Op /\ WellFormed(op[r]) /\ op[r].pc = "unlock"
      BY <1>3, <1>0 DEF UnlockOriginal
    <2>2. StateOK'
      BY <1>3, <1>0 DEF UnlockOriginal, StateOK, libvirt, users, Present
    <2>3. \E o \in Op \cup {None} : Moves(r, o)
      <3> DEFINE o == op[r]
                 y == [o EXCEPT !.pc = "delete", !.target = o.rev, !.lock = TRUE]
                 n == [o EXCEPT !.pc = "delete", !.target = o.rev, !.lock = FALSE]
      <3>1. IsRebuild(o) /\ Clears(r)
        BY <1>3, <2>1, WellFormedRebuild DEF UnlockOriginal, Clears, Marks, Marking,
           WellFormed, Fits
      <3>2. Put(r, y) \/ Put(r, n) \/ Put(r, Unwound(o))
        BY <1>3 DEF UnlockOriginal
      <3>3. IsRebuild(y) /\ y.pc = "delete" /\ y.target \in Revision
        BY <3>1 DEF IsRebuild, Op
      <3>4. IsRebuild(n) /\ n.pc = "delete" /\ n.target \in Revision
        BY <3>1 DEF IsRebuild, Op
      <3> HIDE DEF y, n
      <3>5. Unmarked(y) /\ Unmarked(n)
        BY <3>3, <3>4, RebuildAt
      <3> QED BY <3>1, <3>2, <3>5, UnwoundUnmarked, UnmarkedMoves
    <2> QED BY <2>2, <2>3 DEF Good
  <1>4. CASE LockNew(r)
    <2>1. At(r, "relock") /\ op[r] # None /\ op[r] \in Op /\ WellFormed(op[r]) /\ op[r].pc = "relock"
      BY <1>4, <1>0 DEF LockNew
    <2>2. StateOK'
      BY <1>4, <1>0 DEF LockNew, StateOK, libvirt, users, Present
    <2>3. \E o \in Op \cup {None} : Moves(r, o)
      <3>1. IsRebuild(op[r]) /\ Clears(r)
        BY <1>4, <2>1, WellFormedRebuild DEF LockNew, WellFormed, Fits, Clears, Marks,
           Marking
      <3> QED BY <1>4, <3>1, UnwoundUnmarked, UnmarkedMoves DEF LockNew
    <2> QED BY <2>2, <2>3 DEF Good
  <1>5. CASE DropBackup(r)
    <2>1. At(r, "drop") /\ op[r] # None /\ op[r] \in Op /\ WellFormed(op[r]) /\ op[r].pc = "drop"
      BY <1>5, <1>0 DEF DropBackup
    <2>2. StateOK'
      BY <1>5, <1>0 DEF DropBackup, StateOK, libvirt, users, Present
    <2>3. \E o \in Op \cup {None} : Moves(r, o)
      <3>1. IsRebuild(op[r]) /\ Clears(r)
        BY <1>5, <2>1, WellFormedRebuild DEF DropBackup, WellFormed, Fits, Clears, Marks,
           Marking
      <3> QED BY <1>5, <1>0, <3>1, RevertedUnmarked, UnmarkedMoves, GoMoves DEF DropBackup,
                 WellFormed, Fits
    <2> QED BY <2>2, <2>3 DEF Good
  <1>6. CASE DropVolume(r)
    <2>1. At(r, "dropvol") /\ op[r] # None /\ op[r] \in Op /\ WellFormed(op[r]) /\ op[r].pc = "dropvol"
      BY <1>6, <1>0 DEF DropVolume
    <2>2. StateOK'
      BY <1>6, <1>0 DEF DropVolume, StateOK, mulch, users, Present
    <2>3. \E o \in Op \cup {None} : Moves(r, o)
      <3>1. IsRebuild(op[r]) /\ Clears(r)
        BY <1>6, <2>1, WellFormedRebuild DEF DropVolume, WellFormed, Fits, Clears, Marks,
           Marking, mulch
      <3> QED BY <1>6, <3>1, RevertedUnmarked, UnmarkedMoves DEF DropVolume
    <2> QED BY <2>2, <2>3 DEF Good
  <1>7. CASE Reactivate(r)
    <2>1. At(r, "reactivate") /\ op[r] # None /\ op[r] \in Op /\ WellFormed(op[r]) /\ op[r].pc = "reactivate"
      BY <1>7, <1>0 DEF Reactivate
    <2>2. StateOK'
      BY <1>7, <1>0 DEF Reactivate, StateOK, libvirt, users, Present
    <2>3. \E o \in Op \cup {None} : Moves(r, o)
      <3>1. IsRebuild(op[r]) /\ Clears(r)
        BY <1>7, <2>1, WellFormedRebuild DEF Reactivate, WellFormed, Fits, Clears, Marks,
           Marking
      <3> QED BY <1>7, <3>1, DiscardedUnmarked, UnmarkedMoves DEF Reactivate
    <2> QED BY <2>2, <2>3 DEF Good
  <1> QED BY <1>1, <1>2, <1>3, <1>4, <1>5, <1>6, <1>7 DEF Rebuild

-----------------------------------------------------------------------------
(* Requests, users, restarts. *)

LEMMA BeginMoves ==
    ASSUME NEW r \in Request, op[r] = None, NEW n \in Op, WellFormed(n), Put(r, n), wip' = wip
    PROVE  \E o \in Op \cup {None} : Moves(r, o)
  BY PutMoves DEF Valid, Marks

LEMMA NewVMGood ==
    ASSUME StateOK, NEW r \in Request, op[r] = None, NEW o \in Op, NewVM(r, o),
           o.kind \in {"create", "rebuild"}, o.pc = "disk",
           o.kind = "rebuild" => o.rev \in Revision /\ o.bk = None
    PROVE  Good(r)
  <1> DEFINE v == CHOOSE v \in VM : Unused(v)
             n == [o EXCEPT !.new = NextRevision, !.vm = v]
  <1>1. v \in VM /\ NextRevision \in Revision
    BY DEF NewVM
  <1>2. n \in Op
    <2> DEFINE m == [o EXCEPT !.new = NextRevision]
    <2>1. m \in Op
      BY <1>1 DEF Op
    <2>2. n = [m EXCEPT !.vm = v]
      OBVIOUS
    <2> HIDE DEF m, n, v
    <2> QED BY <1>1, <2>1, <2>2 DEF Op
  <1>2a. n.pc = "disk" /\ n.kind = o.kind /\ n.rev = o.rev /\ n.bk = o.bk
    BY DEF Op
  <1>3. n.new \in Revision /\ n.vm \in VM
    BY <1>1 DEF Op
  <1>4. Put(r, n)
    BY DEF NewVM
  <1> HIDE DEF n
  <1>5. WellFormed(n)
    BY <1>3, <1>2a DEF WellFormed, Fits
  <1>6. \E p \in Op \cup {None} : Moves(r, p)
    BY <1>2, <1>4, <1>5, BeginMoves DEF NewVM, mulch
  <1>7. StateOK'
    BY DEF NewVM, StateOK, libvirt, mulch, users, Present
  <1> QED BY <1>6, <1>7 DEF Good

LEMMA BeginGood ==
    ASSUME TypeOK, MarksOK, NEW r \in Request, Begin(r)
    PROVE  Good(r)
  <1>0. StateOK
    BY TypeParts
  <1>1. ASSUME NEW act \in BOOLEAN, NEW b \in Backup \cup {None}, CreateVM(r, act, b)
        PROVE  Good(r)
    <2> DEFINE n == [Operation("create", "disk", None) EXCEPT !.flag = act, !.bk = b]
    <2>1. n \in Op /\ n.kind = "create" /\ n.pc = "disk"
      BY <1>1 DEF Operation, Op
    <2>2. op[r] = None /\ NewVM(r, n)
      BY <1>1 DEF CreateVM, Free
    <2> HIDE DEF n
    <2> QED BY <1>0, <2>1, <2>2, NewVMGood
  <1>2. ASSUME NEW i \in Revision, NEW lock \in BOOLEAN, RebuildVM(r, i, lock)
        PROVE  Good(r)
    <2> DEFINE n == [Operation("rebuild", "disk", i) EXCEPT !.lock = lock]
    <2>1. n \in Op /\ n.kind = "rebuild" /\ n.pc = "disk" /\ n.rev \in Revision /\ n.bk = None
      BY <1>2 DEF Operation, Op
    <2>2. op[r] = None /\ NewVM(r, n)
      BY <1>2 DEF RebuildVM, Free
    <2> HIDE DEF n
    <2> QED BY <1>0, <2>1, <2>2, NewVMGood
  <1>3. ASSUME NEW n \in Op, WellFormed(n), Put(r, n), op[r] = None,
               UNCHANGED <<setting, libvirt, mulch, users>>
        PROVE  Good(r)
    <2>1. StateOK'
      BY <1>0, <1>3 DEF StateOK, libvirt, mulch, users, Present
    <2>2. \E o \in Op \cup {None} : Moves(r, o)
      BY <1>3, BeginMoves DEF mulch
    <2> QED BY <2>1, <2>2 DEF Good
  <1>4. ASSUME NEW i \in Revision, BackupVM(r, i)
        PROVE  Good(r)
    <2> DEFINE n == Operation("backup", "backup", i)
    <2>1. n \in Op /\ WellFormed(n)
      BY DEF Operation, Op, WellFormed, Fits
    <2> QED BY <1>3, <1>4, <2>1 DEF BackupVM, Free
  <1>5. ASSUME NEW i \in Revision, DeleteVM(r, i)
        PROVE  Good(r)
    <2> DEFINE n == [Operation("delete", "delete", i) EXCEPT !.target = i]
    <2>1. n \in Op /\ WellFormed(n)
      BY DEF Operation, Op, WellFormed, Fits
    <2> QED BY <1>3, <1>5, <2>1 DEF DeleteVM, Free
  <1>6. ASSUME NEW i \in Revision, NEW b \in Backup, RestoreVM(r, i, b)
        PROVE  Good(r)
    <2> DEFINE n == [Operation("restore", "rmark", i) EXCEPT !.held = db[i], !.bk = b]
    <2>1. db[i] \in VM
      BY <1>0, <1>6 DEF StateOK, RestoreVM, Present
    <2>2. n \in Op /\ WellFormed(n)
      BY <2>1 DEF Operation, Op, WellFormed, Fits
    <2> QED BY <1>3, <1>6, <2>2 DEF RestoreVM, Free
  <1>7. ASSUME NEW b \in Backup, DeleteBackup(r, b)
        PROVE  Good(r)
    <2> DEFINE n == [Operation("drop", "delvol", None) EXCEPT !.bk = b]
    <2>1. n \in Op /\ WellFormed(n)
      BY DEF Operation, Op, WellFormed, Fits
    <2> QED BY <1>3, <1>7, <2>1 DEF DeleteBackup, Free
  <1> QED BY <1>1, <1>2, <1>4, <1>5, <1>6, <1>7 DEF Begin

LEMMA UsersPreserve ==
    ASSUME StateOK, Users
    PROVE  StateOK' /\ op' = op /\ wip' = wip
  <1>1. ASSUME NEW i \in Revision, Stop(i) PROVE StateOK' /\ op' = op /\ wip' = wip
    BY <1>1 DEF Stop, Running, StateOK, mulch, users, Present
  <1>2. ASSUME NEW i \in Revision, Start(i) PROVE StateOK' /\ op' = op /\ wip' = wip
    BY <1>2 DEF Start, StateOK, mulch, users, Present
  <1>3. ASSUME NEW i \in Revision, LockUnlock(i) PROVE StateOK' /\ op' = op /\ wip' = wip
    BY <1>3 DEF LockUnlock, StateOK, libvirt, users, Present
  <1>4. ASSUME NEW i \in Revision \cup {None}, ActivateVM(i)
        PROVE  StateOK' /\ op' = op /\ wip' = wip
    <2>1. data' \in {None} \cup Content
      BY <1>4, ContentTypes DEF ActivateVM, Expected, StateOK
    <2> QED BY <1>4, <2>1 DEF ActivateVM, StateOK, libvirt, Present
  <1>5. CASE Write
    <2>1. setting.writes \in 0..MaxWrites
      BY LifecycleAssumption DEF StateOK
    <2>2. wrote' \in 1..MaxWrites
      BY <1>5, <2>1, LifecycleAssumption DEF Write, StateOK
    <2>3. active \in Revision /\ disk[active] \in Content
      BY <1>5, NoneIsNoContent DEF Write, StateOK, Present
    <2>4. disk' \in [Revision -> {None} \cup Content]
      BY <1>5, <2>2, <2>3 DEF Write, StateOK, Content
    <2>5. data' \in {None} \cup Content
      BY <1>5, <2>2 DEF Write, StateOK, Content
    <2> QED BY <1>5, <2>2, <2>4, <2>5, LifecycleAssumption DEF Write, StateOK, mulch,
               Present
  <1> QED BY <1>1, <1>2, <1>3, <1>4, <1>5 DEF Users

LEMMA RestartPreserves ==
    ASSUME StateOK, Restart
    PROVE  StateOK' /\ OpsOK' /\ MarksOK'
  <1> DEFINE kept == {i \in Present : dom[i] # None}
  <1>1. db' \in [Revision -> VM \cup {None}] /\ Present' = kept
    BY NoneIsNoContent DEF Restart, StateOK, Present
  <1>2. active' \in kept \cup {None}
    <2>1. CASE active \in kept \cup {None}
      BY <2>1 DEF Restart
    <2>2. CASE active \notin kept \cup {None} /\ \E j \in kept : IsHighest(j, kept)
      <3> DEFINE c == CHOOSE j \in kept : IsHighest(j, kept)
      <3>1. c \in kept
        BY <2>2
      <3>2. active' = c
        BY <2>2 DEF Restart
      <3> QED BY <3>1, <3>2
    <2>3. CASE active \notin kept \cup {None} /\ ~\E j \in kept : IsHighest(j, kept)
      BY <2>3 DEF Restart
    <2> QED BY <2>1, <2>2, <2>3
  <1>3. data' \in {None} \cup Content
    <2>1. Expected(active', disk) \in {None} \cup Content
      <3>1. CASE active' = None
        BY <3>1 DEF Expected
      <3>2. CASE active' \in kept
        BY <3>2, ContentTypes DEF StateOK, Present
      <3> QED BY <1>2, <3>1, <3>2
    <2>2. data' = data \/ data' = Expected(active', disk)
      BY DEF Restart
    <2> QED BY <2>1, <2>2 DEF StateOK
  <1>4. wip' = {} /\ op' = [r \in Request |-> None]
    BY DEF Restart
  <1>5. StateOK'
    BY <1>1, <1>2, <1>3, <1>4 DEF Restart, StateOK, libvirt
  <1>6. OpsOK' /\ MarksOK'
    BY <1>4 DEF OpsOK, MarksOK, Valid
  <1> QED BY <1>5, <1>6

LEMMA InitTyped ==
    ASSUME Init
    PROVE  StateOK /\ OpsOK /\ MarksOK
  <1> DEFINE first == CHOOSE v \in VM : TRUE
  <1>1. first \in VM
    BY LifecycleAssumption
  <1>2. 0 \in Revision /\ {} \in Content /\ 0 \in 0..MaxWrites
    BY LifecycleAssumption DEF Revision, Content
  <1>3. OpsOK /\ MarksOK
    BY DEF Init, OpsOK, MarksOK, Valid
  <1>4. db = [i \in Revision |-> IF i = 0 THEN first ELSE None] /\ active = 0
    BY DEF Init
  <1>5. active \in Present
    BY <1>1, <1>2, <1>4, NoneIsNoContent DEF Present
  <1>6. StateOK
    BY <1>1, <1>2, <1>5 DEF Init, StateOK
  <1> QED BY <1>3, <1>6

-----------------------------------------------------------------------------
(***************************************************************************)
(* The inductive invariant: the types, and each mark is that of an         *)
(* operation between SetOperation and its deferred reset.                  *)
(***************************************************************************)
Inv == TypeOK /\ MarksOK

LEMMA InvNext ==
    ASSUME Inv, [Next]_vars
    PROVE  Inv'
  <1>0. StateOK /\ OpsOK /\ MarksOK /\ TypeOK
    BY TypeParts DEF Inv
  <1>1. ASSUME StateOK', OpsOK', MarksOK' PROVE Inv'
    BY <1>1 DEF Inv, TypeOK, StateOK, OpsOK, Valid
  <1>2. ASSUME NEW r \in Request, Good(r) PROVE Inv'
    BY <1>0, <1>1, <1>2, MovesPreserve DEF Good
  <1>3. ASSUME NEW r \in Request,
               \/ Begin(r) \/ Create(r) \/ SaveBackup(r) \/ Restore(r) \/ Delete(r) \/ Rebuild(r)
               \/ DeleteBackupVolume(r) \/ DeleteBackupEntry(r)
        PROVE  Inv'
    BY <1>0, <1>2, <1>3, BeginGood, CreateGood, SaveBackupGood, RestoreGood, DeleteGood,
       RebuildGood, DropGood DEF Drop
  <1>4. CASE Users
    BY <1>0, <1>1, <1>4, UsersPreserve DEF OpsOK, MarksOK, Valid, WellFormed, Marks
  <1>5. CASE Restart
    BY <1>0, <1>1, <1>5, RestartPreserves
  <1>6. CASE UNCHANGED vars
    BY <1>6, <1>0, <1>1 DEF vars, libvirt, mulch, users, StateOK, OpsOK, MarksOK, Valid,
       WellFormed, Marks, Present
  <1> QED BY <1>3, <1>4, <1>5, <1>6 DEF Next

(***************************************************************************)
(* The invariant, for any number of revisions, VMs, backups, writes and    *)
(* requests, and any settings: what the record of an operation holds is    *)
(* what the next step of the code uses, whatever failed before it.         *)
(***************************************************************************)
THEOREM InvHolds == Spec => []Inv
  <1>1. Init => Inv
    BY InitTyped, TypeParts DEF Inv
  <1>2. Inv /\ [Next]_vars => Inv'
    BY InvNext
  <1> QED BY <1>1, <1>2, PTL DEF Spec

(***************************************************************************)
(* Types of the resources and of the operations (server/vm.go), whatever   *)
(* steps fail, whenever mulchd restarts, however requests overlap.         *)
(***************************************************************************)
THEOREM TypeCorrect == Spec => []TypeOK
  <1>1. Inv => TypeOK
    BY DEF Inv
  <1> QED BY <1>1, InvHolds, PTL

(***************************************************************************)
(* No operation, however it ends, leaves its work-in-progress mark on a VM *)
(* (the deferred SetOperation of VMBackup and VMRestoreNoChecks).          *)
(***************************************************************************)
THEOREM MarksAreRemoved == Spec => []NoStuckOperation
  <1>1. Inv => NoStuckOperation
    BY DEF Inv, MarksOK, Marks, NoStuckOperation
  <1> QED BY <1>1, InvHolds, PTL
LEMMA FieldTypes ==
    ASSUME NEW x \in Op
    PROVE  /\ \A l \in Label : [x EXCEPT !.pc = l] \in Op
           /\ \A v \in VM \cup {None} : [x EXCEPT !.held = v] \in Op
           /\ \A b \in Backup \cup {None} : [x EXCEPT !.bk = b] \in Op
           /\ \A i \in Revision : [x EXCEPT !.target = i] \in Op
           /\ \A v \in VM : [x EXCEPT !.handle = v] \in Op
           /\ \A f \in BOOLEAN : [x EXCEPT !.flag = f] \in Op
           /\ \A k \in BOOLEAN : [x EXCEPT !.lock = k] \in Op
           /\ \A b \in BOOLEAN : [x EXCEPT !.ok = b] \in Op
  <1>1. \A l \in Label : [x EXCEPT !.pc = l] \in Op
    BY DEF Op
  <1>2. \A v \in VM \cup {None} : [x EXCEPT !.held = v] \in Op
    BY DEF Op
  <1>3. \A b \in Backup \cup {None} : [x EXCEPT !.bk = b] \in Op
    BY DEF Op
  <1>4. \A i \in Revision : [x EXCEPT !.target = i] \in Op
    BY DEF Op
  <1>5. \A v \in VM : [x EXCEPT !.handle = v] \in Op
    BY DEF Op
  <1>6. \A f \in BOOLEAN : [x EXCEPT !.flag = f] \in Op
    BY DEF Op
  <1>7. \A k \in BOOLEAN : [x EXCEPT !.lock = k] \in Op
    BY DEF Op
  <1>8. \A b \in BOOLEAN : [x EXCEPT !.ok = b] \in Op
    BY DEF Op
  <1> QED BY <1>1, <1>2, <1>3, <1>4, <1>5, <1>6, <1>7, <1>8

\* What a request is about.
Identity(o, x) == o.kind = x.kind /\ o.rev = x.rev /\ o.new = x.new /\ o.vm = x.vm

Same(o, x) ==
    /\ Identity(o, x) /\ o.held = x.held /\ o.bk = x.bk /\ o.target = x.target
    /\ o.handle = x.handle /\ o.flag = x.flag /\ o.ok = x.ok

LEMMA Relabeled ==
    ASSUME NEW x \in Op, NEW l \in Label
    PROVE  \E o \in Op : o = [x EXCEPT !.pc = l] /\ o.pc = l /\ Same(o, x)
  <1>1. [x EXCEPT !.pc = l] \in Op
    BY FieldTypes
  <1>2. [x EXCEPT !.pc = l].pc = l /\ Same([x EXCEPT !.pc = l], x)
    BY DEF Op, Same, Identity
  <1> QED BY <1>1, <1>2

LEMMA Retargeted ==
    ASSUME NEW x \in Op, NEW i \in Revision
    PROVE  \E o \in Op : /\ o = [x EXCEPT !.pc = "delete", !.target = i]
                         /\ o.pc = "delete" /\ o.target = i /\ Identity(o, x)
                         /\ o.bk = x.bk /\ o.flag = x.flag /\ o.ok = x.ok
  <1> DEFINE m == [x EXCEPT !.pc = "delete"]
             o == [x EXCEPT !.pc = "delete", !.target = i]
  <1>1. m \in Op /\ o = [m EXCEPT !.target = i]
    BY FieldTypes
  <1>2. /\ o.pc = "delete" /\ o.target = i /\ Identity(o, x)
        /\ o.bk = x.bk /\ o.flag = x.flag /\ o.ok = x.ok
    BY DEF Op, Identity
  <1> HIDE DEF m, o
  <1>3. o \in Op
    BY <1>1, FieldTypes
  <1> QED BY <1>2, <1>3 DEF o

LEMMA Marked ==
    ASSUME NEW x \in Op, NEW v \in VM
    PROVE  \E o \in Op : /\ o = [x EXCEPT !.pc = "bmark", !.held = v]
                         /\ o.pc = "bmark" /\ o.held = v /\ Identity(o, x)
                         /\ o.bk = x.bk /\ o.flag = x.flag /\ o.ok = x.ok
  <1> DEFINE m == [x EXCEPT !.pc = "bmark"]
             o == [x EXCEPT !.pc = "bmark", !.held = v]
  <1>1. m \in Op /\ o = [m EXCEPT !.held = v]
    BY FieldTypes
  <1>2. /\ o.pc = "bmark" /\ o.held = v /\ Identity(o, x)
        /\ o.bk = x.bk /\ o.flag = x.flag /\ o.ok = x.ok
    BY DEF Op, Identity
  <1> HIDE DEF m, o
  <1>3. o \in Op
    BY <1>1, FieldTypes
  <1> QED BY <1>2, <1>3 DEF o

LEMMA Saved ==
    ASSUME NEW x \in Op, NEW v \in VM
    PROVE  \E o \in Op : /\ o = [x EXCEPT !.pc = "rmark", !.held = v]
                         /\ o.pc = "rmark" /\ o.held = v /\ Identity(o, x)
                         /\ o.bk = x.bk /\ o.flag = x.flag /\ o.ok = x.ok
  <1> DEFINE m == [x EXCEPT !.pc = "rmark"]
             o == [x EXCEPT !.pc = "rmark", !.held = v]
  <1>1. m \in Op /\ o = [m EXCEPT !.held = v]
    BY FieldTypes
  <1>2. /\ o.pc = "rmark" /\ o.held = v /\ Identity(o, x)
        /\ o.bk = x.bk /\ o.flag = x.flag /\ o.ok = x.ok
    BY DEF Op, Identity
  <1> HIDE DEF m, o
  <1>3. o \in Op
    BY <1>1, FieldTypes
  <1> QED BY <1>2, <1>3 DEF o

LEMMA Backed ==
    ASSUME NEW x \in Op, NEW b \in Backup
    PROVE  \E o \in Op : /\ o = [x EXCEPT !.pc = "battach", !.bk = b]
                         /\ o.pc = "battach" /\ o.bk = b /\ Identity(o, x)
                         /\ o.held = x.held /\ o.flag = x.flag /\ o.ok = x.ok
  <1> DEFINE m == [x EXCEPT !.pc = "battach"]
             o == [x EXCEPT !.pc = "battach", !.bk = b]
  <1>1. m \in Op /\ o = [m EXCEPT !.bk = b]
    BY FieldTypes
  <1>2. /\ o.pc = "battach" /\ o.bk = b /\ Identity(o, x)
        /\ o.held = x.held /\ o.flag = x.flag /\ o.ok = x.ok
    BY DEF Op, Identity
  <1> HIDE DEF m, o
  <1>3. o \in Op
    BY <1>1, FieldTypes
  <1> QED BY <1>2, <1>3 DEF o

LEMMA Handled ==
    ASSUME NEW x \in Op, NEW v \in VM
    PROVE  \E o \in Op : /\ o = [x EXCEPT !.pc = "destroy", !.handle = v]
                         /\ o.pc = "destroy" /\ o.handle = v /\ Identity(o, x)
                         /\ o.bk = x.bk /\ o.flag = x.flag /\ o.ok = x.ok /\ o.target = x.target
  <1> DEFINE m == [x EXCEPT !.pc = "destroy"]
             o == [x EXCEPT !.pc = "destroy", !.handle = v]
  <1>1. m \in Op /\ o = [m EXCEPT !.handle = v]
    BY FieldTypes
  <1>2. /\ o.pc = "destroy" /\ o.handle = v /\ Identity(o, x)
        /\ o.bk = x.bk /\ o.flag = x.flag /\ o.ok = x.ok /\ o.target = x.target
    BY DEF Op, Identity
  <1> HIDE DEF m, o
  <1>3. o \in Op
    BY <1>1, FieldTypes
  <1> QED BY <1>2, <1>3 DEF o

LEMMA Scripted ==
    ASSUME NEW x \in Op
    PROVE  \E o \in Op : /\ o = [x EXCEPT !.pc = "rdetach", !.ok = TRUE]
                         /\ o.pc = "rdetach" /\ o.ok = TRUE /\ Identity(o, x)
                         /\ o.bk = x.bk /\ o.flag = x.flag
  <1> DEFINE m == [x EXCEPT !.pc = "rdetach"]
             o == [x EXCEPT !.pc = "rdetach", !.ok = TRUE]
  <1>1. m \in Op /\ o = [m EXCEPT !.ok = TRUE]
    BY FieldTypes
  <1>2. /\ o.pc = "rdetach" /\ o.ok = TRUE /\ Identity(o, x)
        /\ o.bk = x.bk /\ o.flag = x.flag
    BY DEF Op, Identity
  <1> HIDE DEF m, o
  <1>3. o \in Op
    BY <1>1, FieldTypes
  <1> QED BY <1>2, <1>3 DEF o

LEMMA Missed ==
    ASSUME NEW x \in Op
    PROVE  \E o \in Op : /\ o = [x EXCEPT !.pc = "rdetach", !.ok = FALSE]
                         /\ o.pc = "rdetach" /\ o.ok = FALSE /\ Identity(o, x)
                         /\ o.bk = x.bk /\ o.flag = x.flag
  <1> DEFINE m == [x EXCEPT !.pc = "rdetach"]
             o == [x EXCEPT !.pc = "rdetach", !.ok = FALSE]
  <1>1. m \in Op /\ o = [m EXCEPT !.ok = FALSE]
    BY FieldTypes
  <1>2. /\ o.pc = "rdetach" /\ o.ok = FALSE /\ Identity(o, x)
        /\ o.bk = x.bk /\ o.flag = x.flag
    BY DEF Op, Identity
  <1> HIDE DEF m, o
  <1>3. o \in Op
    BY <1>1, FieldTypes
  <1> QED BY <1>2, <1>3 DEF o

LEMMA Committed ==
    ASSUME NEW x \in Op
    PROVE  \E o \in Op : /\ o = [x EXCEPT !.pc = "relock", !.ok = TRUE]
                         /\ o.pc = "relock" /\ o.ok = TRUE /\ Identity(o, x)
                         /\ o.bk = x.bk /\ o.flag = x.flag
  <1> DEFINE m == [x EXCEPT !.pc = "relock"]
             o == [x EXCEPT !.pc = "relock", !.ok = TRUE]
  <1>1. m \in Op /\ o = [m EXCEPT !.ok = TRUE]
    BY FieldTypes
  <1>2. /\ o.pc = "relock" /\ o.ok = TRUE /\ Identity(o, x)
        /\ o.bk = x.bk /\ o.flag = x.flag
    BY DEF Op, Identity
  <1> HIDE DEF m, o
  <1>3. o \in Op
    BY <1>1, FieldTypes
  <1> QED BY <1>2, <1>3 DEF o

LEMMA Returned ==
    ASSUME NEW x \in Op
    PROVE  \E o \in Op : /\ o = [x EXCEPT !.held = None, !.ok = FALSE]
                         /\ o.held = None /\ o.ok = FALSE /\ Identity(o, x)
                         /\ o.bk = x.bk /\ o.flag = x.flag
  <1> DEFINE m == [x EXCEPT !.held = None]
             o == [x EXCEPT !.held = None, !.ok = FALSE]
  <1>1. m \in Op /\ o = [m EXCEPT !.ok = FALSE]
    BY FieldTypes
  <1>2. /\ o.held = None /\ o.ok = FALSE /\ Identity(o, x)
        /\ o.bk = x.bk /\ o.flag = x.flag
    BY DEF Op, Identity
  <1> HIDE DEF m, o
  <1>3. o \in Op
    BY <1>1, FieldTypes
  <1> QED BY <1>2, <1>3 DEF o

LEMMA Unbacked ==
    ASSUME NEW x \in Op
    PROVE  \E o \in Op : /\ o = [x EXCEPT !.bk = None, !.held = None]
                         /\ o.bk = None /\ o.held = None /\ Identity(o, x)
                         /\ o.flag = x.flag /\ o.ok = x.ok
  <1> DEFINE m == [x EXCEPT !.bk = None]
             o == [x EXCEPT !.bk = None, !.held = None]
  <1>1. m \in Op /\ o = [m EXCEPT !.held = None]
    BY FieldTypes
  <1>2. /\ o.bk = None /\ o.held = None /\ Identity(o, x)
        /\ o.flag = x.flag /\ o.ok = x.ok
    BY DEF Op, Identity
  <1> HIDE DEF m, o
  <1>3. o \in Op
    BY <1>1, FieldTypes
  <1> QED BY <1>2, <1>3 DEF o

LEMMA Unheld ==
    ASSUME NEW x \in Op
    PROVE  \E o \in Op : /\ o = [x EXCEPT !.held = None] /\ o.pc = x.pc /\ Identity(o, x)
                         /\ o.bk = x.bk /\ o.flag = x.flag /\ o.ok = x.ok
  <1>1. [x EXCEPT !.held = None] \in Op
    BY FieldTypes
  <1>2. /\ [x EXCEPT !.held = None].pc = x.pc /\ Identity([x EXCEPT !.held = None], x)
        /\ [x EXCEPT !.held = None].bk = x.bk /\ [x EXCEPT !.held = None].flag = x.flag
        /\ [x EXCEPT !.held = None].ok = x.ok
    BY DEF Op, Identity
  <1> QED BY <1>1, <1>2

(***************************************************************************)
(* Where the deferred calls of VMRebuild begin: o is what is put when x    *)
(* ends, with or without success.                                          *)
(***************************************************************************)
Undoes(x, o) ==
    \/ o = None /\ x.ok
    \/ /\ o \in Op /\ o # None /\ Identity(o, x) /\ o.flag = x.flag /\ o.ok = x.ok /\ o.bk = x.bk
       /\ \/ o.pc = "drop" /\ x.bk # None
          \/ o.pc = "reactivate" /\ x.flag /\ ~x.ok
          \/ o.pc = "delete" /\ ~x.flag /\ ~x.ok /\ o.target = x.new

LEMMA DiscardedPuts ==
    ASSUME NEW x \in Op, x.new \in Revision
    PROVE  \E o \in Op : /\ o = Discarded(x) /\ o # None /\ o.pc = "delete" /\ o.target = x.new
                         /\ Identity(o, x) /\ o.bk = x.bk /\ o.flag = x.flag /\ o.ok = x.ok
  <1>1. PICK i \in Revision : i = x.new
    OBVIOUS
  <1>2. PICK o \in Op : /\ o = [x EXCEPT !.pc = "delete", !.target = i]
                        /\ o.pc = "delete" /\ o.target = i /\ Identity(o, x)
                        /\ o.bk = x.bk /\ o.flag = x.flag /\ o.ok = x.ok
    BY Retargeted
  <1>3. o = Discarded(x) /\ o # None
    BY <1>1, <1>2, SentinelAssumption DEF Discarded
  <1> QED BY <1>1, <1>2, <1>3

LEMMA RevertedUndoes ==
    ASSUME NEW x \in Op, x.new \in Revision
    PROVE  Undoes(x, Reverted(x))
  <1>1. PICK o \in Op : o = [x EXCEPT !.pc = "reactivate"] /\ o.pc = "reactivate" /\ Same(o, x)
    BY Relabeled
  <1>2. CASE x.ok
    BY <1>2 DEF Undoes, Reverted
  <1>3. CASE ~x.ok /\ x.flag
    BY <1>1, <1>3, SentinelAssumption DEF Undoes, Reverted, Same
  <1>4. CASE ~x.ok /\ ~x.flag
    BY <1>4, DiscardedPuts DEF Undoes, Reverted
  <1> QED BY <1>2, <1>3, <1>4

LEMMA UnwoundUndoes ==
    ASSUME NEW x \in Op, x.new \in Revision
    PROVE  Undoes(x, Unwound(x))
  <1>1. PICK o \in Op : o = [x EXCEPT !.pc = "drop"] /\ o.pc = "drop" /\ Same(o, x)
    BY Relabeled
  <1>2. CASE x.bk # None
    BY <1>1, <1>2, SentinelAssumption DEF Undoes, Unwound, Same
  <1>3. CASE x.bk = None
    BY <1>3, RevertedUndoes DEF Unwound
  <1> QED BY <1>2, <1>3

(***************************************************************************)
(* What the steps of an operation put, by function of the code.            *)
(***************************************************************************)
LEMMA Steps ==
    ASSUME OpsOK, NEW r \in Request, op[r] # None
    PROVE  op[r] \in Op /\ WellFormed(op[r])
  BY DEF OpsOK, Valid

LEMMA GoPuts ==
    ASSUME OpsOK, NEW r \in Request, op[r] # None, NEW l \in Label, Go(r, l)
    PROVE  \E o \in Op : Put(r, o) /\ o # None /\ o.pc = l /\ Same(o, op[r])
  <1>1. PICK o \in Op : o = [op[r] EXCEPT !.pc = l] /\ o.pc = l /\ Same(o, op[r])
    BY Steps, Relabeled
  <1> QED BY <1>1, SentinelAssumption DEF Go, Put, OpsOK

\* VMBackup failed.
LEMMA BackupFailsPuts ==
    ASSUME OpsOK, NEW r \in Request, op[r] # None, op[r].pc \in BackupLabel, BackupFails(r)
    PROVE  \/ op[r].kind = "backup" /\ Put(r, None)
           \/ op[r].kind = "rebuild" /\ \E y \in Op, o \in Op \cup {None} :
                 /\ Put(r, o) /\ Undoes(y, o)
                 /\ Identity(y, op[r]) /\ y.bk = None /\ y.flag = op[r].flag /\ y.ok = op[r].ok
  <1>1. op[r] \in Op /\ op[r].kind \in {"backup", "rebuild"}
        /\ (op[r].kind = "rebuild" => op[r].new \in Revision)
    BY Steps DEF WellFormed, Fits
  <1>2. CASE op[r].kind = "backup"
    BY <1>2 DEF BackupFails, End, Put
  <1>3. CASE op[r].kind = "rebuild"
    <2>1. PICK y \in Op : /\ y = [op[r] EXCEPT !.bk = None, !.held = None]
                          /\ y.bk = None /\ y.held = None /\ Identity(y, op[r])
                          /\ y.flag = op[r].flag /\ y.ok = op[r].ok
      BY <1>1, Unbacked
    <2>2. Undoes(y, Reverted(y))
      BY <1>1, <1>3, <2>1, RevertedUndoes DEF Identity
    <2>3. Put(r, Reverted(y))
      BY <1>3, <2>1 DEF BackupFails
    <2>4. Reverted(y) \in Op \cup {None}
      BY <2>2 DEF Undoes
    <2> QED BY <1>3, <2>1, <2>2, <2>3, <2>4
  <1> QED BY <1>1, <1>2, <1>3

\* VMRestoreNoChecks returns.
LEMMA RestoreReturnsPuts ==
    ASSUME OpsOK, NEW r \in Request, op[r] # None, op[r].pc \in RestoreLabel,
           NEW ok \in BOOLEAN, RestoreReturns(r, ok)
    PROVE  \/ op[r].kind = "restore" /\ Put(r, None)
           \/ op[r].kind = "create" /\ \E o \in Op : /\ Put(r, o) /\ o # None /\ o.pc \in {"add", "undomain"}
                                                     /\ Same(o, op[r])
           \/ op[r].kind = "rebuild" /\ \E o \in Op :
                 /\ Put(r, o) /\ o # None /\ ok /\ Identity(o, op[r]) /\ o.bk = op[r].bk /\ o.flag = op[r].flag
                 /\ ~o.ok /\ o.pc = IF o.flag THEN "activate" ELSE "unlock"
           \/ op[r].kind = "rebuild" /\ \E y \in Op, o \in Op \cup {None} :
                 /\ Put(r, o) /\ ~ok /\ Undoes(y, o)
                 /\ Identity(y, op[r]) /\ y.bk = op[r].bk /\ y.flag = op[r].flag /\ ~y.ok
  <1>1. op[r] \in Op /\ op[r].kind \in {"create", "restore", "rebuild"}
        /\ (op[r].kind = "rebuild" => op[r].new \in Revision)
    BY Steps DEF WellFormed, Fits
  <1>2. CASE op[r].kind = "restore"
    BY <1>2 DEF RestoreReturns, End, Put
  <1>3. CASE op[r].kind = "create"
    <2>1. Go(r, "add") \/ Go(r, "undomain")
      BY <1>3 DEF RestoreReturns
    <2>2. \E o \in Op : Put(r, o) /\ o # None /\ o.pc \in {"add", "undomain"} /\ Same(o, op[r])
      <3>1. CASE Go(r, "add")
        BY <3>1, GoPuts
      <3>2. CASE Go(r, "undomain")
        BY <3>2, GoPuts
      <3> QED BY <2>1, <3>1, <3>2
    <2> QED BY <1>3, <2>2
  <1>4. CASE op[r].kind = "rebuild"
    <2>1. PICK y \in Op : /\ y = [op[r] EXCEPT !.held = None, !.ok = FALSE]
                          /\ y.held = None /\ y.ok = FALSE /\ Identity(y, op[r])
                          /\ y.bk = op[r].bk /\ y.flag = op[r].flag
      BY <1>1, Returned
    <2>2. CASE ok
      <3>1. PICK l \in Label : l = IF y.flag THEN "activate" ELSE "unlock"
        OBVIOUS
      <3>2. PICK o \in Op : o = [y EXCEPT !.pc = l] /\ o.pc = l /\ Same(o, y)
        BY Relabeled
      <3>3. Put(r, o)
        BY <1>4, <2>1, <2>2, <3>1, <3>2 DEF RestoreReturns
      <3>4. /\ o # None /\ Identity(o, op[r]) /\ o.bk = op[r].bk /\ o.flag = op[r].flag
            /\ ~o.ok /\ o.pc = IF o.flag THEN "activate" ELSE "unlock"
        BY <2>1, <3>1, <3>2, SentinelAssumption DEF Same, Identity
      <3> QED BY <1>4, <2>2, <3>3, <3>4
    <2>3. CASE ~ok
      <3>1. Undoes(y, Unwound(y))
        BY <1>1, <1>4, <2>1, UnwoundUndoes DEF Identity
      <3>2. Put(r, Unwound(y))
        BY <1>4, <2>1, <2>3 DEF RestoreReturns
      <3>3. Unwound(y) \in Op \cup {None}
        BY <3>1 DEF Undoes
      <3> QED BY <1>4, <2>1, <2>3, <3>1, <3>2, <3>3
    <2> QED BY <2>2, <2>3
  <1> QED BY <1>1, <1>2, <1>3, <1>4

\* VMDelete returns.
LEMMA DeleteReturnsPuts ==
    ASSUME OpsOK, NEW r \in Request, op[r] # None, op[r].pc \in DeleteLabel,
           NEW ok \in BOOLEAN, DeleteReturns(r, ok)
    PROVE  \/ ~(op[r].kind = "rebuild" /\ op[r].target = op[r].rev) /\ Put(r, None)
           \/ /\ op[r].kind = "rebuild" /\ op[r].target = op[r].rev /\ ok
              /\ \E o \in Op : /\ Put(r, o) /\ o # None /\ o.pc = "relock" /\ o.ok /\ Identity(o, op[r])
                               /\ o.bk = op[r].bk /\ o.flag = op[r].flag
           \/ /\ op[r].kind = "rebuild" /\ op[r].target = op[r].rev /\ ~ok
              /\ \E o \in Op \cup {None} : Put(r, o) /\ Undoes(op[r], o)
  <1>1. op[r] \in Op /\ (op[r].kind = "rebuild" => op[r].new \in Revision)
    BY Steps DEF WellFormed, Fits
  <1>2. CASE ~(op[r].kind = "rebuild" /\ op[r].target = op[r].rev)
    BY <1>2 DEF DeleteReturns, End, Put
  <1>3. CASE op[r].kind = "rebuild" /\ op[r].target = op[r].rev /\ ok
    <2>1. PICK o \in Op : /\ o = [op[r] EXCEPT !.pc = "relock", !.ok = TRUE]
                          /\ o.pc = "relock" /\ o.ok = TRUE /\ Identity(o, op[r])
                          /\ o.bk = op[r].bk /\ o.flag = op[r].flag
      BY <1>1, Committed
    <2>2. Put(r, o) /\ o # None
      BY <1>3, <2>1, SentinelAssumption DEF DeleteReturns
    <2> QED BY <1>3, <2>1, <2>2
  <1>4. CASE op[r].kind = "rebuild" /\ op[r].target = op[r].rev /\ ~ok
    <2>1. PICK x \in Op : x = op[r]
      BY <1>1
    <2>2. Undoes(x, Unwound(x))
      BY <1>1, <1>4, <2>1, UnwoundUndoes
    <2>3. Put(r, Unwound(x))
      BY <1>4, <2>1 DEF DeleteReturns
    <2>4. Unwound(x) \in Op \cup {None}
      BY <2>2 DEF Undoes
    <2> QED BY <1>4, <2>1, <2>2, <2>3, <2>4
  <1> QED BY <1>2, <1>3, <1>4

(***************************************************************************)
(* What a request begins with.                                             *)
(***************************************************************************)
Begun(o) ==
    /\ o # None /\ ~o.ok
    /\ \/ /\ o.kind \in {"create", "rebuild"} /\ o.pc = "disk"
          /\ o.new = NextRevision /\ NextRevision \in Revision /\ dom[NextRevision] = None
          /\ IF o.kind = "create" THEN o.bk # None => setting.scripts /\ o.bk \in bdb
             ELSE o.rev \in Present /\ Running(o.rev) /\ o.bk = None /\ ~o.flag
       \/ o.kind = "backup" /\ o.pc = "backup" /\ o.bk = None
       \/ o.kind = "delete" /\ o.pc = "delete" /\ o.bk = None /\ o.target \in Present
       \/ o.kind = "restore" /\ o.pc = "rmark" /\ setting.scripts /\ o.bk \in bdb
       \/ o.kind = "drop" /\ o.pc = "delvol" /\ o.bk \in bdb

Begins(r) ==
    /\ op[r] = None /\ (setting.overlap \/ Alone)
    /\ UNCHANGED <<setting, libvirt, mulch, users>>
    /\ \E o \in Op : Put(r, o) /\ Begun(o)

LEMMA NewVMBegins ==
    ASSUME NEW r \in Request, NEW x \in Op, NewVM(r, x), x.pc = "disk", ~x.ok
    PROVE  \E o \in Op : /\ Put(r, o) /\ o # None /\ o.kind = x.kind /\ o.pc = "disk" /\ ~o.ok
                         /\ o.new = NextRevision /\ o.bk = x.bk /\ o.rev = x.rev /\ o.flag = x.flag
  <1> DEFINE v == CHOOSE v \in VM : Unused(v)
  <1>1. v \in VM /\ NextRevision \in Revision /\ Put(r, [x EXCEPT !.new = NextRevision, !.vm = v])
    BY DEF NewVM
  <1> HIDE DEF v
  <1>2. PICK u \in VM, n \in Revision : u = v /\ n = NextRevision
    BY <1>1
  <1> DEFINE m == [x EXCEPT !.new = n]
             o == [x EXCEPT !.new = n, !.vm = u]
  <1>3. m \in Op /\ o = [m EXCEPT !.vm = u]
    BY DEF Op
  <1>4. /\ o.kind = x.kind /\ o.pc = "disk" /\ ~o.ok /\ o.new = n
        /\ o.bk = x.bk /\ o.rev = x.rev /\ o.flag = x.flag
    BY DEF Op
  <1>5. Put(r, o)
    BY <1>1, <1>2
  <1> HIDE DEF m, o
  <1>6. o \in Op
    BY <1>3 DEF Op
  <1> QED BY <1>2, <1>4, <1>5, <1>6, SentinelAssumption

LEMMA BeginBegins ==
    ASSUME StateOK, NEW r \in Request, Begin(r)
    PROVE  Begins(r)
  <1>1. ASSUME NEW act \in BOOLEAN, NEW b \in Backup \cup {None}, CreateVM(r, act, b)
        PROVE  Begins(r)
    <2> DEFINE n == [Operation("create", "disk", None) EXCEPT !.flag = act, !.bk = b]
    <2>1. n \in Op /\ n.kind = "create" /\ n.pc = "disk" /\ ~n.ok /\ n.bk = b
      BY DEF Operation, Op
    <2>2. NewVM(r, n)
      BY <1>1 DEF CreateVM
    <2> HIDE DEF n
    <2>3. PICK o \in Op : /\ Put(r, o) /\ o # None /\ o.kind = n.kind /\ o.pc = "disk" /\ ~o.ok
                          /\ o.new = NextRevision /\ o.bk = n.bk /\ o.rev = n.rev /\ o.flag = n.flag
      BY <2>1, <2>2, NewVMBegins
    <2>4. Begun(o)
      BY <1>1, <2>1, <2>2, <2>3 DEF Begun, CreateVM, NewVM
    <2> QED BY <1>1, <2>2, <2>3, <2>4 DEF Begins, CreateVM, Free, NewVM
  <1>2. ASSUME NEW i \in Revision, NEW lock \in BOOLEAN, RebuildVM(r, i, lock)
        PROVE  Begins(r)
    <2> DEFINE n == [Operation("rebuild", "disk", i) EXCEPT !.lock = lock]
    <2>1. n \in Op /\ n.kind = "rebuild" /\ n.pc = "disk" /\ ~n.ok /\ n.bk = None /\ n.rev = i
          /\ ~n.flag
      BY DEF Operation, Op
    <2>2. NewVM(r, n)
      BY <1>2 DEF RebuildVM
    <2> HIDE DEF n
    <2>3. PICK o \in Op : /\ Put(r, o) /\ o # None /\ o.kind = n.kind /\ o.pc = "disk" /\ ~o.ok
                          /\ o.new = NextRevision /\ o.bk = n.bk /\ o.rev = n.rev /\ o.flag = n.flag
      BY <2>1, <2>2, NewVMBegins
    <2>4. Begun(o)
      BY <1>2, <2>1, <2>2, <2>3 DEF Begun, RebuildVM, NewVM
    <2> QED BY <1>2, <2>2, <2>3, <2>4 DEF Begins, RebuildVM, Free, NewVM
  <1>3. ASSUME NEW n \in Op, Begun(n), Put(r, n), op[r] = None, setting.overlap \/ Alone,
               UNCHANGED <<setting, libvirt, mulch, users>>
        PROVE  Begins(r)
    BY <1>3 DEF Begins
  <1>4. ASSUME NEW i \in Revision, BackupVM(r, i)
        PROVE  Begins(r)
    <2> DEFINE n == Operation("backup", "backup", i)
    <2>1. n \in Op /\ n.kind = "backup" /\ n.pc = "backup" /\ n.bk = None /\ ~n.ok
      BY DEF Operation, Op
    <2>2. n # None /\ Begun(n)
      BY <2>1, SentinelAssumption DEF Begun
    <2> QED BY <1>3, <1>4, <2>1, <2>2 DEF BackupVM, Free
  <1>5. ASSUME NEW i \in Revision, DeleteVM(r, i)
        PROVE  Begins(r)
    <2> DEFINE n == [Operation("delete", "delete", i) EXCEPT !.target = i]
    <2>1. /\ n \in Op /\ n.kind = "delete" /\ n.pc = "delete" /\ n.bk = None /\ n.target = i
          /\ ~n.ok
      BY DEF Operation, Op
    <2>2. n # None /\ Begun(n)
      BY <1>5, <2>1, SentinelAssumption DEF Begun, DeleteVM
    <2> QED BY <1>3, <1>5, <2>1, <2>2 DEF DeleteVM, Free
  <1>6. ASSUME NEW i \in Revision, NEW b \in Backup, RestoreVM(r, i, b)
        PROVE  Begins(r)
    <2>0. PICK v \in VM : v = db[i]
      BY <1>6 DEF StateOK, RestoreVM, Present
    <2> DEFINE n == [Operation("restore", "rmark", i) EXCEPT !.held = v, !.bk = b]
    <2>1. n \in Op /\ n.kind = "restore" /\ n.pc = "rmark" /\ n.bk = b /\ ~n.ok
      BY DEF Operation, Op
    <2>2. n # None /\ Begun(n)
      BY <1>6, <2>1, SentinelAssumption DEF Begun, RestoreVM
    <2> QED BY <1>3, <1>6, <2>0, <2>1, <2>2 DEF RestoreVM, Free
  <1>7. ASSUME NEW b \in Backup, DeleteBackup(r, b)
        PROVE  Begins(r)
    <2> DEFINE n == [Operation("drop", "delvol", None) EXCEPT !.bk = b]
    <2>1. n \in Op /\ n.kind = "drop" /\ n.pc = "delvol" /\ n.bk = b /\ ~n.ok
      BY DEF Operation, Op
    <2>2. n # None /\ Begun(n)
      BY <1>7, <2>1, SentinelAssumption DEF Begun, DeleteBackup
    <2> QED BY <1>3, <1>7, <2>1, <2>2 DEF DeleteBackup, Free
  <1> QED BY <1>1, <1>2, <1>4, <1>5, <1>6, <1>7 DEF Begin
-----------------------------------------------------------------------------
(* The invariant about the backups. *)

\* With no fault: the volume of a backup that is being made is its operation's alone, and
\* a backup of the database without a volume is about to leave it.
OwnBackup(r) ==
    /\ op[r].bk \notin bdb /\ bvol[op[r].bk] # None
    /\ \A q \in Request \ {r} : op[q] # None => op[q].bk # op[r].bk

Leaving(b) == \E r \in Request : At(r, "deldb") /\ op[r].bk = b

BackupsBeingMade == \A r \in Request : op[r] # None /\ op[r].pc \in VolumeLabel => OwnBackup(r)
BackupsDropped == \A r \in Request : At(r, "dropvol") => op[r].bk \notin bdb
BackupsListed == \A b \in bdb : bvol[b] # None \/ Leaving(b)

StoredOK == BackupsBeingMade /\ BackupsDropped /\ BackupsListed

NoFault == setting.fault = "none"

LEMMA OpTypes ==
    ASSUME OpsOK, NEW r \in Request, NEW o \in Op \cup {None}, Put(r, o)
    PROVE  op'[r] = o /\ \A q \in Request \ {r} : op'[q] = op[q]
  BY DEF OpsOK, Put

\* A step that makes no backup, deletes none and goes on with the same one, or without.
Passes(x, o) ==
    o # None =>
        /\ o.bk \in {x.bk, None} /\ o.pc # "dropvol"
        /\ o.pc \in VolumeLabel => x.pc \in VolumeLabel /\ o.bk = x.bk

Passing(r) == \E o \in Op \cup {None} : Put(r, o) /\ Passes(op[r], o)

LEMMA PassingKeeps ==
    ASSUME OpsOK, StoredOK, NEW r \in Request, op[r] # None, op[r].pc # "deldb",
           Passing(r), UNCHANGED <<bvol, bdb>>
    PROVE  StoredOK'
  <1>1. PICK o \in Op \cup {None} : Put(r, o) /\ Passes(op[r], o)
    BY DEF Passing
  <1>2. op'[r] = o /\ \A q \in Request \ {r} : op'[q] = op[q]
    BY <1>1, OpTypes
  <1>3. \A q \in Request : op[q] # None /\ op[q].pc \in VolumeLabel => op[q].bk \in Backup
    BY Steps DEF WellFormed, Fits
  <1>4. ASSUME NEW q \in Request, op'[q] # None, op'[q].pc \in VolumeLabel
        PROVE  OwnBackup(q)'
    <2>1. op[q] # None /\ op[q].pc \in VolumeLabel /\ op'[q].bk = op[q].bk
      BY <1>1, <1>2, <1>4 DEF Passes
    <2>2. OwnBackup(q) /\ op[q].bk # None
      BY <2>1, <1>3, NoneIsNoContent DEF StoredOK, BackupsBeingMade
    <2>3. \A p \in Request \ {q} : op'[p] # None => op'[p].bk # op[q].bk
      BY <2>2, <1>1, <1>2 DEF OwnBackup, Passes
    <2> QED BY <2>1, <2>2, <2>3 DEF OwnBackup
  <1>5. BackupsDropped'
    BY <1>1, <1>2 DEF StoredOK, BackupsDropped, At, Passes
  <1>6. \A b \in bdb : Leaving(b) => Leaving(b)'
    BY <1>2 DEF Leaving, At
  <1>7. BackupsListed'
    BY <1>6 DEF StoredOK, BackupsListed
  <1> QED BY <1>4, <1>5, <1>7 DEF StoredOK, BackupsBeingMade

LEMMA GoPasses ==
    ASSUME OpsOK, NEW r \in Request, op[r] # None, NEW l \in Label, Go(r, l),
           l # "dropvol", l \in VolumeLabel => op[r].pc \in VolumeLabel
    PROVE  Passing(r)
  BY GoPuts DEF Passing, Passes, Same

LEMMA EndPasses ==
    ASSUME NEW r \in Request, End(r)
    PROVE  Passing(r)
  BY DEF Passing, Passes, End, Put

LEMMA UndoPasses ==
    ASSUME NEW r \in Request, NEW y, NEW o \in Op \cup {None}, Put(r, o), Undoes(y, o),
           y.bk \in {op[r].bk, None}
    PROVE  Passing(r)
  BY DEF Passing, Passes, Undoes

LEMMA BackupFailsPasses ==
    ASSUME OpsOK, NEW r \in Request, op[r] # None, op[r].pc \in BackupLabel, BackupFails(r)
    PROVE  Passing(r)
  <1>1. CASE Put(r, None)
    BY <1>1 DEF Passing, Passes
  <1>2. ASSUME NEW y \in Op, NEW o \in Op \cup {None}, Put(r, o), Undoes(y, o), y.bk = None
        PROVE  Passing(r)
    BY <1>2, UndoPasses
  <1> QED BY <1>1, <1>2, BackupFailsPuts

LEMMA RestoreReturnsPasses ==
    ASSUME OpsOK, NEW r \in Request, op[r] # None, op[r].pc \in RestoreLabel,
           NEW ok \in BOOLEAN, RestoreReturns(r, ok)
    PROVE  Passing(r)
  <1>1. CASE Put(r, None)
    BY <1>1 DEF Passing, Passes
  <1>2. ASSUME NEW y \in Op, NEW o \in Op \cup {None}, Put(r, o), Undoes(y, o), y.bk = op[r].bk
        PROVE  Passing(r)
    BY <1>2, UndoPasses
  <1>3. ASSUME NEW o \in Op, Put(r, o), o.bk = op[r].bk,
               o.pc \in {"add", "undomain", "activate", "unlock"}
        PROVE  Passing(r)
    BY <1>3 DEF Passing, Passes
  <1> QED BY <1>1, <1>2, <1>3, RestoreReturnsPuts DEF Same

LEMMA DeleteReturnsPasses ==
    ASSUME OpsOK, NEW r \in Request, op[r] # None, op[r].pc \in DeleteLabel,
           NEW ok \in BOOLEAN, DeleteReturns(r, ok)
    PROVE  Passing(r)
  <1>1. CASE Put(r, None)
    BY <1>1 DEF Passing, Passes
  <1>2. ASSUME NEW o \in Op \cup {None}, Put(r, o), Undoes(op[r], o)
        PROVE  Passing(r)
    BY <1>2, UndoPasses
  <1>3. ASSUME NEW o \in Op, Put(r, o), o.bk = op[r].bk, o.pc = "relock"
        PROVE  Passing(r)
    BY <1>3 DEF Passing, Passes
  <1> QED BY <1>1, <1>2, <1>3, DeleteReturnsPuts

\* The steps that only pass.
Unstored(r) == op[r] # None /\ op[r].pc # "deldb" /\ Passing(r) /\ UNCHANGED <<bvol, bdb>>

LEMMA CreateUnstored ==
    ASSUME OpsOK, NoFault, NEW r \in Request, Create(r)
    PROVE  Unstored(r)
  <1>1. ASSUME NEW l \in Label, Go(r, l), op[r] # None, l \notin VolumeLabel \cup {"dropvol"}
        PROVE  Passing(r)
    BY <1>1, GoPasses
  <1>2. CASE CreateDiskFromSeed(r)
    BY <1>2, <1>1, EndPasses DEF CreateDiskFromSeed, At, Unstored, mulch
  <1>3. CASE DefineDomain(r)
    BY <1>3, <1>1 DEF DefineDomain, At, Unstored, mulch
  <1>4. CASE Boot(r)
    BY <1>4, <1>1 DEF Boot, At, Unstored, mulch
  <1>5. CASE Prepare(r)
    BY <1>5, <1>1 DEF Prepare, At, Unstored, mulch, libvirt
  <1>6. CASE Add(r)
    BY <1>6, <1>1, EndPasses DEF Add, At, Unstored, libvirt
  <1>7. CASE RollbackDomain(r)
    BY <1>7, <1>1 DEF RollbackDomain, At, Unstored, mulch
  <1>8. CASE RollbackDisk(r)
    BY <1>8, EndPasses DEF RollbackDisk, At, Unstored, mulch
  <1> QED BY <1>2, <1>3, <1>4, <1>5, <1>6, <1>7, <1>8 DEF Create

LEMMA RestoreUnstored ==
    ASSUME OpsOK, NoFault, NEW r \in Request, Restore(r)
    PROVE  Unstored(r)
  <1>0. op[r] # None /\ op[r] \in Op /\ op[r].pc \in RestoreLabel
        /\ (op[r].kind = "rebuild" => op[r].new \in Revision)
    BY Steps DEF Restore, MarkRestore, AttachRestore, RestoreScripts, DetachRestore, At,
       WellFormed, Fits
  <1>1. CASE MarkRestore(r)
    <2>1. UNCHANGED <<bvol, bdb>>
      BY <1>1 DEF MarkRestore, SetOperation, libvirt, mulch
    <2>2. CASE Go(r, "rattach")
      BY <1>0, <2>1, <2>2, GoPasses DEF Unstored
    <2>3. CASE op[r].kind = "rebuild" /\ Put(r, Unwound([op[r] EXCEPT !.held = None]))
      <3>1. PICK y \in Op : /\ y = [op[r] EXCEPT !.held = None] /\ y.pc = op[r].pc
                            /\ Identity(y, op[r]) /\ y.bk = op[r].bk /\ y.flag = op[r].flag
                            /\ y.ok = op[r].ok
        BY <1>0, Unheld
      <3>2. Undoes(y, Unwound(y))
        BY <1>0, <2>3, <3>1, UnwoundUndoes DEF Identity
      <3>3. Put(r, Unwound(y)) /\ Unwound(y) \in Op \cup {None}
        BY <2>3, <3>1, <3>2 DEF Undoes
      <3> QED BY <1>0, <2>1, <3>1, <3>2, <3>3, UndoPasses DEF Unstored
    <2> QED BY <1>1, <2>2, <2>3 DEF MarkRestore, SetOperation
  <1>2. CASE AttachRestore(r)
    <2>1. Go(r, "rscripts") \/ RestoreReturns(r, FALSE)
      BY <1>2 DEF AttachRestore
    <2> QED BY <1>0, <1>2, <2>1, GoPasses, RestoreReturnsPasses DEF AttachRestore, Unstored
  <1>3. CASE RestoreScripts(r)
    <2>1. ASSUME Put(r, [op[r] EXCEPT !.pc = "rdetach", !.ok = TRUE]) PROVE Passing(r)
      <3>1. PICK o \in Op : /\ o = [op[r] EXCEPT !.pc = "rdetach", !.ok = TRUE]
                            /\ o.pc = "rdetach" /\ o.ok = TRUE /\ Identity(o, op[r])
                            /\ o.bk = op[r].bk /\ o.flag = op[r].flag
        BY <1>0, Scripted
      <3>2. Put(r, o) /\ Passes(op[r], o)
        BY <2>1, <3>1 DEF Passes
      <3> QED BY <3>2 DEF Passing
    <2>2. ASSUME Put(r, [op[r] EXCEPT !.pc = "rdetach", !.ok = FALSE]) PROVE Passing(r)
      <3>1. PICK o \in Op : /\ o = [op[r] EXCEPT !.pc = "rdetach", !.ok = FALSE]
                            /\ o.pc = "rdetach" /\ o.ok = FALSE /\ Identity(o, op[r])
                            /\ o.bk = op[r].bk /\ o.flag = op[r].flag
        BY <1>0, Missed
      <3>2. Put(r, o) /\ Passes(op[r], o)
        BY <2>2, <3>1 DEF Passes
      <3> QED BY <3>2 DEF Passing
    <2>3. \/ Put(r, [op[r] EXCEPT !.pc = "rdetach", !.ok = TRUE])
          \/ Put(r, [op[r] EXCEPT !.pc = "rdetach", !.ok = FALSE])
      BY <1>3 DEF RestoreScripts
    <2>4. Passing(r)
      BY <2>1, <2>2, <2>3
    <2> QED BY <1>0, <1>3, <2>4 DEF RestoreScripts, Unstored, mulch
  <1>4. CASE DetachRestore(r)
    <2>1. RestoreReturns(r, op[r].ok) /\ op[r].ok \in BOOLEAN
      BY <1>0, <1>4 DEF DetachRestore, Op
    <2> QED BY <1>0, <1>4, <2>1, RestoreReturnsPasses DEF DetachRestore, Unstored
  <1> QED BY <1>1, <1>2, <1>3, <1>4 DEF Restore

LEMMA DeleteUnstored ==
    ASSUME OpsOK, StateOK, NoFault, NEW r \in Request, Delete(r)
    PROVE  Unstored(r)
  <1>0. op[r] # None /\ op[r] \in Op /\ op[r].pc \in DeleteLabel /\ op[r].target \in Revision
    BY Steps DEF Delete, DeleteCheck, Destroy, DeleteDisk, Undefine, DeleteEntry,
       RebuildDHCPStaticLeases, At, WellFormed, Fits
  <1>1. UNCHANGED <<bvol, bdb>>
    BY DEF Delete, DeleteCheck, Destroy, DeleteDisk, Undefine, DeleteEntry,
       RebuildDHCPStaticLeases, libvirt, mulch
  <1>2. CASE \E ok \in BOOLEAN : DeleteReturns(r, ok)
    BY <1>0, <1>1, <1>2, DeleteReturnsPasses DEF Unstored
  <1>3. CASE \E l \in DeleteLabel : Go(r, l)
    BY <1>0, <1>1, <1>3, GoPasses DEF Unstored
  <1>4. CASE DeleteCheck(r)
    <2>1. CASE Put(r, [op[r] EXCEPT !.pc = "destroy", !.handle = dom[op[r].target]])
               /\ dom[op[r].target] # None
      <3>1. PICK v \in VM : v = dom[op[r].target]
        BY <1>0, <2>1 DEF StateOK
      <3>2. PICK o \in Op : /\ o = [op[r] EXCEPT !.pc = "destroy", !.handle = v]
                            /\ o.pc = "destroy" /\ o.handle = v /\ Identity(o, op[r])
                            /\ o.bk = op[r].bk /\ o.flag = op[r].flag /\ o.ok = op[r].ok
                            /\ o.target = op[r].target
        BY <1>0, Handled
      <3>3. Put(r, o) /\ Passes(op[r], o)
        BY <2>1, <3>1, <3>2 DEF Passes
      <3> QED BY <1>0, <1>1, <3>3 DEF Unstored, Passing
    <2> QED BY <1>2, <1>4, <2>1 DEF DeleteCheck
  <1> QED BY <1>2, <1>3, <1>4 DEF Delete, Destroy, DeleteDisk, Undefine, DeleteEntry,
             RebuildDHCPStaticLeases

\* A step that changes no volume but that of its own backup, which no other operation has.
LEMMA TouchingKeeps ==
    ASSUME OpsOK, StoredOK, NEW r \in Request, op[r] # None, op[r].pc # "deldb",
           NEW o \in Op \cup {None}, Put(r, o),
           OwnBackup(r),
           \A b \in Backup \ {op[r].bk} : bvol'[b] = bvol[b] /\ (b \in bdb' => b \in bdb),
           op[r].bk \in bdb' => bvol'[op[r].bk] # None,
           bdb' \subseteq Backup,
           o # None => o.bk \in {op[r].bk, None} /\ o.pc # "dropvol",
           o # None /\ o.pc \in VolumeLabel =>
                o.bk = op[r].bk /\ bvol'[op[r].bk] # None /\ op[r].bk \notin bdb'
    PROVE  StoredOK'
  <1>1. op'[r] = o /\ \A q \in Request \ {r} : op'[q] = op[q]
    BY OpTypes
  <1>2. \A q \in Request : op[q] # None /\ op[q].pc \in VolumeLabel => op[q].bk \in Backup
    BY Steps DEF WellFormed, Fits
  <1>3. \A q \in Request \ {r} : op[q] # None => op[q].bk # op[r].bk
    BY DEF OwnBackup
  <1>4. ASSUME NEW q \in Request, op'[q] # None, op'[q].pc \in VolumeLabel
        PROVE  OwnBackup(q)'
    <2>1. CASE q = r
      <3>1. op'[q].bk = op[r].bk /\ bvol'[op[r].bk] # None /\ op[r].bk \notin bdb'
        BY <1>1, <1>4, <2>1
      <3>2. \A p \in Request \ {q} : op'[p] # None => op'[p].bk # op[r].bk
        BY <1>1, <1>3, <2>1
      <3> QED BY <3>1, <3>2 DEF OwnBackup
    <2>2. CASE q # r
      <3>1. op'[q] = op[q] /\ OwnBackup(q) /\ op[q].bk # op[r].bk /\ op[q].bk \in Backup
        BY <1>1, <1>2, <1>3, <1>4, <2>2 DEF StoredOK, BackupsBeingMade
      <3>2. bvol'[op[q].bk] # None /\ op[q].bk \notin bdb'
        BY <3>1 DEF OwnBackup
      <3>3. \A p \in Request \ {q} : op'[p] # None => op'[p].bk # op[q].bk
        BY <1>1, <3>1, LifecycleAssumption DEF OwnBackup
      <3> QED BY <3>1, <3>2, <3>3 DEF OwnBackup
    <2> QED BY <2>1, <2>2
  <1>5. ASSUME NEW q \in Request, At(q, "dropvol")'
        PROVE  op'[q].bk \notin bdb'
    <2>1. q # r /\ op'[q] = op[q] /\ At(q, "dropvol")
      BY <1>1, <1>5 DEF At
    <2> QED BY <1>3, <2>1 DEF StoredOK, BackupsDropped, At
  <1>6. ASSUME NEW b \in bdb'
        PROVE  bvol'[b] # None \/ Leaving(b)'
    <2>1. CASE b = op[r].bk
      BY <1>6, <2>1
    <2>2. CASE b # op[r].bk
      <3>1. b \in bdb /\ bvol'[b] = bvol[b]
        BY <1>6, <2>2
      <3>2. Leaving(b) => Leaving(b)'
        BY <1>1, <2>2 DEF Leaving, At
      <3> QED BY <3>1, <3>2 DEF StoredOK, BackupsListed
    <2> QED BY <2>1, <2>2
  <1> QED BY <1>4, <1>5, <1>6 DEF StoredOK, BackupsBeingMade, BackupsDropped, BackupsListed

LEMMA UnstoredKeeps ==
    ASSUME OpsOK, StoredOK, NEW r \in Request, Unstored(r)
    PROVE  StoredOK'
  BY PassingKeeps DEF Unstored

LEMMA SaveBackupStored ==
    ASSUME OpsOK, StateOK, NoFault, StoredOK, NEW r \in Request, SaveBackup(r)
    PROVE  StoredOK'
  <1>0. op[r] # None /\ op[r] \in Op /\ op[r].pc \in BackupLabel /\ op[r].pc # "deldb"
        /\ op[r].rev \in Revision /\ (op[r].pc \in VolumeLabel => op[r].bk \in Backup)
        /\ (op[r].pc \in VolumeLabel => OwnBackup(r))
    BY Steps DEF SaveBackup, CheckOperation, MarkBackup, CreateBackupDisk, AttachBackup,
       BackupScripts, DetachBackup, AddBackup, UndoBackup, At, WellFormed, Fits, StoredOK,
       BackupsBeingMade
  <1>a. ASSUME BackupFails(r), UNCHANGED <<bvol, bdb>> PROVE StoredOK'
    BY <1>0, <1>a, BackupFailsPasses, UnstoredKeeps DEF Unstored
  <1>b. ASSUME NEW l \in BackupLabel, Go(r, l), UNCHANGED <<bvol, bdb>>,
               l \in VolumeLabel => op[r].pc \in VolumeLabel
        PROVE  StoredOK'
    BY <1>0, <1>b, GoPasses, UnstoredKeeps DEF Unstored
  <1>1. CASE CheckOperation(r)
    <2>1. UNCHANGED <<bvol, bdb>>
      BY <1>1 DEF CheckOperation, libvirt, mulch
    <2>2. CASE op[r].rev \in Present
               /\ Put(r, [op[r] EXCEPT !.pc = "bmark", !.held = db[op[r].rev]])
      <3>1. PICK v \in VM : v = db[op[r].rev]
        BY <1>0, <2>2 DEF StateOK, Present
      <3>2. PICK o \in Op : /\ o = [op[r] EXCEPT !.pc = "bmark", !.held = v]
                            /\ o.pc = "bmark" /\ o.held = v /\ Identity(o, op[r])
                            /\ o.bk = op[r].bk /\ o.flag = op[r].flag /\ o.ok = op[r].ok
        BY <1>0, Marked
      <3>3. Put(r, o) /\ Passes(op[r], o)
        BY <2>2, <3>1, <3>2 DEF Passes
      <3> QED BY <1>0, <2>1, <3>3, UnstoredKeeps DEF Unstored, Passing
    <2> QED BY <1>1, <1>a, <2>1, <2>2 DEF CheckOperation
  <1>2. CASE MarkBackup(r)
    BY <1>2, <1>b DEF MarkBackup, SetOperation, libvirt
  <1>3. CASE CreateBackupDisk(r)
    <2>1. CASE BackupFails(r) /\ UNCHANGED bvol
      BY <1>3, <1>a, <2>1 DEF CreateBackupDisk
    <2>2. ASSUME NEW b \in Backup, NewBackupName(b), bvol' = [bvol EXCEPT ![b] = {}],
                 Put(r, [op[r] EXCEPT !.pc = "battach", !.bk = b])
          PROVE  StoredOK'
      <3>1. PICK o \in Op : /\ o = [op[r] EXCEPT !.pc = "battach", !.bk = b]
                            /\ o.pc = "battach" /\ o.bk = b /\ Identity(o, op[r])
                            /\ o.held = op[r].held /\ o.flag = op[r].flag /\ o.ok = op[r].ok
        BY <1>0, Backed
      <3>2. op'[r] = o /\ \A q \in Request \ {r} : op'[q] = op[q]
        BY <2>2, <3>1, OpTypes
      <3>3. bdb' = bdb /\ bvol'[b] = {} /\ \A c \in Backup \ {b} : bvol'[c] = bvol[c]
        BY <1>3, <2>2 DEF CreateBackupDisk, StateOK
      <3>4. {} # None
        BY NoneIsNoContent DEF Content
      <3>5. \A q \in Request : op[q] # None => op[q].bk # b
        BY <2>2 DEF NewBackupName
      <3>6. ASSUME NEW q \in Request, op'[q] # None, op'[q].pc \in VolumeLabel
            PROVE  OwnBackup(q)'
        <4>1. CASE q = r
          <5>1. op'[q].bk = b /\ b \notin bdb' /\ bvol'[b] # None
            BY <2>2, <3>1, <3>2, <3>3, <3>4, <4>1 DEF NewBackupName
          <5>2. \A p \in Request \ {q} : op'[p] # None => op'[p].bk # b
            BY <3>2, <3>5, <4>1
          <5> QED BY <5>1, <5>2 DEF OwnBackup
        <4>2. CASE q # r
          <5>1. op'[q] = op[q] /\ OwnBackup(q) /\ op[q].bk # b /\ op[q].bk \in Backup
            BY <3>2, <3>5, <3>6, <4>2, Steps DEF StoredOK, BackupsBeingMade, WellFormed, Fits
          <5>2. bvol'[op[q].bk] # None /\ op[q].bk \notin bdb'
            BY <3>3, <5>1 DEF OwnBackup
          <5>3. \A p \in Request \ {q} : op'[p] # None => op'[p].bk # op[q].bk
            BY <3>1, <3>2, <5>1 DEF OwnBackup
          <5> QED BY <5>1, <5>2, <5>3 DEF OwnBackup
        <4> QED BY <4>1, <4>2
      <3>7. BackupsDropped'
        BY <3>1, <3>2, <3>3 DEF StoredOK, BackupsDropped, At
      <3>8. \A c \in bdb : Leaving(c) => Leaving(c)'
        BY <1>0, <3>2 DEF Leaving, At
      <3>9. BackupsListed'
        BY <2>2, <3>3, <3>8 DEF StoredOK, BackupsListed, StateOK, NewBackupName
      <3> QED BY <3>6, <3>7, <3>9 DEF StoredOK, BackupsBeingMade
    <2> QED BY <1>3, <2>1, <2>2 DEF CreateBackupDisk, NoFault, Partial
  <1>4. CASE AttachBackup(r)
    <2>1. Go(r, "bscripts") \/ BackupFails(r)
      BY <1>4 DEF AttachBackup
    <2> QED BY <1>4, <1>a, <1>b, <2>1 DEF AttachBackup, At
  <1>5. CASE BackupScripts(r)
    <2>1. OwnBackup(r) /\ op[r].bk \in Backup /\ op[r].pc = "bscripts"
      BY <1>0, <1>5 DEF BackupScripts, At
    <2>2. CASE Go(r, "bundo") /\ UNCHANGED bvol
      BY <1>5, <1>b, <2>1, <2>2 DEF BackupScripts, mulch
    <2>3. CASE /\ disk[op[r].rev] # None
               /\ bvol' = [bvol EXCEPT ![op[r].bk] = disk[op[r].rev]] /\ Go(r, "bdetach")
      <3>1. PICK o \in Op : Put(r, o) /\ o # None /\ o.pc = "bdetach" /\ Same(o, op[r])
        BY <1>0, <2>3, GoPuts
      <3>2. bdb' = bdb /\ bdb \subseteq Backup /\ op[r].bk \notin bdb
        BY <1>5, <2>1 DEF BackupScripts, mulch, StateOK, OwnBackup
      <3>3. bvol'[op[r].bk] # None /\ \A b \in Backup \ {op[r].bk} : bvol'[b] = bvol[b]
        BY <2>1, <2>3 DEF StateOK
      <3> QED BY <1>0, <2>1, <3>1, <3>2, <3>3, TouchingKeeps DEF Same
    <2> QED BY <1>5, <2>2, <2>3 DEF BackupScripts
  <1>6. CASE DetachBackup(r)
    <2>1. Go(r, "badd") \/ Go(r, "bundo")
      BY <1>6 DEF DetachBackup
    <2> QED BY <1>6, <1>b, <2>1 DEF DetachBackup, mulch, At
  <1>7. CASE AddBackup(r)
    <2>1. OwnBackup(r) /\ op[r].bk \in Backup /\ op[r].pc = "badd"
      BY <1>0, <1>7 DEF AddBackup, At
    <2>2. CASE Go(r, "bundo") /\ UNCHANGED <<bvol, bdb>>
      BY <1>b, <2>1, <2>2
    <2>3. ASSUME bdb' = bdb \cup {op[r].bk}, bvol' = bvol, NEW o \in Op \cup {None}, Put(r, o),
                 o # None => o.pc = "rmark" /\ o.bk = op[r].bk
          PROVE  StoredOK'
      <3>1. /\ bdb' \subseteq Backup /\ bvol'[op[r].bk] # None
            /\ \A b \in Backup \ {op[r].bk} : bvol'[b] = bvol[b] /\ (b \in bdb' => b \in bdb)
        BY <2>1, <2>3 DEF StateOK, OwnBackup
      <3> QED BY <1>0, <2>1, <2>3, <3>1, TouchingKeeps
    <2>4. ASSUME bdb' = bdb \cup {op[r].bk}, bvol' = bvol, op[r].kind # "backup",
                 Put(r, [op[r] EXCEPT !.pc = "rmark", !.held = op[r].vm])
          PROVE  StoredOK'
      <3>1. PICK v \in VM : v = op[r].vm
        BY <1>0, <2>4, Steps DEF WellFormed, Fits
      <3>2. PICK o \in Op : /\ o = [op[r] EXCEPT !.pc = "rmark", !.held = v]
                            /\ o.pc = "rmark" /\ o.held = v /\ Identity(o, op[r])
                            /\ o.bk = op[r].bk /\ o.flag = op[r].flag /\ o.ok = op[r].ok
        BY <1>0, Saved
      <3> QED BY <2>3, <2>4, <3>1, <3>2
    <2>5. ASSUME bdb' = bdb \cup {op[r].bk}, bvol' = bvol, End(r)
          PROVE  StoredOK'
      BY <2>3, <2>5 DEF End, Put
    <2> QED BY <1>7, <2>2, <2>4, <2>5 DEF AddBackup, NoFault, Partial
  <1>8. CASE UndoBackup(r)
    <2>1. /\ OwnBackup(r) /\ op[r].bk \in Backup /\ bdb' = bdb /\ BackupFails(r)
          /\ bvol' = [bvol EXCEPT ![op[r].bk] = None]
      BY <1>0, <1>8 DEF UndoBackup, At, NoFault, Partial
    <2>2. PICK o \in Op \cup {None} : Put(r, o) /\ (o # None => o.bk = None /\ o.pc \notin VolumeLabel \cup {"dropvol"})
      <3>1. CASE Put(r, None)
        BY <3>1
      <3>2. ASSUME NEW y \in Op, NEW o \in Op \cup {None}, Put(r, o), Undoes(y, o), y.bk = None
            PROVE  \E p \in Op \cup {None} : Put(r, p) /\ (p # None => p.bk = None /\ p.pc \notin VolumeLabel \cup {"dropvol"})
        BY <3>2 DEF Undoes
      <3> QED BY <1>0, <2>1, <3>1, <3>2, BackupFailsPuts
    <2>3. /\ bdb' \subseteq Backup /\ op[r].bk \notin bdb'
          /\ \A b \in Backup \ {op[r].bk} : bvol'[b] = bvol[b] /\ (b \in bdb' => b \in bdb)
      BY <2>1 DEF StateOK, OwnBackup
    <2> QED BY <1>0, <2>1, <2>2, <2>3, TouchingKeeps
  <1> QED BY <1>1, <1>2, <1>3, <1>4, <1>5, <1>6, <1>7, <1>8 DEF SaveBackup

LEMMA RebuildStored ==
    ASSUME OpsOK, StateOK, NoFault, StoredOK, NEW r \in Request, Rebuild(r)
    PROVE  StoredOK'
  <1>0. op[r] # None /\ op[r] \in Op /\ op[r].pc \in RebuildLabel /\ op[r].pc # "deldb"
        /\ op[r].new \in Revision /\ op[r].rev \in Revision
        /\ (op[r].pc \in {"drop", "dropvol"} => op[r].bk \in Backup)
    BY Steps DEF Rebuild, Deactivate, Activate, UnlockOriginal, LockNew, DropBackup, DropVolume,
       Reactivate, At, WellFormed, Fits
  <1>a. ASSUME Passing(r), UNCHANGED <<bvol, bdb>> PROVE StoredOK'
    BY <1>0, <1>a, PassingKeeps
  <1>b. ASSUME Put(r, Unwound(op[r])), UNCHANGED <<bvol, bdb>> PROVE StoredOK'
    <2>1. PICK x \in Op : x = op[r]
      BY <1>0
    <2>2. Undoes(x, Unwound(x))
      BY <1>0, <2>1, UnwoundUndoes
    <2>3. Unwound(x) \in Op \cup {None} /\ Put(r, Unwound(x))
      BY <1>b, <2>1, <2>2 DEF Undoes
    <2> QED BY <1>a, <1>b, <2>1, <2>2, <2>3, UndoPasses
  <1>c. \E o \in Op \cup {None} : Undoes(op[r], o) /\ o = Reverted(op[r])
    <2>1. PICK x \in Op : x = op[r]
      BY <1>0
    <2>2. Undoes(x, Reverted(x))
      BY <1>0, <2>1, RevertedUndoes
    <2> QED BY <2>1, <2>2 DEF Undoes
  <1>1. CASE Deactivate(r)
    <2>1. UNCHANGED <<bvol, bdb>>
      BY <1>1 DEF Deactivate, libvirt
    <2> DEFINE l == IF setting.scripts THEN "backup" ELSE IF active = op[r].rev THEN "activate" ELSE "unlock"
               f == active = op[r].rev
    <2>2. Put(r, [op[r] EXCEPT !.flag = f, !.pc = l])
      BY <1>1 DEF Deactivate, NoFault, Partial
    <2>3. PICK a \in BOOLEAN, k \in {"backup", "activate", "unlock"} : a = f /\ k = l
      OBVIOUS
    <2>4. PICK o \in Op : o = [op[r] EXCEPT !.flag = a]
      BY <1>0, FieldTypes
    <2>5. PICK p \in Op : p = [o EXCEPT !.pc = k] /\ p.pc = k /\ Same(p, o)
      BY Relabeled
    <2>6. p = [op[r] EXCEPT !.flag = a, !.pc = k] /\ p.bk = op[r].bk
      BY <1>0, <2>4, <2>5 DEF Op
    <2> HIDE DEF f, l
    <2>7. Put(r, p) /\ Passes(op[r], p)
      BY <2>2, <2>3, <2>5, <2>6 DEF Passes
    <2> QED BY <1>a, <2>1, <2>7 DEF Passing
  <1>2. CASE Activate(r)
    <2>1. Go(r, "unlock") \/ Put(r, Unwound(op[r]))
      BY <1>2 DEF Activate
    <2>2. UNCHANGED <<bvol, bdb>>
      BY <1>2 DEF Activate, libvirt
    <2>3. ASSUME Go(r, "unlock") PROVE Passing(r)
      BY <1>0, <2>3, GoPasses
    <2> QED BY <1>a, <1>b, <2>1, <2>2, <2>3
  <1>3. CASE UnlockOriginal(r)
    <2>1. UNCHANGED <<bvol, bdb>>
      BY <1>3 DEF UnlockOriginal, libvirt
    <2>2. ASSUME Put(r, [op[r] EXCEPT !.pc = "delete", !.target = op[r].rev,
                                      !.lock = @ \/ db[op[r].rev] \in locked])
          PROVE  Passing(r)
      <3>1. PICK k \in BOOLEAN, i \in Revision :
               k = (op[r].lock \/ db[op[r].rev] \in locked) /\ i = op[r].rev
        BY <1>0 DEF Op
      <3>1a. op[r] \in Op /\ i \in Revision
        BY <1>0
      <3>2. PICK o \in Op : /\ o = [op[r] EXCEPT !.pc = "delete", !.target = i]
                            /\ o.pc = "delete" /\ o.target = i /\ Identity(o, op[r])
                            /\ o.bk = op[r].bk /\ o.flag = op[r].flag /\ o.ok = op[r].ok
        BY <3>1a, Retargeted
      <3>3. PICK p \in Op : p = [o EXCEPT !.lock = k]
        BY FieldTypes
      <3>4. p.pc = "delete" /\ p.bk = op[r].bk
        BY <3>2, <3>3 DEF Op
      <3>5. p = [op[r] EXCEPT !.pc = "delete", !.target = i, !.lock = k]
        BY <1>0, <3>2, <3>3 DEF Op
      <3>6. Put(r, p)
        BY <2>2, <3>1, <3>5
      <3> QED BY <3>4, <3>6 DEF Passing, Passes
    <2> QED BY <1>3, <1>a, <1>b, <2>1, <2>2 DEF UnlockOriginal
  <1>4. CASE LockNew(r)
    BY <1>4, <1>b DEF LockNew, libvirt
  <1>5. CASE DropBackup(r)
    <2>0. bvol' = bvol /\ op[r].pc = "drop" /\ op[r].bk \in Backup
      BY <1>0, <1>5 DEF DropBackup, libvirt, At
    <2>1. CASE Put(r, Reverted(op[r])) /\ UNCHANGED bdb
      BY <1>a, <1>c, <2>0, <2>1, UndoPasses
    <2>2. CASE bdb' = bdb \ {op[r].bk} /\ Go(r, "dropvol")
      <3>1. PICK o \in Op : Put(r, o) /\ o # None /\ o.pc = "dropvol" /\ Same(o, op[r])
        BY <1>0, <2>2, GoPuts
      <3>2. op'[r] = o /\ \A q \in Request \ {r} : op'[q] = op[q]
        BY <3>1, OpTypes
      <3>3. ASSUME NEW q \in Request, op'[q] # None, op'[q].pc \in VolumeLabel
            PROVE  OwnBackup(q)'
        <4>1. q # r /\ op'[q] = op[q] /\ OwnBackup(q)
          BY <3>1, <3>2, <3>3 DEF StoredOK, BackupsBeingMade
        <4>2. \A p \in Request \ {q} : op'[p] # None => op'[p].bk # op[q].bk
          BY <1>0, <3>1, <3>2, <4>1 DEF OwnBackup, Same
        <4> QED BY <2>0, <2>2, <4>1, <4>2 DEF OwnBackup
      <3>4. BackupsDropped'
        BY <2>2, <3>1, <3>2 DEF StoredOK, BackupsDropped, At, Same
      <3>5. \A b \in bdb : Leaving(b) => Leaving(b)'
        BY <1>0, <3>2 DEF Leaving, At
      <3>6. BackupsListed'
        BY <2>0, <2>2, <3>5 DEF StoredOK, BackupsListed
      <3> QED BY <3>3, <3>4, <3>6 DEF StoredOK, BackupsBeingMade
    <2> QED BY <1>5, <2>1, <2>2 DEF DropBackup
  <1>6. CASE DropVolume(r)
    <2>0. /\ bdb' = bdb /\ op[r].pc = "dropvol" /\ op[r].bk \in Backup /\ Put(r, Reverted(op[r]))
          /\ bvol' = [bvol EXCEPT ![op[r].bk] = None] /\ op[r].bk \notin bdb
      BY <1>0, <1>6 DEF DropVolume, mulch, At, NoFault, Partial, StoredOK, BackupsDropped
    <2>1. PICK o \in Op \cup {None} : Undoes(op[r], o) /\ Put(r, o)
      BY <1>c, <2>0
    <2>2. op'[r] = o /\ \A q \in Request \ {r} : op'[q] = op[q]
      BY <2>1, OpTypes
    <2>3. o # None => o.pc \in {"drop", "reactivate", "delete"} /\ o.bk = op[r].bk
      BY <2>1 DEF Undoes
    <2>4. ASSUME NEW q \in Request, op'[q] # None, op'[q].pc \in VolumeLabel
          PROVE  OwnBackup(q)'
      <3>1. q # r /\ op'[q] = op[q] /\ OwnBackup(q) /\ op[q].bk \in Backup
        BY <2>2, <2>3, <2>4, Steps DEF StoredOK, BackupsBeingMade, WellFormed, Fits
      <3>2. op[r].bk # op[q].bk
        BY <1>0, <3>1 DEF OwnBackup
      <3>3. \A p \in Request \ {q} : op'[p] # None => op'[p].bk # op[q].bk
        BY <2>2, <2>3, <3>1, <3>2 DEF OwnBackup
      <3>4. bvol'[op[q].bk] # None /\ op[q].bk \notin bdb'
        BY <2>0, <3>1, <3>2 DEF OwnBackup, StateOK
      <3> QED BY <3>1, <3>3, <3>4 DEF OwnBackup
    <2>5. BackupsDropped'
      BY <2>0, <2>2, <2>3 DEF StoredOK, BackupsDropped, At
    <2>6. \A b \in bdb : Leaving(b) => Leaving(b)'
      BY <1>0, <2>2 DEF Leaving, At
    <2>7. BackupsListed'
      BY <2>0, <2>6 DEF StoredOK, BackupsListed, StateOK
    <2> QED BY <2>4, <2>5, <2>7 DEF StoredOK, BackupsBeingMade
  <1>7. CASE Reactivate(r)
    <2>1. UNCHANGED <<bvol, bdb>> /\ Put(r, Discarded(op[r]))
      BY <1>7 DEF Reactivate, libvirt
    <2>2. PICK x \in Op : x = op[r]
      BY <1>0
    <2>3. PICK o \in Op : /\ o = Discarded(x) /\ o # None /\ o.pc = "delete" /\ o.target = x.new
                          /\ Identity(o, x) /\ o.bk = x.bk /\ o.flag = x.flag /\ o.ok = x.ok
      BY <1>0, <2>2, DiscardedPuts
    <2>4. Put(r, o) /\ Passes(op[r], o)
      BY <2>1, <2>2, <2>3 DEF Passes
    <2> QED BY <1>a, <2>1, <2>4 DEF Passing
  <1> QED BY <1>1, <1>2, <1>3, <1>4, <1>5, <1>6, <1>7 DEF Rebuild

LEMMA DropStored ==
    ASSUME OpsOK, StateOK, NoFault, StoredOK, NEW r \in Request,
           DeleteBackupVolume(r) \/ DeleteBackupEntry(r)
    PROVE  StoredOK'
  <1>0. op[r] # None /\ op[r] \in Op /\ op[r].pc \in DropLabel /\ op[r].bk \in Backup
    BY Steps DEF DeleteBackupVolume, DeleteBackupEntry, At, WellFormed, Fits
  <1>1. CASE DeleteBackupVolume(r)
    <2>0. bdb' = bdb /\ op[r].pc = "delvol"
      BY <1>1 DEF DeleteBackupVolume, mulch, At
    <2>1. CASE End(r) /\ UNCHANGED bvol
      BY <1>0, <2>0, <2>1, EndPasses, PassingKeeps
    <2>2. CASE bvol' = [bvol EXCEPT ![op[r].bk] = None] /\ Go(r, "deldb")
      <3>1. PICK o \in Op : Put(r, o) /\ o # None /\ o.pc = "deldb" /\ Same(o, op[r])
        BY <1>0, <2>2, GoPuts
      <3>2. op'[r] = o /\ \A q \in Request \ {r} : op'[q] = op[q]
        BY <3>1, OpTypes
      <3>3. ASSUME NEW q \in Request, op'[q] # None, op'[q].pc \in VolumeLabel
            PROVE  OwnBackup(q)'
        <4>1. q # r /\ op'[q] = op[q] /\ OwnBackup(q) /\ op[q].bk \in Backup
          BY <3>1, <3>2, <3>3, Steps DEF StoredOK, BackupsBeingMade, WellFormed, Fits
        <4>2. op[r].bk # op[q].bk
          BY <1>0, <4>1 DEF OwnBackup
        <4>3. \A p \in Request \ {q} : op'[p] # None => op'[p].bk # op[q].bk
          BY <3>1, <3>2, <4>1, <4>2 DEF OwnBackup, Same
        <4>4. bvol'[op[q].bk] # None /\ op[q].bk \notin bdb'
          BY <2>0, <2>2, <4>1, <4>2 DEF OwnBackup, StateOK
        <4> QED BY <4>1, <4>3, <4>4 DEF OwnBackup
      <3>4. BackupsDropped'
        BY <2>0, <3>1, <3>2 DEF StoredOK, BackupsDropped, At
      <3>5. \A b \in bdb : Leaving(b) => Leaving(b)'
        BY <2>0, <3>2 DEF Leaving, At
      <3>6. \A b \in bdb' : bvol'[b] # None \/ Leaving(b)'
        <4> SUFFICES ASSUME NEW b \in bdb' PROVE bvol'[b] # None \/ Leaving(b)'
          OBVIOUS
        <4>1. CASE b = op[r].bk
          <5>1. op'[r].bk = b /\ op'[r].pc = "deldb" /\ op'[r] # None
            BY <3>1, <3>2, <4>1 DEF Same
          <5> QED BY <5>1 DEF Leaving, At
        <4>2. CASE b # op[r].bk
          BY <2>0, <2>2, <3>5, <4>2 DEF StoredOK, BackupsListed, StateOK
        <4> QED BY <4>1, <4>2
      <3>7. BackupsListed'
        BY <3>6 DEF BackupsListed
      <3> QED BY <3>3, <3>4, <3>7 DEF StoredOK, BackupsBeingMade
    <2> QED BY <1>1, <2>1, <2>2 DEF DeleteBackupVolume
  <1>2. CASE DeleteBackupEntry(r)
    <2>0. bvol' = bvol /\ bdb' = bdb \ {op[r].bk} /\ Put(r, None)
      BY <1>2 DEF DeleteBackupEntry, libvirt, End, Put
    <2>1. op'[r] = None /\ \A q \in Request \ {r} : op'[q] = op[q]
      BY <2>0, OpTypes
    <2>2. BackupsBeingMade'
      BY <2>0, <2>1 DEF StoredOK, BackupsBeingMade, OwnBackup
    <2>3. BackupsDropped'
      BY <2>0, <2>1 DEF StoredOK, BackupsDropped, At
    <2>4. \A b \in bdb \ {op[r].bk} : Leaving(b) => Leaving(b)'
      BY <2>1 DEF Leaving, At
    <2>5. BackupsListed'
      BY <2>0, <2>4 DEF StoredOK, BackupsListed
    <2> QED BY <2>2, <2>3, <2>5 DEF StoredOK
  <1> QED BY <1>1, <1>2

LEMMA BeginStored ==
    ASSUME OpsOK, StateOK, StoredOK, NEW r \in Request, Begins(r)
    PROVE  StoredOK'
  <1>1. PICK o \in Op : Put(r, o) /\ Begun(o)
    BY DEF Begins
  <1>2. op'[r] = o /\ \A q \in Request \ {r} : op'[q] = op[q]
    BY <1>1, OpTypes
  <1>3. op[r] = None /\ bvol' = bvol /\ bdb' = bdb
    BY DEF Begins, libvirt, mulch
  <1>4. o # None /\ o.bk \in bdb \cup {None} /\ o.pc \notin VolumeLabel \cup {"dropvol"}
    BY <1>1 DEF Begun
  <1>5. ASSUME NEW q \in Request, op'[q] # None, op'[q].pc \in VolumeLabel
        PROVE  OwnBackup(q)'
    <2>1. q # r /\ op'[q] = op[q] /\ OwnBackup(q) /\ op[q].bk \in Backup
      BY <1>2, <1>4, <1>5, Steps DEF StoredOK, BackupsBeingMade, WellFormed, Fits
    <2>2. o.bk # op[q].bk
      BY <1>4, <2>1, LifecycleAssumption DEF OwnBackup
    <2>3. \A p \in Request \ {q} : op'[p] # None => op'[p].bk # op[q].bk
      BY <1>2, <2>1, <2>2 DEF OwnBackup
    <2> QED BY <1>3, <2>1, <2>3 DEF OwnBackup
  <1>6. BackupsDropped'
    BY <1>2, <1>3, <1>4 DEF StoredOK, BackupsDropped, At
  <1>7. \A b \in bdb : Leaving(b) => Leaving(b)'
    BY <1>2, <1>3 DEF Leaving, At
  <1>8. BackupsListed'
    BY <1>3, <1>7 DEF StoredOK, BackupsListed
  <1> QED BY <1>5, <1>6, <1>8 DEF StoredOK, BackupsBeingMade

LEMMA StoredNext ==
    ASSUME Inv, NoFault, StoredOK, [Next]_vars
    PROVE  StoredOK'
  <1>0. OpsOK /\ StateOK
    BY TypeParts DEF Inv
  <1>1. ASSUME UNCHANGED <<op, bvol, bdb>> PROVE StoredOK'
    BY <1>1 DEF StoredOK, BackupsBeingMade, BackupsDropped, BackupsListed, OwnBackup, Leaving, At
  <1>2. CASE Users \/ UNCHANGED vars
    BY <1>1, <1>2 DEF Users, Stop, Start, LockUnlock, ActivateVM, Write, vars, libvirt, mulch
  <1>3. ASSUME NEW r \in Request, Begin(r) PROVE StoredOK'
    BY <1>0, <1>3, BeginBegins, BeginStored
  <1>4. ASSUME NEW r \in Request, Create(r) \/ Restore(r) \/ Delete(r) PROVE StoredOK'
    BY <1>0, <1>4, CreateUnstored, RestoreUnstored, DeleteUnstored, UnstoredKeeps
  <1>5. ASSUME NEW r \in Request, SaveBackup(r) PROVE StoredOK'
    BY <1>0, <1>5, SaveBackupStored
  <1>6. ASSUME NEW r \in Request, Rebuild(r) PROVE StoredOK'
    BY <1>0, <1>6, RebuildStored
  <1>7. ASSUME NEW r \in Request, DeleteBackupVolume(r) \/ DeleteBackupEntry(r) PROVE StoredOK'
    BY <1>0, <1>7, DropStored
  <1>8. ~Restart
    BY DEF Restart, NoFault
  <1> QED BY <1>2, <1>3, <1>4, <1>5, <1>6, <1>7, <1>8 DEF Next

\* The setting is one for the whole behaviour.
LEMMA SettingNext ==
    ASSUME [Next]_vars
    PROVE  setting' = setting
  <1>1. ASSUME NEW r \in Request, Begin(r) PROVE setting' = setting
    BY <1>1 DEF Begin, CreateVM, NewVM, BackupVM, DeleteVM, RestoreVM, RebuildVM, DeleteBackup
  <1>2. ASSUME NEW r \in Request, Create(r) PROVE setting' = setting
    BY <1>2 DEF Create, CreateDiskFromSeed, DefineDomain, Boot, Prepare, Add, RollbackDomain,
       RollbackDisk
  <1>3. ASSUME NEW r \in Request, SaveBackup(r) PROVE setting' = setting
    BY <1>3 DEF SaveBackup, CheckOperation, MarkBackup, SetOperation, CreateBackupDisk,
       AttachBackup, BackupScripts, DetachBackup, AddBackup, UndoBackup
  <1>4. ASSUME NEW r \in Request, Restore(r) PROVE setting' = setting
    BY <1>4 DEF Restore, MarkRestore, SetOperation, AttachRestore, RestoreScripts, DetachRestore
  <1>5. ASSUME NEW r \in Request, Delete(r) PROVE setting' = setting
    BY <1>5 DEF Delete, DeleteCheck, Destroy, DeleteDisk, Undefine, DeleteEntry,
       RebuildDHCPStaticLeases
  <1>6. ASSUME NEW r \in Request, Rebuild(r) PROVE setting' = setting
    BY <1>6 DEF Rebuild, Deactivate, Activate, UnlockOriginal, LockNew, DropBackup, DropVolume,
       Reactivate
  <1>7. ASSUME NEW r \in Request, DeleteBackupVolume(r) \/ DeleteBackupEntry(r)
        PROVE  setting' = setting
    BY <1>7 DEF DeleteBackupVolume, DeleteBackupEntry
  <1>8. CASE Users \/ Restart \/ UNCHANGED vars
    BY <1>8 DEF Users, Stop, Start, LockUnlock, ActivateVM, Write, Restart, vars
  <1> QED BY <1>1, <1>2, <1>3, <1>4, <1>5, <1>6, <1>7, <1>8 DEF Next

(***************************************************************************)
(* The backup database never lists a backup without its volume (VMBackup,  *)
(* the deferred calls of VMRebuild, BackupDelete), however backups,        *)
(* restores, rebuilds and deletions of backups overlap and whichever step  *)
(* fails, but those BackupDelete is about to remove.                       *)
(***************************************************************************)
THEOREM ListedBackupsExist == Spec => []BackupsAreStored
  <1> DEFINE SInv == NoFault => StoredOK
  <1>1. Init => SInv
    BY DEF Init, StoredOK, BackupsBeingMade, BackupsDropped, BackupsListed, At
  <1>2. Inv /\ SInv /\ [Next]_vars => SInv'
    BY StoredNext, SettingNext DEF NoFault
  <1>3. Inv /\ SInv => BackupsAreStored
    <2> SUFFICES ASSUME Inv, SInv, NoFault, NEW b \in bdb, bvol[b] = None
                 PROVE  \E r \in Request : op[r] # None /\ op[r].kind = "drop" /\ op[r].bk = b
      BY DEF BackupsAreStored, NoFault
    <2>1. PICK r \in Request : At(r, "deldb") /\ op[r].bk = b
      BY DEF StoredOK, BackupsListed, Leaving
    <2>2. op[r] # None /\ op[r].kind = "drop"
      BY <2>1, TypeParts, Steps DEF Inv, At, WellFormed, Fits
    <2> QED BY <2>1, <2>2
  <1> QED BY <1>1, <1>2, <1>3, InvHolds, PTL DEF Spec

-----------------------------------------------------------------------------
(* The invariant about disks and domains. *)

\* NewVM is building revision i: it has made the disk, and will undo it if it fails.
Building(o, i) ==
    /\ o # None /\ o.new = i
    /\ \/ o.pc \in NewVMLabel \ {"disk"}
       \/ o.kind = "create" /\ o.pc \in RestoreLabel

\* It has defined domain d too.
BuildingDomain(o, i, d) == Building(o, i) /\ o.pc \notin {"define", "undisk"} /\ d = o.vm

BuildsDisk(i) == \E r \in Request : Building(op[r], i)
BuildsDomain(i) == \E r \in Request : BuildingDomain(op[r], i, dom[i])

Owned ==
    \A i \in Revision :
        /\ disk[i] # None => i \in Present \/ BuildsDisk(i)
        /\ dom[i] # None => i \in Present \/ BuildsDomain(i)

\* VMDelete is past its checks, and the entry is still there.
Removing(o) == o # None /\ o.pc \in DomainLabel \cup {"delentry"}

RemovesOK ==
    \A r \in Request : Removing(op[r]) =>
        LET i == op[r].target IN
        /\ i \in Present
        /\ op[r].pc \in {"undefine", "delentry"} /\ disk[i] # None => BuildsDisk(i)
        /\ op[r].pc = "delentry" /\ dom[i] # None => BuildsDomain(i)

\* No two requests are removing the same revision.
DeletionsApart ==
    \A r, q \in Request :
        Removing(op[r]) /\ Removing(op[q]) /\ op[r].target = op[q].target => r = q

OrphanOK == Owned /\ RemovesOK

(***************************************************************************)
(* What a step of request r that puts o has to do: what it was building it *)
(* goes on building, undoes or has put in the database.                    *)
(***************************************************************************)
KeepsDisk(r, o, i) ==
    disk'[i] # None =>
        \/ Building(o, i)
        \/ disk[i] # None /\ (Building(op[r], i) => db[i] = None /\ db'[i] # None)

KeepsDomain(r, o, i) ==
    dom'[i] # None =>
        \/ BuildingDomain(o, i, dom'[i])
        \/ /\ dom'[i] = dom[i]
           /\ BuildingDomain(op[r], i, dom[i]) => db[i] = None /\ db'[i] # None

Tidy(r, o) ==
    /\ Put(r, o)
    /\ \A i \in Revision : KeepsDisk(r, o, i) /\ KeepsDomain(r, o, i)
    /\ \A i \in Present : db'[i] # None \/ (op[r] # None /\ op[r].pc = "delentry" /\ op[r].target = i)
    /\ Removing(o) =>
        /\ o.target \in Revision /\ db'[o.target] # None
        /\ \/ o.pc \in {"destroy", "deldisk"}
           \/ o.pc = "undefine" /\ disk'[o.target] = None
           \/ /\ o.pc = "delentry" /\ dom'[o.target] = None
              /\ op[r] # None /\ op[r].pc = "undefine" /\ op[r].target = o.target

Tidies(r) == \E o \in Op \cup {None} : Tidy(r, o)

LEMMA TidyKeeps ==
    ASSUME OpsOK, OrphanOK, DeletionsApart, NEW r \in Request, Tidies(r)
    PROVE  OrphanOK'
  <1>1. PICK o \in Op \cup {None} : Tidy(r, o)
    BY DEF Tidies
  <1>2. op'[r] = o /\ \A q \in Request \ {r} : op'[q] = op[q]
    BY <1>1, OpTypes DEF Tidy
  <1>3. \A i : i \in Present' <=> i \in Revision /\ db'[i] # None
    BY DEF Present
  <1>4. ASSUME NEW i \in Revision, disk'[i] # None, BuildsDisk(i) \/ i \in Present'
        PROVE  BuildsDisk(i)' \/ (i \in Present' /\ ~BuildsDisk(i)) \/ (i \in Present' /\ i \notin Present)
    <2>1. KeepsDisk(r, o, i)
      BY <1>1 DEF Tidy
    <2>2. CASE Building(o, i)
      BY <1>2, <2>2 DEF BuildsDisk
    <2>3. CASE disk[i] # None /\ (Building(op[r], i) => db[i] = None /\ db'[i] # None)
      <3>1. CASE \E q \in Request \ {r} : Building(op[q], i)
        BY <1>2, <3>1 DEF BuildsDisk
      <3>2. CASE Building(op[r], i)
        BY <1>3, <2>3, <3>2 DEF Present
      <3>3. CASE ~BuildsDisk(i)
        BY <1>4, <3>3
      <3> QED BY <3>1, <3>2, <3>3 DEF BuildsDisk
    <2> QED BY <1>4, <2>1, <2>2, <2>3 DEF KeepsDisk
  <1>5. ASSUME NEW i \in Revision, dom'[i] # None, BuildsDomain(i) \/ i \in Present'
        PROVE  \/ BuildsDomain(i)' \/ (i \in Present' /\ ~BuildsDomain(i)) \/ (i \in Present' /\ i \notin Present)
    <2>1. KeepsDomain(r, o, i)
      BY <1>1 DEF Tidy
    <2>2. CASE BuildingDomain(o, i, dom'[i])
      BY <1>2, <2>2 DEF BuildsDomain
    <2>3. CASE /\ dom'[i] = dom[i]
               /\ BuildingDomain(op[r], i, dom[i]) => db[i] = None /\ db'[i] # None
      <3>1. CASE \E q \in Request \ {r} : BuildingDomain(op[q], i, dom[i])
        BY <1>2, <2>3, <3>1 DEF BuildsDomain
      <3>2. CASE BuildingDomain(op[r], i, dom[i])
        BY <1>3, <2>3, <3>2 DEF Present
      <3>3. CASE ~BuildsDomain(i)
        BY <1>5, <3>3
      <3> QED BY <3>1, <3>2, <3>3 DEF BuildsDomain
    <2> QED BY <1>5, <2>1, <2>2, <2>3 DEF KeepsDomain
  <1>6. ASSUME NEW i \in Present, i \notin Present'
        PROVE  op[r] # None /\ op[r].pc = "delentry" /\ op[r].target = i
    BY <1>1, <1>3, <1>6 DEF Tidy, Present
  <1>7. ASSUME NEW i \in Revision, disk'[i] # None
        PROVE  i \in Present' \/ BuildsDisk(i)'
    <2>1. CASE Building(o, i)
      BY <1>2, <2>1 DEF BuildsDisk
    <2>2. CASE ~Building(o, i)
      <3>1. disk[i] # None
        BY <1>1, <1>7, <2>2 DEF Tidy, KeepsDisk
      <3>2. i \in Present \/ BuildsDisk(i)
        BY <3>1 DEF OrphanOK, Owned
      <3>3. i \in Present' \/ BuildsDisk(i)
        BY <1>6, <3>1, <3>2 DEF OrphanOK, RemovesOK, Removing
      <3> QED BY <1>4, <1>7, <3>3
    <2> QED BY <2>1, <2>2
  <1>8. ASSUME NEW i \in Revision, dom'[i] # None
        PROVE  i \in Present' \/ BuildsDomain(i)'
    <2>1. CASE BuildingDomain(o, i, dom'[i])
      BY <1>2, <2>1 DEF BuildsDomain
    <2>2. CASE ~BuildingDomain(o, i, dom'[i])
      <3>1. dom[i] # None
        BY <1>1, <1>8, <2>2 DEF Tidy, KeepsDomain
      <3>2. i \in Present \/ BuildsDomain(i)
        BY <3>1 DEF OrphanOK, Owned
      <3>3. i \in Present' \/ BuildsDomain(i)
        BY <1>6, <3>1, <3>2 DEF OrphanOK, RemovesOK, Removing
      <3> QED BY <1>5, <1>8, <3>3
    <2> QED BY <2>1, <2>2
  <1>9. Owned'
    BY <1>7, <1>8 DEF Owned
  <1>10. ASSUME NEW q \in Request, Removing(op'[q]), NEW i, i = op'[q].target
         PROVE  /\ i \in Present'
                /\ op'[q].pc \in {"undefine", "delentry"} /\ disk'[i] # None => BuildsDisk(i)'
                /\ op'[q].pc = "delentry" /\ dom'[i] # None => BuildsDomain(i)'
    <2>1. CASE q = r
      <3>1. /\ i \in Revision /\ i \in Present'
            /\ \/ o.pc \in {"destroy", "deldisk"}
               \/ o.pc = "undefine" /\ disk'[i] = None
               \/ /\ o.pc = "delentry" /\ dom'[i] = None
                  /\ op[r] # None /\ op[r].pc = "undefine" /\ op[r].target = i
        BY <1>1, <1>2, <1>3, <1>10, <2>1 DEF Tidy
      <3>2. ASSUME o.pc = "delentry", disk'[i] # None PROVE BuildsDisk(i)'
        <4>1. op[r] # None /\ op[r].pc = "undefine" /\ op[r].target = i
          BY <3>1, <3>2
        <4>2. i \in Present /\ (disk[i] # None => BuildsDisk(i))
          BY <4>1 DEF OrphanOK, RemovesOK, Removing
        <4>3. CASE Building(o, i)
          BY <1>2, <4>3 DEF BuildsDisk
        <4>4. CASE ~Building(o, i)
          <5>1. disk[i] # None
            BY <1>1, <3>1, <3>2, <4>4 DEF Tidy, KeepsDisk
          <5> QED BY <1>4, <3>1, <3>2, <4>2, <5>1
        <4> QED BY <4>3, <4>4
      <3> QED BY <1>2, <2>1, <3>1, <3>2
    <2>2. CASE q # r
      <3>1. /\ op'[q] = op[q] /\ i \in Present
            /\ op[q].pc \in {"undefine", "delentry"} /\ disk[i] # None => BuildsDisk(i)
            /\ op[q].pc = "delentry" /\ dom[i] # None => BuildsDomain(i)
        BY <1>2, <1>10, <2>2 DEF OrphanOK, RemovesOK
      <3>2. i \in Present'
        BY <1>6, <1>10, <2>2, <3>1 DEF DeletionsApart, Removing
      <3>3. ASSUME op[q].pc \in {"undefine", "delentry"}, disk'[i] # None PROVE BuildsDisk(i)'
        <4>1. CASE Building(o, i)
          BY <1>2, <4>1 DEF BuildsDisk
        <4>2. CASE ~Building(o, i)
          <5>1. i \in Revision /\ disk[i] # None
            BY <1>1, <3>1, <3>3, <4>2 DEF Tidy, KeepsDisk, Present
          <5> QED BY <1>4, <3>1, <3>2, <3>3, <5>1
        <4> QED BY <4>1, <4>2
      <3>4. ASSUME op[q].pc = "delentry", dom'[i] # None PROVE BuildsDomain(i)'
        <4>1. CASE BuildingDomain(o, i, dom'[i])
          BY <1>2, <4>1 DEF BuildsDomain
        <4>2. CASE ~BuildingDomain(o, i, dom'[i])
          <5>1. i \in Revision /\ dom[i] # None
            BY <1>1, <3>1, <3>4, <4>2 DEF Tidy, KeepsDomain, Present
          <5> QED BY <1>5, <3>1, <3>2, <3>4, <5>1
        <4> QED BY <4>1, <4>2
      <3> QED BY <3>1, <3>2, <3>3, <3>4
    <2> QED BY <2>1, <2>2
  <1>11. RemovesOK'
    BY <1>10 DEF RemovesOK
  <1> QED BY <1>9, <1>11 DEF OrphanOK

\* Steps that build nothing and remove nothing.
LEMMA IdleTidies ==
    ASSUME NEW r \in Request, NEW o \in Op \cup {None}, Put(r, o), ~Removing(o),
           UNCHANGED <<dom, db>>, \A i \in Revision : disk'[i] # None => disk[i] # None,
           \A i \in Revision : ~Building(op[r], i)
    PROVE  Tidies(r)
  <1>1. \A i \in Revision : KeepsDisk(r, o, i) /\ KeepsDomain(r, o, i)
    BY DEF KeepsDisk, KeepsDomain, BuildingDomain
  <1>2. \A i \in Present : db'[i] # None
    BY DEF Present
  <1> QED BY <1>1, <1>2 DEF Tidies, Tidy

\* Steps of NewVM, and of a creation that restores a backup.
LEMMA BuildingTidies ==
    ASSUME NEW r \in Request, op[r] # None, NEW o \in Op, Put(r, o), o # None, Same(o, op[r]) \/
              (Identity(o, op[r]) /\ o.bk = op[r].bk),
           o.pc \in {"boot", "prepare", "undomain", "add"} \cup RestoreLabel,
           op[r].kind = "create" \/ o.pc \notin RestoreLabel,
           UNCHANGED <<dom, db>>, \A i \in Revision : disk'[i] # None => disk[i] # None
    PROVE  Tidies(r)
  <1>1. o.new = op[r].new /\ o.vm = op[r].vm /\ o.kind = op[r].kind
    BY DEF Same, Identity
  <1>2. \A i \in Revision : KeepsDisk(r, o, i)
    BY <1>1 DEF KeepsDisk, Building
  <1>3. \A i \in Revision : KeepsDomain(r, o, i)
    BY <1>1 DEF KeepsDomain, BuildingDomain, Building
  <1>4. \A i \in Present : db'[i] # None
    BY DEF Present
  <1>5. ~Removing(o)
    BY DEF Removing
  <1> QED BY <1>2, <1>3, <1>4, <1>5 DEF Tidies, Tidy

LEMMA CreateTidies ==
    ASSUME OpsOK, StateOK, NoFault, NEW r \in Request, Create(r)
    PROVE  Tidies(r)
  <1>0. op[r] # None /\ op[r] \in Op /\ op[r].pc \in NewVMLabel /\ op[r].new \in Revision
        /\ op[r].vm \in VM /\ op[r].kind \in {"create", "rebuild"}
        /\ (op[r].kind = "rebuild" => op[r].bk = None)
    BY Steps DEF Create, CreateDiskFromSeed, DefineDomain, Boot, Prepare, Add, RollbackDomain,
       RollbackDisk, At, WellFormed, Fits
  <1>a. \A i \in Revision : db[i] # None => i \in Present
    BY DEF Present
  <1>1. CASE CreateDiskFromSeed(r)
    <2>0. op[r].pc = "disk" /\ UNCHANGED <<dom, db>>
      BY <1>1 DEF CreateDiskFromSeed, At, mulch
    <2>1. CASE End(r) /\ UNCHANGED disk
      BY <2>0, <2>1, IdleTidies DEF End, Put, Removing, Building
    <2>2. CASE disk' = [disk EXCEPT ![op[r].new] = {}] /\ Go(r, "define")
      <3>1. PICK o \in Op : Put(r, o) /\ o # None /\ o.pc = "define" /\ Same(o, op[r])
        BY <1>0, <2>2, GoPuts
      <3>2. \A i \in Revision : KeepsDisk(r, o, i) /\ KeepsDomain(r, o, i)
        BY <1>0, <2>0, <2>2, <3>1 DEF KeepsDisk, KeepsDomain, BuildingDomain, Building, Same, Identity,
           StateOK
      <3> QED BY <2>0, <3>1, <3>2 DEF Tidies, Tidy, Removing, Present
    <2> QED BY <1>1, <2>1, <2>2 DEF CreateDiskFromSeed, NoFault, Partial
  <1>2. CASE DefineDomain(r)
    <2>0. op[r].pc = "define" /\ UNCHANGED <<disk, db>>
      BY <1>2 DEF DefineDomain, At, mulch
    <2>1. CASE Go(r, "undisk") /\ UNCHANGED dom
      <3>1. PICK o \in Op : Put(r, o) /\ o # None /\ o.pc = "undisk" /\ Same(o, op[r])
        BY <1>0, <2>1, GoPuts
      <3>2. \A i \in Revision : KeepsDisk(r, o, i) /\ KeepsDomain(r, o, i)
        BY <1>0, <2>0, <2>1, <3>1 DEF KeepsDisk, KeepsDomain, BuildingDomain, Building, Same, Identity
      <3> QED BY <2>0, <3>1, <3>2 DEF Tidies, Tidy, Removing, Present
    <2>2. CASE dom' = [dom EXCEPT ![op[r].new] = op[r].vm] /\ Go(r, "boot")
      <3>1. PICK o \in Op : Put(r, o) /\ o # None /\ o.pc = "boot" /\ Same(o, op[r])
        BY <1>0, <2>2, GoPuts
      <3>2. \A i \in Revision : KeepsDisk(r, o, i)
        BY <1>0, <2>0, <2>2, <3>1 DEF KeepsDisk, Building, Same, Identity
      <3>3. \A i \in Revision : KeepsDomain(r, o, i)
        BY <1>0, <2>0, <2>2, <3>1 DEF KeepsDomain, BuildingDomain, Building, Same, Identity, StateOK
      <3> QED BY <2>0, <3>1, <3>2, <3>3 DEF Tidies, Tidy, Removing, Present
    <2> QED BY <1>2, <2>1, <2>2 DEF DefineDomain
  <1>b. ASSUME NEW l \in {"prepare", "undomain", "add"} \cup RestoreLabel, Go(r, l),
               op[r].kind = "create" \/ l \notin RestoreLabel, UNCHANGED <<disk, dom, db>>
        PROVE  Tidies(r)
    <2>1. PICK o \in Op : Put(r, o) /\ o # None /\ o.pc = l /\ Same(o, op[r])
      BY <1>0, <1>b, GoPuts
    <2> QED BY <1>0, <1>b, <2>1, BuildingTidies
  <1>3. CASE Boot(r)
    BY <1>3, <1>b DEF Boot, mulch
  <1>4. CASE Prepare(r)
    <2>1. UNCHANGED <<disk, dom, db>>
      BY <1>4 DEF Prepare, mulch, libvirt
    <2>2. CASE op[r].bk # None
      BY <1>0, <1>4, <1>b, <2>1, <2>2 DEF Prepare
    <2>3. CASE op[r].bk = None
      BY <1>4, <1>b, <2>1, <2>3 DEF Prepare
    <2> QED BY <2>2, <2>3
  <1>5. CASE Add(r)
    <2>0. op[r].pc = "add" /\ UNCHANGED <<disk, dom>>
      BY <1>5 DEF Add, At, libvirt
    <2>1. CASE Go(r, "undomain") /\ UNCHANGED db
      BY <1>b, <2>0, <2>1
    <2>2. ASSUME db[op[r].new] = None, db' = [db EXCEPT ![op[r].new] = op[r].vm],
                 NEW o \in Op \cup {None}, Put(r, o), o # None => o.pc = "deactivate" /\ o.kind = "rebuild"
          PROVE  Tidies(r)
      <3>1. op[r].vm # None
        BY <1>0, LifecycleAssumption
      <3>2. db'[op[r].new] # None
        BY <1>0, <2>2, <3>1 DEF StateOK
      <3>3. \A i \in Revision : KeepsDisk(r, o, i) /\ KeepsDomain(r, o, i)
        BY <2>0, <2>2, <3>2 DEF KeepsDisk, KeepsDomain, BuildingDomain, Building
      <3>4. \A i \in Present : db'[i] # None
        BY <2>2, <3>2 DEF StateOK, Present
      <3> QED BY <2>2, <3>3, <3>4 DEF Tidies, Tidy, Removing
    <2>3. CASE db[op[r].new] = None /\ db' = [db EXCEPT ![op[r].new] = op[r].vm]
               /\ IF op[r].kind = "create" THEN End(r) ELSE Go(r, "deactivate")
      <3>1. CASE op[r].kind = "create"
        BY <2>2, <2>3, <3>1 DEF End, Put
      <3>2. CASE op[r].kind = "rebuild"
        <4>1. PICK o \in Op : Put(r, o) /\ o # None /\ o.pc = "deactivate" /\ Same(o, op[r])
          BY <1>0, <2>3, <3>2, GoPuts
        <4> QED BY <2>2, <2>3, <3>2, <4>1 DEF Same, Identity
      <3> QED BY <1>0, <3>1, <3>2
    <2> QED BY <1>5, <2>1, <2>3 DEF Add
  <1>6. CASE RollbackDomain(r)
    <2>0. /\ op[r].pc = "undomain" /\ UNCHANGED <<disk, db>> /\ Go(r, "undisk")
          /\ dom' = [dom EXCEPT ![op[r].new] = IF @ = op[r].vm THEN None ELSE @]
      BY <1>6 DEF RollbackDomain, At, mulch, NoFault, Partial
    <2>1. PICK o \in Op : Put(r, o) /\ o # None /\ o.pc = "undisk" /\ Same(o, op[r])
      BY <1>0, <2>0, GoPuts
    <2>2. \A i \in Revision : KeepsDisk(r, o, i)
      BY <1>0, <2>0, <2>1 DEF KeepsDisk, Building, Same, Identity
    <2>3. \A i \in Revision : KeepsDomain(r, o, i)
      BY <1>0, <2>0, <2>1 DEF KeepsDomain, BuildingDomain, Building, Same, Identity, StateOK
    <2> QED BY <2>0, <2>1, <2>2, <2>3 DEF Tidies, Tidy, Removing, Present
  <1>7. CASE RollbackDisk(r)
    <2>0. /\ op[r].pc = "undisk" /\ UNCHANGED <<dom, db>> /\ Put(r, None)
          /\ disk' = [disk EXCEPT ![op[r].new] = None]
      BY <1>7 DEF RollbackDisk, At, mulch, NoFault, Partial, End, Put
    <2>1. \A i \in Revision : KeepsDisk(r, None, i) /\ KeepsDomain(r, None, i)
      BY <1>0, <2>0 DEF KeepsDisk, KeepsDomain, BuildingDomain, Building, StateOK
    <2> QED BY <2>0, <2>1 DEF Tidies, Tidy, Removing, Present
  <1> QED BY <1>1, <1>2, <1>3, <1>4, <1>5, <1>6, <1>7 DEF Create

LEMMA SaveBackupTidies ==
    ASSUME OpsOK, StateOK, NoFault, NEW r \in Request, SaveBackup(r)
    PROVE  Tidies(r)
  <1>0. op[r] # None /\ op[r] \in Op /\ op[r].pc \in BackupLabel /\ op[r].rev \in Revision
    BY Steps DEF SaveBackup, CheckOperation, MarkBackup, CreateBackupDisk, AttachBackup,
       BackupScripts, DetachBackup, AddBackup, UndoBackup, At, WellFormed, Fits
  <1>1. UNCHANGED <<disk, dom, db>>
    BY DEF SaveBackup, CheckOperation, MarkBackup, SetOperation, CreateBackupDisk, AttachBackup,
       BackupScripts, DetachBackup, AddBackup, UndoBackup, libvirt, mulch
  <1>2. ASSUME NEW o \in Op \cup {None}, Put(r, o), ~Removing(o) PROVE Tidies(r)
    BY <1>0, <1>1, <1>2, IdleTidies DEF Building
  <1>a. ASSUME BackupFails(r) PROVE Tidies(r)
    <2>1. CASE Put(r, None)
      BY <1>2, <2>1 DEF Removing
    <2>2. ASSUME NEW y \in Op, NEW o \in Op \cup {None}, Put(r, o), Undoes(y, o)
          PROVE  Tidies(r)
      BY <1>2, <2>2 DEF Undoes, Removing
    <2> QED BY <1>0, <1>a, <2>1, <2>2, BackupFailsPuts
  <1>b. ASSUME NEW l \in BackupLabel, Go(r, l) PROVE Tidies(r)
    <2>1. PICK o \in Op : Put(r, o) /\ o # None /\ o.pc = l /\ Same(o, op[r])
      BY <1>0, <1>b, GoPuts
    <2> QED BY <1>2, <2>1 DEF Removing
  <1>3. CASE CheckOperation(r)
    <2>1. CASE op[r].rev \in Present
               /\ Put(r, [op[r] EXCEPT !.pc = "bmark", !.held = db[op[r].rev]])
      <3>1. PICK v \in VM : v = db[op[r].rev]
        BY <1>0, <2>1 DEF StateOK, Present
      <3>2. PICK o \in Op : /\ o = [op[r] EXCEPT !.pc = "bmark", !.held = v]
                            /\ o.pc = "bmark" /\ o.held = v /\ Identity(o, op[r])
                            /\ o.bk = op[r].bk /\ o.flag = op[r].flag /\ o.ok = op[r].ok
        BY <1>0, Marked
      <3>3. Put(r, o) /\ ~Removing(o)
        BY <2>1, <3>1, <3>2 DEF Removing
      <3> QED BY <1>2, <3>3
    <2> QED BY <1>3, <1>a, <2>1 DEF CheckOperation
  <1>4. CASE CreateBackupDisk(r)
    <2>1. ASSUME NEW b \in Backup, Put(r, [op[r] EXCEPT !.pc = "battach", !.bk = b])
          PROVE  Tidies(r)
      <3>1. PICK o \in Op : /\ o = [op[r] EXCEPT !.pc = "battach", !.bk = b]
                            /\ o.pc = "battach" /\ o.bk = b /\ Identity(o, op[r])
                            /\ o.held = op[r].held /\ o.flag = op[r].flag /\ o.ok = op[r].ok
        BY <1>0, Backed
      <3> QED BY <1>2, <2>1, <3>1 DEF Removing
    <2> QED BY <1>4, <1>a, <2>1 DEF CreateBackupDisk
  <1>5. CASE AddBackup(r)
    <2>1. ASSUME op[r].kind # "backup", Put(r, [op[r] EXCEPT !.pc = "rmark", !.held = op[r].vm])
          PROVE  Tidies(r)
      <3>1. PICK v \in VM : v = op[r].vm
        BY <1>0, <2>1, Steps DEF WellFormed, Fits
      <3>2. PICK o \in Op : /\ o = [op[r] EXCEPT !.pc = "rmark", !.held = v]
                            /\ o.pc = "rmark" /\ o.held = v /\ Identity(o, op[r])
                            /\ o.bk = op[r].bk /\ o.flag = op[r].flag /\ o.ok = op[r].ok
        BY <1>0, Saved
      <3> QED BY <1>2, <2>1, <3>1, <3>2 DEF Removing
    <2>2. ASSUME End(r) PROVE Tidies(r)
      BY <1>2, <2>2 DEF End, Put, Removing
    <2> QED BY <1>5, <1>b, <2>1, <2>2 DEF AddBackup
  <1> QED BY <1>3, <1>4, <1>5, <1>a, <1>b DEF SaveBackup, MarkBackup, SetOperation, AttachBackup,
             BackupScripts, DetachBackup, UndoBackup

LEMMA RestoreTidies ==
    ASSUME OpsOK, StateOK, NoFault, NEW r \in Request, Restore(r)
    PROVE  Tidies(r)
  <1>0. op[r] # None /\ op[r] \in Op /\ op[r].pc \in RestoreLabel
        /\ op[r].kind \in {"create", "restore", "rebuild"}
        /\ (op[r].kind = "rebuild" => op[r].new \in Revision)
    BY Steps DEF Restore, MarkRestore, AttachRestore, RestoreScripts, DetachRestore, At,
       WellFormed, Fits
  <1>1. UNCHANGED <<dom, db>>
    BY DEF Restore, MarkRestore, SetOperation, AttachRestore, RestoreScripts, DetachRestore,
       libvirt, mulch
  <1>2. \A i \in Revision : disk'[i] # None => disk[i] # None
    <2>1. CASE RestoreScripts(r)
      BY <2>1 DEF RestoreScripts, StateOK
    <2>2. CASE MarkRestore(r) \/ AttachRestore(r) \/ DetachRestore(r)
      BY <2>2 DEF MarkRestore, SetOperation, AttachRestore, DetachRestore, libvirt
    <2> QED BY <2>1, <2>2 DEF Restore
  <1>3. ASSUME NEW o \in Op \cup {None}, Put(r, o), op[r].kind # "create", ~Removing(o)
        PROVE  Tidies(r)
    BY <1>0, <1>1, <1>2, <1>3, IdleTidies DEF Building
  <1>4. ASSUME NEW o \in Op, Put(r, o), o # None, Identity(o, op[r]), o.bk = op[r].bk,
               o.pc \in {"add", "undomain"} \cup RestoreLabel
        PROVE  Tidies(r)
    <2>1. CASE op[r].kind = "create"
      BY <1>0, <1>1, <1>2, <1>4, <2>1, BuildingTidies
    <2>2. CASE op[r].kind # "create"
      BY <1>3, <1>4, <2>2 DEF Removing
    <2> QED BY <2>1, <2>2
  <1>a. ASSUME NEW l \in RestoreLabel, Go(r, l) PROVE Tidies(r)
    <2>1. PICK o \in Op : Put(r, o) /\ o # None /\ o.pc = l /\ Same(o, op[r])
      BY <1>0, <1>a, GoPuts
    <2> QED BY <1>4, <2>1 DEF Same
  <1>b. ASSUME NEW y \in Op, NEW o \in Op \cup {None}, Put(r, o), Undoes(y, o),
               op[r].kind = "rebuild"
        PROVE  Tidies(r)
    BY <1>3, <1>b DEF Undoes, Removing
  <1>c. ASSUME NEW ok \in BOOLEAN, RestoreReturns(r, ok) PROVE Tidies(r)
    <2>1. CASE op[r].kind = "restore" /\ Put(r, None)
      BY <1>3, <2>1 DEF Removing
    <2>2. ASSUME op[r].kind = "rebuild", NEW o \in Op, Put(r, o), o.pc = IF o.flag THEN "activate" ELSE "unlock"
          PROVE  Tidies(r)
      BY <1>3, <2>2 DEF Removing
    <2>3. ASSUME NEW o \in Op, Put(r, o), o # None, o.pc \in {"add", "undomain"}, Same(o, op[r])
          PROVE  Tidies(r)
      BY <1>4, <2>3 DEF Same
    <2> QED BY <1>0, <1>b, <1>c, <2>1, <2>2, <2>3, RestoreReturnsPuts
  <1>5. CASE MarkRestore(r)
    <2>1. CASE op[r].kind = "rebuild" /\ Put(r, Unwound([op[r] EXCEPT !.held = None]))
      <3>1. PICK y \in Op : /\ y = [op[r] EXCEPT !.held = None] /\ y.pc = op[r].pc
                            /\ Identity(y, op[r]) /\ y.bk = op[r].bk /\ y.flag = op[r].flag
                            /\ y.ok = op[r].ok
        BY <1>0, Unheld
      <3>2. Undoes(y, Unwound(y))
        BY <1>0, <2>1, <3>1, UnwoundUndoes DEF Identity
      <3>3. Put(r, Unwound(y)) /\ Unwound(y) \in Op \cup {None}
        BY <2>1, <3>1, <3>2 DEF Undoes
      <3> QED BY <1>b, <2>1, <3>2, <3>3
    <2> QED BY <1>5, <1>a, <2>1 DEF MarkRestore, SetOperation
  <1>6. CASE AttachRestore(r)
    BY <1>6, <1>a, <1>c DEF AttachRestore
  <1>7. CASE RestoreScripts(r)
    <2>1. ASSUME Put(r, [op[r] EXCEPT !.pc = "rdetach", !.ok = TRUE]) PROVE Tidies(r)
      <3>1. PICK o \in Op : /\ o = [op[r] EXCEPT !.pc = "rdetach", !.ok = TRUE]
                            /\ o.pc = "rdetach" /\ o.ok = TRUE /\ Identity(o, op[r])
                            /\ o.bk = op[r].bk /\ o.flag = op[r].flag
        BY <1>0, Scripted
      <3> QED BY <1>4, <2>1, <3>1, SentinelAssumption
    <2>2. ASSUME Put(r, [op[r] EXCEPT !.pc = "rdetach", !.ok = FALSE]) PROVE Tidies(r)
      <3>1. PICK o \in Op : /\ o = [op[r] EXCEPT !.pc = "rdetach", !.ok = FALSE]
                            /\ o.pc = "rdetach" /\ o.ok = FALSE /\ Identity(o, op[r])
                            /\ o.bk = op[r].bk /\ o.flag = op[r].flag
        BY <1>0, Missed
      <3> QED BY <1>4, <2>2, <3>1, SentinelAssumption
    <2>3. \/ Put(r, [op[r] EXCEPT !.pc = "rdetach", !.ok = TRUE])
          \/ Put(r, [op[r] EXCEPT !.pc = "rdetach", !.ok = FALSE])
      BY <1>7 DEF RestoreScripts
    <2> QED BY <2>1, <2>2, <2>3
  <1>8. CASE DetachRestore(r)
    <2>1. RestoreReturns(r, op[r].ok) /\ op[r].ok \in BOOLEAN
      BY <1>0, <1>8 DEF DetachRestore, Op
    <2> QED BY <1>c, <2>1
  <1> QED BY <1>5, <1>6, <1>7, <1>8 DEF Restore

LEMMA DeleteTidies ==
    ASSUME OpsOK, StateOK, NoFault, OrphanOK, NEW r \in Request, Delete(r)
    PROVE  Tidies(r)
  <1>0. op[r] # None /\ op[r] \in Op /\ op[r].pc \in DeleteLabel /\ op[r].target \in Revision
    BY Steps DEF Delete, DeleteCheck, Destroy, DeleteDisk, Undefine, DeleteEntry,
       RebuildDHCPStaticLeases, At, WellFormed, Fits
  <1>a. \A i \in Revision : ~Building(op[r], i)
    BY <1>0 DEF Building
  <1>b. op[r].pc \in DomainLabel \cup {"delentry"} => op[r].target \in Present
    BY <1>0 DEF OrphanOK, RemovesOK, Removing
  <1>c. ASSUME NEW ok \in BOOLEAN, DeleteReturns(r, ok), UNCHANGED <<disk, dom, db>>
        PROVE  Tidies(r)
    <2>1. ASSUME NEW o \in Op \cup {None}, Put(r, o), o = None \/ ~Removing(o)
          PROVE  Tidies(r)
      BY <1>a, <1>c, <2>1, IdleTidies DEF Removing
    <2>2. ASSUME NEW o \in Op \cup {None}, Put(r, o), Undoes(op[r], o)
          PROVE  Tidies(r)
      BY <2>1, <2>2 DEF Undoes, Removing
    <2>3. ASSUME NEW o \in Op, Put(r, o), o.pc = "relock"
          PROVE  Tidies(r)
      BY <2>1, <2>3 DEF Removing
    <2>4. CASE Put(r, None)
      BY <2>1, <2>4
    <2> QED BY <1>0, <1>c, <2>2, <2>3, <2>4, DeleteReturnsPuts
  <1>d. ASSUME NEW l \in DeleteLabel, Go(r, l)
        PROVE  \E o \in Op : Put(r, o) /\ o # None /\ o.pc = l /\ o.target = op[r].target
    BY <1>0, <1>d, GoPuts DEF Same
  <1>1. CASE DeleteCheck(r)
    <2>0. UNCHANGED <<disk, dom, db>>
      BY <1>1 DEF DeleteCheck, libvirt, mulch
    <2>1. CASE /\ op[r].target \in Present /\ dom[op[r].target] # None
               /\ Put(r, [op[r] EXCEPT !.pc = "destroy", !.handle = dom[op[r].target]])
      <3>1. PICK v \in VM : v = dom[op[r].target]
        BY <1>0, <2>1 DEF StateOK
      <3>2. PICK o \in Op : /\ o = [op[r] EXCEPT !.pc = "destroy", !.handle = v]
                            /\ o.pc = "destroy" /\ o.handle = v /\ Identity(o, op[r])
                            /\ o.bk = op[r].bk /\ o.flag = op[r].flag /\ o.ok = op[r].ok
                            /\ o.target = op[r].target
        BY <1>0, Handled
      <3>3. Put(r, o)
        BY <2>1, <3>1, <3>2
      <3>4. \A i \in Revision : KeepsDisk(r, o, i) /\ KeepsDomain(r, o, i)
        BY <1>a, <2>0 DEF KeepsDisk, KeepsDomain, BuildingDomain
      <3> QED BY <2>0, <2>1, <3>2, <3>3, <3>4 DEF Tidies, Tidy, Present
    <2> QED BY <1>1, <1>c, <2>0, <2>1 DEF DeleteCheck
  <1>2. CASE Destroy(r)
    <2>0. UNCHANGED <<disk, dom, db>> /\ op[r].pc = "destroy"
      BY <1>2 DEF Destroy, mulch, At
    <2>1. CASE Go(r, "deldisk")
      <3>1. PICK o \in Op : Put(r, o) /\ o # None /\ o.pc = "deldisk" /\ o.target = op[r].target
        BY <1>d, <2>1
      <3>2. \A i \in Revision : KeepsDisk(r, o, i) /\ KeepsDomain(r, o, i)
        BY <1>a, <2>0 DEF KeepsDisk, KeepsDomain, BuildingDomain
      <3> QED BY <1>0, <1>b, <2>0, <3>1, <3>2 DEF Tidies, Tidy, Present
    <2> QED BY <1>2, <1>c, <2>0, <2>1 DEF Destroy
  <1>3. CASE DeleteDisk(r)
    <2>0. UNCHANGED <<dom, db>> /\ op[r].pc = "deldisk"
      BY <1>3 DEF DeleteDisk, mulch, At
    <2>1. CASE disk' = [disk EXCEPT ![op[r].target] = None] /\ Go(r, "undefine")
      <3>1. PICK o \in Op : Put(r, o) /\ o # None /\ o.pc = "undefine" /\ o.target = op[r].target
        BY <1>d, <2>1
      <3>2. \A i \in Revision : KeepsDisk(r, o, i) /\ KeepsDomain(r, o, i)
        BY <1>0, <1>a, <2>0, <2>1 DEF KeepsDisk, KeepsDomain, BuildingDomain, StateOK
      <3>3. disk'[op[r].target] = None
        BY <1>0, <2>1 DEF StateOK
      <3> QED BY <1>0, <1>b, <2>0, <3>1, <3>2, <3>3 DEF Tidies, Tidy, Present
    <2> QED BY <1>3, <1>c, <2>0, <2>1 DEF DeleteDisk
  <1>4. CASE Undefine(r)
    <2>0. UNCHANGED <<disk, db>> /\ op[r].pc = "undefine"
      BY <1>4 DEF Undefine, mulch, At
    <2>1. CASE dom' = [dom EXCEPT ![op[r].target] = None] /\ Go(r, "delentry")
      <3>1. PICK o \in Op : Put(r, o) /\ o # None /\ o.pc = "delentry" /\ o.target = op[r].target
        BY <1>d, <2>1
      <3>2. \A i \in Revision : KeepsDisk(r, o, i) /\ KeepsDomain(r, o, i)
        BY <1>0, <1>a, <2>0, <2>1 DEF KeepsDisk, KeepsDomain, BuildingDomain, StateOK
      <3>3. dom'[op[r].target] = None
        BY <1>0, <2>1 DEF StateOK
      <3> QED BY <1>0, <1>b, <2>0, <3>1, <3>2, <3>3 DEF Tidies, Tidy, Present
    <2> QED BY <1>4, <1>c, <2>0, <2>1 DEF Undefine
  <1>5. CASE DeleteEntry(r)
    <2>0. UNCHANGED <<disk, dom>> /\ op[r].pc = "delentry"
      BY <1>5 DEF DeleteEntry, libvirt, At
    <2>1. CASE db' = [db EXCEPT ![op[r].target] = None] /\ Go(r, "dhcp")
      <3>1. PICK o \in Op : Put(r, o) /\ o # None /\ o.pc = "dhcp" /\ o.target = op[r].target
        BY <1>d, <2>1
      <3>2. \A i \in Revision : KeepsDisk(r, o, i) /\ KeepsDomain(r, o, i)
        BY <1>a, <2>0 DEF KeepsDisk, KeepsDomain, BuildingDomain
      <3>3. \A i \in Present : db'[i] # None \/ op[r].target = i
        BY <1>0, <2>1 DEF Present, StateOK
      <3> QED BY <1>0, <2>0, <3>1, <3>2, <3>3 DEF Tidies, Tidy, Removing
    <2>2. CASE DeleteReturns(r, FALSE) /\ UNCHANGED db
      BY <1>c, <2>0, <2>2
    <2> QED BY <1>5, <2>1, <2>2 DEF DeleteEntry, Remove, NoFault, Partial
  <1>6. CASE RebuildDHCPStaticLeases(r)
    BY <1>6, <1>c DEF RebuildDHCPStaticLeases, libvirt, mulch
  <1> QED BY <1>1, <1>2, <1>3, <1>4, <1>5, <1>6 DEF Delete

LEMMA RebuildTidies ==
    ASSUME OpsOK, NoFault, NEW r \in Request, Rebuild(r)
    PROVE  Tidies(r)
  <1>0. op[r] # None /\ op[r] \in Op /\ op[r].pc \in RebuildLabel
        /\ op[r].new \in Revision /\ op[r].rev \in Revision
    BY Steps DEF Rebuild, Deactivate, Activate, UnlockOriginal, LockNew, DropBackup, DropVolume,
       Reactivate, At, WellFormed, Fits
  <1>1. UNCHANGED <<disk, dom, db>>
    BY DEF Rebuild, Deactivate, Activate, UnlockOriginal, LockNew, DropBackup, DropVolume,
       Reactivate, libvirt, mulch
  <1>2. ASSUME NEW o \in Op \cup {None}, Put(r, o), ~Removing(o) PROVE Tidies(r)
    BY <1>0, <1>1, <1>2, IdleTidies DEF Building
  <1>a. ASSUME Put(r, Unwound(op[r])) PROVE Tidies(r)
    <2>1. PICK x \in Op : x = op[r]
      BY <1>0
    <2>2. Undoes(x, Unwound(x))
      BY <1>0, <2>1, UnwoundUndoes
    <2>3. Put(r, Unwound(x)) /\ Unwound(x) \in Op \cup {None} /\ ~Removing(Unwound(x))
      BY <1>a, <2>1, <2>2 DEF Undoes, Removing
    <2> QED BY <1>2, <2>3
  <1>b. ASSUME Put(r, Reverted(op[r])) PROVE Tidies(r)
    <2>1. PICK x \in Op : x = op[r]
      BY <1>0
    <2>2. Undoes(x, Reverted(x))
      BY <1>0, <2>1, RevertedUndoes
    <2>3. Put(r, Reverted(x)) /\ Reverted(x) \in Op \cup {None} /\ ~Removing(Reverted(x))
      BY <1>b, <2>1, <2>2 DEF Undoes, Removing
    <2> QED BY <1>2, <2>3
  <1>c. ASSUME NEW l \in RebuildLabel, Go(r, l) PROVE Tidies(r)
    <2>1. PICK o \in Op : Put(r, o) /\ o # None /\ o.pc = l /\ Same(o, op[r])
      BY <1>0, <1>c, GoPuts
    <2> QED BY <1>2, <2>1 DEF Removing
  <1>3. CASE Deactivate(r)
    <2> DEFINE l == IF setting.scripts THEN "backup" ELSE IF active = op[r].rev THEN "activate" ELSE "unlock"
               f == active = op[r].rev
    <2>2. Put(r, [op[r] EXCEPT !.flag = f, !.pc = l])
      BY <1>3 DEF Deactivate, NoFault, Partial
    <2>3. PICK a \in BOOLEAN, k \in {"backup", "activate", "unlock"} : a = f /\ k = l
      OBVIOUS
    <2>4. PICK o \in Op : o = [op[r] EXCEPT !.flag = a]
      BY <1>0, FieldTypes
    <2>5. PICK p \in Op : p = [o EXCEPT !.pc = k] /\ p.pc = k /\ Same(p, o)
      BY Relabeled
    <2>6. p = [op[r] EXCEPT !.flag = a, !.pc = k]
      BY <1>0, <2>4, <2>5 DEF Op
    <2> HIDE DEF f, l
    <2>7. Put(r, p) /\ ~Removing(p)
      BY <2>2, <2>3, <2>5, <2>6 DEF Removing
    <2> QED BY <1>2, <2>7
  <1>4. CASE Activate(r)
    BY <1>4, <1>a, <1>c DEF Activate
  <1>5. CASE UnlockOriginal(r)
    <2>1. ASSUME Put(r, [op[r] EXCEPT !.pc = "delete", !.target = op[r].rev,
                                      !.lock = @ \/ db[op[r].rev] \in locked])
          PROVE  Tidies(r)
      <3>1. PICK k \in BOOLEAN, i \in Revision :
               k = (op[r].lock \/ db[op[r].rev] \in locked) /\ i = op[r].rev
        BY <1>0 DEF Op
      <3>1a. op[r] \in Op /\ i \in Revision
        BY <1>0
      <3>2. PICK o \in Op : /\ o = [op[r] EXCEPT !.pc = "delete", !.target = i]
                            /\ o.pc = "delete" /\ o.target = i /\ Identity(o, op[r])
                            /\ o.bk = op[r].bk /\ o.flag = op[r].flag /\ o.ok = op[r].ok
        BY <3>1a, Retargeted
      <3>3. PICK p \in Op : p = [o EXCEPT !.lock = k]
        BY FieldTypes
      <3>4. p.pc = "delete" /\ p = [op[r] EXCEPT !.pc = "delete", !.target = i, !.lock = k]
        BY <1>0, <3>2, <3>3 DEF Op
      <3>5. Put(r, p) /\ ~Removing(p)
        BY <2>1, <3>1, <3>4 DEF Removing
      <3> QED BY <1>2, <3>5
    <2> QED BY <1>5, <1>a, <2>1 DEF UnlockOriginal
  <1>6. CASE LockNew(r)
    BY <1>6, <1>a DEF LockNew
  <1>7. CASE DropBackup(r)
    BY <1>7, <1>b, <1>c DEF DropBackup
  <1>8. CASE DropVolume(r)
    BY <1>8, <1>b DEF DropVolume
  <1>9. CASE Reactivate(r)
    <2>1. Put(r, Discarded(op[r]))
      BY <1>9 DEF Reactivate
    <2>2. PICK x \in Op : x = op[r]
      BY <1>0
    <2>3. PICK o \in Op : /\ o = Discarded(x) /\ o # None /\ o.pc = "delete" /\ o.target = x.new
                          /\ Identity(o, x) /\ o.bk = x.bk /\ o.flag = x.flag /\ o.ok = x.ok
      BY <1>0, <2>2, DiscardedPuts
    <2> QED BY <1>2, <2>1, <2>2, <2>3 DEF Removing
  <1> QED BY <1>3, <1>4, <1>5, <1>6, <1>7, <1>8, <1>9 DEF Rebuild

LEMMA DropTidies ==
    ASSUME OpsOK, NEW r \in Request, DeleteBackupVolume(r) \/ DeleteBackupEntry(r)
    PROVE  Tidies(r)
  <1>0. op[r] # None /\ op[r] \in Op /\ op[r].pc \in DropLabel
    BY Steps DEF DeleteBackupVolume, DeleteBackupEntry, At
  <1>1. UNCHANGED <<disk, dom, db>>
    BY DEF DeleteBackupVolume, DeleteBackupEntry, libvirt, mulch
  <1>2. ASSUME NEW o \in Op \cup {None}, Put(r, o), ~Removing(o) PROVE Tidies(r)
    BY <1>0, <1>1, <1>2, IdleTidies DEF Building
  <1>3. ASSUME Go(r, "deldb") PROVE Tidies(r)
    <2>1. PICK o \in Op : Put(r, o) /\ o # None /\ o.pc = "deldb" /\ Same(o, op[r])
      BY <1>0, <1>3, GoPuts
    <2> QED BY <1>2, <2>1 DEF Removing
  <1>4. ASSUME End(r) PROVE Tidies(r)
    BY <1>2, <1>4 DEF End, Put, Removing
  <1> QED BY <1>3, <1>4 DEF DeleteBackupVolume, DeleteBackupEntry

LEMMA BeginTidies ==
    ASSUME NEW r \in Request, Begins(r)
    PROVE  Tidies(r)
  <1>1. PICK o \in Op : Put(r, o) /\ Begun(o)
    BY DEF Begins
  <1>2. op[r] = None /\ UNCHANGED <<disk, dom, db>> /\ ~Removing(o)
    BY <1>1 DEF Begins, libvirt, mulch, Begun, Removing
  <1> QED BY <1>1, <1>2, IdleTidies DEF Building

LEMMA OrphanNext ==
    ASSUME Inv, NoFault, OrphanOK, DeletionsApart, [Next]_vars
    PROVE  OrphanOK'
  <1>0. OpsOK /\ StateOK
    BY TypeParts DEF Inv
  <1>1. ASSUME UNCHANGED <<op, dom, db>>, \A i \in Revision : disk'[i] # None => disk[i] # None
        PROVE  OrphanOK'
    BY <1>1 DEF OrphanOK, Owned, RemovesOK, BuildsDisk, BuildsDomain, Present
  <1>2. CASE Users \/ UNCHANGED vars
    <2>1. CASE Write
      <3>1. disk[active] # None /\ \A i \in Revision \ {active} : disk'[i] = disk[i]
        BY <1>0, <2>1 DEF Write, StateOK
      <3> QED BY <1>1, <2>1, <3>1 DEF Write, mulch
    <2> QED BY <1>1, <1>2, <2>1 DEF Users, Stop, Start, LockUnlock, ActivateVM, vars, libvirt, mulch
  <1>3. ASSUME NEW r \in Request, Begin(r) PROVE OrphanOK'
    BY <1>0, <1>3, BeginBegins, BeginTidies, TidyKeeps
  <1>4. ASSUME NEW r \in Request,
               \/ Create(r) \/ SaveBackup(r) \/ Restore(r) \/ Delete(r) \/ Rebuild(r)
               \/ DeleteBackupVolume(r) \/ DeleteBackupEntry(r)
        PROVE  OrphanOK'
    BY <1>0, <1>4, CreateTidies, SaveBackupTidies, RestoreTidies, DeleteTidies, RebuildTidies,
       DropTidies, TidyKeeps
  <1>5. ~Restart
    BY DEF Restart, NoFault
  <1> QED BY <1>2, <1>3, <1>4, <1>5 DEF Next

-----------------------------------------------------------------------------
(* Requests that do not overlap. *)

Solo == \A r, q \in Request : op[r] # None /\ op[q] # None => r = q

LEMMA SoloNext ==
    ASSUME Inv, ~setting.overlap, Solo, [Next]_vars
    PROVE  Solo'
  <1>0. OpsOK /\ StateOK /\ MarksOK /\ TypeOK
    BY TypeParts DEF Inv
  <1>1. ASSUME NEW r \in Request, op[r] # None \/ Alone, NEW o \in Op \cup {None}, Put(r, o)
        PROVE  Solo'
    BY <1>0, <1>1, OpTypes DEF Solo, Alone
  <1>2. ASSUME NEW r \in Request, Good(r), op[r] # None \/ Alone PROVE Solo'
    BY <1>1, <1>2 DEF Good, Moves
  <1>3. ASSUME NEW r \in Request, Begin(r) PROVE Solo'
    BY <1>0, <1>1, <1>3, BeginBegins DEF Begins
  <1>4. ASSUME NEW r \in Request, Create(r) \/ Drop(r) PROVE op[r] # None
    BY <1>4 DEF Create, CreateDiskFromSeed, DefineDomain, Boot, Prepare, Add, RollbackDomain,
       RollbackDisk, Drop, DeleteBackupVolume, DeleteBackupEntry, At
  <1>5. ASSUME NEW r \in Request, SaveBackup(r) \/ Restore(r) PROVE op[r] # None
    BY <1>5 DEF SaveBackup, CheckOperation, MarkBackup, CreateBackupDisk, AttachBackup,
       BackupScripts, DetachBackup, AddBackup, UndoBackup, Restore, MarkRestore, AttachRestore,
       RestoreScripts, DetachRestore, At
  <1>6. ASSUME NEW r \in Request, Delete(r) \/ Rebuild(r) PROVE op[r] # None
    BY <1>6 DEF Delete, DeleteCheck, Destroy, DeleteDisk, Undefine, DeleteEntry,
       RebuildDHCPStaticLeases, Rebuild, Deactivate, Activate, UnlockOriginal, LockNew,
       DropBackup, DropVolume, Reactivate, At
  <1>7. ASSUME NEW r \in Request,
               \/ Create(r) \/ SaveBackup(r) \/ Restore(r) \/ Delete(r) \/ Rebuild(r)
               \/ DeleteBackupVolume(r) \/ DeleteBackupEntry(r)
        PROVE  Solo'
    BY <1>0, <1>2, <1>4, <1>5, <1>6, <1>7, CreateGood, SaveBackupGood, RestoreGood, DeleteGood,
       RebuildGood, DropGood DEF Drop
  <1>8. CASE Users \/ UNCHANGED vars
    BY <1>8 DEF Users, Stop, Start, LockUnlock, ActivateVM, Write, vars, Solo
  <1>9. CASE Restart
    BY <1>9 DEF Restart, Solo
  <1> QED BY <1>3, <1>7, <1>8, <1>9 DEF Next

\* When requests do not overlap, at most one operation is under way, also after a restart.
THEOREM OneAtATime == Spec => [](~setting.overlap => Solo)
  <1> DEFINE I == ~setting.overlap => Solo
  <1>1. Init => I
    BY DEF Init, Solo
  <1>2. Inv /\ I /\ [Next]_vars => I'
    BY SoloNext, SettingNext
  <1> QED BY <1>1, <1>2, InvHolds, PTL DEF Spec

(***************************************************************************)
(* A step that fails leaves nothing behind (the deferred calls of NewVM,   *)
(* the order in which VMDelete deletes): a disk or a domain belongs to an  *)
(* entry of the database, or to a creation or a deletion that is not over. *)
(* Requests may overlap, as long as no two remove one revision at once: if *)
(* two do, the entry of the second may be that of a revision made since,   *)
(* whose disk and domain then stay.                                        *)
(***************************************************************************)
THEOREM NothingIsOrphaned ==
    Spec /\ [](setting.overlap => DeletionsApart) => []NoOrphans
  <1> DEFINE I == NoFault => OrphanOK
             Apart == setting.overlap => DeletionsApart
             Serial == ~setting.overlap => Solo
  <1>1. Init => I
    <2> SUFFICES ASSUME Init PROVE OrphanOK
      OBVIOUS
    <2>1. PICK v \in VM : v = CHOOSE u \in VM : TRUE
      BY LifecycleAssumption
    <2>2. dom = [i \in Revision |-> IF i = 0 THEN v ELSE None] /\ db = dom
      BY <2>1 DEF Init
    <2>3. disk = [i \in Revision |-> IF i = 0 THEN {} ELSE None]
      BY DEF Init
    <2>4. \A i \in Revision : disk[i] # None \/ dom[i] # None => i \in Present
      BY <2>2, <2>3, NoneIsNoContent DEF Present
    <2>5. \A r \in Request : op[r] = None
      BY DEF Init
    <2> QED BY <2>4, <2>5 DEF OrphanOK, Owned, RemovesOK, Removing
  <1>2. Inv /\ Serial /\ Apart /\ I /\ [Next]_vars => I'
    <2>1. Serial /\ Apart => DeletionsApart
      BY DEF DeletionsApart, Solo, Removing
    <2> QED BY <2>1, OrphanNext, SettingNext DEF NoFault
  <1>3. I => NoOrphans
    <2> SUFFICES ASSUME OrphanOK, NEW i \in Revision, disk[i] # None \/ dom[i] # None, i \notin Present
                 PROVE  \E r \in Request : op[r] # None /\ i \in {op[r].new, op[r].target}
      BY DEF NoOrphans, NoFault
    <2> QED BY DEF OrphanOK, Owned, BuildsDisk, BuildsDomain, BuildingDomain, Building
  <1> QED BY <1>1, <1>2, <1>3, InvHolds, OneAtATime, PTL DEF Spec

-----------------------------------------------------------------------------
(* The invariant about data: requests do not overlap, calls that undo do not fail. *)

\* ServedDataIsCurrent, in its setting.
Served == active # None => data # None /\ data \subseteq Stored(disk[active])

\* A revision with the data of the users, which a restart keeps.
Holds(i) == i \in Present /\ dom[i] # None /\ data \subseteq Stored(disk[i])

\* If users wait for their data, a revision that is not k has it.
SpareBut(k) == data # None /\ active = None => \E i \in Revision \ {k} : Holds(i)

\* Without scripts nothing is written.
Blank ==
    ~setting.scripts =>
        /\ data \in {None, {}} /\ bdb = {}
        /\ \A i \in Revision : Stored(disk[i]) = {}

Kept == Served /\ SpareBut(None) /\ Blank

\* VMRebuild has set the original inactive, and will set a revision active.
Copying == BackupLabel \cup RestoreLabel \cup {"activate"}
Dropping == {"drop", "dropvol"}

Paused(x) ==
    /\ x.kind = "rebuild" /\ x.flag
    /\ \/ x.pc \in Copying \cup {"reactivate"}
       \/ x.pc \in Dropping /\ ~x.ok

Waits == setting.fault = "none" /\ data # None /\ active = None

Awaited == Waits => \E r \in Request : op[r] # None /\ Paused(op[r])

\* What a rebuild may still go back to: the original.
UndoOK(x) ==
    /\ x.rev # x.new /\ x.rev \in Present /\ dom[x.rev] # None
    /\ IF x.flag
       THEN data # None /\ data \subseteq Stored(disk[x.rev]) /\ (active = None \/ ~setting.scripts)
       ELSE active # x.new /\ SpareBut(x.new)

\* The new revision is not in the database yet.
BuildOK(x) ==
    /\ x.new \notin Present
    /\ x.pc \notin {"disk", "define", "undomain", "undisk"} => dom[x.new] # None
    /\ x.kind = "rebuild" => x.rev \in Present /\ dom[x.rev] # None

\* The backup of the original, then the new revision, has its data.
Copied(x, content) == disk[x.rev] # None /\ content = disk[x.rev]

CopyOK(x) ==
    /\ UndoOK(x) /\ x.new \in Present /\ dom[x.new] # None
    /\ x.flag => active = None
    /\ ~x.flag => active # x.rev /\ x.pc # "activate"
    /\ x.pc \in {"bdetach", "badd"} \cup (RestoreLabel \ {"rdetach"}) => Copied(x, bvol[x.bk])
    /\ x.pc = "rdetach" /\ x.ok => Copied(x, disk[x.new])
    /\ x.pc = "activate" /\ setting.scripts => Copied(x, disk[x.new])

\* The original may go.
RemoveOK(x) ==
    /\ x.rev # x.new /\ SpareBut(x.rev)
    /\ IF x.flag THEN active = x.new ELSE active \notin {x.rev, x.new}
    /\ x.pc # "dhcp" => x.rev \in Present
    /\ x.pc \in {"unlock", "delete", "destroy", "deldisk"} =>
            dom[x.rev] # None /\ (setting.scripts => disk[x.rev] # None)
    /\ x.pc = "delete" => db[x.rev] \notin locked
    /\ x.pc \in DomainLabel => dom[x.rev] = x.handle

StepOK(x) ==
    /\ ~setting.scripts => x.bk = None
    /\ x.kind = "create" => BuildOK(x)
    /\ x.kind = "delete" /\ x.pc \in {"undefine", "delentry"} => active # None \/ data = None
    /\ x.kind = "rebuild" =>
        /\ x.ok => x.pc \in {"rdetach", "relock"} \cup Dropping
        /\ x.pc \in NewVMLabel => ~x.flag /\ BuildOK(x)
        /\ x.pc = "deactivate" => ~x.flag /\ UndoOK(x) /\ x.new \in Present /\ dom[x.new] # None
        /\ x.pc \in Copying => CopyOK(x)
        /\ x.pc = "unlock" => RemoveOK(x)
        /\ x.pc \in DeleteLabel =>
              IF x.target = x.rev THEN RemoveOK(x)
              ELSE x.target = x.new /\ active # x.new /\ SpareBut(x.new)
        /\ x.pc \in Dropping /\ ~x.ok => UndoOK(x)
        /\ x.pc = "reactivate" => x.flag /\ UndoOK(x)
        /\ x.pc = "relock" => x.ok

StepsOK == \A r \in Request : op[r] # None => StepOK(op[r])

DataOK == Kept /\ Awaited /\ StepsOK

\* What a step of the only request has to show.
Advances(r) ==
    \E o \in Op \cup {None} :
        /\ Put(r, o) /\ Kept'
        /\ o # None => StepOK(o)'
        /\ Waits' => o # None /\ Paused(o)

LEMMA AdvancesKeeps ==
    ASSUME OpsOK, Solo, NEW r \in Request, op[r] # None \/ Alone, Advances(r)
    PROVE  DataOK'
  <1>1. PICK o \in Op \cup {None} : /\ Put(r, o) /\ Kept'
                                    /\ o # None => StepOK(o)'
                                    /\ Waits' => o # None /\ Paused(o)
    BY DEF Advances
  <1>2. op'[r] = o /\ \A q \in Request \ {r} : op'[q] = op[q]
    BY <1>1, OpTypes
  <1>3. \A q \in Request \ {r} : op'[q] = None
    BY <1>2 DEF Solo, Alone
  <1>4. ASSUME NEW q \in Request, op'[q] # None PROVE StepOK(op[q])'
    <2>1. q = r /\ op'[q] = o
      BY <1>2, <1>3, <1>4
    <2>2. StepOK(o)'
      BY <1>1, <1>4, <2>1
    <2> QED BY <2>1, <2>2 DEF StepOK, BuildOK, UndoOK, CopyOK, RemoveOK, Copied, SpareBut
  <1>5. Awaited'
    BY <1>1, <1>2 DEF Awaited, Paused
  <1> QED BY <1>1, <1>4, <1>5 DEF DataOK, StepsOK

LEMMA Now ==
    ASSUME OpsOK, Solo, DataOK, NEW r \in Request, op[r] # None
    PROVE  /\ op[r] \in Op /\ StepOK(op[r]) /\ Kept
           /\ Waits => Paused(op[r])
  BY Steps DEF Solo, DataOK, StepsOK, Awaited

\* A step of the only request, where x is its operation.
DataSame == UNCHANGED <<setting, disk, dom, db, active, data>>

LEMMA Frame ==
    ASSUME DataSame, NEW x
    PROVE  /\ \A k : SpareBut(k)' <=> SpareBut(k)
           /\ UndoOK(x)' <=> UndoOK(x)
           /\ BuildOK(x)' <=> BuildOK(x)
           /\ bvol' = bvol => (CopyOK(x)' <=> CopyOK(x))
           /\ locked' = locked => (RemoveOK(x)' <=> RemoveOK(x))
           /\ Waits' <=> Waits
           /\ Served' <=> Served
           /\ bdb' = bdb => (Blank' <=> Blank)
  <1>1. Present' = Present /\ \A i : Holds(i)' <=> Holds(i)
    BY DEF DataSame, Present, Holds
  <1>2. \A k : SpareBut(k)' <=> SpareBut(k)
    BY <1>1 DEF DataSame, SpareBut
  <1>3. UndoOK(x)' <=> UndoOK(x)
    BY <1>1, <1>2 DEF DataSame, UndoOK
  <1>4. BuildOK(x)' <=> BuildOK(x)
    BY <1>1 DEF DataSame, BuildOK
  <1>5. bvol' = bvol => (CopyOK(x)' <=> CopyOK(x))
    BY <1>1, <1>3 DEF DataSame, CopyOK, Copied
  <1>6. locked' = locked => (RemoveOK(x)' <=> RemoveOK(x))
    BY <1>1, <1>2 DEF DataSame, RemoveOK
  <1>7. (Waits' <=> Waits) /\ (Served' <=> Served) /\ (bdb' = bdb => (Blank' <=> Blank))
    BY DEF DataSame, Waits, Served, Blank
  <1> QED BY <1>2, <1>3, <1>4, <1>5, <1>6, <1>7

\* Nothing changes but the operation.
LEMMA FrameStep ==
    ASSUME DataSame, UNCHANGED <<bvol, locked>>, NEW x, StepOK(x)
    PROVE  StepOK(x)'
  <1>1. \A k : SpareBut(k)' <=> SpareBut(k)
    BY Frame
  <1>2. /\ UndoOK(x)' <=> UndoOK(x)
        /\ BuildOK(x)' <=> BuildOK(x)
        /\ CopyOK(x)' <=> CopyOK(x)
        /\ RemoveOK(x)' <=> RemoveOK(x)
    BY Frame
  <1>3. Present' = Present /\ setting' = setting /\ active' = active /\ data' = data /\ dom' = dom
    BY DEF DataSame, Present
  <1> QED BY <1>1, <1>2, <1>3 DEF StepOK

\* GetNextRevisionForName never returns a revision that exists.
LEMMA NextRevisionIsNew ==
    ASSUME NextRevision \in Revision
    PROVE  NextRevision \notin Present
  <1>1. CASE Present = {}
    BY <1>1
  <1>2. CASE Present # {}
    <2>1. PICK below : below = {MaxRevision - i : i \in Present}
      OBVIOUS
    <2>2. below \in SUBSET Nat /\ \A i \in Present : i \in Int /\ i \in 0..MaxRevision
      BY <2>1, LifecycleAssumption DEF Present, Revision
    <2>3. PICK m \in below : \A n \in below : <<n, m>> \notin OpToRel(<, Nat)
      <3>1. below # {}
        BY <1>2, <2>1
      <3> QED BY <2>2, <3>1, NatLessThanWellFounded, WFMin, Zenon
    <2>4. \A n \in below : n \in Nat /\ ~(n < m)
      BY <2>2, <2>3 DEF OpToRel
    <2>5. PICK h \in Present : m = MaxRevision - h
      BY <2>1
    <2>6. \A j \in Present : j <= h
      <3> TAKE j \in Present
      <3>1. MaxRevision - j \in below
        BY <2>1
      <3> QED BY <2>2, <2>4, <2>5, <3>1, LifecycleAssumption
    <2>7. h + 1 \in 0..(MaxRevision + 1)
      BY <2>2, LifecycleAssumption
    <2> DEFINE Next1(n) == IF Present = {} THEN n = 0
                           ELSE \E i \in Present : n = i + 1 /\ \A j \in Present : j <= i
    <2>8. Next1(h + 1)
      BY <1>2, <2>6
    <2>9. Next1(NextRevision)
      <3> HIDE DEF Next1
      <3>1. \E n \in 0..(MaxRevision + 1) : Next1(n)
        BY <2>7, <2>8
      <3>2. NextRevision = CHOOSE n \in 0..(MaxRevision + 1) : Next1(n)
        BY DEF NextRevision, Next1
      <3> QED BY <3>1, <3>2, Zenon
    <2>10. PICK i \in Present : NextRevision = i + 1 /\ \A j \in Present : j <= i
      BY <1>2, <2>9
    <2> QED BY <2>2, <2>10
  <1> QED BY <1>1, <1>2

LEMMA BeginAdvances ==
    ASSUME StateOK, OpsOK, Solo, DataOK, ~setting.overlap, NEW r \in Request, Begins(r)
    PROVE  Advances(r)
  <1>1. PICK o \in Op : Put(r, o) /\ Begun(o)
    BY DEF Begins
  <1>2. Alone /\ DataSame /\ UNCHANGED <<bvol, bdb, locked>> /\ Kept
    BY DEF Begins, DataSame, libvirt, mulch, users, DataOK
  <1>3. Kept' /\ ~Waits'
    <2>1. ~Waits
      BY <1>2 DEF DataOK, Awaited, Alone
    <2> QED BY <1>2, <2>1, Frame DEF Kept
  <1>4. StepOK(o)
    <2>1. o.new = NextRevision => o.new \notin Present \/ o.new \notin Revision
      BY NextRevisionIsNew
    <2>2. ~setting.scripts => bdb = {}
      BY <1>2 DEF Kept, Blank
    <2>3. CASE o.kind \in {"create", "rebuild"}
      BY <1>1, <2>1, <2>2, <2>3 DEF Begun, StepOK, BuildOK, Running, Copying, Dropping
    <2>4. CASE o.kind \in {"backup", "delete", "restore", "drop"}
      BY <1>1, <2>2, <2>4 DEF Begun, StepOK
    <2> QED BY <2>3, <2>4 DEF Op
  <1> QED BY <1>1, <1>2, <1>3, <1>4, FrameStep DEF Advances

\* The deferred calls of VMRebuild begin.
LEMMA UndoAdvances ==
    ASSUME OpsOK, Solo, DataOK, NEW r \in Request, op[r] # None, NEW y \in Op,
           NEW o \in Op \cup {None}, Put(r, o), Undoes(y, o), Identity(y, op[r]), y.flag = op[r].flag,
           op[r].kind = "rebuild", ~y.ok, UndoOK(op[r]), ~setting.scripts => y.bk = None,
           DataSame, Blank'
    PROVE  Advances(r)
  <1>1. Kept /\ StepOK(op[r]) /\ (Waits => Paused(op[r]))
    BY Now
  <1>2. o \in Op /\ o # None /\ Identity(o, y) /\ o.flag = y.flag /\ ~o.ok /\ o.bk = y.bk
    BY DEF Undoes
  <1>3. o.rev = op[r].rev /\ o.new = op[r].new /\ o.kind = "rebuild" /\ o.flag = op[r].flag
    BY <1>2 DEF Identity
  <1>4. UndoOK(o)
    BY <1>3 DEF UndoOK
  <1>5. \/ o.pc = "drop"
        \/ o.pc = "reactivate" /\ o.flag
        \/ o.pc = "delete" /\ ~o.flag /\ o.target = o.new
    BY <1>2, <1>3 DEF Undoes, Identity
  <1>6. StepOK(o)'
    <2>1. UndoOK(o)' /\ (SpareBut(o.new)' <=> SpareBut(o.new)) /\ setting' = setting /\ active' = active
      BY <1>4, Frame DEF DataSame
    <2>2. ~setting.scripts => o.bk = None
      BY <1>2
    <2>3. CASE o.pc = "drop"
      BY <1>2, <1>3, <2>1, <2>2, <2>3 DEF StepOK, Dropping, Copying
    <2>4. CASE o.pc = "reactivate" /\ o.flag
      BY <1>2, <1>3, <2>1, <2>2, <2>4 DEF StepOK, Dropping, Copying
    <2>5. CASE o.pc = "delete" /\ ~o.flag /\ o.target = o.new
      <3>1. o.target # o.rev /\ active # o.new /\ SpareBut(o.new)
        BY <1>4, <2>5 DEF UndoOK
      <3> QED BY <1>2, <1>3, <2>1, <2>2, <2>5, <3>1 DEF StepOK, Dropping, Copying
    <2> QED BY <1>5, <2>3, <2>4, <2>5
  <1>7. Kept'
    BY <1>1, Frame DEF Kept
  <1>8. Waits' => Paused(o)
    BY <1>1, <1>2, <1>3, Frame DEF Paused, Undoes, Dropping
  <1> QED BY <1>2, <1>6, <1>7, <1>8 DEF Advances

\* What is changed beside the database: revision i is not in it.
LEMMA AsideKeeps ==
    ASSUME StateOK, Kept, NEW i \in Revision, i \notin Present, UNCHANGED <<setting, db, active, data, bdb>>,
           \A j \in Revision \ {i} : disk'[j] = disk[j] /\ dom'[j] = dom[j],
           setting.scripts \/ Stored(disk'[i]) = {}
    PROVE  Kept' /\ (Waits' <=> Waits)
  <1>1. Present' = Present /\ active \in Present \cup {None}
    BY DEF Present, StateOK
  <1>2. Served'
    BY <1>1 DEF Served, Kept, Present
  <1>3. SpareBut(None)'
    BY <1>1 DEF SpareBut, Kept, Holds, Present
  <1>4. Blank'
    BY DEF Blank, Kept
  <1> QED BY <1>2, <1>3, <1>4 DEF Kept, Waits

LEMMA CreateAdvances ==
    ASSUME StateOK, OpsOK, Solo, DataOK, ~Partial, NEW r \in Request, Create(r)
    PROVE  Advances(r)
  <1>0. op[r] # None /\ op[r] \in Op /\ op[r].pc \in NewVMLabel /\ op[r].new \in Revision
        /\ op[r].vm \in VM /\ op[r].kind \in {"create", "rebuild"}
        /\ (op[r].kind = "rebuild" => op[r].bk = None)
    BY Steps DEF Create, CreateDiskFromSeed, DefineDomain, Boot, Prepare, Add, RollbackDomain,
       RollbackDisk, At, WellFormed, Fits
  <1>1. Kept /\ StepOK(op[r]) /\ ~Waits
    BY <1>0, Now DEF Paused, Copying, Dropping
  <1>2. BuildOK(op[r]) /\ (op[r].kind = "rebuild" => ~op[r].flag /\ ~op[r].ok)
        /\ (~setting.scripts => op[r].bk = None)
    BY <1>0, <1>1 DEF StepOK, Dropping
  <1>2a. op[r].new \notin Present /\ (op[r].kind = "rebuild" => op[r].rev \in Present /\ dom[op[r].rev] # None)
         /\ (op[r].pc \notin {"disk", "define", "undomain", "undisk"} => dom[op[r].new] # None)
    BY <1>2 DEF BuildOK
  <1>a. ASSUME Put(r, None), Kept', Waits' <=> Waits PROVE Advances(r)
    BY <1>1, <1>a DEF Advances
  <1>b. ASSUME NEW l \in NewVMLabel \cup RestoreLabel, Go(r, l), op[r].kind = "create" \/ l \in NewVMLabel,
               l \notin {"disk", "define", "undomain", "undisk"} => dom'[op[r].new] # None,
               UNCHANGED <<setting, db>>, \A i \in Revision \ {op[r].new} : dom'[i] = dom[i],
               Kept', Waits' <=> Waits
        PROVE  Advances(r)
    <2>1. PICK o \in Op : Put(r, o) /\ o # None /\ o.pc = l /\ Same(o, op[r])
      BY <1>0, <1>b, GoPuts
    <2>2. o.new = op[r].new /\ o.rev = op[r].rev /\ o.kind = op[r].kind /\ o.flag = op[r].flag
          /\ o.bk = op[r].bk /\ o.ok = op[r].ok
      BY <2>1 DEF Same, Identity
    <2>3. Present' = Present
      BY <1>b DEF Present
    <2>4. BuildOK(o)'
      <3>1. o.new \notin Present'
        BY <1>2a, <2>2, <2>3
      <3>2. o.pc \notin {"disk", "define", "undomain", "undisk"} => dom'[o.new] # None
        BY <1>b, <2>1, <2>2
      <3>3. o.kind = "rebuild" => o.rev \in Present' /\ dom'[o.rev] # None
        BY <1>2a, <1>b, <2>2, <2>3 DEF Present
      <3> QED BY <3>1, <3>2, <3>3 DEF BuildOK
    <2>5. StepOK(o)'
      <3>1. CASE o.kind = "create"
        BY <1>2, <1>b, <2>2, <2>4, <3>1 DEF StepOK
      <3>2. CASE o.kind = "rebuild"
        BY <1>2, <1>b, <2>1, <2>2, <2>4, <3>2 DEF StepOK, Copying, Dropping
      <3> QED BY <1>0, <2>2, <3>1, <3>2
    <2> QED BY <1>1, <1>b, <2>1, <2>5 DEF Advances
  <1>c. ASSUME UNCHANGED <<setting, db, active, data, bdb>>,
               \A j \in Revision \ {op[r].new} : disk'[j] = disk[j] /\ dom'[j] = dom[j],
               disk' = disk \/ disk'[op[r].new] \in {None, {}}
        PROVE  Kept' /\ (Waits' <=> Waits)
    <2>1. setting.scripts \/ Stored(disk'[op[r].new]) = {}
      BY <1>0, <1>1, <1>c DEF Kept, Blank, Stored
    <2> QED BY <1>0, <1>1, <1>2a, <1>c, <2>1, AsideKeeps
  <1>3. CASE CreateDiskFromSeed(r)
    <2>0. op[r].pc = "disk" /\ UNCHANGED <<setting, dom, db, active, data, bdb>>
      BY <1>3 DEF CreateDiskFromSeed, At, mulch, users
    <2>1. CASE End(r) /\ UNCHANGED disk
      BY <1>a, <1>c, <2>0, <2>1 DEF End, Put
    <2>2. CASE disk' = [disk EXCEPT ![op[r].new] = {}] /\ Go(r, "define")
      BY <1>0, <1>b, <1>c, <2>0, <2>2 DEF StateOK
    <2> QED BY <1>3, <2>1, <2>2 DEF CreateDiskFromSeed
  <1>4. CASE DefineDomain(r)
    <2>0. op[r].pc = "define" /\ UNCHANGED <<setting, disk, db, active, data, bdb>>
      BY <1>4 DEF DefineDomain, At, mulch, users
    <2>1. CASE Go(r, "undisk") /\ UNCHANGED dom
      BY <1>b, <1>c, <2>0, <2>1
    <2>2. CASE dom' = [dom EXCEPT ![op[r].new] = op[r].vm] /\ Go(r, "boot")
      <3>1. dom'[op[r].new] # None
        BY <1>0, <2>2, LifecycleAssumption DEF StateOK
      <3> QED BY <1>0, <1>b, <1>c, <2>0, <2>2, <3>1 DEF StateOK
    <2> QED BY <1>4, <2>1, <2>2 DEF DefineDomain
  <1>5. CASE Boot(r)
    <2>0. op[r].pc = "boot" /\ UNCHANGED <<setting, disk, dom, db, active, data, bdb>>
      BY <1>5 DEF Boot, At, mulch, users
    <2>1. Go(r, "prepare") \/ Go(r, "undomain")
      BY <1>5 DEF Boot
    <2> QED BY <1>2a, <1>b, <1>c, <2>0, <2>1
  <1>6. CASE Prepare(r)
    <2>0. op[r].pc = "prepare" /\ UNCHANGED <<setting, disk, dom, db, active, data, bdb>>
      BY <1>6 DEF Prepare, At, mulch, users, libvirt
    <2>1. Go(r, "undomain") \/ (op[r].bk = None /\ Go(r, "add")) \/ (op[r].bk # None /\ Go(r, "rmark"))
      BY <1>6 DEF Prepare
    <2> QED BY <1>0, <1>2a, <1>b, <1>c, <2>0, <2>1
  <1>7. CASE Add(r)
    <2>0. op[r].pc = "add" /\ UNCHANGED <<setting, disk, dom, bdb>>
      BY <1>7 DEF Add, At, libvirt
    <2>1. CASE Go(r, "undomain") /\ UNCHANGED <<db, data, active>>
      BY <1>b, <1>c, <2>0, <2>1
    <2>2. CASE /\ db' = [db EXCEPT ![op[r].new] = op[r].vm]
               /\ active' = (IF op[r].flag THEN op[r].new ELSE active)
               /\ data' = (IF op[r].flag THEN Expected(op[r].new, disk) ELSE data)
               /\ IF op[r].kind = "create" THEN End(r) ELSE Go(r, "deactivate")
      <3>1. op[r].new # None /\ op[r].vm # None
        BY <1>0, LifecycleAssumption
      <3>2. Present' = Present \cup {op[r].new}
        BY <1>0, <2>2, <3>1 DEF Present, StateOK
      <3>3. CASE op[r].flag
        <4>1. active' = op[r].new /\ data' = Stored(disk[op[r].new]) /\ op[r].kind = "create"
          BY <1>0, <1>2, <2>2, <3>1, <3>3 DEF Expected
        <4>2. data' # None
          BY <1>0, <4>1, NoneIsNoContent DEF StateOK, Stored, Content
        <4>3. Kept' /\ ~Waits'
          BY <1>0, <1>1, <2>0, <3>1, <4>1, <4>2 DEF Kept, Served, SpareBut, Blank, Waits
        <4> QED BY <2>2, <4>1, <4>3 DEF End, Put, Advances
      <3>4. CASE ~op[r].flag
        <4>1. active' = active /\ data' = data
          BY <2>2, <3>4
        <4>2. \A i \in Present : Holds(i) => Holds(i)'
          BY <2>0, <3>2, <4>1 DEF Holds
        <4>3. \A i \in Revision : Holds(i) => i \in Present
          BY DEF Holds
        <4>3a. PICK n \in Revision : n = op[r].new
          BY <1>0
        <4>4. SpareBut(None)' /\ SpareBut(n)'
          BY <1>1, <1>2a, <4>1, <4>2, <4>3, <4>3a DEF Kept, SpareBut
        <4>5. Kept' /\ ~Waits'
          BY <1>1, <2>0, <4>1, <4>4 DEF Kept, Served, Blank, Waits
        <4>6. CASE op[r].kind = "create"
          BY <2>2, <4>5, <4>6 DEF End, Put, Advances
        <4>7. CASE op[r].kind = "rebuild"
          <5>1. PICK o \in Op : Put(r, o) /\ o # None /\ o.pc = "deactivate" /\ Same(o, op[r])
            BY <1>0, <2>2, <4>7, GoPuts
          <5>2. o.new = op[r].new /\ o.rev = op[r].rev /\ o.kind = "rebuild" /\ ~o.flag
                /\ o.bk = op[r].bk /\ ~o.ok
            BY <1>2, <4>7, <5>1 DEF Same, Identity
          <5>3. o.rev # o.new /\ o.rev \in Present' /\ dom'[o.rev] # None
                /\ o.new \in Present' /\ dom'[o.new] # None
            BY <1>2a, <2>0, <3>2, <4>7, <5>2
          <5>4. active' # o.new
            BY <1>2a, <3>1, <4>1, <5>2 DEF StateOK
          <5>5. UndoOK(o)'
            BY <4>3a, <4>4, <5>2, <5>3, <5>4 DEF UndoOK
          <5>6. StepOK(o)'
            BY <1>2, <2>0, <5>1, <5>2, <5>3, <5>5 DEF StepOK, Copying, Dropping
          <5> QED BY <4>5, <5>1, <5>6 DEF Advances
        <4> QED BY <1>0, <4>6, <4>7
      <3> QED BY <3>3, <3>4
    <2> QED BY <1>7, <2>1, <2>2 DEF Add
  <1>8. CASE RollbackDomain(r)
    <2>0. /\ op[r].pc = "undomain" /\ UNCHANGED <<setting, disk, db, active, data, bdb>>
          /\ Go(r, "undisk")
          /\ dom' = [dom EXCEPT ![op[r].new] = IF @ = op[r].vm THEN None ELSE @]
      BY <1>8 DEF RollbackDomain, At, mulch, users
    <2>1. \A i \in Revision \ {op[r].new} : dom'[i] = dom[i]
      BY <1>0, <2>0 DEF StateOK
    <2> QED BY <1>b, <1>c, <2>0, <2>1
  <1>9. CASE RollbackDisk(r)
    <2>0. /\ UNCHANGED <<setting, dom, db, active, data, bdb>> /\ Put(r, None)
          /\ disk' = [disk EXCEPT ![op[r].new] = None]
      BY <1>9 DEF RollbackDisk, mulch, users, End, Put
    <2> QED BY <1>0, <1>a, <1>c, <2>0 DEF StateOK
  <1> QED BY <1>3, <1>4, <1>5, <1>6, <1>7, <1>8, <1>9 DEF Create

LEMMA SaveBackupAdvances ==
    ASSUME StateOK, OpsOK, Solo, DataOK, ~Partial, NEW r \in Request, SaveBackup(r)
    PROVE  Advances(r)
  <1>0. /\ op[r] # None /\ op[r] \in Op /\ op[r].pc \in BackupLabel /\ op[r].kind \in {"backup", "rebuild"}
        /\ op[r].rev \in Revision /\ (op[r].pc \in VolumeLabel => op[r].bk \in Backup)
    BY Steps DEF SaveBackup, CheckOperation, MarkBackup, CreateBackupDisk, AttachBackup,
       BackupScripts, DetachBackup, AddBackup, UndoBackup, At, WellFormed, Fits
  <1>1. Kept /\ StepOK(op[r]) /\ (Waits => Paused(op[r]))
    BY <1>0, Now
  <1>2. DataSame /\ locked' = locked
    BY DEF SaveBackup, CheckOperation, MarkBackup, SetOperation, CreateBackupDisk, AttachBackup,
       BackupScripts, DetachBackup, AddBackup, UndoBackup, DataSame, libvirt, mulch, users
  <1>3. /\ ~setting.scripts => op[r].bk = None
        /\ op[r].kind = "rebuild" => CopyOK(op[r]) /\ ~op[r].ok
    BY <1>0, <1>1 DEF StepOK, Copying, Dropping
  <1>3a. op[r].kind = "rebuild" => UndoOK(op[r])
    BY <1>3 DEF CopyOK
  <1>4. op[r].pc \in VolumeLabel => setting.scripts
    BY <1>0, <1>3, LifecycleAssumption
  <1>5. ASSUME bdb' = bdb \/ setting.scripts PROVE Blank' /\ Kept'
    <2>1. Blank'
      BY <1>1, <1>2, <1>5, Frame DEF Kept, Blank, DataSame
    <2> QED BY <1>1, <1>2, <2>1, Frame DEF Kept
  <1>a. ASSUME BackupFails(r), bdb' = bdb PROVE Advances(r)
    <2>1. CASE op[r].kind = "backup" /\ Put(r, None)
      <3>1. ~Waits'
        BY <1>1, <1>2, <2>1, Frame DEF Paused
      <3> QED BY <1>5, <1>a, <2>1, <3>1 DEF Advances
    <2>2. ASSUME op[r].kind = "rebuild", NEW y \in Op, NEW o \in Op \cup {None}, Put(r, o), Undoes(y, o),
                 Identity(y, op[r]), y.bk = None, y.flag = op[r].flag, y.ok = op[r].ok
          PROVE  Advances(r)
      BY <1>0, <1>2, <1>3, <1>3a, <1>5, <1>a, <2>2, UndoAdvances
    <2> QED BY <1>0, <1>a, <2>1, <2>2, BackupFailsPuts
  <1>b. ASSUME NEW o \in Op, Put(r, o), o # None, Identity(o, op[r]), o.flag = op[r].flag, o.ok = op[r].ok,
               o.pc \in BackupLabel \cup {"rmark"}, ~setting.scripts => o.bk = None,
               bdb' = bdb \/ setting.scripts,
               op[r].kind = "rebuild" /\ o.pc \in {"bdetach", "badd", "rmark"} =>
                    disk[op[r].rev] # None /\ bvol'[o.bk] = disk[op[r].rev]
        PROVE  Advances(r)
    <2>1. o.rev = op[r].rev /\ o.new = op[r].new /\ o.kind = op[r].kind
      BY <1>b DEF Identity
    <2>2. CASE o.kind = "rebuild"
      <3>1. UndoOK(o)'
        <4>1. UndoOK(o)
          BY <1>3a, <1>b, <2>1, <2>2 DEF UndoOK
        <4> QED BY <1>2, <4>1, Frame
      <3>2. /\ o.new \in Present' /\ dom'[o.new] # None
            /\ o.flag => active' = None
            /\ ~o.flag => active' # o.rev /\ o.pc # "activate"
        BY <1>2, <1>3, <1>b, <2>1, <2>2 DEF CopyOK, DataSame, Present
      <3>3. o.pc \in {"bdetach", "badd"} \cup (RestoreLabel \ {"rdetach"}) => Copied(o, bvol[o.bk])'
        BY <1>2, <1>b, <2>1, <2>2 DEF DataSame, Copied
      <3>4. CopyOK(o)'
        BY <1>b, <3>1, <3>2, <3>3 DEF CopyOK
      <3>5. StepOK(o)'
        BY <1>2, <1>3, <1>b, <2>1, <2>2, <3>4 DEF StepOK, Copying, Dropping, DataSame
      <3>6. Waits' => Paused(o)
        BY <1>1, <1>2, <1>b, <2>1, Frame DEF Paused, Copying
      <3> QED BY <1>5, <1>b, <3>5, <3>6 DEF Advances
    <2>3. CASE o.kind = "backup"
      <3>1. StepOK(o)'
        BY <1>2, <1>b, <2>3 DEF StepOK, DataSame
      <3>2. ~Waits'
        BY <1>1, <1>2, <2>1, <2>3, Frame DEF Paused
      <3> QED BY <1>5, <1>b, <3>1, <3>2 DEF Advances
    <2> QED BY <1>0, <2>1, <2>2, <2>3
  <1>c. ASSUME NEW l \in BackupLabel, Go(r, l), bdb' = bdb,
               op[r].kind = "rebuild" /\ l \in {"bdetach", "badd"} =>
                    disk[op[r].rev] # None /\ bvol'[op[r].bk] = disk[op[r].rev]
        PROVE  Advances(r)
    <2>1. PICK o \in Op : Put(r, o) /\ o # None /\ o.pc = l /\ Same(o, op[r])
      BY <1>0, <1>c, GoPuts
    <2> QED BY <1>3, <1>b, <1>c, <2>1 DEF Same
  <1>6. CASE CheckOperation(r)
    <2>1. bdb' = bdb
      BY <1>6 DEF CheckOperation, mulch
    <2>2. CASE op[r].rev \in Present
               /\ Put(r, [op[r] EXCEPT !.pc = "bmark", !.held = db[op[r].rev]])
      <3>1. PICK v \in VM : v = db[op[r].rev]
        BY <1>0, <2>2 DEF StateOK, Present
      <3>2. PICK o \in Op : /\ o = [op[r] EXCEPT !.pc = "bmark", !.held = v]
                            /\ o.pc = "bmark" /\ o.held = v /\ Identity(o, op[r])
                            /\ o.bk = op[r].bk /\ o.flag = op[r].flag /\ o.ok = op[r].ok
        BY <1>0, Marked
      <3>3. Put(r, o) /\ o # None
        BY <2>2, <3>1, <3>2, SentinelAssumption
      <3> QED BY <1>3, <1>b, <2>1, <3>2, <3>3
    <2> QED BY <1>6, <1>a, <2>1, <2>2 DEF CheckOperation
  <1>7. CASE MarkBackup(r)
    BY <1>7, <1>c DEF MarkBackup, SetOperation
  <1>8. CASE CreateBackupDisk(r)
    <2>1. CASE BackupFails(r)
      BY <1>8, <1>a, <2>1 DEF CreateBackupDisk
    <2>2. ASSUME NEW b \in Backup, setting.scripts, Put(r, [op[r] EXCEPT !.pc = "battach", !.bk = b])
          PROVE  Advances(r)
      <3>1. PICK o \in Op : /\ o = [op[r] EXCEPT !.pc = "battach", !.bk = b]
                            /\ o.pc = "battach" /\ o.bk = b /\ Identity(o, op[r])
                            /\ o.held = op[r].held /\ o.flag = op[r].flag /\ o.ok = op[r].ok
        BY <1>0, Backed
      <3>2. Put(r, o) /\ o # None
        BY <2>2, <3>1, SentinelAssumption
      <3> QED BY <1>b, <2>2, <3>1, <3>2
    <2> QED BY <1>8, <2>1, <2>2 DEF CreateBackupDisk
  <1>9. CASE AttachBackup(r)
    <2>1. Go(r, "bscripts") \/ BackupFails(r)
      BY <1>9 DEF AttachBackup
    <2> QED BY <1>9, <1>a, <1>c, <2>1 DEF AttachBackup
  <1>10. CASE BackupScripts(r)
    <2>0. bdb' = bdb /\ op[r].pc = "bscripts"
      BY <1>10 DEF BackupScripts, mulch, At
    <2>1. CASE Go(r, "bundo")
      BY <1>c, <2>0, <2>1
    <2>2. CASE /\ disk[op[r].rev] # None
               /\ bvol' = [bvol EXCEPT ![op[r].bk] = disk[op[r].rev]] /\ Go(r, "bdetach")
      <3>1. bvol'[op[r].bk] = disk[op[r].rev]
        BY <1>0, <2>0, <2>2 DEF StateOK
      <3> QED BY <1>c, <2>0, <2>2, <3>1
    <2> QED BY <1>10, <2>1, <2>2 DEF BackupScripts
  <1>11. CASE DetachBackup(r)
    <2>0. bdb' = bdb /\ bvol' = bvol /\ op[r].pc = "bdetach"
      BY <1>11 DEF DetachBackup, mulch, At
    <2>1. op[r].kind = "rebuild" => disk[op[r].rev] # None /\ bvol'[op[r].bk] = disk[op[r].rev]
      BY <1>3, <2>0 DEF CopyOK, Copied
    <2>2. Go(r, "badd") \/ Go(r, "bundo")
      BY <1>11 DEF DetachBackup
    <2> QED BY <1>c, <2>0, <2>1, <2>2
  <1>12. CASE AddBackup(r)
    <2>0. op[r].pc = "badd" /\ setting.scripts
      BY <1>4, <1>12 DEF AddBackup, At
    <2>1. CASE Go(r, "bundo") /\ bdb' = bdb
      BY <1>c, <2>1
    <2>2. CASE op[r].kind = "backup" /\ End(r)
      <3>1. ~Waits'
        BY <1>1, <1>2, <2>2, Frame DEF Paused
      <3> QED BY <1>5, <2>0, <2>2, <3>1 DEF End, Put, Advances
    <2>3. CASE /\ op[r].kind # "backup" /\ bvol' = bvol
               /\ Put(r, [op[r] EXCEPT !.pc = "rmark", !.held = op[r].vm])
      <3>1. PICK v \in VM : v = op[r].vm
        BY <1>0, <2>3, Steps DEF WellFormed, Fits
      <3>2. PICK o \in Op : /\ o = [op[r] EXCEPT !.pc = "rmark", !.held = v]
                            /\ o.pc = "rmark" /\ o.held = v /\ Identity(o, op[r])
                            /\ o.bk = op[r].bk /\ o.flag = op[r].flag /\ o.ok = op[r].ok
        BY <1>0, Saved
      <3>3. Put(r, o) /\ o # None
        BY <2>3, <3>1, <3>2, SentinelAssumption
      <3>4. op[r].kind = "rebuild" => disk[op[r].rev] # None /\ bvol'[o.bk] = disk[op[r].rev]
        BY <1>3, <2>0, <2>3, <3>2 DEF CopyOK, Copied
      <3> QED BY <1>b, <2>0, <3>2, <3>3, <3>4
    <2> QED BY <1>12, <2>1, <2>2, <2>3 DEF AddBackup
  <1>13. CASE UndoBackup(r)
    BY <1>13, <1>a DEF UndoBackup
  <1> QED BY <1>6, <1>7, <1>8, <1>9, <1>10, <1>11, <1>12, <1>13 DEF SaveBackup

\* The scripts of a restore write to the new revision of a rebuild.
LEMMA ScriptsKeep ==
    ASSUME StateOK, Kept, NEW x, CopyOK(x), setting.scripts, UNCHANGED <<setting, dom, db, active, data, bdb>>,
           \A j \in Revision \ {x.new} : disk'[j] = disk[j]
    PROVE  Kept' /\ UndoOK(x)' /\ (Waits' <=> Waits)
  <1>0. UndoOK(x) /\ active # x.new /\ x.new \in Revision /\ x.rev \in Revision \ {x.new}
    BY NoneIsNoContent DEF CopyOK, UndoOK, Present
  <1>1. Present' = Present /\ \A j \in Revision \ {x.new} : Holds(j) => Holds(j)'
    BY DEF Present, Holds
  <1>2. PICK n \in Revision : n = x.new
    BY <1>0
  <1>3. SpareBut(n) => SpareBut(n)' /\ SpareBut(None)'
    BY <1>0, <1>1, <1>2, NoneIsNoContent DEF SpareBut
  <1>4. UndoOK(x)'
    BY <1>0, <1>1, <1>2, <1>3 DEF UndoOK
  <1>5. SpareBut(None)'
    <2>1. CASE x.flag
      <3>1. Holds(x.rev)
        BY <1>0, <2>1 DEF UndoOK, Holds
      <3>2. PICK i \in Revision \ {x.new} : i = x.rev
        BY <1>0
      <3>3. Holds(i)'
        BY <1>1, <3>1, <3>2
      <3> QED BY <1>0, <3>3, NoneIsNoContent DEF SpareBut
    <2>2. CASE ~x.flag
      BY <1>0, <1>2, <1>3, <2>2 DEF UndoOK
    <2> QED BY <2>1, <2>2
  <1>6. Served'
    BY <1>0 DEF Served, Kept, StateOK, Present
  <1>7. Blank'
    BY DEF Blank
  <1> QED BY <1>4, <1>5, <1>6, <1>7 DEF Kept, Waits

\* The users asked for a revision to be restored or deleted.
LEMMA AskedKeeps ==
    ASSUME StateOK, Kept, NEW i \in Revision, UNCHANGED <<setting, dom, db, active, bdb>>,
           \A j \in Revision \ {i} : disk'[j] = disk[j], disk' \in [Revision -> {None} \cup Content],
           setting.scripts \/ Stored(disk'[i]) = {}, data' = Asked(i, disk')
    PROVE  Kept' /\ (active' = None => data' = None)
  <1>1. Stored(disk'[i]) # None
    BY NoneIsNoContent DEF Stored, Content
  <1>2. i # None
    BY NoneIsNoContent
  <1>3. CASE active = i
    BY <1>1, <1>2, <1>3 DEF Asked, Kept, Served, SpareBut, Blank
  <1>4. CASE active = None
    BY <1>2, <1>4 DEF Asked, Kept, Served, SpareBut, Blank
  <1>5. CASE active # i /\ active # None
    <2>1. data' = data /\ active \in Revision \ {i}
      BY <1>5 DEF Asked, StateOK, Present
    <2> QED BY <1>5, <2>1 DEF Kept, Served, SpareBut, Blank
  <1> QED BY <1>3, <1>4, <1>5

LEMMA RestoreAdvances ==
    ASSUME StateOK, OpsOK, Solo, DataOK, ~Partial, NEW r \in Request, Restore(r)
    PROVE  Advances(r)
  <1>0. /\ op[r] # None /\ op[r] \in Op /\ op[r].pc \in RestoreLabel /\ op[r].bk \in Backup
        /\ op[r].kind \in {"create", "restore", "rebuild"}
        /\ op[r].kind # "create" => op[r].rev \in Revision
        /\ op[r].kind # "restore" => op[r].new \in Revision
    BY Steps DEF Restore, MarkRestore, AttachRestore, RestoreScripts, DetachRestore, At,
       WellFormed, Fits
  <1>1. Kept /\ StepOK(op[r]) /\ (Waits => Paused(op[r]))
    BY <1>0, Now
  <1>2. setting.scripts /\ op[r].bk # None
    BY <1>0, <1>1, LifecycleAssumption DEF StepOK
  <1>3. UNCHANGED <<setting, dom, db, active, bvol, bdb, locked>>
    BY DEF Restore, MarkRestore, AttachRestore, RestoreScripts, DetachRestore, SetOperation,
       libvirt, mulch
  <1>4. /\ op[r].kind = "create" => BuildOK(op[r])
        /\ op[r].kind = "rebuild" => CopyOK(op[r]) /\ UndoOK(op[r]) /\ (op[r].ok => op[r].pc = "rdetach")
    BY <1>0, <1>1 DEF StepOK, CopyOK, Copying, Dropping
  <1>4a. PICK x \in Op : x = op[r]
    BY <1>0
  <1>5. ASSUME DataSame PROVE Kept' /\ Blank' /\ (Waits' <=> Waits)
    BY <1>1, <1>3, <1>5, Frame DEF Kept
  <1>a. ASSUME NEW o \in Op, Put(r, o), o # None, Identity(o, op[r]), o.bk = op[r].bk, o.flag = op[r].flag,
               o.kind = "create", o.pc \in RestoreLabel \cup {"add", "undomain"},
               Kept', Waits' <=> Waits
        PROVE  Advances(r)
    <2>1. o.new = op[r].new /\ o.kind = op[r].kind
      BY <1>a DEF Identity
    <2>2. Present' = Present
      BY <1>3 DEF Present
    <2>3. StepOK(o)'
      BY <1>0, <1>2, <1>3, <1>4, <1>a, <2>1, <2>2 DEF StepOK, BuildOK
    <2>4. ~Waits'
      BY <1>1, <1>a, <2>1 DEF Paused
    <2> QED BY <1>a, <2>3, <2>4 DEF Advances
  <1>b. ASSUME NEW o \in Op, Put(r, o), o # None, Identity(o, op[r]), o.kind = "restore",
               Kept', ~Waits'
        PROVE  Advances(r)
    BY <1>2, <1>3, <1>b DEF StepOK, Advances
  <1>c. ASSUME NEW o \in Op, Put(r, o), o # None, Identity(o, op[r]), o.bk = op[r].bk, o.flag = op[r].flag,
               o.kind = "rebuild", o.pc \in {"rattach", "rscripts", "rdetach"}, o.ok => o.pc = "rdetach",
               Kept', UndoOK(x)', Waits' <=> Waits,
               o.pc # "rdetach" => Copied(x, bvol[x.bk])',
               o.ok => Copied(x, disk[x.new])'
        PROVE  Advances(r)
    <2>1. o.rev = op[r].rev /\ o.new = op[r].new /\ o.kind = op[r].kind
      BY <1>c DEF Identity
    <2>2. UndoOK(o)'
      BY <1>4a, <1>c, <2>1 DEF UndoOK
    <2>3. o.pc # "rdetach" => Copied(o, bvol[o.bk])'
      BY <1>4a, <1>c, <2>1 DEF Copied
    <2>4. o.ok => Copied(o, disk[o.new])'
      BY <1>4a, <1>c, <2>1 DEF Copied
    <2>5. /\ o.new \in Present' /\ dom'[o.new] # None /\ (o.flag => active' = None)
          /\ (~o.flag => active' # o.rev /\ o.pc # "activate")
      BY <1>3, <1>4, <1>c, <2>1 DEF CopyOK, Present
    <2>6. CopyOK(o)'
      BY <1>c, <2>2, <2>3, <2>4, <2>5 DEF CopyOK
    <2>7. StepOK(o)'
      BY <1>2, <1>3, <1>c, <2>6 DEF StepOK, Copying, Dropping
    <2>8. Waits' => Paused(o)
      BY <1>1, <1>c, <2>1 DEF Paused, Copying
    <2> QED BY <1>c, <2>7, <2>8 DEF Advances
  <1>d. ASSUME NEW ok \in BOOLEAN, RestoreReturns(r, ok), DataSame, ok => op[r].pc = "rdetach" /\ op[r].ok
        PROVE  Advances(r)
    <2>0. Kept' /\ Blank' /\ (Waits' <=> Waits)
      BY <1>5, <1>d
    <2>1. CASE op[r].kind = "restore" /\ Put(r, None)
      BY <1>1, <2>0, <2>1 DEF Paused, Advances
    <2>2. ASSUME op[r].kind = "create", NEW o \in Op, Put(r, o), o # None, o.pc \in {"add", "undomain"},
                 Same(o, op[r])
          PROVE  Advances(r)
      BY <1>a, <2>0, <2>2 DEF Same, Identity
    <2>3. ASSUME op[r].kind = "rebuild", NEW o \in Op, Put(r, o), o # None, ok, Identity(o, op[r]),
                 o.bk = op[r].bk, o.flag = op[r].flag, ~o.ok, o.pc = IF o.flag THEN "activate" ELSE "unlock"
          PROVE  Advances(r)
      <3>1. o.rev = op[r].rev /\ o.new = op[r].new /\ o.kind = "rebuild"
        BY <2>3 DEF Identity
      <3>2. Copied(op[r], disk[op[r].new])
        BY <1>4, <1>d, <2>3 DEF CopyOK
      <3>3. /\ UndoOK(o) /\ o.new \in Present /\ dom[o.new] # None
            /\ (o.flag => active = None) /\ (~o.flag => active # o.rev)
            /\ disk[o.rev] # None /\ disk[o.new] = disk[o.rev]
        BY <1>4, <2>3, <3>1, <3>2 DEF CopyOK, UndoOK, Copied
      <3>4. CASE o.flag
        <4>1. CopyOK(o)
          BY <2>3, <3>3, <3>4 DEF CopyOK, Copied
        <4>2. CopyOK(o)'
          BY <1>3, <1>d, <4>1, Frame
        <4>3. StepOK(o)'
          BY <1>2, <1>3, <2>3, <3>1, <3>4, <4>2 DEF StepOK, Copying, Dropping
        <4>4. Paused(o)
          BY <2>3, <3>1, <3>4 DEF Paused, Copying
        <4> QED BY <2>0, <2>3, <4>3, <4>4 DEF Advances
      <3>5. CASE ~o.flag
        <4>1. SpareBut(o.rev)
          <5> SUFFICES ASSUME data # None, active = None
                       PROVE  \E i \in Revision \ {o.rev} : Holds(i)
            BY DEF SpareBut
          <5>1. PICK i \in Revision \ {o.new} : Holds(i)
            BY <3>3, <3>5 DEF UndoOK, SpareBut
          <5>2. CASE i = o.rev
            BY <3>3, <5>1, <5>2 DEF Holds, UndoOK, Present
          <5> QED BY <5>1, <5>2
        <4>2. RemoveOK(o)
          BY <2>3, <3>3, <3>5, <4>1 DEF RemoveOK, UndoOK
        <4>3. RemoveOK(o)'
          BY <1>3, <1>d, <4>2, Frame
        <4>4. StepOK(o)'
          BY <1>2, <1>3, <2>3, <3>1, <3>5, <4>3 DEF StepOK, Copying, Dropping
        <4>5. ~Waits'
          BY <1>1, <2>0, <2>3, <3>5 DEF Paused
        <4> QED BY <2>0, <2>3, <4>4, <4>5 DEF Advances
      <3> QED BY <3>4, <3>5
    <2>4. ASSUME op[r].kind = "rebuild", NEW y \in Op, NEW o \in Op \cup {None}, Put(r, o), Undoes(y, o),
                 Identity(y, op[r]), y.flag = op[r].flag, ~y.ok
          PROVE  Advances(r)
      BY <1>0, <1>2, <1>4, <1>d, <2>0, <2>4, UndoAdvances
    <2> QED BY <1>0, <1>d, <2>1, <2>2, <2>3, <2>4, RestoreReturnsPuts
  <1>e. ASSUME NEW l \in {"rattach", "rscripts"}, Go(r, l), DataSame, op[r].pc \in {"rmark", "rattach"}
        PROVE  Advances(r)
    <2>1. PICK o \in Op : Put(r, o) /\ o # None /\ o.pc = l /\ Same(o, op[r])
      BY <1>0, <1>e, GoPuts
    <2>2. Kept' /\ (Waits' <=> Waits) /\ Identity(o, op[r]) /\ o.bk = op[r].bk /\ o.flag = op[r].flag
          /\ o.ok = op[r].ok /\ o.kind = op[r].kind
      BY <1>5, <1>e, <2>1 DEF Same, Identity
    <2>3. CASE o.kind = "create"
      BY <1>a, <1>e, <2>1, <2>2, <2>3
    <2>4. CASE o.kind = "restore"
      <3>1. ~Waits'
        BY <1>1, <2>2, <2>4 DEF Paused
      <3> QED BY <1>b, <2>1, <2>2, <2>4, <3>1
    <2>5. CASE o.kind = "rebuild"
      <3>1. UndoOK(x)'
        BY <1>4, <1>4a, <1>e, <2>2, <2>5, Frame
      <3>2. Copied(x, bvol[x.bk])'
        BY <1>3, <1>4, <1>4a, <1>e, <2>2, <2>5 DEF CopyOK, Copied, DataSame
      <3>3. ~o.ok
        BY <1>4, <1>e, <2>2, <2>5
      <3> QED BY <1>c, <1>e, <2>1, <2>2, <2>5, <3>1, <3>2, <3>3
    <2> QED BY <1>0, <2>2, <2>3, <2>4, <2>5
  <1>6. CASE MarkRestore(r)
    <2>0. DataSame /\ op[r].pc = "rmark"
      BY <1>6 DEF MarkRestore, DataSame, SetOperation, libvirt, mulch, users, At
    <2>1. CASE Go(r, "rattach")
      BY <1>e, <2>0, <2>1
    <2>2. CASE op[r].kind = "rebuild" /\ Put(r, Unwound([op[r] EXCEPT !.held = None]))
      <3>1. PICK y \in Op : /\ y = [op[r] EXCEPT !.held = None] /\ y.pc = op[r].pc /\ Identity(y, op[r])
                            /\ y.bk = op[r].bk /\ y.flag = op[r].flag /\ y.ok = op[r].ok
        BY <1>0, Unheld
      <3>2. Undoes(y, Unwound(y)) /\ ~y.ok
        BY <1>0, <1>4, <2>0, <2>2, <3>1, UnwoundUndoes DEF Identity
      <3>3. Unwound(y) \in Op \cup {None}
        BY <3>2 DEF Undoes
      <3>4. PICK o \in Op \cup {None} : o = Unwound(y)
        BY <3>3
      <3>5. Put(r, o) /\ Undoes(y, o)
        BY <2>2, <3>1, <3>2, <3>4
      <3> QED BY <1>0, <1>2, <1>4, <1>5, <2>0, <2>2, <3>1, <3>2, <3>5, UndoAdvances
    <2> QED BY <1>6, <2>1, <2>2 DEF MarkRestore, SetOperation
  <1>7. CASE AttachRestore(r)
    <2>0. DataSame /\ op[r].pc = "rattach"
      BY <1>7 DEF AttachRestore, DataSame, users, At
    <2>1. CASE Go(r, "rscripts")
      BY <1>e, <2>0, <2>1
    <2>2. CASE RestoreReturns(r, FALSE)
      BY <1>d, <2>0, <2>2
    <2> QED BY <1>7, <2>1, <2>2 DEF AttachRestore
  <1>8. CASE DetachRestore(r)
    <2>0. DataSame /\ op[r].pc = "rdetach"
      BY <1>8 DEF DetachRestore, DataSame, users, At
    <2>1. RestoreReturns(r, op[r].ok) /\ op[r].ok \in BOOLEAN
      BY <1>0, <1>8 DEF DetachRestore, Op
    <2>2. PICK ok \in BOOLEAN : ok = op[r].ok
      BY <2>1
    <2>3. RestoreReturns(r, ok)
      BY <2>1, <2>2
    <2> QED BY <1>d, <2>0, <2>2, <2>3
  <1>9. CASE RestoreScripts(r)
    <2>1. PICK i \in Revision, b \in Backup : i = Restored(op[r]) /\ b = op[r].bk
      BY <1>0 DEF Restored
    <2>2. op[r].pc = "rscripts" /\ data' = IF op[r].kind = "restore" THEN Asked(i, disk') ELSE data
      BY <1>9, <2>1 DEF RestoreScripts, At
    <2>3. /\ \A j \in Revision \ {i} : disk'[j] = disk[j]
          /\ disk' \in [Revision -> {None} \cup Content]
      <3>1. CASE \E content \in Readable(b) : disk' = [disk EXCEPT ![i] = content]
        <4>1. PICK content \in Readable(b) : disk' = [disk EXCEPT ![i] = content]
          BY <3>1
        <4>2. content \in {None} \cup Content
          BY <4>1 DEF Readable, StateOK
        <4> QED BY <4>1, <4>2 DEF StateOK
      <3>2. CASE disk' \in {disk, [disk EXCEPT ![i] = {}]}
        BY <3>2 DEF StateOK, Content
      <3> QED BY <1>9, <2>1, <3>1, <3>2 DEF RestoreScripts
    <2>4. \E o \in Op : /\ Put(r, o) /\ o # None /\ o.pc = "rdetach" /\ Identity(o, op[r])
                        /\ o.bk = op[r].bk /\ o.flag = op[r].flag
                        /\ o.ok => \E content \in Readable(b) : disk' = [disk EXCEPT ![i] = content]
      <3>1. PICK o \in Op : /\ o = [op[r] EXCEPT !.pc = "rdetach", !.ok = TRUE]
                            /\ o.pc = "rdetach" /\ o.ok = TRUE /\ Identity(o, op[r])
                            /\ o.bk = op[r].bk /\ o.flag = op[r].flag
        BY <1>0, Scripted
      <3>2. PICK p \in Op : /\ p = [op[r] EXCEPT !.pc = "rdetach", !.ok = FALSE]
                            /\ p.pc = "rdetach" /\ p.ok = FALSE /\ Identity(p, op[r])
                            /\ p.bk = op[r].bk /\ p.flag = op[r].flag
        BY <1>0, Missed
      <3>3. \/ Put(r, o) /\ \E content \in Readable(b) : disk' = [disk EXCEPT ![i] = content]
            \/ Put(r, p)
        BY <1>9, <2>1, <3>1, <3>2 DEF RestoreScripts
      <3> QED BY <3>1, <3>2, <3>3, SentinelAssumption
    <2>5. PICK o \in Op : /\ Put(r, o) /\ o # None /\ o.pc = "rdetach" /\ Identity(o, op[r])
                          /\ o.bk = op[r].bk /\ o.flag = op[r].flag
                          /\ o.ok => \E content \in Readable(b) : disk' = [disk EXCEPT ![i] = content]
      BY <2>4
    <2>6. o.kind = op[r].kind /\ o.new = op[r].new /\ o.rev = op[r].rev
      BY <2>5 DEF Identity
    <2>7. CASE op[r].kind = "create"
      <3>1. i = op[r].new /\ i \notin Present /\ UNCHANGED data
        BY <1>4, <2>1, <2>2, <2>7 DEF Restored, BuildOK
      <3>2. Kept' /\ (Waits' <=> Waits)
        BY <1>1, <1>2, <1>3, <2>3, <3>1, AsideKeeps
      <3> QED BY <1>a, <2>5, <2>6, <2>7, <3>2
    <2>8. CASE op[r].kind = "restore"
      <3>1. Kept' /\ (active' = None => data' = None)
        BY <1>1, <1>2, <1>3, <2>2, <2>3, <2>8, AskedKeeps
      <3>2. ~Waits'
        BY <3>1 DEF Waits
      <3> QED BY <1>b, <2>5, <2>6, <2>8, <3>1, <3>2
    <2>9. CASE op[r].kind = "rebuild"
      <3>1. i = op[r].new /\ UNCHANGED data /\ op[r].rev \in Revision \ {i}
        BY <1>4, <2>1, <2>2, <2>9 DEF Restored, UndoOK, Present
      <3>2. Kept' /\ UndoOK(x)' /\ (Waits' <=> Waits)
        BY <1>1, <1>2, <1>3, <1>4, <1>4a, <2>3, <2>9, <3>1, ScriptsKeep
      <3>3. ASSUME o.ok PROVE disk'[i] = disk'[op[r].rev] /\ disk'[op[r].rev] # None
        <4>1. Copied(op[r], bvol[b])
          BY <1>4, <2>1, <2>2, <2>9 DEF CopyOK
        <4>2. Readable(b) = {disk[op[r].rev]}
          BY <4>1 DEF Readable, Copied
        <4>3. disk'[i] = disk[op[r].rev]
          BY <2>5, <3>3, <4>2 DEF StateOK
        <4> QED BY <2>3, <3>1, <4>1, <4>3 DEF Copied
      <3>4. o.ok => Copied(x, disk[x.new])'
        BY <1>4a, <3>1, <3>3 DEF Copied
      <3> QED BY <1>c, <2>5, <2>6, <2>9, <3>2, <3>4
    <2> QED BY <1>0, <2>7, <2>8, <2>9
  <1> QED BY <1>6, <1>7, <1>8, <1>9 DEF Restore

\* A revision that is neither active nor the one that has the data goes.
LEMMA RemovalKeeps ==
    ASSUME StateOK, Kept, NEW i \in Revision, active # i, SpareBut(i), UNCHANGED <<setting, active, data, bdb>>,
           \A j \in Revision \ {i} : disk'[j] = disk[j] /\ dom'[j] = dom[j] /\ db'[j] = db[j],
           disk'[i] \in {disk[i], None}
    PROVE  Kept' /\ SpareBut(i)' /\ (Waits' <=> Waits)
  <1>1. \A j \in Revision \ {i} : Holds(j) => Holds(j)'
    BY DEF Holds, Present
  <1>2. SpareBut(i)' /\ SpareBut(None)'
    BY <1>1, NoneIsNoContent DEF SpareBut
  <1>3. Served'
    BY DEF Served, Kept, StateOK, Present
  <1>4. Blank'
    <2>1. Stored(disk[i]) = {} => Stored(disk'[i]) = {}
      BY DEF Stored
    <2> QED BY <2>1 DEF Blank, Kept
  <1> QED BY <1>2, <1>3, <1>4 DEF Kept, Waits

\* The users asked for a revision to be deleted: another one becomes active, if there is one.
LEMMA FallbackKeeps ==
    ASSUME StateOK, Kept, NEW i \in Revision, UNCHANGED <<setting, disk, dom, bdb>>, Remove(i, TRUE),
           active # None \/ data = None
    PROVE  Kept' /\ ~Waits'
  <1>0. /\ active' = Fallback(i) /\ Fallback(i) \in (Present \ {i}) \cup {None}
        /\ data' = IF active = i THEN Expected(Fallback(i), disk) ELSE data
    BY FallbackPresent DEF Remove
  <1>1. i # None
    BY NoneIsNoContent
  <1>2. CASE active = i /\ Fallback(i) = None
    BY <1>0, <1>1, <1>2 DEF Expected, Kept, Served, SpareBut, Blank, Waits
  <1>3. CASE active = i /\ Fallback(i) # None
    <2>1. PICK j \in Revision : j = Fallback(i)
      BY <1>0, <1>3 DEF Present
    <2>2. data' = Stored(disk[j]) /\ active' = j /\ j # None /\ Stored(disk[j]) # None
      BY <1>0, <1>3, <2>1, NoneIsNoContent DEF Expected, Stored, Content, StateOK
    <2> QED BY <1>0, <2>2 DEF Kept, Served, SpareBut, Blank, Waits
  <1>4. CASE active # i
    <2>1. active' = active /\ data' = data
      BY <1>0, <1>4 DEF Fallback
    <2> QED BY <2>1 DEF Kept, Served, SpareBut, Blank, Waits
  <1> QED BY <1>2, <1>3, <1>4

LEMMA DeleteAdvances ==
    ASSUME StateOK, OpsOK, Solo, DataOK, ~Partial, NEW r \in Request, Delete(r)
    PROVE  Advances(r)
  <1>0. /\ op[r] # None /\ op[r] \in Op /\ op[r].pc \in DeleteLabel /\ op[r].target \in Revision
        /\ op[r].kind \in {"delete", "rebuild"}
        /\ op[r].kind = "rebuild" => op[r].new \in Revision
    BY Steps DEF Delete, DeleteCheck, Destroy, DeleteDisk, Undefine, DeleteEntry,
       RebuildDHCPStaticLeases, At, WellFormed, Fits
  <1>1. Kept /\ StepOK(op[r]) /\ ~Waits
    BY <1>0, Now DEF Paused, Copying, Dropping
  <1>2. PICK x \in Op, i \in Revision : x = op[r] /\ i = x.target
    BY <1>0
  <1>3. /\ ~setting.scripts => x.bk = None
        /\ x.kind = "rebuild" => ~x.ok
        /\ x.kind = "rebuild" /\ i = x.rev => RemoveOK(x)
        /\ x.kind = "rebuild" /\ i # x.rev => i = x.new /\ active # i /\ SpareBut(i)
        /\ x.kind = "delete" /\ x.pc \in {"undefine", "delentry"} => active # None \/ data = None
    BY <1>0, <1>1, <1>2 DEF StepOK, Dropping
  <1>4. x.kind = "rebuild" => /\ active # i /\ SpareBut(i)
    BY <1>2, <1>3 DEF RemoveOK
  <1>5. UNCHANGED <<setting, bvol, bdb, locked>>
    BY DEF Delete, DeleteCheck, Destroy, DeleteDisk, Undefine, DeleteEntry,
       RebuildDHCPStaticLeases, libvirt, mulch
  <1>6. ASSUME DataSame PROVE Kept' /\ Blank' /\ ~Waits' /\ (SpareBut(i)' <=> SpareBut(i))
    BY <1>1, <1>5, <1>6, Frame DEF Kept
  \* A step of a deletion that the users asked for.
  <1>a. ASSUME NEW o \in Op, Put(r, o), o # None, Identity(o, x), x.kind = "delete", o.bk = x.bk,
               Kept', ~Waits', o.pc \in {"undefine", "delentry"} => active' # None \/ data' = None
        PROVE  Advances(r)
    BY <1>3, <1>5, <1>a DEF StepOK, Identity, Advances
  \* A step of a rebuild.
  <1>b. ASSUME NEW o \in Op, Put(r, o), o # None, Identity(o, x), x.kind = "rebuild", o.bk = x.bk,
               o.flag = x.flag, ~o.ok, o.target = i, o.pc \in DeleteLabel \ {"delete"},
               Kept', ~Waits', SpareBut(i)', active' = active,
               i = x.rev /\ o.pc # "dhcp" => db'[i] # None,
               o.pc \in {"destroy", "deldisk"} => UNCHANGED <<dom, disk>> /\ x.pc \in {"delete", "destroy"},
               i = x.rev /\ o.pc \in DomainLabel => dom'[i] = o.handle
        PROVE  Advances(r)
    <2>0. o.rev = x.rev /\ o.new = x.new /\ o.kind = x.kind
      BY <1>b DEF Identity
    <2>1. CASE i = x.rev
      <3>1. RemoveOK(x)
        BY <1>3, <1>b, <2>1
      <3>2. RemoveOK(o)'
        BY <1>5, <1>b, <2>0, <2>1, <3>1 DEF RemoveOK, Present
      <3>3. StepOK(o)'
        BY <1>3, <1>5, <1>b, <2>0, <2>1, <3>2 DEF StepOK, Copying, Dropping
      <3> QED BY <1>b, <3>3 DEF Advances
    <2>2. CASE i # x.rev
      <3>1. StepOK(o)'
        BY <1>3, <1>5, <1>b, <2>0, <2>2 DEF StepOK, Copying, Dropping
      <3> QED BY <1>b, <3>1 DEF Advances
    <2> QED BY <2>1, <2>2
  \* VMDelete returns.
  <1>c. ASSUME NEW ok \in BOOLEAN, DeleteReturns(r, ok), Kept', ~Waits',
               x.kind = "rebuild" /\ i = x.rev /\ ~ok => DataSame /\ UndoOK(x)
        PROVE  Advances(r)
    <2>1. CASE Put(r, None)
      BY <1>c, <2>1 DEF Advances
    <2>2. ASSUME op[r].kind = "rebuild", NEW o \in Op, Put(r, o), o # None, o.pc = "relock", o.ok,
                 Identity(o, op[r]), o.bk = op[r].bk
          PROVE  Advances(r)
      <3>1. StepOK(o)'
        BY <1>2, <1>3, <1>5, <2>2 DEF StepOK, Copying, Dropping, Identity
      <3> QED BY <1>c, <2>2, <3>1 DEF Advances
    <2>3. ASSUME op[r].kind = "rebuild", op[r].target = op[r].rev, ~ok, NEW o \in Op \cup {None}, Put(r, o),
                 Undoes(x, o)
          PROVE  Advances(r)
      <3>1. DataSame /\ UndoOK(op[r]) /\ Blank'
        BY <1>2, <1>6, <1>c, <2>3
      <3> QED BY <1>0, <1>2, <1>3, <2>3, <3>1, UndoAdvances DEF Identity
    <2> QED BY <1>0, <1>2, <1>c, <2>1, <2>2, <2>3, DeleteReturnsPuts
  <1>d. ASSUME NEW l \in DeleteLabel \ {"delete"}, Go(r, l)
        PROVE  \E o \in Op : /\ Put(r, o) /\ o # None /\ o.pc = l /\ Identity(o, x) /\ o.bk = x.bk
                             /\ o.flag = x.flag /\ o.ok = x.ok /\ o.target = i /\ o.handle = x.handle
    <2>1. PICK o \in Op : Put(r, o) /\ o # None /\ o.pc = l /\ Same(o, op[r])
      BY <1>0, <1>d, GoPuts
    <2> QED BY <1>2, <2>1 DEF Same
  <1>e. x.kind = "rebuild" /\ i = x.rev =>
            /\ x.pc # "dhcp" => i \in Present
            /\ x.pc \in {"delete", "destroy", "deldisk"} => dom[i] # None /\ (setting.scripts => disk[i] # None)
            /\ x.pc = "delete" => db[i] \notin locked
            /\ x.pc \in DomainLabel => dom[i] = x.handle
    BY <1>3 DEF RemoveOK
  <1>10. CASE DeleteCheck(r)
    <2>0. DataSame /\ x.pc = "delete"
      BY <1>2, <1>10 DEF DeleteCheck, DataSame, At, libvirt, mulch, users
    <2>1. CASE i \in Present /\ dom[i] # None /\ Put(r, [x EXCEPT !.pc = "destroy", !.handle = dom[i]])
      <3>1. PICK v \in VM : v = dom[i]
        BY <2>1 DEF StateOK
      <3>2. PICK o \in Op : /\ o = [x EXCEPT !.pc = "destroy", !.handle = v]
                            /\ o.pc = "destroy" /\ o.handle = v /\ Identity(o, x)
                            /\ o.bk = x.bk /\ o.flag = x.flag /\ o.ok = x.ok /\ o.target = x.target
        BY Handled
      <3>3. Put(r, o) /\ o # None
        BY <2>1, <3>1, <3>2, SentinelAssumption
      <3>4. CASE x.kind = "delete"
        BY <1>6, <1>a, <2>0, <3>2, <3>3, <3>4
      <3>5. CASE x.kind = "rebuild"
        <4>1. Kept' /\ ~Waits' /\ SpareBut(i)' /\ active' = active /\ dom'[i] = o.handle
              /\ UNCHANGED <<dom, disk, db>>
          BY <1>4, <1>6, <2>0, <3>1, <3>2, <3>5 DEF DataSame
        <4> QED BY <1>2, <1>3, <1>b, <2>0, <2>1, <3>2, <3>3, <3>5, <4>1 DEF Present
      <3> QED BY <1>0, <1>2, <3>4, <3>5
    <2>2. CASE DeleteReturns(r, FALSE) /\ ~(i \in Present /\ db[i] \notin locked /\ dom[i] # None)
      <3>1. ~(x.kind = "rebuild" /\ i = x.rev)
        BY <1>e, <2>0, <2>2
      <3> QED BY <1>6, <1>c, <2>0, <2>2, <3>1
    <2> QED BY <1>2, <1>10, <2>1, <2>2 DEF DeleteCheck
  <1>11. CASE Destroy(r)
    <2>0. DataSame /\ x.pc = "destroy"
      BY <1>2, <1>11 DEF Destroy, DataSame, At, mulch, users
    <2>1. CASE dom[i] = x.handle /\ Go(r, "deldisk")
      <3>1. PICK o \in Op : /\ Put(r, o) /\ o # None /\ o.pc = "deldisk" /\ Identity(o, x) /\ o.bk = x.bk
                            /\ o.flag = x.flag /\ o.ok = x.ok /\ o.target = i /\ o.handle = x.handle
        BY <1>d, <2>1
      <3>4. CASE x.kind = "delete"
        BY <1>6, <1>a, <2>0, <3>1, <3>4
      <3>5. CASE x.kind = "rebuild"
        <4>1. Kept' /\ ~Waits' /\ SpareBut(i)' /\ active' = active /\ dom'[i] = o.handle
              /\ UNCHANGED <<dom, disk, db>>
          BY <1>4, <1>6, <2>0, <2>1, <3>1, <3>5 DEF DataSame
        <4>2. i = x.rev => db'[i] # None
          BY <1>e, <2>0, <3>5, <4>1 DEF Present
        <4> QED BY <1>3, <1>b, <2>0, <3>1, <3>5, <4>1, <4>2
      <3> QED BY <1>0, <1>2, <3>4, <3>5
    <2>2. CASE DeleteReturns(r, FALSE) /\ dom[i] # x.handle
      <3>1. ~(x.kind = "rebuild" /\ i = x.rev)
        BY <1>e, <2>0, <2>2
      <3> QED BY <1>6, <1>c, <2>0, <2>2, <3>1
    <2> QED BY <1>2, <1>11, <2>1, <2>2 DEF Destroy
  <1>12. CASE DeleteDisk(r)
    <2>0. x.pc = "deldisk" /\ UNCHANGED <<dom, db, active>>
      BY <1>2, <1>12 DEF DeleteDisk, At, mulch
    <2>1. CASE /\ disk' = [disk EXCEPT ![i] = None] /\ Go(r, "undefine")
               /\ data' = IF x.kind = "delete" THEN Asked(i, disk') ELSE data
      <3>1. PICK o \in Op : /\ Put(r, o) /\ o # None /\ o.pc = "undefine" /\ Identity(o, x) /\ o.bk = x.bk
                            /\ o.flag = x.flag /\ o.ok = x.ok /\ o.target = i /\ o.handle = x.handle
        BY <1>d, <2>1
      <3>2. disk'[i] = None /\ (\A j \in Revision \ {i} : disk'[j] = disk[j])
            /\ disk' \in [Revision -> {None} \cup Content]
        BY <2>1 DEF StateOK
      <3>4. CASE x.kind = "delete"
        <4>1. Stored(disk'[i]) = {}
          BY <3>2 DEF Stored
        <4>2. Kept' /\ (active' = None => data' = None)
          BY <1>1, <1>5, <2>0, <2>1, <3>2, <3>4, <4>1, AskedKeeps
        <4>3. ~Waits'
          BY <4>2 DEF Waits
        <4> QED BY <1>a, <3>1, <3>4, <4>2, <4>3
      <3>5. CASE x.kind = "rebuild"
        <4>1. Kept' /\ SpareBut(i)' /\ (Waits' <=> Waits)
          BY <1>1, <1>4, <1>5, <2>0, <2>1, <3>2, <3>5, RemovalKeeps
        <4>2. i = x.rev => db'[i] # None /\ dom'[i] = x.handle
          BY <1>e, <2>0, <3>5 DEF Present
        <4>3. dom'[i] = o.handle \/ i # x.rev
          BY <3>1, <4>2
        <4> QED BY <1>1, <1>3, <1>b, <2>0, <3>1, <3>5, <4>1, <4>2, <4>3
      <3> QED BY <1>0, <1>2, <3>4, <3>5
    <2>2. CASE DeleteReturns(r, FALSE) /\ disk[i] = None /\ UNCHANGED <<disk, data>>
      <3>0. DataSame
        BY <1>5, <2>0, <2>2 DEF DataSame
      <3>1. ASSUME x.kind = "rebuild", i = x.rev PROVE UndoOK(x)
        <4>1. RemoveOK(x) /\ i \in Present /\ dom[i] # None /\ ~setting.scripts
          BY <1>3, <1>e, <2>0, <2>2, <3>1
        <4>2. data \in {None, {}} /\ Stored(disk[i]) = {}
          BY <1>1, <4>1 DEF Kept, Blank
        <4>3. CASE x.flag
          <5>1. active = x.new /\ active # None
            BY <1>0, <1>2, <3>1, <4>1, <4>3, NoneIsNoContent DEF RemoveOK
          <5> QED BY <1>1, <3>1, <4>1, <4>2, <4>3, <5>1 DEF UndoOK, Kept, Served, RemoveOK
        <4>4. CASE ~x.flag
          <5>1. data # None => Holds(i)
            BY <4>1, <4>2 DEF Holds
          <5>2. SpareBut(x.new)
            BY <3>1, <4>1, <5>1 DEF SpareBut, RemoveOK
          <5> QED BY <3>1, <4>1, <4>4, <5>2 DEF UndoOK, RemoveOK
        <4> QED BY <4>3, <4>4
      <3> QED BY <1>6, <1>c, <2>2, <3>0, <3>1
    <2> QED BY <1>2, <1>12, <2>1, <2>2 DEF DeleteDisk
  <1>13. CASE Undefine(r)
    <2>0. x.pc = "undefine" /\ UNCHANGED <<disk, db, active, data>>
      BY <1>2, <1>13 DEF Undefine, At, mulch, users
    <2>1. CASE dom' = [dom EXCEPT ![i] = None] /\ Go(r, "delentry")
      <3>1. PICK o \in Op : /\ Put(r, o) /\ o # None /\ o.pc = "delentry" /\ Identity(o, x) /\ o.bk = x.bk
                            /\ o.flag = x.flag /\ o.ok = x.ok /\ o.target = i /\ o.handle = x.handle
        BY <1>d, <2>1
      <3>4. CASE x.kind = "delete"
        <4>1. active # None \/ data = None
          BY <1>3, <2>0, <3>4
        <4>2. Kept' /\ ~Waits'
          BY <1>1, <1>5, <2>0, <4>1 DEF Kept, Served, SpareBut, Blank, Waits
        <4> QED BY <1>a, <2>0, <3>1, <3>4, <4>1, <4>2
      <3>5. CASE x.kind = "rebuild"
        <4>1. \A j \in Revision \ {i} : dom'[j] = dom[j]
          BY <2>1 DEF StateOK
        <4>2. Kept' /\ SpareBut(i)' /\ (Waits' <=> Waits)
          BY <1>1, <1>4, <1>5, <2>0, <3>5, <4>1, RemovalKeeps
        <4>3. i = x.rev => db'[i] # None
          BY <1>e, <2>0, <3>5 DEF Present
        <4> QED BY <1>1, <1>3, <1>b, <2>0, <3>1, <3>5, <4>2, <4>3
      <3> QED BY <1>0, <1>2, <3>4, <3>5
    <2>2. CASE DeleteReturns(r, FALSE) /\ dom[i] # x.handle /\ UNCHANGED dom
      <3>0. DataSame
        BY <1>5, <2>0, <2>2 DEF DataSame
      <3>1. ~(x.kind = "rebuild" /\ i = x.rev)
        BY <1>e, <2>0, <2>2
      <3> QED BY <1>6, <1>c, <2>2, <3>0, <3>1
    <2> QED BY <1>2, <1>13, <2>1, <2>2 DEF Undefine
  <1>14. CASE DeleteEntry(r)
    <2>0. x.pc = "delentry" /\ UNCHANGED <<disk, dom>>
      BY <1>2, <1>14 DEF DeleteEntry, At, libvirt
    <2>1. CASE Remove(i, x.kind = "delete") /\ Go(r, "dhcp")
      <3>1. PICK o \in Op : /\ Put(r, o) /\ o # None /\ o.pc = "dhcp" /\ Identity(o, x) /\ o.bk = x.bk
                            /\ o.flag = x.flag /\ o.ok = x.ok /\ o.target = i /\ o.handle = x.handle
        BY <1>d, <2>1
      <3>4. CASE x.kind = "delete"
        <4>1. Kept' /\ ~Waits'
          BY <1>1, <1>3, <1>5, <2>0, <2>1, <3>4, FallbackKeeps DEF Remove
        <4> QED BY <1>a, <3>1, <3>4, <4>1
      <3>5. CASE x.kind = "rebuild"
        <4>1. /\ active' = active /\ data' = data
              /\ \A j \in Revision \ {i} : db'[j] = db[j]
          BY <1>4, <2>1, <3>5 DEF Remove, Fallback, StateOK
        <4>2. Kept' /\ SpareBut(i)' /\ (Waits' <=> Waits)
          BY <1>1, <1>4, <1>5, <2>0, <3>5, <4>1, RemovalKeeps
        <4> QED BY <1>1, <1>3, <1>b, <2>0, <3>1, <3>5, <4>1, <4>2
      <3> QED BY <1>0, <1>2, <3>4, <3>5
    <2>2. CASE DeleteReturns(r, FALSE) /\ i \notin Present /\ UNCHANGED <<active, db, data>>
      <3>0. DataSame
        BY <1>5, <2>0, <2>2 DEF DataSame
      <3>1. ~(x.kind = "rebuild" /\ i = x.rev)
        BY <1>e, <2>0, <2>2
      <3> QED BY <1>6, <1>c, <2>2, <3>0, <3>1
    <2> QED BY <1>2, <1>14, <2>1, <2>2 DEF DeleteEntry
  <1>15. CASE RebuildDHCPStaticLeases(r)
    <2>0. DataSame
      BY <1>15 DEF RebuildDHCPStaticLeases, DataSame, libvirt, mulch, users
    <2>1. DeleteReturns(r, TRUE)
      BY <1>15 DEF RebuildDHCPStaticLeases
    <2> QED BY <1>6, <1>c, <2>0, <2>1
  <1> QED BY <1>10, <1>11, <1>12, <1>13, <1>14, <1>15 DEF Delete

LEMMA SwitchedOn ==
    ASSUME NEW x \in Op, NEW l \in Label
    PROVE  \E o \in Op : /\ o = [x EXCEPT !.flag = TRUE, !.pc = l]
                         /\ o.pc = l /\ o.flag = TRUE /\ Identity(o, x) /\ o.bk = x.bk /\ o.ok = x.ok
  <1> DEFINE m == [x EXCEPT !.pc = l]
             o == [x EXCEPT !.flag = TRUE, !.pc = l]
  <1>1. m \in Op /\ o = [m EXCEPT !.flag = TRUE]
    BY FieldTypes
  <1>2. o.pc = l /\ o.flag = TRUE /\ Identity(o, x) /\ o.bk = x.bk /\ o.ok = x.ok
    BY DEF Op, Identity
  <1> HIDE DEF m, o
  <1>3. o \in Op
    BY <1>1, FieldTypes
  <1> QED BY <1>2, <1>3 DEF o

LEMMA SwitchedOff ==
    ASSUME NEW x \in Op, NEW l \in Label
    PROVE  \E o \in Op : /\ o = [x EXCEPT !.flag = FALSE, !.pc = l]
                         /\ o.pc = l /\ o.flag = FALSE /\ Identity(o, x) /\ o.bk = x.bk /\ o.ok = x.ok
  <1> DEFINE m == [x EXCEPT !.pc = l]
             o == [x EXCEPT !.flag = FALSE, !.pc = l]
  <1>1. m \in Op /\ o = [m EXCEPT !.flag = FALSE]
    BY FieldTypes
  <1>2. o.pc = l /\ o.flag = FALSE /\ Identity(o, x) /\ o.bk = x.bk /\ o.ok = x.ok
    BY DEF Op, Identity
  <1> HIDE DEF m, o
  <1>3. o \in Op
    BY <1>1, FieldTypes
  <1> QED BY <1>2, <1>3 DEF o

LEMMA Unlocked ==
    ASSUME NEW x \in Op, NEW i \in Revision
    PROVE  \E o \in Op : /\ o = [x EXCEPT !.pc = "delete", !.target = i, !.lock = @ \/ db[i] \in locked]
                         /\ o.pc = "delete" /\ o.target = i /\ Identity(o, x)
                         /\ o.bk = x.bk /\ o.flag = x.flag /\ o.ok = x.ok
  <1> DEFINE k == x.lock \/ db[i] \in locked
             o == [x EXCEPT !.pc = "delete", !.target = i, !.lock = k]
  <1>1. PICK m \in Op : /\ m = [x EXCEPT !.pc = "delete", !.target = i]
                        /\ m.pc = "delete" /\ m.target = i /\ Identity(m, x)
                        /\ m.bk = x.bk /\ m.flag = x.flag /\ m.ok = x.ok
    BY Retargeted
  <1>2. o = [m EXCEPT !.lock = k]
    BY <1>1
  <1>3. /\ o.pc = "delete" /\ o.target = i /\ Identity(o, x)
        /\ o.bk = x.bk /\ o.flag = x.flag /\ o.ok = x.ok
    BY DEF Op, Identity
  <1>4. k = TRUE \/ k = FALSE
    OBVIOUS
  <1> HIDE DEF k, o
  <1>5. o = [m EXCEPT !.lock = TRUE] \/ o = [m EXCEPT !.lock = FALSE]
    BY <1>2, <1>4
  <1>6. o \in Op
    BY <1>5, FieldTypes
  <1> QED BY <1>3, <1>6 DEF o, k

LEMMA RebuildAdvances ==
    ASSUME StateOK, OpsOK, Solo, DataOK, ~Partial, NEW r \in Request, Rebuild(r)
    PROVE  Advances(r)
  <1>0. /\ op[r] # None /\ op[r] \in Op /\ op[r].pc \in RebuildLabel /\ op[r].kind = "rebuild"
        /\ op[r].rev \in Revision /\ op[r].new \in Revision
    BY Steps DEF Rebuild, Deactivate, Activate, UnlockOriginal, LockNew, DropBackup, DropVolume,
       Reactivate, At, WellFormed, Fits
  <1>1. Kept /\ StepOK(op[r]) /\ (Waits => Paused(op[r]))
    BY <1>0, Now
  <1>2. PICK x \in Op, i \in Revision, n \in Revision : x = op[r] /\ i = x.rev /\ n = x.new
    BY <1>0
  <1>3. /\ x.kind = "rebuild" /\ x # None /\ (~setting.scripts => x.bk = None)
        /\ x.ok => x.pc \in {"relock"} \cup Dropping
        /\ x.pc = "deactivate" => ~x.flag /\ UndoOK(x) /\ n \in Present /\ dom[n] # None
        /\ x.pc = "activate" => CopyOK(x)
        /\ x.pc = "unlock" => RemoveOK(x)
        /\ x.pc \in Dropping /\ ~x.ok => UndoOK(x)
        /\ x.pc = "reactivate" => x.flag /\ UndoOK(x)
        /\ x.pc = "relock" => x.ok
    BY <1>0, <1>1, <1>2 DEF StepOK, Copying
  <1>4. UNCHANGED <<setting, disk, dom, db, data>>
    BY DEF Rebuild, Deactivate, Activate, UnlockOriginal, LockNew, DropBackup, DropVolume,
       Reactivate, libvirt, mulch, users
  <1>5. bdb' \subseteq bdb
    BY DEF Rebuild, Deactivate, Activate, UnlockOriginal, LockNew, DropBackup, DropVolume,
       Reactivate, libvirt, mulch, users
  <1>6. Blank' /\ Present' = Present
    BY <1>1, <1>4, <1>5 DEF Kept, Blank, Present
  <1>7. ASSUME UNCHANGED active PROVE DataSame /\ Kept' /\ (Waits' <=> Waits)
    <2>1. DataSame
      BY <1>4, <1>7 DEF DataSame
    <2> QED BY <1>1, <1>6, <2>1, Frame DEF Kept
  <1>8. ~setting.scripts => data \in {None, {}} /\ \A j \in Revision : Stored(disk[j]) = {}
    BY <1>1 DEF Kept, Blank
  \* The deferred calls, or the end.
  <1>a. ASSUME NEW o \in Op \cup {None}, Put(r, o), Undoes(x, o), UNCHANGED active, ~x.ok => UndoOK(x)
        PROVE  Advances(r)
    <2>1. DataSame /\ Kept' /\ (Waits' <=> Waits)
      BY <1>7, <1>a
    <2>2. CASE x.ok
      <3>1. ~Waits'
        BY <1>1, <1>2, <1>3, <2>1, <2>2 DEF Paused, Copying, Dropping
      <3>2. ASSUME o # None PROVE StepOK(o)'
        BY <1>3, <1>4, <1>a, <2>2, <3>2 DEF Undoes, StepOK, Copying, Dropping, Identity
      <3> QED BY <1>a, <2>1, <3>1, <3>2 DEF Advances
    <2>3. CASE ~x.ok
      <3>1. UndoOK(op[r]) /\ op[r].kind = "rebuild" /\ Undoes(x, o) /\ Identity(x, op[r])
            /\ x.flag = op[r].flag
        BY <1>0, <1>2, <1>a, <2>3 DEF Identity
      <3> QED BY <1>0, <1>3, <1>6, <1>a, <2>1, <2>3, <3>1, UndoAdvances
    <2> QED BY <2>2, <2>3
  <1>b. ASSUME Put(r, Unwound(x)) \/ Put(r, Reverted(x)), UNCHANGED active, ~x.ok => UndoOK(x)
        PROVE  Advances(r)
    <2>1. Undoes(x, Unwound(x)) /\ Undoes(x, Reverted(x))
      BY <1>2, UnwoundUndoes, RevertedUndoes
    <2>2. PICK o \in Op \cup {None} : Put(r, o) /\ Undoes(x, o)
      BY <1>b, <2>1 DEF Undoes
    <2> QED BY <1>a, <1>b, <2>2
  <1>10. CASE Deactivate(r)
    <2>0. /\ x.pc = "deactivate" /\ ~x.flag /\ UndoOK(x) /\ n \in Present /\ dom[n] # None /\ ~x.ok
          /\ active' = IF active = i THEN None ELSE active
      BY <1>2, <1>3, <1>10 DEF Deactivate, At, Dropping
    <2>1. i # n /\ i \in Present /\ dom[i] # None /\ active # n /\ SpareBut(n)
      BY <1>2, <2>0 DEF UndoOK
    <2>2. PICK l \in Label : l = IF setting.scripts THEN "backup" ELSE IF active = i THEN "activate" ELSE "unlock"
      OBVIOUS
    <2>3. \E o \in Op : /\ o.pc = l /\ (o.flag <=> active = i) /\ Identity(o, x) /\ o.bk = x.bk /\ o.ok = x.ok
                        /\ Put(r, o)
      <3>0. Put(r, [x EXCEPT !.flag = (active = i), !.pc = l])
        BY <1>2, <1>10, <2>2 DEF Deactivate
      <3>1. CASE active = i
        <4>1. PICK o \in Op : /\ o = [x EXCEPT !.flag = TRUE, !.pc = l]
                              /\ o.pc = l /\ o.flag = TRUE /\ Identity(o, x) /\ o.bk = x.bk /\ o.ok = x.ok
          BY SwitchedOn
        <4>2. (active = i) = TRUE
          BY <3>1
        <4>3. Put(r, o)
          BY <3>0, <4>1, <4>2
        <4> QED BY <3>1, <4>1, <4>3
      <3>2. CASE active # i
        <4>1. PICK o \in Op : /\ o = [x EXCEPT !.flag = FALSE, !.pc = l]
                              /\ o.pc = l /\ o.flag = FALSE /\ Identity(o, x) /\ o.bk = x.bk /\ o.ok = x.ok
          BY SwitchedOff
        <4>2. (active = i) = FALSE
          BY <3>2
        <4>3. Put(r, o)
          BY <3>0, <4>1, <4>2
        <4> QED BY <3>2, <4>1, <4>3
      <3> QED BY <3>1, <3>2
    <2>4. PICK o \in Op : /\ o.pc = l /\ (o.flag <=> active = i) /\ Identity(o, x) /\ o.bk = x.bk /\ o.ok = x.ok
                          /\ Put(r, o) /\ o # None
      BY <2>3, SentinelAssumption
    <2>5. o.rev = i /\ o.new = n /\ o.kind = "rebuild" /\ ~o.ok
      BY <1>2, <1>3, <2>0, <2>4 DEF Identity
    <2>6. CASE active = i
      <3>1. active' = None /\ o.flag /\ data # None /\ data \subseteq Stored(disk[i])
        BY <1>1, <2>0, <2>4, <2>6, NoneIsNoContent DEF Kept, Served
      <3>2. Holds(i)'
        BY <1>4, <1>6, <2>1, <3>1 DEF Holds
      <3>3. Kept'
        BY <1>6, <3>1, <3>2, NoneIsNoContent DEF Kept, Served, SpareBut
      <3>4. UndoOK(o)'
        BY <1>4, <1>6, <2>1, <2>4, <2>5, <3>1 DEF UndoOK
      <3>5. l \in {"backup", "activate"} /\ (l = "activate" => ~setting.scripts)
        BY <2>2, <2>6
      <3>6. CopyOK(o)'
        BY <1>4, <1>6, <2>0, <2>4, <2>5, <3>1, <3>4, <3>5 DEF CopyOK
      <3>7. StepOK(o)' /\ Paused(o)
        BY <1>3, <1>4, <2>4, <2>5, <3>1, <3>5, <3>6 DEF StepOK, Copying, Dropping, Paused
      <3> QED BY <2>4, <3>3, <3>7 DEF Advances
    <2>7. CASE active # i
      <3>1. UNCHANGED active /\ ~o.flag /\ l \in {"backup", "unlock"} /\ (l = "unlock" => ~setting.scripts)
        BY <2>0, <2>2, <2>4, <2>7
      <3>2. Kept' /\ ~Waits' /\ DataSame
        BY <1>1, <1>2, <1>7, <2>0, <3>1 DEF Paused
      <3>3. UndoOK(o)
        BY <2>1, <2>4, <2>5, <3>1 DEF UndoOK
      <3>4. CASE l = "backup"
        <4>1. UndoOK(o)'
          BY <3>2, <3>3, Frame
        <4>2. CopyOK(o)'
          BY <1>4, <1>6, <2>0, <2>4, <2>5, <2>7, <3>1, <3>4, <4>1 DEF CopyOK
        <4>3. StepOK(o)'
          BY <1>3, <1>4, <2>4, <2>5, <3>4, <4>2 DEF StepOK, Copying, Dropping
        <4> QED BY <2>4, <3>2, <4>3 DEF Advances
      <3>5. CASE l = "unlock"
        <4>1. ~setting.scripts /\ (data # None => Holds(n))
          BY <1>8, <2>0, <3>1, <3>5 DEF Holds
        <4>2. SpareBut(i)
          BY <2>1, <4>1 DEF SpareBut
        <4>3. SpareBut(i)'
          BY <3>2, <4>2, Frame
        <4>4. RemoveOK(o)'
          BY <1>4, <1>6, <2>1, <2>4, <2>5, <2>7, <3>1, <3>5, <4>1, <4>3 DEF RemoveOK
        <4>5. StepOK(o)'
          BY <1>3, <1>4, <2>4, <2>5, <3>5, <4>4 DEF StepOK, Copying, Dropping
        <4> QED BY <2>4, <3>2, <4>5 DEF Advances
      <3> QED BY <3>1, <3>4, <3>5
    <2> QED BY <2>6, <2>7
  <1>11. CASE Activate(r)
    <2>0. x.pc = "activate" /\ CopyOK(x) /\ UndoOK(x) /\ ~x.ok
      BY <1>2, <1>3, <1>11 DEF Activate, At, Dropping, CopyOK
    <2>1. CASE Put(r, Unwound(x)) /\ UNCHANGED active
      BY <1>b, <2>0, <2>1
    <2>2. CASE active' = n /\ Go(r, "unlock")
      <3>1. PICK o \in Op : Put(r, o) /\ o # None /\ o.pc = "unlock" /\ Same(o, op[r])
        BY <1>0, <2>2, GoPuts
      <3>2. o.rev = i /\ o.new = n /\ o.kind = "rebuild" /\ o.flag = x.flag /\ ~o.ok /\ o.bk = x.bk
        BY <1>2, <1>3, <2>0, <3>1 DEF Same, Identity
      <3>3. x.flag /\ i # n /\ i \in Present /\ dom[i] # None /\ data # None /\ data \subseteq Stored(disk[i])
        BY <1>2, <2>0 DEF CopyOK, UndoOK
      <3>4. setting.scripts => disk[i] # None /\ disk[n] = disk[i]
        BY <1>2, <2>0 DEF CopyOK, Copied
      <3>5. data \subseteq Stored(disk[n])
        BY <1>8, <3>3, <3>4
      <3>6. active' # None
        BY <2>2, NoneIsNoContent
      <3>7. Kept' /\ ~Waits'
        BY <1>4, <1>6, <2>2, <3>3, <3>5, <3>6 DEF Kept, Served, SpareBut, Waits
      <3>8. SpareBut(i)'
        BY <3>6 DEF SpareBut
      <3>9. RemoveOK(o)'
        BY <1>4, <1>6, <2>2, <3>1, <3>2, <3>3, <3>4, <3>8 DEF RemoveOK
      <3>10. StepOK(o)'
        BY <1>3, <1>4, <3>1, <3>2, <3>9 DEF StepOK, Copying, Dropping
      <3> QED BY <3>1, <3>7, <3>10 DEF Advances
    <2> QED BY <1>2, <1>11, <2>1, <2>2 DEF Activate
  <1>12. CASE UnlockOriginal(r)
    <2>0. /\ x.pc = "unlock" /\ RemoveOK(x) /\ ~x.ok /\ UNCHANGED active /\ i \in Present
          /\ locked' = locked \ {db[i]}
      BY <1>2, <1>3, <1>12 DEF UnlockOriginal, At, Dropping, RemoveOK
    <2>2. PICK o \in Op : /\ o = [x EXCEPT !.pc = "delete", !.target = i, !.lock = @ \/ db[i] \in locked]
                          /\ o.pc = "delete" /\ o.target = i /\ Identity(o, x)
                          /\ o.bk = x.bk /\ o.flag = x.flag /\ o.ok = x.ok
      BY Unlocked
    <2>3. Put(r, o) /\ o # None
      BY <1>2, <1>12, <2>0, <2>2, SentinelAssumption DEF UnlockOriginal
    <2>4. o.rev = i /\ o.new = n /\ o.kind = "rebuild"
      BY <1>2, <1>3, <2>2 DEF Identity
    <2>5. Kept' /\ ~Waits' /\ DataSame
      BY <1>1, <1>2, <1>7, <2>0 DEF Paused, Copying, Dropping
    <2>6. SpareBut(i)'
      BY <1>2, <2>0, <2>5, Frame DEF RemoveOK
    <2>7. RemoveOK(o)'
      BY <1>2, <1>4, <1>6, <2>0, <2>2, <2>4, <2>6 DEF RemoveOK
    <2>8. StepOK(o)'
      BY <1>3, <1>4, <2>0, <2>2, <2>4, <2>7 DEF StepOK, Copying, Dropping
    <2> QED BY <2>3, <2>5, <2>8 DEF Advances
  <1>13. CASE LockNew(r)
    <2>1. x.ok /\ UNCHANGED active /\ Put(r, Unwound(x))
      BY <1>2, <1>3, <1>13 DEF LockNew, At
    <2> QED BY <1>b, <2>1
  <1>14. CASE DropBackup(r)
    <2>0. x.pc = "drop" /\ UNCHANGED active /\ (~x.ok => UndoOK(x))
      BY <1>2, <1>3, <1>14 DEF DropBackup, At, Dropping
    <2>1. CASE Put(r, Reverted(x))
      BY <1>b, <2>0, <2>1
    <2>2. CASE Go(r, "dropvol")
      <3>1. PICK o \in Op : Put(r, o) /\ o # None /\ o.pc = "dropvol" /\ Same(o, op[r])
        BY <1>0, <2>2, GoPuts
      <3>2. o.rev = i /\ o.new = n /\ o.kind = "rebuild" /\ o.flag = x.flag /\ o.ok = x.ok /\ o.bk = x.bk
        BY <1>2, <1>3, <3>1 DEF Same, Identity
      <3>3. DataSame /\ Kept' /\ (Waits' <=> Waits)
        BY <1>7, <2>0
      <3>4. ~o.ok => UndoOK(o)'
        <4>1. ~o.ok => UndoOK(o)
          BY <1>2, <2>0, <3>2 DEF UndoOK
        <4> QED BY <3>3, <4>1, Frame
      <3>5. StepOK(o)'
        BY <1>3, <1>4, <3>1, <3>2, <3>4 DEF StepOK, Copying, Dropping
      <3>6. Waits' => Paused(o)
        BY <1>1, <1>2, <2>0, <3>1, <3>2, <3>3 DEF Paused, Copying, Dropping
      <3> QED BY <3>1, <3>3, <3>5, <3>6 DEF Advances
    <2> QED BY <1>2, <1>14, <2>1, <2>2 DEF DropBackup
  <1>15. CASE DropVolume(r)
    <2>0. x.pc = "dropvol" /\ UNCHANGED active /\ (~x.ok => UndoOK(x)) /\ Put(r, Reverted(x))
      BY <1>2, <1>3, <1>15 DEF DropVolume, At, Dropping, mulch
    <2> QED BY <1>b, <2>0
  <1>16. CASE Reactivate(r)
    <2>0. x.pc = "reactivate" /\ x.flag /\ UndoOK(x) /\ ~x.ok /\ Put(r, Discarded(x))
      BY <1>2, <1>3, <1>16 DEF Reactivate, At, Dropping
    <2>1. i # n /\ i \in Present /\ data # None /\ data \subseteq Stored(disk[i])
      BY <1>2, <2>0 DEF UndoOK
    <2>2. active' = i /\ active' # None
      BY <1>2, <1>16, <2>1, NoneIsNoContent DEF Reactivate
    <2>3. PICK o \in Op : /\ o = Discarded(x) /\ o # None /\ o.pc = "delete" /\ o.target = x.new
                          /\ Identity(o, x) /\ o.bk = x.bk /\ o.flag = x.flag /\ o.ok = x.ok
      BY <1>2, DiscardedPuts
    <2>4. Kept' /\ ~Waits'
      BY <1>4, <1>6, <2>1, <2>2 DEF Kept, Served, SpareBut, Waits
    <2>5. o.target = n /\ o.rev = i /\ o.new = n /\ o.kind = "rebuild"
      BY <1>2, <1>3, <2>3 DEF Identity
    <2>6. SpareBut(n)'
      BY <2>2 DEF SpareBut
    <2>7. StepOK(o)'
      BY <1>3, <1>4, <2>0, <2>1, <2>2, <2>3, <2>5, <2>6 DEF StepOK, Copying, Dropping
    <2> QED BY <2>0, <2>3, <2>4, <2>7 DEF Advances
  <1> QED BY <1>10, <1>11, <1>12, <1>13, <1>14, <1>15, <1>16 DEF Rebuild

LEMMA DropAdvances ==
    ASSUME StateOK, OpsOK, Solo, DataOK, NEW r \in Request, DeleteBackupVolume(r) \/ DeleteBackupEntry(r)
    PROVE  Advances(r)
  <1>0. op[r] # None /\ op[r] \in Op /\ op[r].pc \in DropLabel /\ op[r].kind = "drop"
    BY Steps DEF DeleteBackupVolume, DeleteBackupEntry, At, WellFormed, Fits
  <1>1. Kept /\ StepOK(op[r]) /\ ~Waits
    BY <1>0, Now DEF Paused
  <1>2. DataSame /\ bdb' \subseteq bdb
    BY DEF DeleteBackupVolume, DeleteBackupEntry, DataSame, libvirt, mulch, users
  <1>3. Kept' /\ ~Waits'
    <2>1. Blank'
      BY <1>1, <1>2 DEF Kept, Blank, DataSame
    <2> QED BY <1>1, <1>2, <2>1, Frame DEF Kept
  <1>4. ASSUME Go(r, "deldb") PROVE Advances(r)
    <2>1. PICK o \in Op : Put(r, o) /\ o # None /\ o.pc = "deldb" /\ Same(o, op[r])
      BY <1>0, <1>4, GoPuts
    <2>2. StepOK(o)'
      BY <1>0, <1>1, <1>2, <2>1 DEF StepOK, Same, Identity, DataSame
    <2> QED BY <1>3, <2>1, <2>2 DEF Advances
  <1>5. ASSUME End(r) PROVE Advances(r)
    BY <1>3, <1>5 DEF End, Put, Advances
  <1> QED BY <1>4, <1>5 DEF DeleteBackupVolume, DeleteBackupEntry

\* The service writes, during an operation: what the operation copies is not written to.
LEMMA WriteKeeps ==
    ASSUME StateOK, OpsOK, DataOK, Write
    PROVE  DataOK'
  <1>0. PICK a \in Revision, w \in 1..MaxWrites : a = active /\ w = wrote' /\ a \in Present /\ a # None
    <2>1. setting.writes \in 0..MaxWrites
      BY LifecycleAssumption DEF StateOK
    <2>2. wrote' \in 1..MaxWrites
      BY <2>1, LifecycleAssumption DEF StateOK, Write
    <2> QED BY <2>2, NoneIsNoContent DEF StateOK, Write, Present
  <1>1. /\ UNCHANGED <<setting, dom, db, active, bvol, bdb, locked, op>> /\ setting.scripts
        /\ disk[a] # None /\ data # None /\ data \subseteq Stored(disk[a])
        /\ disk' = [disk EXCEPT ![a] = disk[a] \cup {w}] /\ data' = data \cup {w}
    BY <1>0 DEF Write, DataOK, Kept, Served, mulch
  <1>2. /\ disk'[a] = disk[a] \cup {w} /\ \A j \in Revision \ {a} : disk'[j] = disk[j]
        /\ disk'[a] # None /\ data' # None /\ active' # None /\ active' = a
    <2>1. disk[a] \cup {w} \in Content /\ data \cup {w} \in Content
      BY <1>1 DEF StateOK, Content
    <2> QED BY <1>0, <1>1, <2>1, NoneIsNoContent DEF StateOK
  <1>3. data' \subseteq Stored(disk'[a])
    BY <1>1, <1>2 DEF Stored
  <1>4. Present' = Present /\ \A k : SpareBut(k)'
    BY <1>1, <1>2 DEF Present, SpareBut
  <1>5. Kept' /\ ~Waits'
    BY <1>1, <1>2, <1>3, <1>4 DEF Kept, Served, Blank, Waits
  <1>6. ASSUME NEW x \in Op, StepOK(x) PROVE StepOK(x)'
    <2>1. ASSUME UndoOK(x) PROVE ~x.flag /\ active # x.new /\ UndoOK(x)'
      <3>1. ~x.flag /\ active # x.new
        BY <1>0, <1>1, <2>1 DEF UndoOK
      <3> QED BY <1>0, <1>1, <1>2, <1>4, <2>1, <3>1 DEF UndoOK
    <2>2. ASSUME CopyOK(x) PROVE CopyOK(x)' /\ ~x.flag
      <3>1. UndoOK(x) /\ ~x.flag /\ active # x.new /\ UndoOK(x)'
        BY <2>1, <2>2 DEF CopyOK
      <3>2. x.rev \in Revision \ {a} /\ x.new \in Revision \ {a}
        BY <1>0, <2>2, <3>1 DEF CopyOK, UndoOK, Present
      <3>3. disk'[x.rev] = disk[x.rev] /\ disk'[x.new] = disk[x.new]
        BY <1>2, <3>2
      <3> QED BY <1>1, <1>4, <2>2, <3>1, <3>3 DEF CopyOK, Copied
    <2>3. ASSUME RemoveOK(x) PROVE RemoveOK(x)'
      <3>1. x.rev # active
        BY <2>3 DEF RemoveOK
      <3>2. x.rev \in Present => disk'[x.rev] = disk[x.rev]
        BY <1>0, <1>2, <3>1 DEF Present
      <3> QED BY <1>1, <1>4, <2>3, <3>2 DEF RemoveOK
    <2>4. BuildOK(x) => BuildOK(x)'
      BY <1>1, <1>4 DEF BuildOK
    <2>5. /\ x.kind = "delete" /\ x.pc \in {"undefine", "delentry"} => active' # None \/ data' = None
          /\ x.kind = "create" => BuildOK(x)'
          /\ ~setting'.scripts => x.bk = None
      BY <1>1, <1>2, <1>6, <2>4 DEF StepOK
    <2>6. CASE x.kind # "rebuild"
      BY <2>5, <2>6 DEF StepOK
    <2>7. CASE x.kind = "rebuild" /\ x.pc \in NewVMLabel
      BY <1>6, <2>4, <2>5, <2>7 DEF StepOK, Copying, Dropping
    <2>8. CASE x.kind = "rebuild" /\ x.pc = "deactivate"
      BY <1>1, <1>4, <1>6, <2>1, <2>5, <2>8 DEF StepOK, Copying, Dropping
    <2>9. CASE x.kind = "rebuild" /\ x.pc \in Copying
      BY <1>6, <2>2, <2>5, <2>9 DEF StepOK, Copying, Dropping
    <2>10. CASE x.kind = "rebuild" /\ x.pc \in DeleteLabel \cup {"unlock"}
      BY <1>1, <1>4, <1>6, <2>3, <2>5, <2>10 DEF StepOK, Copying, Dropping
    <2>11. CASE x.kind = "rebuild" /\ x.pc \in Dropping \cup {"reactivate", "relock"}
      BY <1>6, <2>1, <2>5, <2>11 DEF StepOK, Copying, Dropping
    <2>12. CASE x.kind = "rebuild" /\ x.pc \in DropLabel
      BY <1>6, <2>5, <2>12 DEF StepOK, Copying, Dropping
    <2>13. x.pc \in Label
      BY DEF Op
    <2> QED BY <2>6, <2>7, <2>8, <2>9, <2>10, <2>11, <2>12, <2>13 DEF Copying, Dropping
  <1>7. ASSUME NEW r \in Request, op'[r] # None PROVE StepOK(op[r])'
    <2>1. PICK x \in Op : x = op[r] /\ StepOK(x)
      BY <1>1, <1>7, Steps DEF DataOK, StepsOK
    <2>2. StepOK(x)' /\ op' = op
      BY <1>1, <1>6, <2>1
    <2> QED BY <2>1, <2>2
  <1> QED BY <1>5, <1>7 DEF DataOK, StepsOK, Awaited

\* The other steps of the users wait until no request is handled.
LEMMA UsersKeepData ==
    ASSUME StateOK, OpsOK, DataOK, ~setting.overlap, Users
    PROVE  DataOK'
  <1>1. CASE Write
    BY <1>1, WriteKeeps
  <1>2. ASSUME Alone, op' = op, Kept', ~Waits' PROVE DataOK'
    BY <1>2 DEF DataOK, Awaited, StepsOK, Alone
  <1>3. Alone => Kept /\ ~Waits
    BY DEF DataOK, Awaited, Alone
  <1>4. CASE \E i \in Revision : Stop(i) \/ Start(i) \/ LockUnlock(i)
    <2>1. Alone /\ op' = op /\ DataSame /\ bdb' = bdb
      BY <1>4 DEF Stop, Start, LockUnlock, UserActs, DataSame, libvirt, mulch, users
    <2> QED BY <1>2, <1>3, <2>1, Frame DEF Kept
  <1>5. ASSUME NEW i \in Revision \cup {None}, ActivateVM(i) PROVE DataOK'
    <2>1. /\ Alone /\ op' = op /\ UNCHANGED <<setting, disk, dom, db, bdb>> /\ active' = i
          /\ data' = Expected(i, disk)
      BY <1>5 DEF ActivateVM, UserActs, libvirt
    <2>2. CASE i = None
      BY <1>2, <1>3, <2>1, <2>2 DEF Kept, Served, SpareBut, Blank, Waits, Expected
    <2>3. CASE i \in Revision
      <3>1. i # None /\ data' = Stored(disk[i]) /\ data' # None
        BY <2>1, <2>3, NoneIsNoContent DEF Expected, Stored, Content, StateOK
      <3> QED BY <1>2, <1>3, <2>1, <3>1 DEF Kept, Served, SpareBut, Blank, Waits
    <2> QED BY <2>2, <2>3
  <1> QED BY <1>1, <1>4, <1>5 DEF Users

LEMMA RestartKeepsData ==
    ASSUME StateOK, DataOK, Restart
    PROVE  DataOK'
  <1> DEFINE kept == {i \in Present : dom[i] # None}
  <1>0. UNCHANGED <<setting, disk, dom, bdb>> /\ setting.fault = "crash"
    BY DEF Restart, libvirt
  <1>1. Present' = kept /\ active' \in kept \cup {None}
    BY RestartPreserves, NoneIsNoContent DEF StateOK, Restart, Present
  <1>2. \A i \in Revision : Holds(i) => i \in Present'
    BY <1>1 DEF Holds
  <1>3. Kept'
    <2>1. CASE active' = active /\ data' = data
      <3>1. \A i \in Revision : Holds(i) => Holds(i)'
        BY <1>0, <1>2, <2>1 DEF Holds
      <3> QED BY <1>0, <2>1, <3>1 DEF Kept, Served, SpareBut, Blank, DataOK
    <2>2. CASE active' = None /\ data' = Expected(active', disk)
      BY <1>0, <2>2 DEF Kept, Served, SpareBut, Blank, DataOK, Expected
    <2>3. CASE active' # None /\ data' = Expected(active', disk)
      <3>1. PICK j \in Revision : j = active'
        BY <1>1, <2>3 DEF Present
      <3>2. data' = Stored(disk[j]) /\ data' # None
        BY <2>3, <3>1, NoneIsNoContent DEF Expected, Stored, Content, StateOK
      <3> QED BY <1>0, <2>3, <3>1, <3>2 DEF Kept, Served, SpareBut, Blank, DataOK
    <2> QED BY <2>1, <2>2, <2>3 DEF Restart
  <1>4. (\A r \in Request : op'[r] = None) /\ ~Waits'
    BY <1>0 DEF Restart, Waits
  <1> QED BY <1>3, <1>4 DEF DataOK, Awaited, StepsOK

LEMMA DataNext ==
    ASSUME Inv, ~setting.overlap, ~Partial, Solo, DataOK, [Next]_vars
    PROVE  DataOK'
  <1>0. OpsOK /\ StateOK
    BY TypeParts DEF Inv
  <1>1. ASSUME NEW r \in Request, op[r] # None \/ Alone, Advances(r) PROVE DataOK'
    BY <1>0, <1>1, AdvancesKeeps
  <1>2. ASSUME NEW r \in Request, Begin(r) PROVE DataOK'
    <2>1. Begins(r) /\ Alone
      BY <1>0, <1>2, BeginBegins DEF Begins
    <2> QED BY <1>0, <1>1, <2>1, BeginAdvances
  <1>3. ASSUME NEW r \in Request, Create(r) \/ DeleteBackupVolume(r) \/ DeleteBackupEntry(r)
        PROVE  op[r] # None
    BY <1>3 DEF Create, CreateDiskFromSeed, DefineDomain, Boot, Prepare, Add, RollbackDomain,
       RollbackDisk, DeleteBackupVolume, DeleteBackupEntry, At
  <1>4. ASSUME NEW r \in Request, SaveBackup(r) \/ Restore(r) PROVE op[r] # None
    BY <1>4 DEF SaveBackup, CheckOperation, MarkBackup, CreateBackupDisk, AttachBackup,
       BackupScripts, DetachBackup, AddBackup, UndoBackup, Restore, MarkRestore, AttachRestore,
       RestoreScripts, DetachRestore, At
  <1>5. ASSUME NEW r \in Request, Delete(r) \/ Rebuild(r) PROVE op[r] # None
    BY <1>5 DEF Delete, DeleteCheck, Destroy, DeleteDisk, Undefine, DeleteEntry,
       RebuildDHCPStaticLeases, Rebuild, Deactivate, Activate, UnlockOriginal, LockNew,
       DropBackup, DropVolume, Reactivate, At
  <1>6. ASSUME NEW r \in Request,
               \/ Create(r) \/ SaveBackup(r) \/ Restore(r) \/ Delete(r) \/ Rebuild(r)
               \/ DeleteBackupVolume(r) \/ DeleteBackupEntry(r)
        PROVE  DataOK'
    BY <1>0, <1>1, <1>3, <1>4, <1>5, <1>6, CreateAdvances, SaveBackupAdvances, RestoreAdvances,
       DeleteAdvances, RebuildAdvances, DropAdvances
  <1>7. CASE Users
    BY <1>0, <1>7, UsersKeepData
  <1>8. CASE Restart
    BY <1>0, <1>8, RestartKeepsData
  <1>9. CASE UNCHANGED vars
    <2>1. op' = op /\ DataSame /\ UNCHANGED <<bvol, bdb, locked>>
      BY <1>9 DEF vars, libvirt, mulch, users, DataSame
    <2>2. Kept' /\ Awaited'
      BY <2>1, Frame DEF DataOK, Kept, Awaited
    <2>3. ASSUME NEW r \in Request, op'[r] # None PROVE StepOK(op[r])'
      <3>1. PICK x \in Op : x = op[r] /\ StepOK(x)
        BY <1>0, <2>1, <2>3, Steps DEF DataOK, StepsOK
      <3>2. StepOK(x)'
        BY <2>1, <3>1, FrameStep
      <3> QED BY <2>1, <3>1, <3>2
    <2> QED BY <2>2, <2>3 DEF DataOK, StepsOK
  <1> QED BY <1>2, <1>6, <1>7, <1>8, <1>9 DEF Next

-----------------------------------------------------------------------------
Careful == ~setting.overlap /\ ~Partial

(***************************************************************************)
(* The invariant about data, when requests do not overlap and calls that   *)
(* undo do not fail, for any number of revisions, backups and writes,      *)
(* restarts included: at each step of a rebuild and of its deferred calls, *)
(* what it may go back to, or goes on with, has the data of the users.     *)
(***************************************************************************)
THEOREM DataHolds == Spec => [](Careful => DataOK)
  <1> DEFINE I == Careful => DataOK
             Serial == ~setting.overlap => Solo
  <1>1. Init => I
    <2> SUFFICES ASSUME Init PROVE DataOK
      OBVIOUS
    <2>1. 0 \in Revision /\ active = 0 /\ data = {} /\ bdb = {}
      BY LifecycleAssumption DEF Init, Revision
    <2>2. 0 # None /\ {} # None
      BY <2>1, NoneIsNoContent DEF Content
    <2>3. \A i \in Revision : Stored(disk[i]) = {}
      BY DEF Init, Stored
    <2>4. \A r \in Request : op[r] = None
      BY DEF Init
    <2>5. Kept
      BY <2>1, <2>2, <2>3 DEF Kept, Served, SpareBut, Blank
    <2> QED BY <2>1, <2>2, <2>4, <2>5 DEF DataOK, Awaited, Waits, StepsOK
  <1>2. Inv /\ Serial /\ I /\ [Next]_vars => I'
    BY DataNext, SettingNext DEF Careful, Partial
  <1> QED BY <1>1, <1>2, InvHolds, OneAtATime, PTL DEF Spec

(***************************************************************************)
(* The active VM has all the data that the users expect (VMRebuild,        *)
(* VMDatabase.Delete, VMRestoreNoChecks), at every step and after any      *)
(* failure or restart.                                                     *)
(***************************************************************************)
THEOREM ServedIsCurrent == Spec => []ServedDataIsCurrent
  <1>1. (Careful => DataOK) => ServedDataIsCurrent
    BY DEF Careful, DataOK, Kept, Served, ServedDataIsCurrent
  <1> QED BY <1>1, DataHolds, PTL

(***************************************************************************)
(* The disk of a VM of the database has all the data that the users        *)
(* expect, at every step of a rebuild: it deletes the original only when   *)
(* the new VM has its data, and the new VM only when the original has it.  *)
(***************************************************************************)
THEOREM DataIsKept == Spec => []DataSurvives
  <1>1. Inv /\ (Careful => DataOK) => DataSurvives
    <2> SUFFICES ASSUME StateOK, Kept, data # None
                 PROVE  \E i \in Present : data \subseteq Stored(disk[i])
      BY TypeParts DEF Inv, Careful, DataOK, DataSurvives, RebuildKeepsData
    <2>1. CASE active = None
      BY <2>1 DEF Kept, SpareBut, Holds
    <2>2. CASE active # None
      BY <2>2 DEF Kept, Served, StateOK
    <2> QED BY <2>1, <2>2
  <1> QED BY <1>1, InvHolds, DataHolds, PTL

(***************************************************************************)
(* A rebuild that fails sets the original active again (the deferred       *)
(* SetActiveRevision of VMRebuild): when no request is handled, the VM     *)
(* that the users want is active.                                          *)
(***************************************************************************)
THEOREM ServiceComesBack == Spec => []ServiceReturns
  <1>1. (Careful => DataOK) => ServiceReturns
    BY DEF Careful, Partial, DataOK, Awaited, Waits, Alone, ServiceReturns
  <1> QED BY <1>1, DataHolds, PTL
================================================================================
