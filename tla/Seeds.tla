-------------------------------- MODULE Seeds --------------------------------
(***************************************************************************)
(* The seeds (seeds.go): images VMs are made from.  Every hour mulchd      *)
(* downloads the images whose site has a newer one, then rebuilds, with a  *)
(* VM, the "seeders" that are due; users refresh seeds at any time, and    *)
(* create VMs from the ones that are ready.                                *)
(*                                                                         *)
(* A version stands for the content of an image and for its date: it is    *)
(* the Last-Modified header of a site, or the rebuild period of a seeder.  *)
(*                                                                         *)
(* The file is truncated, then written, and hardly any error is looked at: *)
(* a save that fails, or that a stop cuts short, leaves what the file held *)
(* or one mulchd refuses to start with.  A seeder is replaced while the    *)
(* file calls it ready: a stop then makes mulchd take it for ready.        *)
(***************************************************************************)
EXTENDS Naturals

CONSTANTS
    Seed,
    Seeders,     \* the ones that are built by a VM; the others have a URL
    Configs,     \* sets of seeds the configuration may name
    Hourly,        \* the goroutine of Run
    User,        \* users who refresh seeds
    Maker,       \* users who create VMs
    SeedsTorn,   \* a file that is truncated
    SeedFaults,  \* what may happen: a subset of {"fail", "failForced", "overlap", "stop",
                 \* "save", "stopSaving"}
    MaxVersion,  \* bound: versions of a seed
    MaxManual,   \* bound: refreshes and creations by users
    MaxCrashes   \* bound: stops of mulchd

VARIABLES
    seedDB,    \* SeedDatabase.db: [a set of seeds -> [ready, modified]]
    seedFile,  \* what its file holds, or SeedsTorn
    started,   \* mulchd runs
    image,     \* the version in the volume of each seed, 0 if there is no volume
    whole,     \* seeds whose volume is complete
    latest,    \* what the site has, or the period that has begun
    toCheck,   \* seeds this hour's round still has to look at
    work,      \* refreshes: [Hourly and users -> [pc, seed, force, date, version]]
    making,    \* creations of VMs: [pc, seed]
    halfMade,  \* a VM was made from an image that was not complete
    unmarked,  \* seeds whose image is, or was, replaced, which the file was not told
    misled,    \* seeds that were so when mulchd stopped, and not replaced since
    manual, crashes \* bounds

seedVars == <<seedDB, seedFile, started, image, whole, latest, toCheck, work, making,
              halfMade, unmarked, misled, manual, crashes>>
marks == <<unmarked, misled>>

Worker == {Hourly} \cup User
NoSeed == CHOOSE s \in Seed : TRUE
Free == [pc |-> "idle", seed |-> NoSeed, force |-> FALSE, date |-> 0, version |-> 0]
NotMaking == [pc |-> "idle", seed |-> NoSeed]
IsUp(w, pc) == started /\ work[w].pc = pc
Does(w, pc) == work' = [work EXCEPT ![w].pc = pc]
Ends(w) == work' = [work EXCEPT ![w] = Free]
Begin(w, pc, s, force, date) ==
    work' = [work EXCEPT ![w] = [pc |-> pc, seed |-> s, force |-> force, date |-> date,
                                 version |-> 0]]
IsRefreshed(s) == \E w \in Worker : work[w].pc # "idle" /\ work[w].seed = s

\* A refresh by a user that fails is not tried again: "failForced", also because the seed
\* is used meanwhile.
UserRefreshes(s) == \E u \in User : work[u].pc # "idle" /\ work[u].seed = s
IsUsed(s) == \E m \in Maker : making[m].pc # "idle" /\ making[m].seed = s

\* libvirt does not delete a volume that is being copied from or to.
Busy(s) ==
    \/ \E w \in Worker : work[w].pc = "copying" /\ work[w].seed = s
    \/ \E m \in Maker : making[m].pc = "cloning" /\ making[m].seed = s

\* The save of all seeds, whose errors are ignored, once those of "fresh" are not ready.
SaveSeeds(db, fresh) ==
    \/ seedFile' = db /\ unmarked' = {}
    \/ /\ "save" \in SeedFaults
       /\ seedFile' \in {seedFile, SeedsTorn} /\ unmarked' = unmarked \cup fresh

-----------------------------------------------------------------------------
(* RefreshSeed and RefreshSeeder, for the round of the hour or, forced, for  *)
(* a user: the seed has an URL ...                                           *)

Starts(w, s, force) ==
    \/ /\ s \notin Seeders
       /\ seedDB[s].modified # latest[s] \/ force
       /\ Begin(w, "downloading", s, force, latest[s])
    \/ /\ s \in Seeders
       /\ seedDB[s].modified < latest[s] \/ force
       /\ Begin(w, "building", s, force, 0)

\* (mutant: a seed stays ready while its image is replaced)
StaysReady(s) == seedDB

NotReady(s) == [seedDB EXCEPT ![s].ready = FALSE]

\* The image is in a temporary file, of this version or of a newer one.  The seed is not
\* ready any more, and the database is saved.
Downloaded(w) ==
    LET s == work[w].seed
    IN  /\ IsUp(w, "downloading")
        /\ seedDB' = NotReady(s) /\ misled' = misled \ {s}
        /\ SaveSeeds(seedDB', {s})
        /\ work' = [work EXCEPT ![w].pc = "replacing", ![w].version = latest[s]]
        /\ UNCHANGED <<started, image, whole, latest, toCheck, making, halfMade, manual,
                       crashes>>

\* ... or is built: the VM was created, prepared and stopped.  Nothing is saved.
Built(w) ==
    LET s == work[w].seed
    IN  /\ IsUp(w, "building")
        /\ seedDB' = [seedDB EXCEPT ![s].ready = FALSE]
        /\ misled' = misled \ {s} /\ unmarked' = unmarked \cup {s}
        /\ work' = [work EXCEPT ![w].pc = "replacing", ![w].version = latest[s]]
        /\ UNCHANGED <<seedFile, started, image, whole, latest, toCheck, making, halfMade,
                       manual, crashes>>

\* An error for an URL; RefreshSeeder ignores it, and fails to create the volume.
OldVolumeDeleted(w) ==
    LET s == work[w].seed
    IN  /\ IsUp(w, "replacing")
        /\ IF Busy(s) THEN s \in Seeders /\ UNCHANGED <<image, whole>>
           ELSE image' = [image EXCEPT ![s] = 0] /\ whole' = whole \ {s}
        /\ Does(w, "creating")
        /\ UNCHANGED <<marks, seedDB, seedFile, started, latest, toCheck, making, halfMade,
                       manual, crashes>>

VolumeCreated(w) ==
    LET s == work[w].seed
    IN  /\ IsUp(w, "creating") /\ image[s] = 0
        /\ image' = [image EXCEPT ![s] = work[w].version]
        /\ Does(w, "copying")
        /\ UNCHANGED <<marks, seedDB, seedFile, started, whole, latest, toCheck, making,
                       halfMade, manual, crashes>>

VolumeCopied(w) ==
    /\ IsUp(w, "copying")
    /\ whole' = whole \cup {work[w].seed}
    /\ Does(w, "storing")
    /\ UNCHANGED <<marks, seedDB, seedFile, started, image, latest, toCheck, making,
                   halfMade, manual, crashes>>

\* A seeder has the date of the end, a seed the one the site announced at first.
Stored(w) ==
    LET s == work[w].seed
    IN  /\ IsUp(w, "storing")
        /\ seedDB' = [seedDB EXCEPT ![s] =
                        [ready |-> TRUE,
                         modified |-> IF s \in Seeders THEN latest[s] ELSE work[w].date]]
        /\ SaveSeeds(seedDB', {}) /\ UNCHANGED misled
        /\ Ends(w)
        /\ UNCHANGED <<started, image, whole, latest, toCheck, making, halfMade, manual,
                       crashes>>

\* Every step may fail; what is done stays.  Only the round saves what it reports.
MayFail(w) ==
    LET s == work[w].seed
    IN  \/ "fail" \in SeedFaults /\ (work[w].force => "failForced" \in SeedFaults)
        \/ work[w].pc = "replacing" /\ s \notin Seeders /\ Busy(s)
        \/ work[w].pc = "creating" /\ image[s] # 0

Fails(w) ==
    /\ started /\ work[w].pc \notin {"idle", "storing"} /\ MayFail(w)
    /\ IF w = Hourly THEN SaveSeeds(seedDB, {}) ELSE UNCHANGED <<seedFile, unmarked>>
    /\ Ends(w)
    /\ UNCHANGED <<seedDB, misled, started, image, whole, latest, toCheck, making, halfMade,
                   manual, crashes>>

-----------------------------------------------------------------------------
(* Run, and the requests of users. *)

\* The seeds with an URL, then the seeders.
Turn == IF toCheck \subseteq Seeders THEN toCheck ELSE toCheck \ Seeders

RoundBegins ==
    /\ IsUp(Hourly, "idle") /\ toCheck = {}
    /\ toCheck' = DOMAIN seedDB
    /\ UNCHANGED <<marks, seedDB, seedFile, started, image, whole, latest, work, making,
                   halfMade, manual, crashes>>

\* The seed is paused, up to date, or cannot be looked at (and then all are saved).
Skips(s) ==
    /\ IsUp(Hourly, "idle") /\ s \in Turn
    /\ toCheck' = toCheck \ {s}
    /\ SaveSeeds(seedDB, {}) \/ UNCHANGED <<seedFile, unmarked>>
    /\ UNCHANGED <<seedDB, misled, started, image, whole, latest, work, making, halfMade,
                   manual, crashes>>

Refreshes(s) ==
    /\ IsUp(Hourly, "idle") /\ s \in Turn
    /\ "overlap" \in SeedFaults \/ ~IsRefreshed(s)
    /\ toCheck' = toCheck \ {s}
    /\ Starts(Hourly, s, FALSE)
    /\ UNCHANGED <<marks, seedDB, seedFile, started, image, whole, latest, making, halfMade,
                   manual, crashes>>

\* Nothing tells a user that the seed is being refreshed.
ForcedRefresh(u, s) ==
    /\ IsUp(u, "idle") /\ s \in DOMAIN seedDB /\ manual < MaxManual
    /\ "overlap" \in SeedFaults \/ ~IsRefreshed(s)
    /\ "failForced" \in SeedFaults \/ ~IsUsed(s)
    /\ manual' = manual + 1
    /\ Starts(u, s, TRUE)
    /\ UNCHANGED <<marks, seedDB, seedFile, started, image, whole, latest, toCheck, making,
                   halfMade, crashes>>

\* PauseSeed saves the database.
PauseSeed ==
    /\ started /\ SaveSeeds(seedDB, {})
    /\ UNCHANGED <<seedDB, misled, started, image, whole, latest, toCheck, work, making,
                   halfMade, manual, crashes>>

-----------------------------------------------------------------------------
(* NewVM: the seed is ready, then its volume is copied. *)

SeedIsReady(m, s) ==
    /\ started /\ making[m].pc = "idle" /\ manual < MaxManual
    /\ s \in DOMAIN seedDB /\ seedDB[s].ready
    /\ "failForced" \in SeedFaults \/ ~UserRefreshes(s)
    /\ manual' = manual + 1
    /\ making' = [making EXCEPT ![m] = [pc |-> "ready", seed |-> s]]
    /\ UNCHANGED <<marks, seedDB, seedFile, started, image, whole, latest, toCheck, work,
                   halfMade, crashes>>

CloneBegins(m) ==
    LET s == making[m].seed
    IN  /\ started /\ making[m].pc = "ready"
        /\ making' = [making EXCEPT ![m] = IF image[s] = 0 THEN NotMaking
                                           ELSE [pc |-> "cloning", seed |-> s]]
        /\ halfMade' = (halfMade \/ (image[s] # 0 /\ s \notin whole))
        /\ UNCHANGED <<marks, seedDB, seedFile, started, image, whole, latest, toCheck,
                       work, manual, crashes>>

CloneEnds(m) ==
    /\ started /\ making[m].pc = "cloning"
    /\ making' = [making EXCEPT ![m] = NotMaking]
    /\ UNCHANGED <<marks, seedDB, seedFile, started, image, whole, latest, toCheck, work,
                   halfMade, manual, crashes>>

-----------------------------------------------------------------------------

\* The site has a newer image, or a period begins.
Publish(s) ==
    /\ latest[s] < MaxVersion
    /\ latest' = [latest EXCEPT ![s] = @ + 1]
    /\ UNCHANGED <<marks, seedDB, seedFile, started, image, whole, toCheck, work, making,
                   halfMade, manual, crashes>>

\* Anywhere, in the middle of a save too.
Crash ==
    /\ started /\ "stop" \in SeedFaults /\ crashes < MaxCrashes
    /\ started' = FALSE /\ crashes' = crashes + 1
    /\ seedFile' \in {seedFile} \cup IF "stopSaving" \in SeedFaults THEN {SeedsTorn} ELSE {}
    /\ misled' = misled \cup unmarked /\ unmarked' = {}
    /\ work' = [w \in Worker |-> Free] /\ making' = [m \in Maker |-> NotMaking]
    /\ toCheck' = {}
    /\ UNCHANGED <<seedDB, image, whole, latest, halfMade, manual>>

\* (mutant: the date of a seed that is not ready is kept)
KeepsDate(e) == e

\* "Reset LastModified to restart download".
Reset(e) == IF e.ready THEN e ELSE [ready |-> FALSE, modified |-> 0]

VolumesGone(gone) ==
    /\ image' = [s \in Seed |-> IF s \in gone THEN 0 ELSE image[s]]
    /\ whole' = whole \ gone

\* NewSeeder: the file is loaded, which must work.  The volumes of what the configuration
\* does not name any more are deleted, then the file is saved ...
Restarts ==
    /\ ~started /\ seedFile # SeedsTorn
    /\ \E conf \in Configs :
          /\ seedDB' = [s \in conf |-> IF s \in DOMAIN seedFile THEN Reset(seedFile[s])
                                       ELSE [ready |-> FALSE, modified |-> 0]]
          /\ \E gone \in SUBSET (DOMAIN seedFile \ conf) :
                /\ gone # DOMAIN seedFile \ conf => "fail" \in SeedFaults
                /\ VolumesGone(gone)
          /\ misled' = misled \cap conf
    /\ seedFile' = seedDB' /\ started' = TRUE
    /\ UNCHANGED <<latest, toCheck, work, making, halfMade, unmarked, manual, crashes>>

\* ... unless it cannot be, or mulchd stops before: it still names them.
RestartFails ==
    /\ ~started /\ seedFile # SeedsTorn
    /\ {"save", "stopSaving"} \cap SeedFaults # {}
    /\ \E conf \in Configs :
       \E gone \in SUBSET (DOMAIN seedFile \ conf) :
          /\ VolumesGone(gone)
          /\ misled' = misled \cup gone
    /\ seedFile' \in {seedFile, SeedsTorn}
    /\ UNCHANGED <<seedDB, started, latest, toCheck, work, making, halfMade, unmarked,
                   manual, crashes>>

\* A server whose seeds have been refreshed once, or were just added.
SeedsInit ==
    /\ started = TRUE
    /\ \E conf \in Configs, done \in SUBSET Seed :
          /\ seedDB = [s \in conf |-> [ready |-> s \in done, modified |-> IF s \in done THEN 1 ELSE 0]]
          /\ image = [s \in Seed |-> IF s \in conf \cap done THEN 1 ELSE 0]
          /\ whole = conf \cap done
    /\ seedFile = seedDB
    /\ latest = [s \in Seed |-> 1]
    /\ toCheck = {} /\ work = [w \in Worker |-> Free] /\ making = [m \in Maker |-> NotMaking]
    /\ halfMade = FALSE /\ unmarked = {} /\ misled = {}
    /\ manual = 0 /\ crashes = 0

SeedsNext ==
    \/ \E w \in Worker :
          \/ Downloaded(w) \/ Built(w) \/ OldVolumeDeleted(w) \/ VolumeCreated(w)
          \/ VolumeCopied(w) \/ Stored(w) \/ Fails(w)
    \/ RoundBegins \/ PauseSeed \/ Crash \/ Restarts \/ RestartFails
    \/ \E s \in Seed :
          \/ Skips(s) \/ Refreshes(s) \/ Publish(s)
          \/ \E u \in User : ForcedRefresh(u, s)
          \/ \E m \in Maker : SeedIsReady(m, s)
    \/ \E m \in Maker : CloneBegins(m) \/ CloneEnds(m)

SeedsSpec == SeedsInit /\ [][SeedsNext]_seedVars

-----------------------------------------------------------------------------
(* Properties. *)

\* Type correctness: a complete volume exists.
SeedsTypeOK ==
    /\ DOMAIN seedDB \subseteq Seed
    /\ seedFile # SeedsTorn => DOMAIN seedFile \subseteq Seed
    /\ \A s \in whole : image[s] # 0
    /\ ~started => work = [w \in Worker |-> Free]

\* A seed that is called ready has a complete image, at least as new as it claims,
\* whichever step of a refresh or save fails and wherever mulchd stops
\* (seeds.go:333-363, 369-436): in the file, but for the seeds whose replacement was not
\* saved (a seeder's is not, nor one whose save fails); in memory, but for those of them
\* that a stop has left so.  A file that a save has left unreadable says nothing: mulchd
\* does not start.  Two refreshes of one seed at once are left out ("overlap").
AreWhole(db, but) ==
    \A s \in DOMAIN db \ but :
        db[s].ready => s \in whole /\ (s \notin Seeders => image[s] >= db[s].modified)

ReadyIsWhole ==
    /\ AreWhole(seedDB, misled)
    /\ seedFile # SeedsTorn => AreWhole(seedFile, misled \cup unmarked)

\* An image that is not ready and that nobody refreshes is downloaded by the next round,
\* its site be unchanged (seeds.go:62-67, 391).
NotReadyIsRetried ==
    started =>
        \A s \in DOMAIN seedDB \ Seeders :
            ~seedDB[s].ready /\ ~IsRefreshed(s) => seedDB[s].modified # latest[s]

\* VMs are made from complete images (vm.go:295).
DisksAreWhole == ~halfMade

=============================================================================
