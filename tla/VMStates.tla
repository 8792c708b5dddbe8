------------------------------- MODULE VMStates -------------------------------
(***************************************************************************)
(* The VM state database (vmstate_database.go): every ten seconds mulchd   *)
(* writes which VMs are up; when it starts, it first puts them back in the *)
(* recorded state, one goroutine per VM, then goes on recording.           *)
(*                                                                         *)
(* mulchd may stop at any time, alone or with the host: then no VM is up.  *)
(* Users start, stop, create and delete VMs as soon as mulchd runs, the    *)
(* restoration included.                                                   *)
(***************************************************************************)
EXTENDS Naturals

CONSTANTS
    VM,
    Broken,      \* a file that is truncated
    StateFaults, \* what may happen: a subset of {"stop", "stopSaving", "save", "action"}
    MaxStops,    \* bound: stops of mulchd
    MaxActions   \* bound: changes made by users

VARIABLES
    vms,        \* VMs of the VM database
    up,         \* the ones that run, as libvirt sees them
    phase,      \* of Run: "down", "creating", "cooldown", "restoring", "restored",
                \* "saving", "running"
    states,     \* VMStateDatabase.db: [a set of VMs -> BOOLEAN]
    stateFile,  \* the file, or Broken
    toVisit,    \* recorded VMs restoreStates has not looked at
    restoring,  \* its goroutines: [VM -> "none", "start" or "stop"]
    recorded,   \* the states of the last save after a restoration
    excused,    \* VMs that users changed, or that failed to start or stop, since
    stops, actions \* bounds

stateVars == <<vms, up, phase, states, stateFile, toVisit, restoring, recorded, excused,
               stops, actions>>
dbVars == <<phase, states, stateFile, toVisit, restoring, recorded>>

NoneRestoring == [v \in VM |-> "none"]

-----------------------------------------------------------------------------
(* The users, and the VMs. *)

UserAction(v) ==
    /\ phase # "down" /\ actions < MaxActions
    /\ actions' = actions + 1
    /\ excused' = excused \cup {v}
    /\ \/ v \in vms /\ up' = up \cup {v} /\ UNCHANGED vms
       \/ v \in vms /\ up' = up \ {v} /\ UNCHANGED vms
       \/ v \in vms /\ vms' = vms \ {v} /\ up' = up \ {v}
       \/ v \notin vms /\ vms' = vms \cup {v} /\ up' = up \cup {v}
    /\ UNCHANGED <<dbVars, stops>>

-----------------------------------------------------------------------------
(* restoreStates. *)

\* After its second of cooldown.
RestoreBegins ==
    /\ phase = "cooldown"
    /\ phase' = "restoring" /\ toVisit' = DOMAIN states
    /\ UNCHANGED <<vms, up, states, stateFile, restoring, recorded, excused, stops, actions>>

\* A VM that is not in the database any more is skipped, and one whose state
\* libvirt cannot tell.
Visit(v) ==
    /\ phase = "restoring" /\ v \in toVisit
    /\ toVisit' = toVisit \ {v}
    /\ restoring' = [restoring EXCEPT ![v] =
                        IF v \notin vms \/ states[v] = (v \in up) THEN "none"
                        ELSE IF states[v] THEN "start" ELSE "stop"]
    /\ UNCHANGED <<vms, up, phase, states, stateFile, recorded, excused, stops, actions>>

\* VMStartByName or VMStopByName returns.
Restore(v) ==
    /\ restoring[v] # "none"
    /\ restoring' = [restoring EXCEPT ![v] = "none"]
    /\ \/ /\ up' = IF restoring[v] = "start" /\ v \in vms THEN up \cup {v} ELSE up \ {v}
          /\ UNCHANGED excused
       \/ /\ "action" \in StateFaults
          /\ excused' = excused \cup {v}
          /\ UNCHANGED up
    /\ UNCHANGED <<vms, phase, states, stateFile, toVisit, recorded, stops, actions>>

\* wg.Wait.
RestoreEnds ==
    /\ phase = "restoring" /\ toVisit = {} /\ restoring = NoneRestoring
    /\ phase' = "restored"
    /\ UNCHANGED <<vms, up, states, stateFile, toVisit, restoring, recorded, excused,
                   stops, actions>>

-----------------------------------------------------------------------------
(* Update. *)

\* (mutant: Run records the states before it restores them)
UpdatesBeforeRestore == {"cooldown", "restored", "running"}

UpdatePhases == {"restored", "running"}

\* The states have changed: the file is created again, that is, truncated.
Update ==
    /\ phase \in UpdatePhases
    /\ LET new == [v \in vms |-> v \in up]
       IN  /\ IF new = states THEN UNCHANGED <<states, stateFile>>
              ELSE states' = new /\ stateFile' = Broken
           /\ phase' = IF phase = "cooldown" THEN "cooldown"
                       ELSE IF new = states THEN "running" ELSE "saving"
    /\ UNCHANGED <<vms, up, toVisit, restoring, recorded, excused, stops, actions>>

SaveEnds ==
    /\ phase = "saving"
    /\ phase' = "running"
    /\ stateFile' = states /\ recorded' = states /\ excused' = {}
    /\ UNCHANGED <<vms, up, states, toVisit, restoring, stops, actions>>

\* The error is ignored.  The states in memory are the new ones: they will not be
\* saved again before they change.
SaveFails ==
    /\ phase = "saving" /\ "save" \in StateFaults
    /\ phase' = "running"
    /\ UNCHANGED <<vms, up, states, stateFile, toVisit, restoring, recorded, excused,
                   stops, actions>>

-----------------------------------------------------------------------------

\* mulchd stops, or the host does.
Stop ==
    /\ phase # "down" /\ "stop" \in StateFaults /\ stops < MaxStops
    /\ phase \in {"creating", "saving"} => "stopSaving" \in StateFaults
    /\ stops' = stops + 1
    /\ phase' = "down"
    /\ up' \in {up, {}}
    /\ toVisit' = {} /\ restoring' = NoneRestoring
    /\ UNCHANGED <<vms, states, stateFile, recorded, excused, actions>>

\* NewVMStateDatabase: mulchd does not start with a file it cannot decode; then
\* the file is written, "to check if it's writable".
Start ==
    /\ phase = "down" /\ stateFile # Broken
    /\ states' = stateFile /\ stateFile' = Broken
    /\ phase' = "creating"
    /\ UNCHANGED <<vms, up, toVisit, restoring, recorded, excused, stops, actions>>

StartEnds ==
    /\ phase = "creating"
    /\ stateFile' = states
    /\ phase' = "cooldown"
    /\ UNCHANGED <<vms, up, states, toVisit, restoring, recorded, excused, stops, actions>>

\* A server that runs: its states are recorded.
StatesInit ==
    /\ vms = VM /\ up \in SUBSET VM
    /\ phase = "running" /\ states = [v \in VM |-> v \in up]
    /\ stateFile = states /\ recorded = states
    /\ toVisit = {} /\ restoring = NoneRestoring /\ excused = {}
    /\ stops = 0 /\ actions = 0

StatesNext ==
    \/ \E v \in VM : UserAction(v) \/ Visit(v) \/ Restore(v)
    \/ RestoreBegins \/ RestoreEnds
    \/ Update \/ SaveEnds \/ SaveFails
    \/ Stop \/ Start \/ StartEnds

StatesSpec == StatesInit /\ [][StatesNext]_stateVars

-----------------------------------------------------------------------------
(* Properties. *)

\* Type correctness: goroutines run during the restoration only.
StatesTypeOK ==
    /\ up \subseteq vms /\ vms \subseteq VM
    /\ stateFile = Broken \/ DOMAIN stateFile \subseteq VM
    /\ restoring # NoneRestoring => phase = "restoring"

\* However often mulchd and the host stop before the restoration is over, every VM
\* is in its last recorded state when it ends, but the ones users have changed
\* since and the ones that could not be started or stopped
\* (vmstate_database.go:137-213).
StatesAreRestored ==
    phase = "restored" =>
        \A v \in (vms \cap DOMAIN recorded) \ excused : (v \in up) = recorded[v]

\* mulchd can start again (vmstate_database.go:33-43).
StateFileIsReadable == phase = "down" => stateFile # Broken

=============================================================================
