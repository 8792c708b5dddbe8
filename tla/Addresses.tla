------------------------------ MODULE Addresses ------------------------------
(***************************************************************************)
(* The addresses of the VMs: the one a creation draws (network.go), and    *)
(* the static DHCP leases of the libvirt network (libvirt_dhcp.go), that   *)
(* mulchd brings up to date with the VM database after every change, from  *)
(* its own copy of the list.  Without its lease a VM gets another address, *)
(* and the filter of the network drops what it sends.                      *)
(*                                                                         *)
(* The MAC address is drawn the same way, and abstracted with the address. *)
(***************************************************************************)
EXTENDS FiniteSets, Naturals

CONSTANTS
    Guest,         \* names of VMs, revision included
    Address,       \* the DHCP range
    AddressFaults, \* what may happen: a subset of {"same", "network", "creation", "restart"}
    MaxCreations,  \* bound: creations
    MaxRestarts    \* bound: restarts of mulchd

VARIABLES
    guests,    \* the VM database: [a set of names -> address]
    transient, \* leases of the creations that are going on: [name, ip]
    network,   \* the leases libvirt has
    known,     \* the ones mulchd has read last: lv.NetworkXML
    creating,  \* creations and deletions: [name -> [pc, ip]]
    failed,    \* a rebuild of the leases returned an error once: a lease it left is found by
               \* the name of its VM ever after
    creations, mulchds \* bounds

addressVars == <<guests, transient, network, known, creating, failed, creations, mulchds>>

Lease(g, a) == [name |-> g, ip |-> a]
LeasesOf(db) == {Lease(g, db[g]) : g \in DOMAIN db}
NamesOf(leases) == {l.name : l \in leases}
Quiet == [pc |-> "no", ip |-> CHOOSE a \in Address : TRUE]
InStep(g, pc) == creating[g].pc = pc
Enter(g, pc) == creating' = [creating EXCEPT ![g].pc = pc]
Leave(g) == creating' = [creating EXCEPT ![g] = Quiet]

\* libvirt refuses a lease whose name or address is taken.
Compatible(leases) ==
    \A l, m \in leases : l = m \/ (l.name # m.name /\ l.ip # m.ip)

-----------------------------------------------------------------------------
(* rebuildDHCPStaticLeases, with its mutex. *)

\* (mutant: the leases of creations are deleted as well)
OutdatedOfDatabase(db, leases) == {l \in known : l.name \notin DOMAIN db}

Outdated(db, leases) == {l \in known : l.name \notin DOMAIN db \cup NamesOf(leases)}

\* A VM of the database that is also being created is added twice, hence an error.
Missing(db, leases) == {l \in LeasesOf(db) \cup leases : l.name \notin NamesOf(known)}
Twice(db, leases) ==
    \E g \in DOMAIN db : g \in NamesOf(leases) /\ g \notin NamesOf(known)

\* Deletions, then additions; the copy is read again.
RebuildSucceeds(db, leases) ==
    LET result == (network \ Outdated(db, leases)) \cup Missing(db, leases)
    IN  /\ Outdated(db, leases) \subseteq network
        /\ Missing(db, leases) \cap network = {} /\ ~Twice(db, leases)
        /\ Compatible(result)
        /\ network' = result /\ known' = result
        /\ UNCHANGED failed

\* The first error ends it; what is done stays, and the copy is not read again.
RebuildFails(db, leases) ==
    LET outdated == Outdated(db, leases)
        missing == Missing(db, leases)
        fault == "network" \in AddressFaults
    IN  /\ failed' = TRUE /\ UNCHANGED known
        /\ \/ \E some \in SUBSET outdated :
                /\ some \subseteq network
                /\ fault \/ ~(outdated \ some \subseteq network)
                /\ network' = network \ some
           \/ \E some \in SUBSET missing :
                LET left == network \ outdated
                IN  /\ outdated \subseteq network
                    /\ some \cap left = {} /\ Compatible(left \cup some)
                    /\ \/ fault \/ Twice(db, leases)
                       \/ \E l \in missing \ some :
                             l \in left \/ ~Compatible(left \cup some \cup {l})
                    /\ network' = left \cup some

Rebuild(db, leases) == RebuildSucceeds(db, leases) \/ RebuildFails(db, leases)

-----------------------------------------------------------------------------
(* NewVM. *)

\* RandomUniqueIPv4: an address no VM and no lease has; there is no other answer.
IsFree(a) ==
    /\ \A g \in DOMAIN guests : guests[g] # a
    /\ \A l \in known : l.ip # a

Draw(g, a) ==
    /\ InStep(g, "no") /\ g \notin DOMAIN guests /\ creations < MaxCreations
    /\ IsFree(a)
    /\ "same" \in AddressFaults \/ \A h \in Guest : creating[h].pc # "no" => creating[h].ip # a
    /\ creating' = [creating EXCEPT ![g] = [pc |-> "drawn", ip |-> a]]
    /\ creations' = creations + 1
    /\ UNCHANGED <<guests, transient, network, known, failed, mulchds>>

\* AddTransientDHCPHost, whose error is not looked at.
AddTransient(g) ==
    /\ InStep(g, "drawn")
    /\ transient' = transient \cup {Lease(g, creating[g].ip)}
    /\ Rebuild(guests, transient')
    /\ Enter(g, "leased")
    /\ UNCHANGED <<guests, creations, mulchds>>

Created(g) ==
    /\ InStep(g, "leased")
    /\ guests' = [h \in DOMAIN guests \cup {g} |-> IF h = g THEN creating[g].ip ELSE guests[h]]
    /\ Enter(g, "ending")
    /\ UNCHANGED <<transient, network, known, failed, creations, mulchds>>

CreationFails(g) ==
    /\ InStep(g, "leased") /\ "creation" \in AddressFaults
    /\ Enter(g, "ending")
    /\ UNCHANGED <<guests, transient, network, known, failed, creations, mulchds>>

\* The deferred RemoveTransientDHCPHost.
RemoveTransient(g) ==
    /\ InStep(g, "ending")
    /\ transient' = {l \in transient : l.name # g}
    /\ Rebuild(guests, transient')
    /\ Leave(g)
    /\ UNCHANGED <<guests, creations, mulchds>>

-----------------------------------------------------------------------------
(* VMDelete: the entry, then the leases. *)

DeleteGuest(g) ==
    /\ InStep(g, "no") /\ g \in DOMAIN guests
    /\ guests' = [h \in DOMAIN guests \ {g} |-> guests[h]]
    /\ Enter(g, "deleted")
    /\ UNCHANGED <<transient, network, known, failed, creations, mulchds>>

GuestDeleted(g) ==
    /\ InStep(g, "deleted")
    /\ Rebuild(guests, transient)
    /\ Leave(g)
    /\ UNCHANGED <<guests, transient, creations, mulchds>>

-----------------------------------------------------------------------------

\* mulchd stops, and starts again: it reads the list and brings it up to date; it does
\* not start on an error.
RestartMulchd ==
    /\ "restart" \in AddressFaults /\ mulchds < MaxRestarts
    /\ mulchds' = mulchds + 1
    /\ transient' = {} /\ creating' = [g \in Guest |-> Quiet]
    /\ network' = {l \in network : l.name \in DOMAIN guests}
                  \cup {l \in LeasesOf(guests) : l.name \notin NamesOf(network)}
    /\ Compatible(network')
    /\ known' = network'
    /\ UNCHANGED <<guests, failed, creations>>

AddressesInit ==
    /\ \E some \in SUBSET Guest : \E ips \in [some -> Address] :
          Cardinality({ips[g] : g \in some}) = Cardinality(some) /\ guests = ips
    /\ transient = {} /\ network = LeasesOf(guests) /\ known = network
    /\ creating = [g \in Guest |-> Quiet]
    /\ failed = FALSE
    /\ creations = 0 /\ mulchds = 0

AddressesNext ==
    \/ \E g \in Guest :
          \/ \E a \in Address : Draw(g, a)
          \/ AddTransient(g) \/ Created(g) \/ CreationFails(g) \/ RemoveTransient(g)
          \/ DeleteGuest(g) \/ GuestDeleted(g)
    \/ RestartMulchd

AddressesSpec == AddressesInit /\ [][AddressesNext]_addressVars

-----------------------------------------------------------------------------
(* Properties. *)

\* Type correctness: only creations have transient leases.
AddressesTypeOK ==
    /\ DOMAIN guests \subseteq Guest
    /\ \A l \in transient : creating[l.name].pc \in {"leased", "ending"}
    /\ Compatible(network)

\* Every VM has its lease, from the first step of its creation that needs it, whatever
\* creations and deletions cross, as long as libvirt answers (libvirt_dhcp.go:53-165).
VMsHaveLeases == ~failed => LeasesOf(guests) \cup transient \subseteq network

\* Two VMs have different addresses (network.go:48, "random unique IPv4").
AddressesAreUnique == \A g, h \in DOMAIN guests : g # h => guests[g] # guests[h]

\* An error does not last: without it mulchd can rebuild the leases (libvirt_dhcp.go:58).
LeasesCanBeRebuilt ==
    Outdated(guests, transient) \subseteq network /\ Missing(guests, transient) \cap network = {}

=============================================================================
