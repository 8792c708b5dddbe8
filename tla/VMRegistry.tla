----------------------------- MODULE VMRegistry -----------------------------
(***************************************************************************)
(* What the VM database of mulchd promises, without requests, locks, saves *)
(* or restarts: a registry of named revisions, of which one at most is     *)
(* active for each name, and the routes mulch-proxy is given.  Changes are *)
(* atomic, survive restarts, and never give a domain or a public port to   *)
(* two VMs.                                                                *)
(***************************************************************************)
CONSTANTS Name, VMName, VM, Config, Blank, Domain, PublicPort, None

VARIABLES
    vms,            \* the VM of each VMName, or None
    confs,          \* its configuration
    active,         \* the entries that serve their name
    domains,        \* the entry each domain leads to
    ports           \* the entry behind each public port

vars == <<vms, confs, active, domains, ports>>

Entries == {id \in VMName : vms[id] # None}

OfOthers(n) == {id \in active : id[1] # n}

\* A domain or a port leads to the active entry that claims it: there is one.
Routed ==
    /\ domains \in [Domain -> VMName \cup {None}]
    /\ \A dom \in Domain, id \in VMName :
          domains[dom] = id <=> id \in active /\ dom \in confs[id].domains
    /\ ports \in [PublicPort -> VMName \cup {None}]
    /\ \A port \in PublicPort, id \in VMName :
          ports[port] = id <=> id \in active /\ \E p \in confs[id].ports : p[1] = port

Init ==
    /\ vms = [id \in VMName |-> None]
    /\ confs = [id \in VMName |-> Blank]
    /\ active = {}
    /\ Routed

\* A VM is built; it takes the name over if it is active.
Add(id, v, c, takes) ==
    /\ vms[id] = None
    /\ vms' = [vms EXCEPT ![id] = v]
    /\ confs' = [confs EXCEPT ![id] = c]
    /\ active' = IF takes THEN OfOthers(id[1]) \cup {id} ELSE active

Activate(id) ==
    /\ id \in Entries
    /\ active' = OfOthers(id[1]) \cup {id}
    /\ UNCHANGED <<vms, confs>>

Deactivate(n) ==
    /\ active' = OfOthers(n)
    /\ UNCHANGED <<vms, confs>>

Redefine(id, c) ==
    /\ id \in Entries
    /\ confs' = [confs EXCEPT ![id] = c]
    /\ UNCHANGED <<vms, active>>

\* Only the last entry of a name may be removed while it serves the name.
Remove(id) ==
    /\ id \in Entries
    /\ id \in active => \A x \in Entries : x[1] = id[1] => x = id
    /\ vms' = [vms EXCEPT ![id] = None]
    /\ confs' = [confs EXCEPT ![id] = Blank]
    /\ active' = active \ {id}

Next ==
    /\ \/ \E id \in VMName, v \in VM, c \in Config, takes \in BOOLEAN : Add(id, v, c, takes)
       \/ \E id \in VMName : Activate(id) \/ Remove(id)
       \/ \E id \in VMName, c \in Config : Redefine(id, c)
       \/ \E n \in Name : Deactivate(n)
    /\ Routed'

Spec == Init /\ [][Next]_vars
=============================================================================
