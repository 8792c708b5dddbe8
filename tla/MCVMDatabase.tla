---------------------------- MODULE MCVMDatabase ----------------------------
(* Small instances of VMDatabase: configurations and symmetry. *)
EXTENDS VMDatabase, TLC

CONSTANTS d1, pub

MCDomain == {d1}
MCPublicPort == {pub}
MCBlank == [domains |-> {}, ports |-> {}]

\* A web server, a TCP server, and a VM that serves nothing.
MCConfig == {MCBlank,
             [domains |-> {d1}, ports |-> {}],
             [domains |-> {}, ports |-> {<<pub, 5432>>}]}

MCConfigWeb == {MCBlank, [domains |-> {d1}, ports |-> {}]}

\* One more configuration: two ports of the VM behind the same public port.
MCConfigTwoPorts == {MCBlank, [domains |-> {}, ports |-> {<<pub, 5432>>, <<pub, 6432>>}]}

Symmetry == Permutations(Request) \cup Permutations(VM) \cup Permutations(Name)
=============================================================================
