---------------------------- MODULE MCVMLifecycle ----------------------------
(* Instances of VMLifecycle for TLC. *)
EXTENDS VMLifecycle, TLC

\* One request at a time, of any kind, and a service that writes.
Serial(faults, scripts) ==
    [overlap : {FALSE}, fault : faults, scripts : scripts, kinds : {Kind}, writes : {1}]

\* Two requests of these kinds at once; steps fail.
Overlap(kinds) ==
    [overlap : {TRUE}, fault : {"none"}, scripts : {TRUE}, kinds : {kinds}, writes : {0}]

MCSetting ==
    Serial({"none", "partial", "crash"}, BOOLEAN)
        \cup Overlap({"rebuild"})
        \cup Overlap({"create", "delete"})
        \cup Overlap({"backup", "restore", "drop"})

\* Rebuilds of a VM that has scripts, by one request; a call may fail after its effect.
MCPartial ==
    [overlap : {FALSE}, fault : {"partial"}, scripts : {TRUE}, kinds : {{"rebuild"}}, writes : {0}]

Symmetry == Permutations(Request) \cup Permutations(Backup)
=============================================================================
