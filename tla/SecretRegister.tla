--------------------------- MODULE SecretRegister ---------------------------
(***************************************************************************)
(* What the shared secrets of mulchd promise (README, "VM migration and    *)
(* secret sharing"), without messages, locks or files: each secret is a    *)
(* register, each peer holds one of the writes made to it, and a peer only *)
(* goes back to an earlier write when it restarts, never before a write it *)
(* has acknowledged.                                                       *)
(***************************************************************************)
EXTENDS Naturals

CONSTANTS Peer, Key, MaxStamp, None

VARIABLES
    written,        \* the writes made so far
    reg,            \* the write each peer holds, for each secret
    acked,          \* the writes each peer has said successful
    running         \* the peers that are not stopped

vars == <<written, reg, acked, running>>

\* A deletion is a write too.
Write == [key : Key, stamp : 1..MaxStamp, live : BOOLEAN]

Nothing == [k \in Key |-> None]

NotBefore(w, v) == v = None \/ (w # None /\ w.stamp >= v.stamp)

Init ==
    /\ written = {}
    /\ reg = [p \in Peer |-> Nothing]
    /\ acked = [p \in Peer |-> {}]
    /\ running = Peer

\* A user writes at peer p, after every write made so far.
Put(p, w) ==
    /\ p \in running
    /\ \A v \in written : v.stamp < w.stamp
    /\ written' = written \cup {w}
    /\ reg' = [reg EXCEPT ![p][w.key] = w]
    /\ UNCHANGED <<acked, running>>

\* The user is told that it is done.
Acknowledge(p, w) ==
    /\ p \in running
    /\ NotBefore(reg[p][w.key], w)
    /\ acked' = [acked EXCEPT ![p] = @ \cup {w}]
    /\ UNCHANGED <<written, reg, running>>

\* What peer p holds becomes other writes.
Change(p) ==
    /\ p \in running
    /\ reg' = [reg EXCEPT ![p] = reg'[p]]
    /\ \A k \in Key : reg'[p][k] \in {None} \cup {w \in written : w.key = k}
    /\ UNCHANGED written

\* It learns later ones.
Learn(p) ==
    /\ Change(p)
    /\ \A k \in Key : NotBefore(reg'[p][k], reg[p][k])
    /\ UNCHANGED <<acked, running>>

\* It stops, and may forget what it has not acknowledged.
Stop(p) ==
    /\ Change(p)
    /\ \A w \in acked[p] : NotBefore(reg'[p][w.key], w)
    /\ running' = running \ {p}
    /\ UNCHANGED acked

\* It stops for good, its file lost with everything it held.
Wreck(p) ==
    /\ p \in running
    /\ reg' = [reg EXCEPT ![p] = Nothing]
    /\ acked' = [acked EXCEPT ![p] = {}]
    /\ running' = running \ {p}
    /\ UNCHANGED written

Restart(p) ==
    /\ p \notin running
    /\ running' = running \cup {p}
    /\ UNCHANGED <<written, reg, acked>>

Next ==
    \E p \in Peer :
        \/ \E w \in Write : Put(p, w)
        \/ \E w \in written : Acknowledge(p, w)
        \/ Learn(p) \/ Stop(p) \/ Wreck(p) \/ Restart(p)

Spec == Init /\ [][Next]_vars
=============================================================================
