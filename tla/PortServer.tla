------------------------------ MODULE PortServer ------------------------------
(***************************************************************************)
(* The TCP proxy of mulch-proxy: one listener per port of the port         *)
(* database (port_server.go), the sources it accepts and where it forwards *)
(* them (port_listener.go), and the connections it forwards, two pipes     *)
(* each (port_forward.go).                                                 *)
(*                                                                         *)
(* Three kinds of goroutines share the listeners: the signal handler, that *)
(* updates them under a mutex; one Listen per listener, that reads them    *)
(* without this mutex; and the connections, told to end by a channel that  *)
(* is closed when their forward is withdrawn.                              *)
(*                                                                         *)
(* A forwarder is an address and a port.  The channel of a connection is   *)
(* found by its source and the address only, as the keys of closeChannels. *)
(***************************************************************************)
EXTENDS Naturals, FiniteSets

CONSTANTS
    Client,      \* addresses connections come from
    Star,        \* the source of the forwards of a public port
    Conn,        \* bound: connections at the same time
    PortFiles,   \* contents the port file can have: [a set of ports -> forwards]
    MaxReloads,  \* bound: number of reloads
    NoPort       \* no port, no connection

Pipe == {"from", "to"}

VARIABLES
    portDB,      \* the last file decoded (PortDatabase.db)
    refresh,     \* where refreshListeners is
    todo,        \* ports of portDB its loop has not visited
    kept,        \* ports with the current version
    busy,        \* the port whose forward map is being updated
    listeners,   \* [the ports that are open -> listener]
    conns,       \* the connections
    reloads,     \* bound
    running      \* FALSE: a panic or a fatal error of the runtime stopped mulch-proxy

portVars == <<portDB, refresh, todo, kept, busy, listeners, conns, reloads, running>>
serverVars == <<portDB, refresh, todo, kept, busy, reloads>>

Keys(forwards) == {<<s, forwards[s].ip>> : s \in DOMAIN forwards}

NoConn == [pc |-> "none", port |-> NoPort, key |-> <<>>, revoked |-> FALSE,
           closed |-> FALSE, chanClosed |-> FALSE, pipes |-> [i \in Pipe |-> "run"]]

\* PortForward, from the dial to the end of both pipes.
Forwarding(c) == conns[c].pc \in {"dialing", "open", "ended"}

-----------------------------------------------------------------------------
(* The signal handler: PortServer.ReloadPorts. *)

\* Load empties the database before it reads the file: on an error (the file is
\* being written) it stays empty, and the refresh is done all the same.
Load(file) ==
    /\ running /\ refresh = "idle" /\ reloads < MaxReloads
    /\ portDB' = file
    /\ refresh' = "open" /\ todo' = DOMAIN file /\ kept' = {}
    /\ reloads' = reloads + 1
    /\ UNCHANGED <<busy, listeners, conns, running>>

NewListener(forwards) ==
    [public |-> Star \in DOMAIN forwards, map |-> forwards, chans |-> Keys(forwards)]

OpenListener(p) ==
    /\ running /\ refresh = "open" /\ p \in todo \ DOMAIN listeners
    /\ listeners' = [q \in DOMAIN listeners \cup {p} |->
                        IF q = p THEN NewListener(portDB[p]) ELSE listeners[q]]
    /\ todo' = todo \ {p} /\ kept' = kept \cup {p}
    /\ UNCHANGED <<portDB, refresh, busy, conns, reloads, running>>

\* The port is used by another program.
ListenFails(p) ==
    /\ running /\ refresh = "open" /\ p \in todo \ DOMAIN listeners
    /\ todo' = todo \ {p}
    /\ UNCHANGED <<portDB, refresh, kept, busy, listeners, conns, reloads, running>>

\* UpdateForwardMap takes the mutex, and builds the keys that are allowed.
UpdateForwardMap(p) ==
    /\ running /\ refresh = "open" /\ p \in todo \cap DOMAIN listeners
    /\ refresh' = "add" /\ busy' = p
    /\ todo' = todo \ {p} /\ kept' = kept \cup {p}
    /\ UNCHANGED <<portDB, listeners, conns, reloads, running>>

AddChannels ==
    /\ running /\ refresh = "add"
    /\ refresh' = "remove"
    /\ listeners' = [listeners EXCEPT ![busy].chans = @ \cup Keys(portDB[busy])]
    /\ UNCHANGED <<portDB, todo, kept, busy, conns, reloads, running>>

\* (mutant: the channels are dropped without being closed)
RevokedNever(keys, p) == conns

\* The connections of these channels are told to end.
Revoked(keys, p) ==
    [c \in Conn |->
        IF Forwarding(c) /\ conns[c].port = p /\ conns[c].key \in keys
        THEN [conns[c] EXCEPT !.revoked = TRUE] ELSE conns[c]]

RemoveChannels ==
    /\ running /\ refresh = "remove"
    /\ refresh' = "set"
    /\ LET old == listeners[busy].chans \ Keys(portDB[busy])
       IN  /\ listeners' = [listeners EXCEPT ![busy].chans = @ \ old]
           /\ conns' = Revoked(old, busy)
    /\ UNCHANGED <<portDB, todo, kept, busy, reloads, running>>

\* (mutant: the forwards of an open port are merged with the new ones)
MapMerged(old, new) ==
    [s \in DOMAIN old \cup DOMAIN new |-> IF s \in DOMAIN old THEN old[s] ELSE new[s]]

MapReplaced(old, new) == new

\* "public" keeps the value it had when the listener was created.
SetForwardMap ==
    /\ running /\ refresh = "set"
    /\ refresh' = "open" /\ busy' = NoPort
    /\ listeners' = [listeners EXCEPT ![busy].map = MapReplaced(@, portDB[busy])]
    /\ UNCHANGED <<portDB, todo, kept, conns, reloads, running>>

\* The listener is closed, then its channels.  A connection that Listen is about
\* to forward does not find its channel any more.
CloseListener(p) ==
    /\ running /\ refresh = "open" /\ todo = {} /\ p \in DOMAIN listeners \ kept
    /\ conns' = [c \in Conn |->
                    IF conns[c].pc = "looked" /\ conns[c].port = p THEN NoConn
                    ELSE Revoked(listeners[p].chans, p)[c]]
    /\ listeners' = [q \in DOMAIN listeners \ {p} |-> listeners[q]]
    /\ UNCHANGED <<portDB, refresh, todo, kept, busy, reloads, running>>

EndRefresh ==
    /\ running /\ refresh = "open" /\ todo = {} /\ DOMAIN listeners \subseteq kept
    /\ refresh' = "idle"
    /\ UNCHANGED <<portDB, todo, kept, busy, listeners, conns, reloads, running>>

-----------------------------------------------------------------------------
(* PortListener.Listen: one goroutine per listener. *)

Source(listener, client) == IF listener.public THEN Star ELSE client

\* Where the listener sends this client: a set with one forwarder, or none.
Target(listener, client) ==
    LET s == Source(listener, client)
    IN  IF s \in DOMAIN listener.map /\ <<s, listener.map[s].ip>> \in listener.chans
        THEN {listener.map[s]} ELSE {}

\* AcceptTCP returned, forwardMap has been read.  A client that is not in the
\* map is disconnected at once.
Accept(c, client, p) ==
    /\ running /\ conns[c] = NoConn /\ p \in DOMAIN listeners
    /\ \A o \in Conn : ~ (conns[o].pc = "looked" /\ conns[o].port = p)
    /\ LET l == listeners[p]
           s == Source(l, client)
       IN  /\ s \in DOMAIN l.map
           /\ conns' = [conns EXCEPT ![c].pc = "looked", ![c].port = p,
                                     ![c].key = <<s, l.map[s].ip>>]
    /\ UNCHANGED <<serverVars, listeners, running>>

\* closeChannels is read: no channel, no forward.
Forward(c) ==
    /\ running /\ conns[c].pc = "looked"
    /\ conns' = [conns EXCEPT ![c] =
                    IF conns[c].key \in listeners[conns[c].port].chans
                    THEN [conns[c] EXCEPT !.pc = "dialing"] ELSE NoConn]
    /\ UNCHANGED <<serverVars, listeners, running>>

\* This read overlaps a write of UpdateForwardMap: the Go runtime may stop the
\* program ("concurrent map read and map write").
ConcurrentMapAccess(c) ==
    /\ running /\ conns[c].pc = "looked" /\ conns[c].port = busy
    /\ \/ refresh = "add" /\ ~ Keys(portDB[busy]) \subseteq listeners[busy].chans
       \/ refresh = "remove" /\ ~ listeners[busy].chans \subseteq Keys(portDB[busy])
    /\ running' = FALSE
    /\ UNCHANGED <<serverVars, listeners, conns>>

\* AcceptTCP fails while the listener is open (no file descriptor left): the error
\* is logged, then the connection, nil, is used.
AcceptFails(p) ==
    /\ running /\ p \in DOMAIN listeners
    /\ running' = FALSE
    /\ UNCHANGED <<serverVars, listeners, conns>>

-----------------------------------------------------------------------------
(* PortForward: NewPortForward and its two pipes. *)

Dial(c) ==
    /\ running /\ conns[c].pc = "dialing"
    /\ \/ conns' = [conns EXCEPT ![c].pc = "open"]
       \/ conns' = [conns EXCEPT ![c] = NoConn]
    /\ UNCHANGED <<serverVars, listeners, running>>

\* The select of NewPortForward, and the deferred closes of both connections.
Disconnect(c) ==
    /\ running /\ conns[c].pc = "open"
    /\ conns[c].chanClosed \/ conns[c].revoked
    /\ conns' = [conns EXCEPT ![c].pc = "ended"]
    /\ UNCHANGED <<serverVars, listeners, running>>

\* A peer has closed its connection, or Disconnect did: Read or Write fails, and
\* close() looks at the flag.
PipeFails(c, i) ==
    /\ running /\ conns[c].pc \in {"open", "ended"} /\ conns[c].pipes[i] = "run"
    /\ conns' = [conns EXCEPT ![c].pipes[i] = IF conns[c].closed THEN "done" ELSE "closing"]
    /\ UNCHANGED <<serverVars, listeners, running>>

\* The flag is set, the channel is closed: if the other pipe was as far, it is
\* closed twice.
PipeCloses(c, i) ==
    /\ running /\ conns[c].pipes[i] = "closing"
    /\ running' = ~ conns[c].chanClosed
    /\ conns' = [conns EXCEPT ![c].pipes[i] = "done", ![c].closed = TRUE,
                              ![c].chanClosed = TRUE]
    /\ UNCHANGED <<serverVars, listeners>>

Collect(c) ==
    /\ running /\ conns[c].pc = "ended" /\ \A i \in Pipe : conns[c].pipes[i] = "done"
    /\ conns' = [conns EXCEPT ![c] = NoConn]
    /\ UNCHANGED <<serverVars, listeners, running>>

-----------------------------------------------------------------------------

Empty == [p \in {} |-> {}]

\* mulch-proxy starts: NewPortServer loads the file, and opens the listeners.
PortsInit ==
    /\ \E file \in PortFiles : portDB = file /\ todo = DOMAIN file
    /\ refresh = "open" /\ kept = {} /\ busy = NoPort /\ listeners = Empty
    /\ conns = [c \in Conn |-> NoConn]
    /\ reloads = 0 /\ running = TRUE

ReloadPorts ==
    \/ \E file \in PortFiles \cup {Empty} : Load(file)
    \/ \E p \in todo : OpenListener(p) \/ ListenFails(p) \/ UpdateForwardMap(p)
    \/ AddChannels \/ RemoveChannels \/ SetForwardMap
    \/ \E p \in DOMAIN listeners : CloseListener(p)
    \/ EndRefresh

Listen ==
    \/ \E c \in Conn : \E s \in Client : \E p \in DOMAIN listeners : Accept(c, s, p)
    \/ \E c \in Conn : Forward(c) \/ ConcurrentMapAccess(c)
    \/ \E p \in DOMAIN listeners : AcceptFails(p)

PortForward ==
    \E c \in Conn :
        \/ Dial(c) \/ Disconnect(c) \/ Collect(c)
        \/ \E i \in Pipe : PipeFails(c, i) \/ PipeCloses(c, i)

PortsNext == ReloadPorts \/ Listen \/ PortForward

PortsSpec == PortsInit /\ [][PortsNext]_portVars

-----------------------------------------------------------------------------
(* Properties. *)

\* Type correctness of the listeners and of the connections (port_listener.go:12-24).
PortsTypeOK ==
    /\ refresh \in {"idle", "open", "add", "remove", "set"}
    /\ kept \cup todo \subseteq DOMAIN portDB
    /\ busy # NoPort <=> refresh \in {"add", "remove", "set"}
    /\ \A c \in Conn : conns[c].pc = "looked" => conns[c].port \in DOMAIN listeners

\* A connection goes on only as long as the forwards of its port have its source
\* and its destination: whenever a reload ends, the others have been told to end,
\* whether they were accepted before, during or after it (port_listener.go:158-166).
EstablishedAreAllowed ==
    refresh = "idle" =>
        \A c \in Conn :
            Forwarding(c) /\ ~conns[c].revoked =>
                /\ conns[c].port \in DOMAIN listeners
                /\ conns[c].key \in Keys(portDB[conns[c].port])

\* Between two reloads an open port serves the clients of the last file, and sends
\* them where it says (port_server.go:57-95).
ServesLoadedFile ==
    refresh = "idle" =>
        \A p \in DOMAIN listeners : \A s \in Client :
            Target(listeners[p], s) = Target(NewListener(portDB[p]), s)

\* mulch-proxy is never stopped by a listener or a connection.
NeverStops == running

=============================================================================
