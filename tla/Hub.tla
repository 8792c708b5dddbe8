---------------------------------- MODULE Hub ----------------------------------
(***************************************************************************)
(* The message hub of mulchd (server/hub.go), what writes to it (Log.Log)  *)
(* and the HTTP streams that read from it (routeStreamHandler).            *)
(*                                                                         *)
(* A stream is two goroutines: its main one registers in the hub, waits    *)
(* for StartStream, then copies messages to the HTTP response; the other   *)
(* runs the controller, whose messages go through the hub.  The channels   *)
(* are unbuffered: a send and its receive are one step, and the hub, a     *)
(* single goroutine, receives nothing while it sends to a client.  Nor     *)
(* does a main goroutine while it writes to its client, with no deadline:  *)
(* a client that reads no more blocks it until the connection is lost.     *)
(*                                                                         *)
(* The mutex of the VM database is part of the story: save() logs while    *)
(* it is locked, and some controllers lock it before StartStream.          *)
(***************************************************************************)
EXTENDS Naturals, FiniteSets

CONSTANTS
    Stream,     \* HTTP streams
    Looker,     \* the ones whose controller reads the VM database first
    Follower,   \* the ones whose controller only listens, forever (mulch log)
    Logger,     \* other goroutines that log
    Saver,      \* the ones that save the VM database, and log meanwhile
    Topic,      \* targets of messages: names of VMs
    Tracing,    \* the streams that asked for trace messages
    Trace,      \* what streams and loggers log: traces (TRUE), others (FALSE)
    All,        \* the target "*": messages of every target
    None        \* no message, no stream, no holder; also NoTarget

ASSUME HubAssumption ==
    /\ Looker \subseteq Stream /\ Follower \subseteq Stream /\ Tracing \subseteq Stream
    /\ Trace \subseteq BOOLEAN
    /\ None \notin Stream \cup Saver \cup Topic
    /\ All \notin Stream \cup Topic \cup {None}
    /\ Stream \cap (Logger \cup Saver) = {}
    /\ Stream \cap Topic = {}

VARIABLES
    clients,   \* the streams registered in the hub
    message,   \* the message the hub is broadcasting, None in its select
    client,    \* the stream it is blocked on, None between two streams
    todo,      \* the streams its loop has not reached yet
    target,    \* the target each stream receives messages of
    main,      \* where the main goroutine of each stream is
    handler,   \* where its controller is
    ctxDone,   \* the streams whose request context is done, or that have no request
    pending,   \* the message each goroutine is blocked with in Broadcast
    lock       \* the holder of the mutex of the VM database

vars == <<clients, message, client, todo, target, main, handler, ctxDone, pending, lock>>
hub == <<clients, message, client, todo>>

Writer == Stream \cup Logger \cup Saver
\* Each stream starts with a temporary target of its own.
Target == Stream \cup Topic \cup {All, None}
Message == [target : Target, trace : BOOLEAN]

MainState == {"off", "registering", "starting", "streaming", "writing", "blocked", "unregistering"}
HandlerState == {"off", "looking", "starting", "running", "closing"}

Move(s, from, to) == main[s] = from /\ main' = [main EXCEPT ![s] = to]
Handle(s, from, to) == handler[s] = from /\ handler' = [handler EXCEPT ![s] = to]

-----------------------------------------------------------------------------
(* MatchTarget; only trace clients receive traces. *)
Matches(m, s) ==
    /\ m.target \in {target[s], None} \/ target[s] = All
    /\ m.trace => s \in Tracing

\* Log.Log: the writer is blocked until the hub receives its message.
Log(w, m) ==
    /\ pending[w] = None
    /\ pending' = [pending EXCEPT ![w] = m]

-----------------------------------------------------------------------------
(* The hub: the three cases of its select, and the loop of the third. *)

\* The controller is launched after Register, in its own goroutine.
HubRegister(s) ==
    /\ message = None
    /\ Move(s, "registering", "starting")
    /\ Handle(s, "off", IF s \in Looker THEN "looking" ELSE "starting")
    /\ clients' = clients \cup {s}
    /\ UNCHANGED <<message, client, todo, target, ctxDone, pending, lock>>

HubUnregister(s) ==
    /\ message = None
    /\ Move(s, "unregistering", "off")
    /\ clients' = clients \ {s}
    /\ ctxDone' = ctxDone \cup {s}
    /\ UNCHANGED <<message, client, todo, target, handler, pending, lock>>

HubBroadcast(w) ==
    /\ message = None /\ pending[w] # None
    /\ pending' = [pending EXCEPT ![w] = None]
    /\ todo' = clients
    /\ message' = IF clients = {} THEN None ELSE pending[w]
    /\ UNCHANGED <<clients, client, target, main, handler, ctxDone, lock>>

\* The hub is done with one client: with the message too if it was the last.
Leave(left) ==
    /\ client' = None /\ todo' = left
    /\ message' = IF left = {} THEN None ELSE message

(* The loop reaches a client, in the order of the map: any. *)
HubVisit(s) ==
    /\ message # None /\ client = None
    /\ s \in todo
    /\ IF Matches(message, s)
       THEN client' = s /\ todo' = todo \ {s} /\ UNCHANGED message
       ELSE Leave(todo \ {s})
    /\ UNCHANGED <<clients, target, main, handler, ctxDone, pending, lock>>

\* The main goroutine of the client takes the message in its select, then writes it.
HubSend ==
    /\ client # None
    /\ Move(client, "streaming", "writing")
    /\ Leave(todo)
    /\ UNCHANGED <<clients, target, handler, ctxDone, pending, lock>>

-----------------------------------------------------------------------------
(* A stream. *)

Connect(s) ==
    /\ Move(s, "off", "registering")
    /\ handler[s] = "off"
    /\ pending[s] = None
    /\ target' = [target EXCEPT ![s] = s]
    /\ ctxDone' = ctxDone \ {s}
    /\ UNCHANGED <<hub, handler, pending, lock>>

\* The user interrupts the stream, or the connection is lost: nothing looks before it is a client.
Break(s) ==
    /\ s \in clients \ ctxDone /\ main[s] # "unregistering"
    /\ ctxDone' = ctxDone \cup {s}
    /\ UNCHANGED <<hub, target, main, handler, pending, lock>>

(* getEntryFromRequest locks the mutex for a moment. *)
Look(s) ==
    /\ lock = None
    /\ Handle(s, "looking", "starting")
    /\ UNCHANGED <<hub, target, main, ctxDone, pending, lock>>

\* WaitStream returns: the main goroutine writes the headers.
StartStream(s) ==
    /\ pending[s] = None
    /\ Move(s, "starting", "writing")
    /\ Handle(s, "starting", "running")
    /\ UNCHANGED <<hub, target, ctxDone, pending, lock>>

\* The controller chooses a VM, or all of them: what it sends, and receives.
SetTarget(s, t) ==
    /\ handler[s] = "running" /\ pending[s] = None
    /\ target' = [target EXCEPT ![s] = t]
    /\ UNCHANGED <<hub, main, handler, ctxDone, pending, lock>>

\* (mutant: controllers log before StartStream)
LoggingFromTheStart == {"starting", "running"}
\* Controllers call StartStream before they log.
Logging == {"running"}

\* A stream receives everything with the target "*", and sends with NoTarget.
StreamLog(s, trace) ==
    /\ s \notin Follower
    /\ handler[s] \in Logging
    /\ Log(s, [target |-> IF target[s] = All THEN None ELSE target[s], trace |-> trace])
    /\ UNCHANGED <<hub, target, main, handler, ctxDone, lock>>

Return(s) ==
    /\ s \notin Follower
    /\ pending[s] = None
    /\ Handle(s, "running", "closing")
    /\ UNCHANGED <<hub, target, main, ctxDone, pending, lock>>

\* The select of the controller's goroutine, closer <- true.
Close(s) ==
    /\ Handle(s, "closing", "off")
    /\ Move(s, "streaming", "unregistering")
    /\ UNCHANGED <<hub, target, ctxDone, pending, lock>>

\* The same select, <-ctx.Done().
Abandon(s) ==
    /\ s \in ctxDone
    /\ Handle(s, "closing", "off")
    /\ UNCHANGED <<hub, target, main, ctxDone, pending, lock>>

\* The same select, after 10 seconds without a message: the hub does not wait for the stream.
KeepAlive(s) ==
    /\ client # s
    /\ Move(s, "streaming", "writing")
    /\ UNCHANGED <<hub, target, handler, ctxDone, pending, lock>>

\* The client has stopped reading, for good, and keeps its connection; slow ones go on.
Stall(s) ==
    /\ s \notin ctxDone
    /\ Move(s, "writing", "blocked")
    /\ UNCHANGED <<hub, target, handler, ctxDone, pending, lock>>

\* (mutant: the main goroutine returns when a write fails, and does not unregister)
WrittenOrGone(s) ==
    /\ main[s] = "writing" \/ (main[s] = "blocked" /\ s \in ctxDone)
    /\ main' = [main EXCEPT ![s] = IF s \in ctxDone THEN "off" ELSE "streaming"]
    /\ UNCHANGED <<hub, target, handler, ctxDone, pending, lock>>

\* The write returns, perhaps with an error, which is only printed: back to the select.
Written(s) ==
    /\ main[s] = "writing" \/ (main[s] = "blocked" /\ s \in ctxDone)
    /\ main' = [main EXCEPT ![s] = "streaming"]
    /\ UNCHANGED <<hub, target, handler, ctxDone, pending, lock>>

\* The select of the main goroutine, <-ctx.Done().
AfterDone == "unregistering"

Done(s) ==
    /\ s \in ctxDone
    /\ Move(s, "streaming", AfterDone)
    /\ UNCHANGED <<hub, target, handler, ctxDone, pending, lock>>

-----------------------------------------------------------------------------
(* The other goroutines. *)

LoggerLogs(l, m) ==
    /\ lock # l
    /\ Log(l, m)
    /\ UNCHANGED <<hub, target, main, handler, ctxDone, lock>>

SaverLocks(v) ==
    /\ lock = None /\ pending[v] = None
    /\ lock' = v
    /\ UNCHANGED <<hub, target, main, handler, ctxDone, pending>>

\* genPortsDB: a port is imported that no VM exports.
SaverLogs(v) ==
    /\ lock = v
    /\ Log(v, [target |-> None, trace |-> TRUE])
    /\ UNCHANGED <<hub, target, main, handler, ctxDone, lock>>

SaverUnlocks(v) ==
    /\ lock = v /\ pending[v] = None
    /\ lock' = None
    /\ UNCHANGED <<hub, target, main, handler, ctxDone, pending>>

-----------------------------------------------------------------------------

Init ==
    /\ clients = {} /\ message = None /\ client = None /\ todo = {}
    /\ target = [s \in Stream |-> s]
    /\ main = [s \in Stream |-> "off"]
    /\ handler = [s \in Stream |-> "off"]
    /\ ctxDone = Stream
    /\ pending = [w \in Writer |-> None]
    /\ lock = None

StreamNext(s) ==
    \/ HubRegister(s) \/ HubUnregister(s) \/ HubVisit(s)
    \/ Connect(s) \/ Break(s) \/ Look(s) \/ StartStream(s)
    \/ \E t \in Topic \cup {All} : SetTarget(s, t)
    \/ \E trace \in Trace : StreamLog(s, trace)
    \/ Return(s) \/ Close(s) \/ Abandon(s) \/ Done(s)
    \/ KeepAlive(s) \/ Stall(s) \/ Written(s)

Next ==
    \/ \E s \in Stream : StreamNext(s)
    \/ \E w \in Writer : HubBroadcast(w)
    \/ HubSend
    \/ \E l \in Logger, t \in Topic \cup {None}, trace \in Trace :
          LoggerLogs(l, [target |-> t, trace |-> trace])
    \/ \E v \in Saver : SaverLocks(v) \/ SaverLogs(v) \/ SaverUnlocks(v)

(***************************************************************************)
(* Go runs every goroutine; a select with several cases ready chooses at   *)
(* random, and the mutex is handed over: no goroutine is left out forever. *)
(* A write to a client that reads, or whose connection is lost, returns;   *)
(* in the select that follows, a message the hub is waiting with is taken, *)
(* unless the stream ends.  Nothing forces a user, a client, a controller  *)
(* or a logger to act.                                                     *)
(***************************************************************************)
Fairness ==
    /\ WF_vars(HubSend \/ \E s \in Stream : HubVisit(s))
    /\ \A s \in Stream : /\ WF_vars(Written(s))
                         /\ SF_vars(HubRegister(s) \/ HubUnregister(s))
                         /\ SF_vars(Look(s) \/ StartStream(s))
    /\ \A w \in Writer \ Follower : SF_vars(HubBroadcast(w))
    /\ \A v \in Saver : SF_vars(SaverUnlocks(v))

Spec == Init /\ [][Next]_vars
FairSpec == Spec /\ Fairness

-----------------------------------------------------------------------------
(* Properties. *)

(***************************************************************************)
(* The types; the hub has a client to send to only while it has a message, *)
(* and sends to registered clients, once to each.                          *)
(***************************************************************************)
TypeOK ==
    /\ clients \subseteq Stream
    /\ message \in Message \cup {None}
    /\ client \in clients \cup {None}
    /\ todo \subseteq clients \ {client}
    /\ target \in [Stream -> Target]
    /\ main \in [Stream -> MainState]
    /\ handler \in [Stream -> HandlerState]
    /\ ctxDone \subseteq Stream
    /\ pending \in [Writer -> Message \cup {None}]
    /\ lock \in Saver \cup {None}
    /\ message = None <=> (client = None /\ todo = {})

(***************************************************************************)
(* A stream that has ended is not registered: however it ended, the hub    *)
(* does not send to a main goroutine that has returned.                    *)
(***************************************************************************)
NoDeadClient == \A s \in clients : main[s] # "off"

(***************************************************************************)
(* The three ways in which the hub may be blocked for good.  It sends to a *)
(* stream whose main goroutine waits for the hub to unregister it; or to   *)
(* one that has not started, whose controller waits for the mutex of the   *)
(* VM database, held by a goroutine that waits for the hub to take its     *)
(* message; or to one that is still writing to a client that reads no more *)
(* and keeps its connection.                                               *)
(***************************************************************************)
Ended == client # None /\ main[client] = "unregistering"
Locked ==
    /\ client # None /\ handler[client] = "looking"
    /\ lock # None /\ pending[lock] # None

Stalled ==
    /\ client # None /\ main[client] = "blocked"
    /\ client \notin ctxDone

Stuck == Ended \/ Locked \/ Stalled

(***************************************************************************)
(* Every call of Broadcast returns: a goroutine that logs is never blocked *)
(* forever, except in those three ways; clients that read slowly, streams  *)
(* that start, break or follow the log forever do not block it.  Followers *)
(* do not log.                                                             *)
(***************************************************************************)
BroadcastReturns ==
    \A w \in Writer \ Follower : pending[w] # None ~> pending[w] = None \/ Stuck

(***************************************************************************)
(* Every stream that ends gets to leave the hub, with the same exceptions. *)
(***************************************************************************)
UnregisterReturns ==
    \A s \in Stream :
        main[s] = "unregistering" ~> main[s] # "unregistering" \/ Stuck

(***************************************************************************)
(* The mutex of the VM database is released, with the same exceptions: the *)
(* holder may log while it saves.                                          *)
(***************************************************************************)
LockReleased == \A v \in Saver : lock = v ~> lock # v \/ Stuck

(***************************************************************************)
(* "Check for a possible deadlock / missing timeout in the message hub:    *)
(* maybe fixed": a stream that ends always gets to leave the hub.          *)
(***************************************************************************)
NoHubDeadlock ==
    \A s \in Stream : main[s] = "unregistering" ~> main[s] # "unregistering"
=============================================================================
