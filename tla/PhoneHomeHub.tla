----------------------------- MODULE PhoneHomeHub -----------------------------
(***************************************************************************)
(* The "phone home" hub of mulchd (server/phone_home.go), the goroutines   *)
(* that wait there for the call of a VM (NewVM and VMStartByName), and the *)
(* HTTP handler that broadcasts the calls (controllers/phone.go).          *)
(*                                                                         *)
(* All the channels are unbuffered: a send and its receive are one step of *)
(* this module, and the sender is blocked until then.  The hub is a single *)
(* goroutine, so it receives nothing while it sends a call to a client.    *)
(***************************************************************************)
EXTENDS Naturals, FiniteSets

CONSTANTS
    Client,    \* goroutines waiting for a VM, each with one client at a time
    Builder,   \* the ones that run NewVM; the others run VMStartByName
    Secret,    \* secret UUIDs of the VMs
    SecretOf,  \* the VM each goroutine waits for
    Caller,    \* HTTP handlers of phone calls
    None       \* no call, no client

ASSUME ClientAssumption ==
    /\ Builder \subseteq Client
    /\ SecretOf \in [Client -> Secret]
    /\ None \notin Client

VARIABLES
    clients,  \* the clients registered in the hub
    call,     \* the call the hub is broadcasting, None in its select
    target,   \* the client the hub is sending this call to
    todo,     \* the clients it will send it to afterwards
    cstate,   \* where each goroutine is
    closed,   \* how many times the PhoneCalls channel of its client was closed
    running,  \* the VMs that are up
    caller,   \* the call each handler is broadcasting, or None
    missed    \* the VMs with a call since their boot that nobody was sent

vars == <<clients, call, target, todo, cstate, closed, running, caller, missed>>
hub == <<clients, call, target, todo, closed>>

Call == [secret : Secret, cloudInit : BOOLEAN]

ASSUME NoCallAssumption == None \notin Call

CState == {"off", "booted", "registering", "registered", "waiting",
           "unregistering", "working", "leaving"}

Move(c, from, to) == cstate[c] = from /\ cstate' = [cstate EXCEPT ![c] = to]

-----------------------------------------------------------------------------
(* The goroutine that waits. *)

Boot(s) == s \notin running /\ running' = running \cup {s} /\ missed' = missed \ {s}

\* (mutant: VMStartByName starts the domain, then registers, as NewVM does)
RegistersNever(c) == FALSE

(***************************************************************************)
(* VMStartByName checks that the VM is down, registers, and starts the     *)
(* domain; NewVM starts the domain, then registers.                        *)
(***************************************************************************)
RegistersFirst(c) == c \notin Builder

BootAtOnce(c) ==
    /\ ~RegistersFirst(c)
    /\ Move(c, "off", "booted")
    /\ Boot(SecretOf[c])
    /\ UNCHANGED <<hub, caller>>

Register(c) ==
    /\ IF RegistersFirst(c)
       THEN SecretOf[c] \notin running /\ Move(c, "off", "registering")
       ELSE Move(c, "booted", "registering")
    /\ UNCHANGED <<hub, running, caller, missed>>

BootRegistered(c) ==
    /\ Move(c, "registered", "waiting")
    /\ Boot(SecretOf[c])
    /\ UNCHANGED <<hub, caller>>

\* libvirt refuses (someone else has started this VM in between, or any error).
BootFails(c) ==
    /\ Move(c, "registered", "leaving")
    /\ UNCHANGED <<hub, running, caller, missed>>

(* The timeout of both, and the checks of the VM state in NewVM. *)
Timeout(c) ==
    /\ Move(c, "waiting", "leaving")
    /\ UNCHANGED <<hub, running, caller, missed>>

(* NewVM has run its prepare and install scripts, or failed to. *)
Finish(c) ==
    /\ Move(c, "working", "leaving")
    /\ UNCHANGED <<hub, running, caller, missed>>

-----------------------------------------------------------------------------
(* The VM, and the handler of its calls. *)

PhoneCall(k, s, cloudInit) ==
    /\ s \in running
    /\ caller[k] = None
    /\ caller' = [caller EXCEPT ![k] = [secret |-> s, cloudInit |-> cloudInit]]
    /\ UNCHANGED <<hub, cstate, running, missed>>

Stop(s) ==
    /\ s \in running
    /\ running' = running \ {s}
    /\ UNCHANGED <<hub, cstate, caller, missed>>

-----------------------------------------------------------------------------
(* The hub: the three cases of its select, and the loop of the third. *)

\* What a client does once the hub has received it from the register channel.
AfterRegister(c) == IF RegistersFirst(c) THEN "registered" ELSE "waiting"

HubRegister(c) ==
    /\ call = None
    /\ Move(c, "registering", AfterRegister(c))
    /\ clients' = clients \cup {c}
    /\ closed' = [closed EXCEPT ![c] = 0]
    /\ UNCHANGED <<call, target, todo, running, caller, missed>>

\* (mutant: the channel is closed without looking the client up)
RemoveUnchecked(c) ==
    /\ clients' = clients \ {c}
    /\ closed' = [closed EXCEPT ![c] = @ + 1]

Remove(c) ==
    IF c \in clients
    THEN clients' = clients \ {c} /\ closed' = [closed EXCEPT ![c] = @ + 1]
    ELSE UNCHANGED <<clients, closed>>

HubUnregister(c) ==
    /\ call = None
    /\ Move(c, "unregistering", "working") \/ Move(c, "leaving", "off")
    /\ Remove(c)
    /\ UNCHANGED <<call, target, todo, running, caller, missed>>

\* The loop of the hub goes to any of the clients left, or is over.
Continue(message, left) ==
    IF left = {}
    THEN call' = None /\ target' = None /\ todo' = {}
    ELSE /\ call' = message
         /\ target' \in left
         /\ todo' = left \ {target'}

HubBroadcast(k) ==
    LET message == caller[k]
        requesters == {c \in clients : SecretOf[c] = message.secret}
    IN  /\ call = None
        /\ message # None
        /\ caller' = [caller EXCEPT ![k] = None]
        /\ Continue(message, requesters)
        /\ missed' = IF requesters = {} /\ message.secret \in running
                     THEN missed \cup {message.secret} ELSE missed
        /\ UNCHANGED <<clients, cstate, closed, running>>

\* (mutant: NewVM goes on to its scripts, only the deferred call unregisters)
AfterCallDeferred(c) ==
    IF c \in Builder THEN IF call.cloudInit THEN "working" ELSE "waiting"
    ELSE "leaving"

\* NewVM waits for the call of cloud-init and unregisters at once.
AfterCall(c) ==
    IF c \in Builder THEN IF call.cloudInit THEN "unregistering" ELSE "waiting"
    ELSE "leaving"

HubSend ==
    /\ target # None
    /\ Move(target, "waiting", AfterCall(target))
    /\ Continue(call, todo)
    /\ UNCHANGED <<clients, closed, running, caller, missed>>

-----------------------------------------------------------------------------

Init ==
    /\ clients = {} /\ call = None /\ target = None /\ todo = {}
    /\ cstate = [c \in Client |-> "off"]
    /\ closed = [c \in Client |-> 0]
    /\ running = {} /\ missed = {}
    /\ caller = [k \in Caller |-> None]

Wait(c) ==
    \/ BootAtOnce(c) \/ Register(c) \/ BootRegistered(c) \/ BootFails(c)
    \/ Timeout(c) \/ Finish(c)

Next ==
    \/ \E c \in Client : Wait(c) \/ HubRegister(c) \/ HubUnregister(c)
    \/ \E k \in Caller, s \in Secret, ci \in BOOLEAN : PhoneCall(k, s, ci)
    \/ \E s \in Secret : Stop(s)
    \/ \E k \in Caller : HubBroadcast(k)
    \/ HubSend

(***************************************************************************)
(* Go runs every goroutine, and a select with several cases ready chooses  *)
(* at random: none of the blocked senders is left out forever.             *)
(***************************************************************************)
Fairness ==
    /\ WF_vars(HubSend)
    /\ \A c \in Client : /\ SF_vars(HubRegister(c)) /\ SF_vars(HubUnregister(c))
                         /\ WF_vars(BootRegistered(c) \/ BootFails(c))
    /\ \A k \in Caller : SF_vars(HubBroadcast(k))

Spec == Init /\ [][Next]_vars
FairSpec == Spec /\ Fairness

-----------------------------------------------------------------------------
(* Properties. *)

(***************************************************************************)
(* The types; the hub sends only when it has a call, and to registered     *)
(* clients that asked for this VM.                                         *)
(***************************************************************************)
TypeOK ==
    /\ clients \subseteq Client
    /\ call \in Call \cup {None}
    /\ target \in Client \cup {None}
    /\ todo \subseteq clients
    /\ cstate \in [Client -> CState]
    /\ closed \in [Client -> 0..2]
    /\ running \subseteq Secret /\ missed \subseteq Secret
    /\ caller \in [Caller -> Call \cup {None}]
    /\ (call = None) <=> (target = None)
    /\ target # None => target \in clients \ todo
    /\ \A c \in todo \cup ({target} \ {None}) : SecretOf[c] = call.secret

(***************************************************************************)
(* "Double unregister is safe": NewVM unregisters its client explicitly,   *)
(* then again when it returns, and in any interleaving no channel is       *)
(* closed twice and the hub never sends to a closed one (both panic).      *)
(***************************************************************************)
NeverPanics ==
    \A c \in Client : /\ closed[c] <= 1
                      /\ c \in clients \/ target = c => closed[c] = 0

(***************************************************************************)
(* A goroutine that runs prepare and install scripts (minutes) is not      *)
(* registered: a script that calls phone_home does not block the hub.      *)
(***************************************************************************)
ScriptsDoNotBlock == \A c \in Client : cstate[c] = "working" => c \notin clients

(***************************************************************************)
(* VMStartByName registers before it starts the VM: while it waits, no     *)
(* call of this boot has gone to nobody.                                   *)
(***************************************************************************)
StarterHears ==
    \A c \in Client \ Builder : cstate[c] = "waiting" => SecretOf[c] \notin missed

(***************************************************************************)
(* The hub sends a call to a client that does not receive any more: its    *)
(* goroutine has had its answer, or has given up, and waits for the hub to *)
(* unregister it.  Both wait for each other from then on.                  *)
(***************************************************************************)
Stuck == target # None /\ cstate[target] \in {"unregistering", "leaving"}

(***************************************************************************)
(* Every call of Unregister returns: a goroutine that has waited for a VM  *)
(* is never blocked on its way out, unless a call of a VM met a client     *)
(* that was leaving; nothing else blocks the hub (scripts that run for     *)
(* minutes, VMs that call many times, clients of other VMs).               *)
(***************************************************************************)
UnregisterReturns ==
    \A c \in Client :
        /\ cstate[c] = "unregistering" ~> cstate[c] # "unregistering" \/ Stuck
        /\ cstate[c] = "leaving" ~> cstate[c] # "leaving" \/ Stuck

(***************************************************************************)
(* Every call of Broadcast returns, with the same exception: the handler   *)
(* of a phone call is never blocked forever.                               *)
(***************************************************************************)
BroadcastReturns == \A k \in Caller : caller[k] # None ~> caller[k] = None \/ Stuck

(***************************************************************************)
(* "We're not listening anymore, so unregister to avoid deadlocks": the    *)
(* explicit Unregister of NewVM, after the call of cloud-init, returns.    *)
(***************************************************************************)
AvoidsDeadlocks ==
    \A c \in Client : cstate[c] = "unregistering" ~> cstate[c] # "unregistering"
=============================================================================
