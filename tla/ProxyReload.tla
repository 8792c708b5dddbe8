----------------------------- MODULE ProxyReload ------------------------------
(***************************************************************************)
(* How a change of the VM database reaches mulch-proxy: save() writes the  *)
(* domain file and the port file, then calls ProxyReloader.Request; a      *)
(* goroutine sends SIGHUP one second later; the signal handler of          *)
(* mulch-proxy reads the files again (mulch-proxy/app.go).                 *)
(*                                                                         *)
(* The two programs share nothing but the files and the signal.  mulchd    *)
(* writes the files under the mutex of the VM database; mulch-proxy reads  *)
(* them without any lock.  Contents are versions, numbered by save().      *)
(***************************************************************************)
EXTENDS Naturals

CONSTANTS
    MaxVersion,   \* bound: number of saves
    Nothing       \* content of a file that is being written, or failed to load

ASSUME ReloadAssumption ==
    /\ MaxVersion \in Nat \ {0}
    /\ Nothing \notin Nat

Version == 1..MaxVersion
Content == 0..MaxVersion \cup {Nothing}

VARIABLES
    version,    \* of the last save
    saver,      \* where save() is: "idle", "domains", "ports"
    domains,    \* content of mulch-proxy-domains.db
    ports,      \* content of mulch-proxy-ports-v2.db
    asking,     \* the saves whose Request has not reached its select yet
    token,      \* the channel of ProxyReloader: TRUE if it is full
    reloader,   \* the goroutine that took the token
    sighup,     \* the signal channel of mulch-proxy (one place): TRUE if full
    proxy,      \* where the signal handler is: "idle", "refresh", "ports"
    routes,     \* the domains mulch-proxy knows
    proxies,    \* the ones it has created ReverseProxy instances for
    listeners   \* the ports it listens to

vars == <<version, saver, domains, ports, asking, token, reloader, sighup,
          proxy, routes, proxies, listeners>>
mulchdVars == <<version, saver, domains, ports, asking, token, reloader>>
proxyVars == <<proxy, routes, proxies, listeners>>

\* "sleeping": its second; then the signal is sent, or could not be sent, and
\* the token is not back yet.
Reloader == [pc : {"none", "sleeping", "signalled", "failed"}, version : 0..MaxVersion]
NoReloader == [pc |-> "none", version |-> 0]

-----------------------------------------------------------------------------
(* mulchd. *)

\* save() has truncated the domain file.
SaveBegins ==
    /\ saver = "idle" /\ version < MaxVersion
    /\ saver' = "domains"
    /\ version' = version + 1
    /\ domains' = Nothing
    /\ UNCHANGED <<ports, asking, token, reloader, sighup, proxyVars>>

SaveDomains ==
    /\ saver = "domains"
    /\ saver' = "ports"
    /\ domains' = version /\ ports' = Nothing
    /\ UNCHANGED <<version, asking, token, reloader, sighup, proxyVars>>

\* save() ends with onUpdate(), that launches the goroutine of Request.
SavePorts ==
    /\ saver = "ports"
    /\ saver' = "idle"
    /\ ports' = version
    /\ asking' = asking \cup {version}
    /\ UNCHANGED <<version, domains, token, reloader, sighup, proxyVars>>

RequestAccepted(v) ==
    /\ v \in asking /\ token
    /\ asking' = asking \ {v}
    /\ token' = FALSE
    /\ reloader' = [pc |-> "sleeping", version |-> v]
    /\ UNCHANGED <<version, saver, domains, ports, sighup, proxyVars>>

\* "ProxyReloader request already scheduled"
RequestIgnored(v) ==
    /\ v \in asking /\ ~token
    /\ asking' = asking \ {v}
    /\ UNCHANGED <<version, saver, domains, ports, token, reloader, sighup, proxyVars>>

\* (mutant: the signal channel is not buffered, a signal that finds mulch-proxy
\* busy is lost)
NotifyUnbuffered == IF proxy = "idle" THEN TRUE ELSE sighup

\* signal.Notify never blocks: one signal at most is kept.
Notify == TRUE

SendSignal ==
    /\ reloader.pc = "sleeping"
    /\ reloader' = [reloader EXCEPT !.pc = "signalled"]
    /\ sighup' = Notify
    /\ UNCHANGED <<version, saver, domains, ports, asking, token, proxyVars>>

\* No PID file, a wrong one, or no such process: an error is logged.
SignalFails ==
    /\ reloader.pc = "sleeping"
    /\ reloader' = [reloader EXCEPT !.pc = "failed"]
    /\ UNCHANGED <<version, saver, domains, ports, asking, token, sighup, proxyVars>>

ReturnToken ==
    /\ reloader.pc \in {"signalled", "failed"}
    /\ reloader' = NoReloader
    /\ token' = TRUE
    /\ UNCHANGED <<version, saver, domains, ports, asking, sighup, proxyVars>>

-----------------------------------------------------------------------------
(* mulch-proxy: the signal handler, one signal after the other. *)

\* The map is cleared, then decoded: a truncated file leaves it empty.
ReloadDomains ==
    /\ proxy = "idle" /\ sighup
    /\ sighup' = FALSE
    /\ routes' = domains
    /\ proxies' = Nothing
    /\ proxy' = "refresh"
    /\ UNCHANGED <<mulchdVars, listeners>>

RefreshReverseProxies ==
    /\ proxy = "refresh"
    /\ proxies' = routes
    /\ proxy' = "ports"
    /\ UNCHANGED <<mulchdVars, sighup, routes, listeners>>

ReloadPorts ==
    /\ proxy = "ports"
    /\ listeners' = ports
    /\ proxy' = "idle"
    /\ UNCHANGED <<mulchdVars, sighup, routes, proxies>>

-----------------------------------------------------------------------------

\* Both programs are up, with the files of some earlier save.
Init ==
    /\ version = 0 /\ saver = "idle" /\ domains = 0 /\ ports = 0
    /\ asking = {} /\ token = TRUE /\ reloader = NoReloader
    /\ sighup = FALSE
    /\ proxy = "idle" /\ routes = 0 /\ proxies = 0 /\ listeners = 0

Request(v) == RequestAccepted(v) \/ RequestIgnored(v)
Reload == ReloadDomains \/ RefreshReverseProxies \/ ReloadPorts

Next ==
    \/ SaveBegins \/ SaveDomains \/ SavePorts
    \/ \E v \in Version : Request(v)
    \/ SendSignal \/ SignalFails \/ ReturnToken
    \/ Reload

(***************************************************************************)
(* A save that has begun ends; the goroutines of mulchd and the signal     *)
(* handler of mulch-proxy run.  Nobody has to save.                        *)
(***************************************************************************)
Fairness ==
    /\ WF_vars(SaveDomains \/ SavePorts)
    /\ \A v \in Version : WF_vars(Request(v))
    /\ WF_vars(SendSignal \/ SignalFails \/ ReturnToken)
    /\ WF_vars(Reload)

Spec == Init /\ [][Next]_vars
FairSpec == Spec /\ Fairness

-----------------------------------------------------------------------------
(* Properties. *)

(***************************************************************************)
(* The types; the token is either in its channel or held by the one        *)
(* goroutine that is going to signal.                                      *)
(***************************************************************************)
TypeOK ==
    /\ version \in 0..MaxVersion
    /\ saver \in {"idle", "domains", "ports"}
    /\ domains \in Content /\ ports \in Content
    /\ asking \subseteq Version
    /\ token \in BOOLEAN
    /\ reloader \in Reloader
    /\ sighup \in BOOLEAN
    /\ proxy \in {"idle", "refresh", "ports"}
    /\ routes \in Content /\ proxies \in Content /\ listeners \in Content
    /\ token <=> reloader.pc = "none"

\* mulch-proxy routes domains and ports as save number v said, or a later one.
Loaded(v) ==
    /\ proxies # Nothing /\ proxies >= v
    /\ listeners # Nothing /\ listeners >= v

(***************************************************************************)
(* What mulch-proxy read was being written: its maps are empty.            *)
(***************************************************************************)
Torn == Nothing \in {routes, listeners}

(***************************************************************************)
(* A reload that was scheduled is done: mulch-proxy ends up with the files *)
(* of the save that asked for it, or later ones, unless the signal could   *)
(* not be sent, or another save was writing the files when they were read. *)
(* A signal that arrives during a reload starts another one.               *)
(***************************************************************************)
ScheduledIsDone ==
    \A v \in Version :
        (reloader.pc = "sleeping" /\ reloader.version = v) ~>
            Loaded(v) \/ reloader.pc = "failed" \/ Torn

(***************************************************************************)
(* No change is forgotten: mulch-proxy ends up with the files of every     *)
(* save that asks for a reload, or later ones, with the same exceptions.   *)
(***************************************************************************)
LastSaveIsLoaded ==
    \A v \in Version : v \in asking ~> Loaded(v) \/ reloader.pc = "failed" \/ Torn
=============================================================================
