------------------------------ MODULE ProxyChain ------------------------------
(***************************************************************************)
(* Chained proxies: a parent mulch-proxy receives the requests of every    *)
(* domain and forwards them to the mulch-proxy of the server that has the  *)
(* VM, its child.  A child sends all its domains when it starts and when   *)
(* mulchd has it reload (app.go); the parent replaces the ones it had from *)
(* this child, "erasing any conflicting domain", and saves them            *)
(* (api_server.go, domain_database.go); mulchd asks the parent about       *)
(* conflicts before it gives a domain to a VM (server/domains.go); the     *)
(* watchdog of the parent stops it when a proxy hangs (watchdog.go).       *)
(*                                                                         *)
(* What the files of a child hold and when it reloads is in ProxyReload.   *)
(***************************************************************************)
EXTENDS Naturals

CONSTANTS
    Child, Domain,
    Nobody,        \* a domain without route
    Broken,        \* a database that is truncated
    Failures,      \* what may go wrong: a subset of {"exit", "save", "lost", "late"}
    MaxChanges,    \* bound: domains given or taken
    MaxFailures    \* bound: failures and stops

VARIABLES
    wanted,      \* the domains of each child's active VMs, in the file of mulchd
    granted,     \* what a request of mulchd was told has no conflict: [Child -> SUBSET Domain]
    hup,         \* children that have a SIGHUP to handle
    child,       \* where each child's mulch-proxy is
    loaded,      \* its domains
    calls,       \* registrations on their way: [child, domains, live]
    routes,      \* the parent's DomainDB: [Domain -> the child, or Nobody]
    file,        \* its file, or Broken
    proxied,     \* domains that have a ReverseProxy
    parent,      \* "up", "down", "saving" or "refreshing" a registration
    serving,     \* the registration being handled
    unregistered,\* children whose last registration failed, or is under way
    contested,   \* domains that two children have claimed at the same time
    changes, failures \* bounds

chainVars == <<wanted, granted, hup, child, loaded, calls, routes, file, proxied, parent,
               serving, unregistered, contested, changes, failures>>
mulchdVars == <<wanted, granted, contested, changes>>
childVars == <<hup, child, loaded, unregistered>>
parentVars == <<routes, file, proxied, parent, serving>>

Call == [child : Child, domains : SUBSET Domain, live : BOOLEAN]
NoCall == [child |-> Nobody, domains |-> {}, live |-> FALSE]
Fail(kind) == kind \in Failures /\ failures < MaxFailures /\ failures' = failures + 1

-----------------------------------------------------------------------------
(* mulchd, beside each child. *)

\* GetConflictingDomains: the domain is forwarded to another host.
Conflict(c, d) == routes[d] \notin {c, Nobody}

\* CheckDomainsConflictsOnParent.  With the parent down, or a conflict, the
\* request of the user is refused.
CheckDomainsConflicts(c, d) ==
    /\ d \notin wanted[c] \cup granted[c] /\ changes < MaxChanges
    /\ parent # "down" /\ ~Conflict(c, d)
    /\ granted' = [granted EXCEPT ![c] = @ \cup {d}]
    /\ UNCHANGED <<wanted, contested, changes, childVars, calls, parentVars, failures>>

\* What a child will register, or has registered.
Claims(c) == wanted[c] \cup granted[c] \cup loaded[c]

\* The VM becomes active; the file is written, mulch-proxy is told to reload.
Activate(c, d) ==
    /\ d \in granted[c] /\ changes < MaxChanges
    /\ granted' = [granted EXCEPT ![c] = @ \ {d}]
    /\ wanted' = [wanted EXCEPT ![c] = @ \cup {d}]
    /\ contested' = IF \E o \in Child \ {c} : d \in Claims(o)
                    THEN contested \cup {d} ELSE contested
    /\ hup' = hup \cup {c}
    /\ changes' = changes + 1
    /\ UNCHANGED <<child, loaded, unregistered, calls, parentVars, failures>>

Deactivate(c, d) ==
    /\ d \in wanted[c] /\ changes < MaxChanges
    /\ wanted' = [wanted EXCEPT ![c] = @ \ {d}]
    /\ hup' = hup \cup {c}
    /\ changes' = changes + 1
    /\ UNCHANGED <<granted, contested, child, loaded, unregistered, calls, parentVars, failures>>

-----------------------------------------------------------------------------
(* The child. *)

\* ReloadDomains, for a signal or at start.
Reload(c) ==
    /\ \/ child[c] = "idle" /\ c \in hup
       \/ child[c] = "down"
    /\ child' = [child EXCEPT ![c] = IF @ = "down" THEN "starting" ELSE "reloaded"]
    /\ loaded' = [loaded EXCEPT ![c] = wanted[c]]
    /\ hup' = hup \ {c}
    /\ unregistered' = unregistered \cup {c}
    /\ UNCHANGED <<mulchdVars, calls, parentVars, failures>>

\* refreshParentDomains, up to the call.
Send(c) ==
    /\ child[c] \in {"starting", "reloaded"}
    /\ child' = [child EXCEPT ![c] = IF @ = "starting" THEN "first" ELSE "sent"]
    /\ calls' = calls \cup {[child |-> c, domains |-> loaded[c], live |-> TRUE]}
    /\ UNCHANGED <<mulchdVars, hup, loaded, unregistered, parentVars, failures>>

\* An error of the first registration stops the child; of a later one, it is
\* logged.  Nothing tries again before the next signal.
AfterError(c) == [child EXCEPT ![c] = IF @ = "first" THEN "down" ELSE "idle"]

\* The parent is down: no connection.
Unreachable(c) ==
    \E m \in calls :
        /\ m.child = c /\ m.live /\ parent = "down"
        /\ calls' = calls \ {m}
        /\ child' = AfterError(c)
        /\ UNCHANGED <<mulchdVars, hup, loaded, unregistered, parentVars, failures>>

\* Ten seconds without an answer: the registration is lost, or it is late, and
\* the parent may read it any time later.
Timeout(c) ==
    \E m \in calls :
        /\ m.child = c /\ m.live
        /\ \/ Fail("lost") /\ calls' = calls \ {m}
           \/ Fail("late") /\ calls' = (calls \ {m}) \cup {[m EXCEPT !.live = FALSE]}
        /\ child' = AfterError(c)
        /\ UNCHANGED <<mulchdVars, hup, loaded, unregistered, parentVars>>

-----------------------------------------------------------------------------
(* The parent: registerDomainsController. *)

\* (mutant: the previous domains of the child are not deleted)
ReplacedOnly(c, domains) == [d \in Domain |-> IF d \in domains THEN c ELSE routes[d]]

Replaced(c, domains) ==
    [d \in Domain |-> IF d \in domains THEN c ELSE IF routes[d] = c THEN Nobody ELSE routes[d]]

\* ReplaceChainedDomains up to save(), that truncates the file.  The new Domains
\* have no ReverseProxy yet.
ReplaceChainedDomains(m) ==
    /\ parent = "up" /\ m \in calls
    /\ calls' = calls \ {m}
    /\ routes' = Replaced(m.child, m.domains)
    /\ proxied' = {d \in proxied \ m.domains : Replaced(m.child, m.domains)[d] # Nobody}
    /\ file' = Broken
    /\ parent' = "saving" /\ serving' = m
    /\ UNCHANGED <<mulchdVars, childVars, failures>>

\* The answer, if the child still waits for it.
Answered(m, ok) ==
    IF m.live
    THEN /\ child' = [child EXCEPT ![m.child] = "idle"]
         /\ unregistered' = IF ok THEN unregistered \ {m.child} ELSE unregistered
    ELSE UNCHANGED <<child, unregistered>>

Save ==
    /\ parent = "saving"
    /\ file' = routes
    /\ parent' = "refreshing"
    /\ Answered(serving, TRUE)
    /\ UNCHANGED <<mulchdVars, hup, loaded, calls, routes, proxied, serving, failures>>

\* The file cannot be written: error 500, and RefreshReverseProxies is not called.
\* The child takes this answer for a success when it starts.
SaveFails ==
    /\ parent = "saving" /\ Fail("save")
    /\ parent' = "up" /\ serving' = NoCall
    /\ Answered(serving, FALSE)
    /\ UNCHANGED <<mulchdVars, hup, loaded, calls, routes, file, proxied>>

ParentRefreshes ==
    /\ parent = "refreshing"
    /\ proxied' = {d \in Domain : routes[d] # Nobody}
    /\ parent' = "up" /\ serving' = NoCall
    /\ UNCHANGED <<mulchdVars, childVars, calls, routes, file, failures>>

\* watchProxy: a child, or the parent itself, accepts connections but does not
\* answer: os.Exit, whatever the other goroutines do.
WatchdogExit ==
    /\ parent # "down" /\ Fail("exit")
    /\ parent' = "down" /\ serving' = NoCall
    /\ routes' = [d \in Domain |-> Nobody] /\ proxied' = {}
    /\ child' = IF parent = "saving" /\ serving.live THEN AfterError(serving.child) ELSE child
    /\ UNCHANGED <<mulchdVars, hup, loaded, unregistered, calls, file>>

\* NewDomainDatabase refuses a file it cannot decode.
ParentStarts ==
    /\ parent = "down" /\ file # Broken
    /\ parent' = "up"
    /\ routes' = file /\ proxied' = {d \in Domain : file[d] # Nobody}
    /\ UNCHANGED <<mulchdVars, childVars, calls, file, serving, failures>>

-----------------------------------------------------------------------------

NoRoute == [d \in Domain |-> Nobody]

\* Nothing is registered; the file of the parent was created (autoCreate).
ChainInit ==
    /\ wanted = [c \in Child |-> {}] /\ granted = [c \in Child |-> {}]
    /\ hup = {} /\ child = [c \in Child |-> "down"] /\ loaded = [c \in Child |-> {}]
    /\ calls = {} /\ routes = NoRoute /\ file = NoRoute /\ proxied = {}
    /\ parent = "up" /\ serving = NoCall
    /\ unregistered = Child /\ contested = {}
    /\ changes = 0 /\ failures = 0

Mulchd(c) ==
    \E d \in Domain : CheckDomainsConflicts(c, d) \/ Activate(c, d) \/ Deactivate(c, d)
Proxy(c) == Reload(c) \/ Send(c) \/ Unreachable(c) \/ Timeout(c)
Parent ==
    \/ \E m \in calls : ReplaceChainedDomains(m)
    \/ Save \/ SaveFails \/ ParentRefreshes
    \/ WatchdogExit \/ ParentStarts

ChainNext == (\E c \in Child : Mulchd(c) \/ Proxy(c)) \/ Parent

ChainSpec == ChainInit /\ [][ChainNext]_chainVars

-----------------------------------------------------------------------------
(* Properties. *)

\* Type correctness: a route without ReverseProxy belongs to a registration that
\* is not over, or failed (api_server.go:33-36).
ChainTypeOK ==
    /\ calls \subseteq Call
    /\ routes \in [Domain -> Child \cup {Nobody}]
    /\ serving # NoCall <=> parent \in {"saving", "refreshing"}
    /\ \A d \in Domain : d \in proxied => routes[d] # Nobody

Quiet(c) == child[c] = "idle" /\ c \notin hup \cup unregistered

\* A child whose last registration was accepted has its domains forwarded by the
\* parent, ready to be served, and only them, in spite of failures, of a parent
\* that was restarted, and of the other children, as long as no two children claimed
\* a domain at once (domain_database.go:131-159, app.go:251-291).
RegisteredIsRouted ==
    \A c \in Child : Quiet(c) /\ parent = "up" =>
        \A d \in Domain \ contested :
            /\ d \in wanted[c] => routes[d] = c /\ d \in proxied
            /\ routes[d] = c => d \in wanted[c]

\* mulchd checks the parent for conflicts: no two children claim the same domain.
NeverContested == contested = {}

\* The parent can start again.
ParentCanStart == parent = "down" => file # Broken

=============================================================================
