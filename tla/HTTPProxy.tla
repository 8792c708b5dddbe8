------------------------------ MODULE HTTPProxy -------------------------------
(***************************************************************************)
(* The requests of the HTTP reverse proxy: ProxyServer.handleRequest from  *)
(* the lookup of the domain to the answer (proxy.go), the limits on a      *)
(* client (rate_controller.go), the list of requests (request_list.go), and *)
(* the reload of the domains under way meanwhile.                          *)
(*                                                                         *)
(* A request keeps the pointers it was given: its Domain and the entry of  *)
(* its client, that the database and the controller may have replaced or   *)
(* forgotten since.  They are versions here: a Domain is the one of a load *)
(* of the file, an entry the n-th of its client.                           *)
(***************************************************************************)
EXTENDS Integers, FiniteSets

CONSTANTS
    Request,     \* bound: requests at the same time
    Address,     \* addresses of the clients
    Vip,         \* the ones no limit is for
    Host,        \* domains
    DomainFiles, \* contents of the file: [Host -> set with the configuration, or {}]
    MaxSlots,    \* ConcurrentMaxRequests; 0: no limit
    Burst,       \* RateBurst; 0: RateEnable is false
    MaxDelay,    \* the requests that may wait for a token (RateMaxDelay)
    MaxLoads,    \* bound: loads of the file
    MaxEntries   \* bound: entries made for a client

VARIABLES
    requests,    \* the requests under way
    requestList, \* RequestList, when mulch-proxy runs with -debug
    loads,       \* number of the last load
    domainDB,    \* what each load made of the file
    ready,       \* the loads whose Domains have a ReverseProxy
    made,        \* entries made for each client, forgotten or not
    entries,     \* the entry of each client; 0: none
    slots,       \* places taken in currentRequestSlots
    tokens,      \* tokens of the limiter; negative: reservations
    recent       \* clients seen for less than RateControllerCleanupInterval

httpVars == <<requests, requestList, loads, domainDB, ready, made, entries, slots,
              tokens, recent>>
rateVars == <<made, entries, slots, tokens, recent>>
domainVars == <<loads, domainDB, ready>>

\* "none", "lookup", "entry", "slot", "limiter", "wait", "route", "backend", and
\* then "finish": the deferred calls.
NoRequest == [pc |-> "none", ip |-> "", host |-> "", parent |-> FALSE, domain |-> 0,
              entry |-> 0, slot |-> FALSE, wait |-> 0, status |-> "none"]

Goto(r, pc) == requests' = [requests EXCEPT ![r].pc = pc]
Answer(r, status) == requests' = [requests EXCEPT ![r].pc = "finish", ![r].status = status]
Entry(r) == <<requests[r].ip, requests[r].entry>>
Config(r) == CHOOSE d \in domainDB[requests[r].domain][requests[r].host] : TRUE

-----------------------------------------------------------------------------
(* handleRequest. *)

\* A request of the watchdog is answered before all this, whatever its host.
\* "fromParent": it has the key of the chain, or comes from a trusted proxy.
Arrive(r, ip, h, fromParent) ==
    /\ requests[r].pc = "none"
    /\ requests' = [requests EXCEPT ![r] = [NoRequest EXCEPT
                        !.pc = "lookup", !.ip = ip, !.host = h, !.parent = fromParent]]
    /\ requestList' = requestList \cup {r}
    /\ UNCHANGED <<domainVars, rateVars>>

\* GetByName: 500 for an unknown domain.
Lookup(r) ==
    /\ requests[r].pc = "lookup"
    /\ IF domainDB[loads][requests[r].host] = {} THEN Answer(r, "500")
       ELSE requests' = [requests EXCEPT ![r].domain = loads,
                ![r].pc = IF \/ requests[r].parent
                             \/ MaxSlots = 0 /\ Burst = 0
                             \/ requests[r].ip \in Vip
                          THEN "route" ELSE "entry"]
    /\ UNCHANGED <<requestList, domainVars, rateVars>>

GetEntry(r) ==
    LET ip == requests[r].ip
        known == entries[ip] # 0
        n == IF known THEN entries[ip] ELSE made[ip] + 1
    IN  /\ requests[r].pc = "entry" /\ n <= MaxEntries
        /\ requests' = [requests EXCEPT ![r].entry = n, ![r].pc = "slot"]
        /\ entries' = [entries EXCEPT ![ip] = n]
        /\ made' = [made EXCEPT ![ip] = IF known THEN @ ELSE n]
        /\ slots' = [slots EXCEPT ![<<ip, n>>] = IF known THEN @ ELSE 0]
        /\ tokens' = [tokens EXCEPT ![<<ip, n>>] = IF known THEN @ ELSE Burst]
        /\ recent' = recent \cup {ip}
        /\ UNCHANGED <<requestList, domainVars>>

\* IsAllowed, the first select.
TakeSlot(r) ==
    /\ requests[r].pc = "slot"
    /\ MaxSlots > 0 => slots[Entry(r)] < MaxSlots
    /\ slots' = [slots EXCEPT ![Entry(r)] = IF MaxSlots > 0 THEN @ + 1 ELSE @]
    /\ requests' = [requests EXCEPT ![r].slot = MaxSlots > 0,
                        ![r].pc = IF Burst = 0 THEN "route" ELSE "limiter"]
    /\ UNCHANGED <<requestList, domainVars, made, entries, tokens, recent>>

\* (mutant: FinishRequest is called for a request that has no slot)
NeedFinishAlways == TRUE

\* IsAllowed returns "no need to finish" to a request that got no slot in time.
NeedFinish == FALSE

\* ConcurrentOverflowTimeout.
SlotTimeout(r) ==
    /\ requests[r].pc = "slot" /\ MaxSlots > 0 /\ slots[Entry(r)] = MaxSlots
    /\ requests' = [requests EXCEPT ![r].pc = "finish", ![r].status = "429",
                                    ![r].slot = NeedFinish]
    /\ UNCHANGED <<requestList, domainVars, rateVars>>

\* rateLimiter.Wait: a token now, or a reservation if it is not for too late.
Reserve(r) ==
    LET t == tokens[Entry(r)] - 1
        wait == IF t >= 0 THEN 0 ELSE -t
    IN  /\ requests[r].pc = "limiter" /\ wait <= MaxDelay
        /\ tokens' = [tokens EXCEPT ![Entry(r)] = t]
        /\ requests' = [requests EXCEPT ![r].wait = wait,
                                        ![r].pc = IF wait = 0 THEN "route" ELSE "wait"]
        /\ UNCHANGED <<requestList, domainVars, made, entries, slots, recent>>

TooLate(r) ==
    /\ requests[r].pc = "limiter" /\ 1 - tokens[Entry(r)] > MaxDelay
    /\ Answer(r, "429")
    /\ UNCHANGED <<requestList, domainVars, rateVars>>

Waiting(e) == {r \in Request : requests[r].pc = "wait" /\ Entry(r) = e}

\* 1/RateRequestsPerSecond later.
Refill(e) ==
    /\ tokens[e] < Burst
    /\ tokens' = [tokens EXCEPT ![e] = @ + 1]
    /\ requests' = [r \in Request |->
            IF r \notin Waiting(e) THEN requests[r]
            ELSE [requests[r] EXCEPT !.wait = @ - 1, !.pc = IF @ = "wait" /\ requests[r].wait = 1
                                                            THEN "route" ELSE @]]
    /\ UNCHANGED <<requestList, domainVars, made, entries, slots, recent>>

\* The client leaves while it waits: the reservation is cancelled, its token given
\* back unless others reserved after it.  The request goes on.
ClientLeaves(r) ==
    LET last == \A o \in Waiting(Entry(r)) : requests[o].wait <= requests[r].wait
    IN  /\ requests[r].pc = "wait"
        /\ Goto(r, "route")
        /\ tokens' = [tokens EXCEPT ![Entry(r)] = IF last THEN @ + 1 ELSE @]
        /\ UNCHANGED <<requestList, domainVars, made, entries, slots, recent>>

\* To another URL, or to https, for a request that came through http.
Redirect(r) ==
    /\ requests[r].pc = "route" /\ Config(r).redirects
    /\ Answer(r, "302")
    /\ UNCHANGED <<requestList, domainVars, rateVars>>

\* serveReverseProxy, with the ReverseProxy of the Domain.
Serve(r) ==
    /\ requests[r].pc = "route" /\ ~Config(r).redirects
    /\ requests[r].domain \in ready
    /\ Goto(r, "backend")
    /\ UNCHANGED <<requestList, domainVars, rateVars>>

\* There is none yet: the handler panics, net/http recovers, the client sees its
\* connection broken.
Panic(r) ==
    /\ requests[r].pc = "route" /\ ~Config(r).redirects
    /\ requests[r].domain \notin ready
    /\ Answer(r, "aborted")
    /\ UNCHANGED <<requestList, domainVars, rateVars>>

\* The backend answers, or cannot be reached (502, from RoundTrip), or the client
\* has gone.
Backend(r) ==
    /\ requests[r].pc = "backend"
    /\ Answer(r, "200")
    /\ UNCHANGED <<requestList, domainVars, rateVars>>

\* (mutant: DeleteRequest is not deferred)
DeleteRequestNever(r) == requestList

DeleteRequest(r) == requestList \ {r}

\* The deferred calls: FinishRequest waits for the slot it takes back.
FinishRequest(r) ==
    /\ requests[r].pc = "finish"
    /\ requests[r].slot => slots[Entry(r)] > 0
    /\ slots' = IF requests[r].slot THEN [slots EXCEPT ![Entry(r)] = @ - 1] ELSE slots
    /\ requestList' = DeleteRequest(r)
    /\ requests' = [requests EXCEPT ![r] = NoRequest]
    /\ UNCHANGED <<domainVars, made, entries, tokens, recent>>

-----------------------------------------------------------------------------
(* RateController.Clean, and time. *)

\* RateControllerCleanupInterval passes without a request of these clients; a
\* request at its backend may last longer, the waits of IsAllowed never do.
Age ==
    /\ recent # {}
    /\ \A r \in Request : requests[r].pc \in {"none", "backend"}
    /\ recent' = {}
    /\ tokens' = [e \in DOMAIN tokens |-> Burst]
    /\ UNCHANGED <<requests, requestList, domainVars, made, entries, slots>>

Clean ==
    /\ \E ip \in Address : entries[ip] # 0 /\ ip \notin recent
    /\ entries' = [ip \in Address |-> IF ip \in recent THEN entries[ip] ELSE 0]
    /\ UNCHANGED <<requests, requestList, domainVars, made, slots, tokens, recent>>

-----------------------------------------------------------------------------
(* ReloadDomains, in the goroutine of the signal. *)

\* DomainDB.Reload: new Domains, without ReverseProxy.
ReloadDomains(file) ==
    /\ loads \in ready /\ loads < MaxLoads
    /\ loads' = loads + 1
    /\ domainDB' = [domainDB EXCEPT ![loads + 1] = file]
    /\ UNCHANGED <<ready, requests, requestList, rateVars>>

RefreshReverseProxies ==
    /\ loads \notin ready
    /\ ready' = ready \cup {loads}
    /\ UNCHANGED <<loads, domainDB, requests, requestList, rateVars>>

-----------------------------------------------------------------------------

NoDomains == [h \in Host |-> {}]
Entries == Address \X (1..MaxEntries)

\* NewApp loads the domains and makes their ReverseProxies before it listens.
HTTPInit ==
    /\ requests = [r \in Request |-> NoRequest] /\ requestList = {}
    /\ loads = 1 /\ ready = {1}
    /\ \E file \in DomainFiles :
            domainDB = [n \in 1..MaxLoads |-> IF n = 1 THEN file ELSE NoDomains]
    /\ made = [ip \in Address |-> 0] /\ entries = [ip \in Address |-> 0]
    /\ slots = [e \in Entries |-> 0] /\ tokens = [e \in Entries |-> Burst]
    /\ recent = {}

Handle(r) ==
    \/ Lookup(r) \/ GetEntry(r)
    \/ TakeSlot(r) \/ SlotTimeout(r)
    \/ Reserve(r) \/ TooLate(r) \/ ClientLeaves(r)
    \/ Redirect(r) \/ Serve(r) \/ Panic(r) \/ Backend(r)
    \/ FinishRequest(r)

HTTPNext ==
    \/ \E r \in Request : \E ip \in Address : \E h \in Host : \E p \in BOOLEAN :
            Arrive(r, ip, h, p)
    \/ \E r \in Request : Handle(r)
    \/ \E e \in Entries : Refill(e)
    \/ Age \/ Clean
    \/ \E file \in DomainFiles \cup {NoDomains} : ReloadDomains(file)
    \/ RefreshReverseProxies

HTTPSpec == HTTPInit /\ [][HTTPNext]_httpVars

-----------------------------------------------------------------------------
(* Properties. *)

\* Type correctness: a request is in the list until its deferred calls
\* (proxy.go:275-276), and the pointers it has are of objects that were made.
HTTPTypeOK ==
    /\ requestList = {r \in Request : requests[r].pc # "none"}
    /\ \A r \in Request : requests[r].domain \in 0..loads
    /\ \A r \in Request : requests[r].entry > 0 => requests[r].entry <= made[requests[r].ip]
    /\ \A ip \in Address : entries[ip] \in {0, made[ip]}

\* The places taken in an entry are the ones of the requests that will give them
\* back, and never more than the limit, even for an entry that was forgotten:
\* FinishRequest never waits (rate_controller.go:113-154, proxy.go:313-316).
SlotsAreHeld ==
    \A e \in Entries :
        /\ slots[e] = Cardinality({r \in Request : requests[r].slot /\ Entry(r) = e})
        /\ slots[e] <= MaxSlots

\* What the configuration calls the "max number of concurrent running requests"
\* of a client (rate_controller.go:26).
RunningBounded ==
    \A ip \in Address \ Vip : MaxSlots > 0 =>
        Cardinality({r \in Request : requests[r].ip = ip /\ requests[r].pc = "backend"
                                     /\ ~requests[r].parent}) <= MaxSlots

\* A reload breaks no request.
NeverAborted == \A r \in Request : requests[r].status # "aborted"

=============================================================================
