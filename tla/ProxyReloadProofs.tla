--------------------------- MODULE ProxyReloadProofs ---------------------------
(***************************************************************************)
(* Proofs about ProxyReload: what mulch-proxy knows once it has handled a  *)
(* signal, and that it never goes back to an older save, for any number of *)
(* saves, whatever signals fail and whenever the files are read.           *)
(*                                                                         *)
(* The files hold the last save, or the one before while save() is         *)
(* writing them; a signal that was sent is kept until the handler begins a *)
(* reload, that reads the files after the save it was sent for.            *)
(***************************************************************************)
EXTENDS ProxyReload, TLAPS

\* The contents of the files follow from where save() is: the domains are written first.
FilesOK ==
    /\ saver # "idle" => version > 0
    /\ saver = "idle" => domains = version /\ ports = version
    /\ saver = "domains" => domains = Nothing /\ ports = version - 1
    /\ saver = "ports" => domains = version /\ ports = Nothing

\* The last save that is complete.
Complete == IF saver = "idle" THEN version ELSE version - 1

\* The requests come from saves that are complete, and so does the one that is served.
RequestsOK ==
    /\ \A v \in asking : v <= Complete
    /\ reloader.version <= Complete

\* A content that was read is not newer than the file, nor than the save under way.
ReadOK ==
    /\ routes # Nothing => routes <= version
    /\ listeners # Nothing => listeners <= Complete
    /\ routes # Nothing /\ ports # Nothing => routes <= ports

\* The handler has made the ReverseProxies of its domains, but in the middle of a reload.
ProxiesOK == proxy # "refresh" => proxies = routes

\* Whatever the handler has read since the last signal is as new as the save it was for.
SignalOK ==
    reloader.pc = "signalled" /\ ~sighup =>
        /\ routes # Nothing => routes >= reloader.version
        /\ proxy = "idle" /\ listeners # Nothing => listeners >= reloader.version

\* The ports are read after the domains.
PortsFollow ==
    proxy = "idle" /\ routes # Nothing /\ listeners # Nothing => routes <= listeners

IInv ==
    /\ TypeOK /\ FilesOK /\ RequestsOK /\ ReadOK /\ ProxiesOK /\ SignalOK /\ PortsFollow

\* It holds initially.
LEMMA InitIInv == Init => IInv
<1> SUFFICES ASSUME Init PROVE IInv
  OBVIOUS
<1> USE ReloadAssumption DEF Init
<1>1. NoReloader \in Reloader /\ NoReloader.pc = "none" /\ NoReloader.version = 0
  BY DEF NoReloader, Reloader
<1>2. TypeOK
  <2>1. PICK r : r = NoReloader
    OBVIOUS
  <2>2. reloader = r /\ r \in Reloader /\ r.pc = "none" /\ token = TRUE
    BY <1>1, <2>1
  <2>3. token <=> reloader.pc = "none"
    BY <2>2, Zenon
  <2>4. 0 \in 0..MaxVersion /\ 0 \in Content
    BY DEF Content
  <2> QED BY <2>2, <2>3, <2>4 DEF TypeOK
<1>3. FilesOK /\ RequestsOK /\ ReadOK
  BY <1>1 DEF FilesOK, RequestsOK, ReadOK, Complete
<1>4. ProxiesOK /\ SignalOK /\ PortsFollow
  BY <1>1 DEF ProxiesOK, SignalOK, PortsFollow
<1> QED BY <1>2, <1>3, <1>4 DEF IInv

\* Every step of mulchd keeps it ...
LEMMA MulchdKeeps ==
    ASSUME IInv,
           \/ SaveBegins \/ SaveDomains \/ SavePorts
           \/ \E v \in Version : Request(v)
           \/ SendSignal \/ SignalFails \/ ReturnToken
    PROVE  IInv'
<1> USE ReloadAssumption DEF IInv, proxyVars
<1>0. reloader \in Reloader /\ reloader.version \in 0..MaxVersion
  BY DEF TypeOK, Reloader
<1>1. CASE SaveBegins
  <2>1. TypeOK'
    BY <1>1 DEF SaveBegins, TypeOK, Content
  <2>2. FilesOK' /\ RequestsOK' /\ ReadOK'
    BY <1>0, <1>1 DEF SaveBegins, TypeOK, FilesOK, RequestsOK, ReadOK, Complete, Content, Version
  <2>3. ProxiesOK' /\ SignalOK' /\ PortsFollow'
    BY <1>1 DEF SaveBegins, ProxiesOK, SignalOK, PortsFollow
  <2> QED BY <2>1, <2>2, <2>3
<1>2. CASE SaveDomains
  <2>1. TypeOK'
    BY <1>2 DEF SaveDomains, TypeOK, Content
  <2>2. FilesOK' /\ RequestsOK' /\ ReadOK'
    BY <1>0, <1>2 DEF SaveDomains, TypeOK, FilesOK, RequestsOK, ReadOK, Complete, Content, Version
  <2>3. ProxiesOK' /\ SignalOK' /\ PortsFollow'
    BY <1>2 DEF SaveDomains, ProxiesOK, SignalOK, PortsFollow
  <2> QED BY <2>1, <2>2, <2>3
<1>3. CASE SavePorts
  <2>1. TypeOK'
    BY <1>3 DEF SavePorts, TypeOK, Content, FilesOK, Version
  <2>2. FilesOK' /\ RequestsOK' /\ ReadOK'
    BY <1>0, <1>3 DEF SavePorts, TypeOK, FilesOK, RequestsOK, ReadOK, Complete, Content, Version
  <2>3. ProxiesOK' /\ SignalOK' /\ PortsFollow'
    BY <1>3 DEF SavePorts, ProxiesOK, SignalOK, PortsFollow
  <2> QED BY <2>1, <2>2, <2>3
<1>4. ASSUME NEW v \in Version, RequestAccepted(v)
      PROVE  IInv'
  <2>1. PICK r \in Reloader : /\ r.pc = "sleeping" /\ r.version = v /\ reloader' = r
    <3>1. [pc |-> "sleeping", version |-> v] \in Reloader
      BY DEF Reloader, Version
    <3> QED BY <1>4, <3>1 DEF RequestAccepted
  <2> QED BY <1>4, <2>1 DEF RequestAccepted, TypeOK, FilesOK, RequestsOK, ReadOK, ProxiesOK,
             SignalOK, PortsFollow, Complete
<1>5. ASSUME NEW v \in Version, RequestIgnored(v)
      PROVE  IInv'
  BY <1>5 DEF RequestIgnored, TypeOK, FilesOK, RequestsOK, ReadOK, ProxiesOK, SignalOK,
     PortsFollow, Complete
<1>6. CASE SendSignal \/ SignalFails
  <2>1. PICK pc \in {"signalled", "failed"} :
           /\ reloader.pc = "sleeping" /\ reloader' = [reloader EXCEPT !.pc = pc]
           /\ pc = "signalled" => sighup'
           /\ sighup' \in BOOLEAN
           /\ UNCHANGED <<version, saver, domains, ports, asking, token, proxyVars>>
    BY <1>6 DEF SendSignal, SignalFails, Notify, TypeOK
  <2>2. reloader' \in Reloader /\ reloader'.pc = pc /\ reloader'.version = reloader.version
    BY <1>0, <2>1 DEF Reloader
  <2> QED BY <2>1, <2>2 DEF TypeOK, FilesOK, RequestsOK, ReadOK, ProxiesOK, SignalOK,
             PortsFollow, Complete
<1>7. CASE ReturnToken
  <2>1. NoReloader \in Reloader /\ NoReloader.pc = "none" /\ NoReloader.version = 0
    BY DEF NoReloader, Reloader
  <2>2. 0 <= Complete
    BY DEF Complete, FilesOK, TypeOK
  <2> QED BY <1>7, <2>1, <2>2 DEF ReturnToken, TypeOK, FilesOK, RequestsOK, ReadOK, ProxiesOK,
             SignalOK, PortsFollow, Complete
<1> QED BY <1>1, <1>2, <1>3, <1>4, <1>5, <1>6, <1>7 DEF Request

\* ... and so does every step of mulch-proxy.
LEMMA ProxyKeeps == ASSUME IInv, Reload PROVE IInv'
<1> USE ReloadAssumption DEF IInv, mulchdVars
<1>0. reloader.version \in 0..MaxVersion
  BY DEF TypeOK, Reloader
<1>1. CASE ReloadDomains
  <2>1. TypeOK'
    BY <1>1 DEF ReloadDomains, TypeOK, Content
  <2>2. FilesOK' /\ RequestsOK' /\ ReadOK' /\ SignalOK'
    BY <1>0, <1>1 DEF ReloadDomains, TypeOK, FilesOK, RequestsOK, ReadOK, SignalOK, Complete, Content
  <2>3. ProxiesOK' /\ PortsFollow'
    BY <1>1 DEF ReloadDomains, ProxiesOK, PortsFollow
  <2> QED BY <2>1, <2>2, <2>3
<1>2. CASE RefreshReverseProxies
  BY <1>2 DEF RefreshReverseProxies, TypeOK, FilesOK, RequestsOK, ReadOK, ProxiesOK, SignalOK,
     PortsFollow, Complete
<1>3. CASE ReloadPorts
  <2>1. TypeOK' /\ FilesOK' /\ RequestsOK' /\ ProxiesOK'
    BY <1>3 DEF ReloadPorts, TypeOK, FilesOK, RequestsOK, ProxiesOK, Complete
  <2>2. ports # Nothing => ports = Complete
    BY DEF FilesOK, Complete, TypeOK
  <2>3. ReadOK' /\ SignalOK' /\ PortsFollow'
    BY <1>0, <1>3, <2>2 DEF ReloadPorts, TypeOK, FilesOK, RequestsOK, ReadOK, SignalOK, PortsFollow,
       Complete, Content
  <2> QED BY <2>1, <2>3
<1> QED BY <1>1, <1>2, <1>3 DEF Reload

LEMMA NextIInv == IInv /\ [Next]_vars => IInv'
<1> SUFFICES ASSUME IInv, [Next]_vars PROVE IInv'
  OBVIOUS
<1>1. CASE UNCHANGED vars
  BY <1>1 DEF vars, IInv, TypeOK, FilesOK, RequestsOK, ReadOK, ProxiesOK, SignalOK, PortsFollow,
     Complete
<1> QED BY <1>1, MulchdKeeps, ProxyKeeps DEF Next

\* The types, and one goroutine at most holds the token (proxy_reload.go:30-43).
THEOREM TypeCorrect == Spec => []TypeOK
<1>1. IInv => TypeOK
  BY DEF IInv
<1> QED BY InitIInv, NextIInv, <1>1, PTL DEF Spec

(***************************************************************************)
(* The safety core of ScheduledIsDone: when the signal of a reload was     *)
(* sent, and mulch-proxy has nothing left to do, it has the files of the   *)
(* save the reload is for, or later ones, or read one that was being       *)
(* written.  A signal sent during a reload is kept, and what was read      *)
(* before it does not count (proxy_reload.go:46-74, app.go:185-198).       *)
(***************************************************************************)
SignalledIsLoaded ==
    reloader.pc = "signalled" /\ ~sighup /\ proxy = "idle" =>
        Loaded(reloader.version) \/ Torn

THEOREM SignalsAreServed == Spec => []SignalledIsLoaded
<1>1. IInv => SignalledIsLoaded
  BY DEF IInv, SignalOK, ProxiesOK, SignalledIsLoaded, Loaded, Torn
<1> QED BY InitIInv, NextIInv, <1>1, PTL DEF Spec

(***************************************************************************)
(* Between two reloads the ports mulch-proxy listens to are never older    *)
(* than the domains it routes: save() writes the domains first, and the    *)
(* handler reads them first (vm_database.go:227-274, app.go:189-198).      *)
(***************************************************************************)
THEOREM PortsAreNotOlder == Spec => []PortsFollow
<1>1. IInv => PortsFollow
  BY DEF IInv
<1> QED BY InitIInv, NextIInv, <1>1, PTL DEF Spec

(***************************************************************************)
(* mulch-proxy never goes back to an older save: a reload that reads a     *)
(* whole file reads one at least as new as the last it read.               *)
(***************************************************************************)
NeverOlder ==
    [][/\ routes # Nothing /\ routes' # Nothing => routes <= routes'
       /\ listeners # Nothing /\ listeners' # Nothing => listeners <= listeners']_vars

THEOREM ProxyNeverGoesBack == Spec => NeverOlder
<1>1. IInv /\ [Next]_vars =>
         [/\ routes # Nothing /\ routes' # Nothing => routes <= routes'
          /\ listeners # Nothing /\ listeners' # Nothing => listeners <= listeners']_vars
  <2> SUFFICES ASSUME IInv, Next
               PROVE  /\ routes # Nothing /\ routes' # Nothing => routes <= routes'
                      /\ listeners # Nothing /\ listeners' # Nothing => listeners <= listeners'
    OBVIOUS
  <2> USE ReloadAssumption DEF IInv, TypeOK, Content
  <2>1. CASE UNCHANGED <<routes, listeners>>
    BY <2>1
  <2>2. CASE ReloadDomains
    BY <2>2 DEF ReloadDomains, FilesOK, ReadOK
  <2>3. CASE ReloadPorts
    BY <2>3 DEF ReloadPorts, FilesOK, ReadOK, Complete
  <2>4. CASE RefreshReverseProxies
    BY <2>4 DEF RefreshReverseProxies
  <2>5. CASE \/ SaveBegins \/ SaveDomains \/ SavePorts
             \/ \E v \in Version : Request(v)
             \/ SendSignal \/ SignalFails \/ ReturnToken
    <3>1. UNCHANGED proxyVars
      BY <2>5, Zenon DEF SaveBegins, SaveDomains, SavePorts, Request, RequestAccepted,
         RequestIgnored, SendSignal, SignalFails, ReturnToken
    <3> QED BY <3>1 DEF proxyVars
  <2> QED BY <2>2, <2>3, <2>4, <2>5 DEF Next, Reload
<1> QED BY InitIInv, NextIInv, <1>1, PTL DEF Spec, NeverOlder

=============================================================================
