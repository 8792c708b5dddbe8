------------------------------ MODULE MulchProxyProofs -----------------------
(***************************************************************************)
(* Proofs about mulch-proxy: its TCP ports, its requests and its place in  *)
(* a chain of proxies.  Each part has its own specification, and its       *)
(* section an inductive invariant of it; the last section is about all of  *)
(* them together.                                                          *)
(***************************************************************************)
EXTENDS MCMulchProxy, FiniteSetTheorems, TLAPS

-----------------------------------------------------------------------------
(***************************************************************************)
(* Proof about PortServer: no connection outlives its forward, for any     *)
(* number of clients, ports, connections and reloads, whatever the files   *)
(* hold and wherever the connections stand when they are reloaded.         *)
(*                                                                         *)
(* A connection that nobody told to end has a channel in its listener, and *)
(* the channels of a listener that was visited by the reload are the ones  *)
(* of the file: when the reload ends, all of them have been visited.       *)
(***************************************************************************)
ConnsOK ==
    /\ DOMAIN conns = Conn
    /\ \A c \in Conn : conns[c] = [pc |-> conns[c].pc, port |-> conns[c].port,
                                   key |-> conns[c].key, revoked |-> conns[c].revoked,
                                   closed |-> conns[c].closed,
                                   chanClosed |-> conns[c].chanClosed,
                                   pipes |-> conns[c].pipes]

ListenersOK ==
    \A p \in DOMAIN listeners :
        listeners[p] = [public |-> listeners[p].public, map |-> listeners[p].map,
                        chans |-> listeners[p].chans]

\* A connection is found by the close of its channel.
HasChannel ==
    \A c \in Conn :
        /\ conns[c].pc = "looked" => conns[c].port \in DOMAIN listeners
        /\ Forwarding(c) /\ ~conns[c].revoked =>
            /\ conns[c].port \in DOMAIN listeners
            /\ conns[c].key \in listeners[conns[c].port].chans

\* The listener that is being updated, and the ones that have been.
Visited ==
    /\ refresh = "idle" => DOMAIN listeners \subseteq kept
    /\ refresh \in {"add", "remove", "set"} => busy \in DOMAIN listeners
    /\ refresh = "set" => listeners[busy].chans = Keys(portDB[busy])
    /\ refresh = "remove" => Keys(portDB[busy]) \subseteq listeners[busy].chans
    /\ \A p \in kept \cap DOMAIN listeners :
          \/ refresh \in {"add", "remove", "set"} /\ p = busy
          \/ listeners[p].chans = Keys(portDB[p])

PortsIInv == ConnsOK /\ ListenersOK /\ HasChannel /\ Visited

\* It holds initially.
LEMMA PortsInitIInv == PortsInit => PortsIInv
<1> SUFFICES ASSUME PortsInit PROVE PortsIInv
  OBVIOUS
<1>1. DOMAIN listeners = {}
  BY DEF PortsInit, Empty
<1>2. DOMAIN conns = Conn /\ \A c \in Conn : conns[c] = NoConn
  BY DEF PortsInit
<1>3. ConnsOK
  BY <1>2 DEF ConnsOK, NoConn
<1>4. HasChannel
  BY <1>2 DEF HasChannel, NoConn, Forwarding
<1>5. ListenersOK /\ Visited
  BY <1>1 DEF PortsInit, ListenersOK, Visited
<1>6. QED BY <1>3, <1>4, <1>5 DEF PortsIInv

\* Every step keeps the invariant.
LEMMA PortsNextIInv == PortsIInv /\ [PortsNext]_portVars => PortsIInv'
<1> SUFFICES ASSUME PortsIInv, [PortsNext]_portVars PROVE PortsIInv'
  OBVIOUS
<1> USE DEF PortsIInv, ConnsOK, ListenersOK, HasChannel, Visited, Forwarding, serverVars
<1>1. ASSUME NEW db, Load(db)
      PROVE  PortsIInv'
  BY <1>1 DEF Load
<1>2. ASSUME NEW p, OpenListener(p)
      PROVE  PortsIInv'
  BY <1>2 DEF OpenListener, NewListener
<1>3. ASSUME NEW p, ListenFails(p)
      PROVE  PortsIInv'
  BY <1>3 DEF ListenFails
<1>4. ASSUME NEW p, UpdateForwardMap(p)
      PROVE  PortsIInv'
  BY <1>4 DEF UpdateForwardMap
<1>5. CASE AddChannels
  <2>1. ConnsOK'
    BY <1>5 DEF AddChannels
  <2>2. ListenersOK'
    BY <1>5 DEF AddChannels
  <2>3. HasChannel'
    BY <1>5 DEF AddChannels
  <2>4. Visited'
    BY <1>5 DEF AddChannels
  <2> QED BY <2>1, <2>2, <2>3, <2>4
<1>6. CASE RemoveChannels
  <2>1. ConnsOK'
    BY <1>6 DEF RemoveChannels, Revoked
  <2>2. ListenersOK'
    BY <1>6 DEF RemoveChannels, Revoked
  <2>3. HasChannel'
    BY <1>6 DEF RemoveChannels, Revoked
  <2>4. Visited'
    <3> DEFINE old == listeners[busy].chans \ Keys(portDB[busy])
    <3>0. /\ busy \in DOMAIN listeners /\ Keys(portDB[busy]) \subseteq listeners[busy].chans
          /\ listeners' = [listeners EXCEPT ![busy].chans = @ \ old]
      BY <1>6 DEF RemoveChannels
    <3>1. /\ listeners'[busy].chans = Keys(portDB[busy])
          /\ DOMAIN listeners' = DOMAIN listeners
          /\ \A p \in DOMAIN listeners \ {busy} : listeners'[p] = listeners[p]
      <4>1. busy \in DOMAIN listeners => "chans" \in DOMAIN listeners[busy]
        OBVIOUS
      <4>2. Keys(portDB[busy]) = listeners[busy].chans \ old
        BY <3>0
      <4> HIDE DEF ListenersOK, ConnsOK, HasChannel, Visited, old
      <4> QED BY <3>0, <4>1, <4>2
    <3>2. /\ refresh' = "set"
          /\ UNCHANGED <<portDB, busy, kept>>
      BY <1>6 DEF RemoveChannels
    <3> QED BY <1>6, <3>1, <3>2 DEF RemoveChannels
  <2> QED BY <2>1, <2>2, <2>3, <2>4
<1>7. CASE SetForwardMap
  BY <1>7 DEF SetForwardMap
<1>8. ASSUME NEW p \in DOMAIN listeners, CloseListener(p)
      PROVE  PortsIInv'
  <2>1. ConnsOK'
    BY <1>8 DEF CloseListener, Revoked, NoConn
  <2>2. ListenersOK'
    BY <1>8 DEF CloseListener, Revoked, NoConn
  <2>3. HasChannel'
    BY <1>8 DEF CloseListener, Revoked, NoConn
  <2>4. Visited'
    BY <1>8 DEF CloseListener, Revoked, NoConn
  <2> QED BY <2>1, <2>2, <2>3, <2>4
<1>9. CASE EndRefresh
  BY <1>9 DEF EndRefresh
<1>10. ASSUME NEW c \in Conn, NEW s, NEW p, Accept(c, s, p)
       PROVE  PortsIInv'
  <2>1. ConnsOK'
    BY <1>10 DEF Accept
  <2>2. ListenersOK'
    BY <1>10 DEF Accept
  <2>3. HasChannel'
    BY <1>10 DEF Accept
  <2>4. Visited'
    BY <1>10 DEF Accept
  <2> QED BY <2>1, <2>2, <2>3, <2>4
<1>11. ASSUME NEW c \in Conn, Forward(c)
       PROVE  PortsIInv'
  <2>1. ConnsOK'
    BY <1>11 DEF Forward, NoConn
  <2>2. ListenersOK'
    BY <1>11 DEF Forward, NoConn
  <2>3. HasChannel'
    BY <1>11 DEF Forward, NoConn
  <2>4. Visited'
    BY <1>11 DEF Forward, NoConn
  <2> QED BY <2>1, <2>2, <2>3, <2>4
<1>12. ASSUME NEW c \in Conn, ConcurrentMapAccess(c)
       PROVE  PortsIInv'
  BY <1>12 DEF ConcurrentMapAccess
<1>13. ASSUME NEW p, AcceptFails(p)
       PROVE  PortsIInv'
  BY <1>13 DEF AcceptFails
<1>14. ASSUME NEW c \in Conn, Dial(c)
       PROVE  PortsIInv'
  BY <1>14 DEF Dial, NoConn
<1>15. ASSUME NEW c \in Conn, Disconnect(c)
       PROVE  PortsIInv'
  BY <1>15 DEF Disconnect
<1>16. ASSUME NEW c \in Conn, NEW i, PipeFails(c, i)
       PROVE  PortsIInv'
  BY <1>16 DEF PipeFails
<1>17. ASSUME NEW c \in Conn, NEW i, PipeCloses(c, i)
       PROVE  PortsIInv'
  <2>1. ConnsOK'
    BY <1>17 DEF PipeCloses
  <2>2. ListenersOK'
    BY <1>17 DEF PipeCloses
  <2>3. HasChannel'
    BY <1>17 DEF PipeCloses
  <2>4. Visited'
    BY <1>17 DEF PipeCloses
  <2> QED BY <2>1, <2>2, <2>3, <2>4
<1>18. ASSUME NEW c \in Conn, Collect(c)
       PROVE  PortsIInv'
  BY <1>18 DEF Collect, NoConn
<1>19. CASE UNCHANGED portVars
  BY <1>19 DEF portVars
<1> HIDE DEF PortsIInv
<1>20. QED
  BY <1>1, <1>2, <1>3, <1>4, <1>5, <1>6, <1>7, <1>8, <1>9, <1>10, <1>11, <1>12, <1>13,
     <1>14, <1>15, <1>16, <1>17, <1>18, <1>19
  DEF PortsNext, ReloadPorts, Listen, PortForward

(***************************************************************************)
(* A connection goes on only as long as the forwards of its port have its  *)
(* source and its destination: when a reload ends the others were told to  *)
(* end (port_listener.go:158-166, port_server.go:57-95).                   *)
(***************************************************************************)
THEOREM WithdrawnAreClosed == PortsSpec => []EstablishedAreAllowed
<1>1. PortsIInv => EstablishedAreAllowed
  BY DEF PortsIInv, HasChannel, Visited, EstablishedAreAllowed
<1>2. QED BY PortsInitIInv, PortsNextIInv, <1>1, PTL DEF PortsSpec

(***************************************************************************)
(* What the last file says.  A listener keeps, for good, whether its port  *)
(* was public when it was opened.                                          *)
(***************************************************************************)
PublicForGood ==
    /\ portDB \in PortFiles \cup {Empty}
    /\ todo \cup kept \subseteq DOMAIN portDB
    /\ \A p \in DOMAIN listeners : \A db \in PortFiles :
          p \in DOMAIN db => (listeners[p].public <=> Star \in DOMAIN db[p])

\* The listeners a reload has visited forward what the file says.
Forwarded ==
    \A p \in kept \cap DOMAIN listeners :
        (refresh \in {"add", "remove", "set"} /\ p = busy) \/ listeners[p].map = portDB[p]

\* No port is public in a file, and one of a group in another.
FixedPorts ==
    \A f, g \in PortFiles : \A p \in DOMAIN f \cap DOMAIN g :
        Star \in DOMAIN f[p] <=> Star \in DOMAIN g[p]

FollowsInv == PortsIInv /\ PublicForGood /\ Forwarded

\* A step that changes neither the file nor a listener.
LEMMA SameListeners ==
    ASSUME PublicForGood, Forwarded, UNCHANGED <<portDB, todo, kept, busy, refresh, listeners>>
    PROVE  PublicForGood' /\ Forwarded'
BY DEF PublicForGood, Forwarded

\* Every step keeps it.
LEMMA NextFollows ==
    ASSUME FixedPorts, FollowsInv, [PortsNext]_portVars
    PROVE  PublicForGood' /\ Forwarded'
<1>0. ListenersOK /\ Visited /\ PublicForGood /\ Forwarded
  BY DEF FollowsInv, PortsIInv
<1>1. ASSUME NEW db \in PortFiles \cup {Empty}, Load(db)
      PROVE  PublicForGood' /\ Forwarded'
  BY <1>0, <1>1 DEF Load, PublicForGood, Forwarded
<1>2. ASSUME NEW p \in todo, OpenListener(p)
      PROVE  PublicForGood' /\ Forwarded'
  <2>1. p \in DOMAIN portDB /\ portDB \in PortFiles
    BY <1>0 DEF PublicForGood, Empty
  <2>2. /\ DOMAIN listeners' = DOMAIN listeners \cup {p}
        /\ listeners'[p] = NewListener(portDB[p])
        /\ \A q \in DOMAIN listeners : listeners'[q] = listeners[q]
        /\ todo' = todo \ {p} /\ kept' = kept \cup {p} /\ p \notin DOMAIN listeners
        /\ UNCHANGED <<portDB, busy, refresh>>
    BY <1>2 DEF OpenListener
  <2>3. listeners'[p].map = portDB[p] /\ (listeners'[p].public <=> Star \in DOMAIN portDB[p])
    <3> DEFINE new == [public |-> Star \in DOMAIN portDB[p], map |-> portDB[p],
                       chans |-> Keys(portDB[p])]
    <3>1. listeners'[p] = new
      BY <2>2 DEF NewListener
    <3>2. new.public = (Star \in DOMAIN portDB[p]) /\ new.map = portDB[p]
      OBVIOUS
    <3> HIDE DEF new
    <3> QED BY <3>1, <3>2
  <2>4. \A db \in PortFiles :
          p \in DOMAIN db => (listeners'[p].public <=> Star \in DOMAIN db[p])
    BY <2>1, <2>3 DEF FixedPorts
  <2> QED BY <1>0, <2>1, <2>2, <2>3, <2>4 DEF PublicForGood, Forwarded
<1>3. ASSUME NEW p \in todo, ListenFails(p)
      PROVE  PublicForGood' /\ Forwarded'
  BY <1>0, <1>3 DEF ListenFails, PublicForGood, Forwarded
<1>4. ASSUME NEW p \in todo, UpdateForwardMap(p)
      PROVE  PublicForGood' /\ Forwarded'
  BY <1>0, <1>4 DEF UpdateForwardMap, PublicForGood, Forwarded
<1>5. ASSUME NEW chans, AddChannels \/ RemoveChannels,
             listeners' = [listeners EXCEPT ![busy].chans = chans]
      PROVE  PublicForGood' /\ Forwarded'
  <2>1. /\ busy \in DOMAIN listeners /\ DOMAIN listeners' = DOMAIN listeners
        /\ \A p \in DOMAIN listeners : listeners'[p].map = listeners[p].map
        /\ \A p \in DOMAIN listeners : listeners'[p].public = listeners[p].public
    BY <1>0, <1>5 DEF AddChannels, RemoveChannels, Visited, ListenersOK
  <2>2. /\ UNCHANGED <<portDB, todo, kept, busy>>
        /\ refresh \in {"add", "remove", "set"} /\ refresh' \in {"add", "remove", "set"}
    BY <1>5 DEF AddChannels, RemoveChannels
  <2> QED BY <1>0, <2>1, <2>2 DEF PublicForGood, Forwarded
<1>6. CASE SetForwardMap
  <2>1. /\ busy \in DOMAIN listeners /\ DOMAIN listeners' = DOMAIN listeners
        /\ listeners'[busy].map = portDB[busy]
        /\ \A p \in DOMAIN listeners : listeners'[p].public = listeners[p].public
        /\ \A p \in DOMAIN listeners \ {busy} : listeners'[p].map = listeners[p].map
    BY <1>0, <1>6 DEF SetForwardMap, MapReplaced, Visited, ListenersOK
  <2>2. UNCHANGED <<portDB, todo, kept>>
    BY <1>6 DEF SetForwardMap
  <2>3. Forwarded'
    BY <1>0, <2>1, <2>2 DEF Forwarded
  <2>4. PublicForGood'
    BY <1>0, <2>1, <2>2 DEF PublicForGood
  <2> QED BY <2>3, <2>4
<1>7. ASSUME NEW p \in DOMAIN listeners, CloseListener(p)
      PROVE  PublicForGood' /\ Forwarded'
  BY <1>0, <1>7 DEF CloseListener, PublicForGood, Forwarded
<1>8. CASE EndRefresh
  BY <1>0, <1>8 DEF EndRefresh, PublicForGood, Forwarded
<1>9. CASE Listen \/ PortForward \/ UNCHANGED portVars
  <2>1. UNCHANGED <<portDB, todo, kept, busy, refresh, listeners>>
    BY <1>9 DEF Listen, PortForward, portVars, serverVars, Accept, Forward,
       ConcurrentMapAccess, AcceptFails, Dial, Disconnect, PipeFails, PipeCloses, Collect
  <2> QED BY <1>0, <2>1, SameListeners
<1>10. CASE AddChannels
  BY <1>5, <1>10 DEF AddChannels
<1>11. CASE RemoveChannels
  <2>1. listeners' = [listeners EXCEPT ![busy].chans = @ \ (listeners[busy].chans \ Keys(portDB[busy]))]
    BY <1>11 DEF RemoveChannels
  <2> QED BY <1>5, <1>11, <2>1
<1> QED
  BY <1>1, <1>2, <1>3, <1>4, <1>6, <1>7, <1>8, <1>9, <1>10, <1>11 DEF PortsNext, ReloadPorts

(***************************************************************************)
(* Between two reloads an open port serves the clients of the last file,   *)
(* and sends them where it says, provided that no port number is public in *)
(* a file and one of a group in another (port_server.go:57-95,             *)
(* port_listener.go:38-42).                                                *)
(***************************************************************************)
THEOREM LoadedFileIsServed == ASSUME FixedPorts PROVE PortsSpec => []ServesLoadedFile
<1>1. PortsInit => FollowsInv
  BY PortsInitIInv DEF PortsInit, FollowsInv, PublicForGood, Forwarded, Empty
<1>2. FollowsInv /\ [PortsNext]_portVars => FollowsInv'
  BY NextFollows, PortsNextIInv DEF FollowsInv
<1>3. FollowsInv => ServesLoadedFile
  <2> SUFFICES ASSUME FollowsInv, refresh = "idle", NEW p \in DOMAIN listeners, NEW s \in Client
               PROVE  Target(listeners[p], s) = Target(NewListener(portDB[p]), s)
    BY DEF ServesLoadedFile
  <2>1. p \in kept /\ p \in DOMAIN portDB /\ portDB \in PortFiles
    BY DEF FollowsInv, PortsIInv, Visited, PublicForGood, Empty
  <2>2. /\ listeners[p].map = portDB[p] /\ listeners[p].chans = Keys(portDB[p])
        /\ listeners[p].public <=> Star \in DOMAIN portDB[p]
    BY <2>1 DEF FollowsInv, PortsIInv, Visited, PublicForGood, Forwarded
  <2> DEFINE new == [public |-> Star \in DOMAIN portDB[p], map |-> portDB[p],
                     chans |-> Keys(portDB[p])]
  <2>3. NewListener(portDB[p]) = new
    BY DEF NewListener
  <2>4. /\ new.map = portDB[p] /\ new.chans = Keys(portDB[p])
        /\ new.public = (Star \in DOMAIN portDB[p])
    OBVIOUS
  <2> HIDE DEF new
  <2>5. Source(listeners[p], s) = Source(new, s)
    BY <2>2, <2>4 DEF Source
  <2>6. Target(listeners[p], s) = Target(new, s)
    BY <2>2, <2>4, <2>5, Zenon DEF Target
  <2> QED BY <2>3, <2>6
<1> QED BY <1>1, <1>2, <1>3, PTL DEF PortsSpec

-----------------------------------------------------------------------------
(***************************************************************************)
(* The places of the clients (HTTPProxy).  A request that has a place has  *)
(* it in an entry that was made, and knows it from then on: it takes it    *)
(* once, gives it back once, and a new entry starts with no place taken    *)
(* because nobody can have one there yet.                                  *)
(***************************************************************************)
RequestFields == {"pc", "ip", "host", "parent", "domain", "entry", "slot", "wait", "status"}

RequestsOK ==
    /\ DOMAIN requests = Request
    /\ \A r \in Request : DOMAIN requests[r] = RequestFields

EntriesOK ==
    /\ made \in [Address -> 0..MaxEntries]
    /\ entries \in [Address -> Nat] /\ \A ip \in Address : entries[ip] <= made[ip]
    /\ DOMAIN slots = Entries

HeldOK(r) ==
    /\ requests[r].pc # "none" => requests[r].ip \in Address
    /\ requests[r].pc \in {"slot", "limiter", "wait"} \/ requests[r].slot =>
            requests[r].entry \in 1..made[requests[r].ip]
    /\ requests[r].slot => requests[r].pc \in {"limiter", "wait", "route", "backend", "finish"}

Holders(e) == {r \in Request : requests[r].slot /\ Entry(r) = e}

PlacesOK == \A e \in Entries : slots[e] = Cardinality(Holders(e)) /\ slots[e] <= MaxSlots

HTTPIInv == RequestsOK /\ EntriesOK /\ (\A r \in Request : HeldOK(r)) /\ PlacesOK

\* The numbers the code is configured with, and a finite number of requests.
HTTPConstants == IsFiniteSet(Request) /\ MaxSlots \in Nat /\ MaxEntries \in Nat

\* A request whose place, address and entry do not change.
Keeps(r) ==
    /\ DOMAIN requests'[r] = RequestFields
    /\ requests'[r].slot = requests[r].slot
    /\ requests'[r].ip = requests[r].ip /\ requests'[r].entry = requests[r].entry

\* It goes on, or ends, and takes no place.
Advances(r) ==
    \/ requests'[r].pc = requests[r].pc
    \/ requests[r].pc = "lookup" /\ requests'[r].pc = "entry"
    \/ requests[r].pc = "limiter" /\ requests'[r].pc = "wait"
    \/ requests[r].pc # "none" /\ requests'[r].pc \in {"route", "backend", "finish"}

\* A step that neither takes nor gives back a place, nor makes an entry.
LEMMA PlacesKept ==
    ASSUME HTTPIInv, DOMAIN requests' = Request,
           \A r \in Request : Keeps(r) /\ Advances(r),
           made' = made, slots' = slots,
           entries' = entries
             \/ entries' = [ip \in Address |-> IF ip \in recent THEN entries[ip] ELSE 0]
    PROVE  HTTPIInv'
<1>1. RequestsOK' /\ EntriesOK'
  BY DEF HTTPIInv, RequestsOK, EntriesOK, Keeps, Entries
<1>2. ASSUME NEW r \in Request PROVE HeldOK(r)'
  BY DEF HTTPIInv, HeldOK, Keeps, Advances
<1>3. \A e \in Entries : Holders(e)' = Holders(e)
  BY DEF Holders, Entry, Keeps
<1>4. PlacesOK'
  BY <1>3 DEF HTTPIInv, PlacesOK, Entries
<1> QED BY <1>1, <1>2, <1>4 DEF HTTPIInv

\* It holds initially.
LEMMA HTTPInitIInv == ASSUME HTTPConstants, HTTPInit PROVE HTTPIInv
<1>1. /\ DOMAIN requests = Request
      /\ \A r \in Request : /\ DOMAIN requests[r] = RequestFields
                            /\ requests[r].slot = FALSE /\ requests[r].pc = "none"
  BY DEF HTTPInit, NoRequest, RequestFields
<1>2. EntriesOK
  BY DEF HTTPInit, EntriesOK, HTTPConstants
<1>3. \A e \in Entries : slots[e] = 0 /\ Holders(e) = {}
  BY <1>1 DEF HTTPInit, Holders
<1>4. PlacesOK
  BY <1>3, FS_EmptySet DEF PlacesOK, HTTPConstants
<1> QED BY <1>1, <1>2, <1>4 DEF HTTPIInv, RequestsOK, HeldOK

\* GetEntry: the entry the client has, or a new one, with no place taken.
LEMMA GetEntryKeeps ==
    ASSUME HTTPConstants, HTTPIInv, NEW r \in Request, GetEntry(r)
    PROVE  HTTPIInv'
<1> DEFINE ip == requests[r].ip
           n == IF entries[ip] # 0 THEN entries[ip] ELSE made[ip] + 1
<1>1. /\ requests[r].pc = "entry" /\ n <= MaxEntries /\ ip \in Address
      /\ requests' = [requests EXCEPT ![r].entry = n, ![r].pc = "slot"]
      /\ entries' = [entries EXCEPT ![ip] = n]
      /\ made' = [made EXCEPT ![ip] = IF entries[ip] # 0 THEN @ ELSE n]
      /\ slots' = [slots EXCEPT ![<<ip, n>>] = IF entries[ip] # 0 THEN @ ELSE 0]
  BY DEF GetEntry, HTTPIInv, HeldOK
<1>2. ~requests[r].slot
  BY <1>1 DEF HTTPIInv, HeldOK
<1>3. /\ n \in 1..MaxEntries /\ n <= made'[ip] /\ made'[ip] >= made[ip]
      /\ made' \in [Address -> 0..MaxEntries]
      /\ entries' \in [Address -> Nat] /\ \A i \in Address : entries'[i] <= made'[i]
      /\ \A i \in Address : made'[i] >= made[i]
  BY <1>1 DEF HTTPIInv, EntriesOK, HTTPConstants
<1> HIDE DEF n, ip
<1>4. /\ RequestsOK'
      /\ requests'[r].pc = "slot" /\ requests'[r].entry = n /\ requests'[r].ip = ip
      /\ ~requests'[r].slot
      /\ \A o \in Request \ {r} : requests'[o] = requests[o]
  BY <1>1, <1>2 DEF HTTPIInv, RequestsOK, RequestFields, ip
<1>5. EntriesOK'
  BY <1>1, <1>3 DEF HTTPIInv, EntriesOK, Entries
<1>6. ASSUME NEW o \in Request PROVE HeldOK(o)'
  <2>1. CASE o = r
    BY <1>1, <1>3, <1>4, <2>1 DEF HeldOK, HTTPIInv, EntriesOK
  <2>2. CASE o # r
    <3>1. HeldOK(o) /\ requests'[o] = requests[o]
      BY <1>4, <2>2 DEF HTTPIInv
    <3> QED BY <3>1, <1>3 DEF HeldOK, HTTPIInv, EntriesOK
  <2> QED BY <2>1, <2>2
<1>7. \A e \in Entries : Holders(e)' = Holders(e)
  BY <1>2, <1>4 DEF Holders, Entry
<1>8. ASSUME NEW e \in Entries PROVE slots'[e] = Cardinality(Holders(e)) /\ slots'[e] <= MaxSlots
  <2>1. slots[e] = Cardinality(Holders(e)) /\ slots[e] <= MaxSlots
    BY DEF HTTPIInv, PlacesOK
  <2>2. CASE slots'[e] = slots[e]
    BY <2>1, <2>2
  <2>3. CASE slots'[e] # slots[e]
    <3>1. e = <<ip, n>> /\ slots'[e] = 0 /\ n = made[ip] + 1
      BY <1>1, <2>3 DEF HTTPIInv, EntriesOK, n
    <3>2. Holders(e) = {}
      <4> SUFFICES ASSUME NEW o \in Request, requests[o].slot, Entry(o) = e
                   PROVE  FALSE
        BY DEF Holders
      <4>1. requests[o].ip = ip /\ requests[o].entry = n
        BY <3>1 DEF Entry
      <4>2. requests[o].entry \in 1..made[ip]
        BY <4>1 DEF HTTPIInv, HeldOK
      <4> QED BY <1>1, <3>1, <4>1, <4>2 DEF HTTPIInv, EntriesOK
    <3> QED BY <3>1, <3>2, FS_EmptySet DEF HTTPConstants
  <2> QED BY <2>2, <2>3
<1>9. PlacesOK'
  BY <1>7, <1>8 DEF PlacesOK, Entries
<1> QED BY <1>4, <1>5, <1>6, <1>9 DEF HTTPIInv

\* A request knows an entry that exists.
LEMMA EntryExists ==
    ASSUME HTTPConstants, HTTPIInv, NEW r \in Request,
           requests[r].pc \in {"slot", "limiter", "wait"} \/ requests[r].slot
    PROVE  Entry(r) \in Entries
<1>1. requests[r].ip \in Address /\ requests[r].entry \in 1..made[requests[r].ip]
  BY DEF HTTPIInv, HeldOK
<1> QED BY <1>1 DEF Entry, Entries, HTTPIInv, EntriesOK, HTTPConstants

\* The requests that hold places are finitely many.
LEMMA HoldersFinite ==
    ASSUME HTTPConstants, NEW e PROVE IsFiniteSet(Holders(e)) /\ Cardinality(Holders(e)) \in Nat
<1>1. Holders(e) \subseteq Request
  BY DEF Holders
<1> QED BY <1>1, FS_Subset, FS_CardinalityType DEF HTTPConstants

\* TakeSlot: the request holds one place more, that was free.
LEMMA TakeSlotKeeps ==
    ASSUME HTTPConstants, HTTPIInv, NEW r \in Request, TakeSlot(r)
    PROVE  HTTPIInv'
<1>0. PICK f \in Entries : f = Entry(r) /\ requests[r].pc = "slot"
  BY EntryExists DEF TakeSlot
<1>1. ~requests[r].slot
  BY <1>0 DEF HTTPIInv, HeldOK
<1>2. /\ RequestsOK'
      /\ requests'[r].slot = (MaxSlots > 0) /\ requests'[r].pc \in {"route", "limiter"}
      /\ requests'[r].ip = requests[r].ip /\ requests'[r].entry = requests[r].entry
      /\ \A o \in Request \ {r} : requests'[o] = requests[o]
  BY DEF TakeSlot, HTTPIInv, RequestsOK, RequestFields
<1>3. /\ UNCHANGED <<made, entries>> /\ DOMAIN slots' = Entries
      /\ \A e \in Entries \ {f} : slots'[e] = slots[e]
      /\ slots'[f] = IF MaxSlots > 0 THEN slots[f] + 1 ELSE slots[f]
      /\ MaxSlots > 0 => slots[f] < MaxSlots
  BY <1>0 DEF TakeSlot, HTTPIInv, EntriesOK
<1>4. EntriesOK'
  BY <1>3 DEF HTTPIInv, EntriesOK, Entries
<1>5. ASSUME NEW o \in Request PROVE HeldOK(o)'
  <2>1. HeldOK(o)
    BY DEF HTTPIInv
  <2>2. CASE o = r
    BY <1>0, <1>2, <1>3, <2>1, <2>2 DEF HeldOK
  <2>3. CASE o # r
    BY <1>2, <1>3, <2>1, <2>3 DEF HeldOK
  <2> QED BY <2>2, <2>3
<1>6. CASE MaxSlots > 0
  <2>1. /\ Holders(f)' = Holders(f) \cup {r} /\ r \notin Holders(f)
        /\ \A e \in Entries \ {f} : Holders(e)' = Holders(e)
    BY <1>0, <1>1, <1>2, <1>6 DEF Holders, Entry
  <2>2. Cardinality(Holders(f)') = Cardinality(Holders(f)) + 1
    BY <2>1, HoldersFinite, FS_AddElement
  <2>3. \A e \in Entries : slots[e] = Cardinality(Holders(e)) /\ slots[e] <= MaxSlots
    BY DEF HTTPIInv, PlacesOK
  <2>4. PlacesOK'
    <3>1. SUFFICES ASSUME NEW e \in Entries
                   PROVE  slots'[e] = Cardinality(Holders(e)') /\ slots'[e] <= MaxSlots
      BY DEF PlacesOK, Entries
    <3>2. CASE e = f
      BY <1>0, <1>3, <1>6, <2>2, <2>3, <3>2, HoldersFinite DEF HTTPConstants
    <3>3. CASE e # f
      BY <1>3, <2>1, <2>3, <3>3
    <3> QED BY <3>2, <3>3
  <2> QED BY <1>2, <1>4, <1>5, <2>4 DEF HTTPIInv
<1>7. CASE ~(MaxSlots > 0)
  <2>1. \A e \in Entries : Holders(e)' = Holders(e)
    BY <1>1, <1>2, <1>7 DEF Holders, Entry
  <2>2. PlacesOK'
    BY <1>0, <1>3, <1>7, <2>1 DEF HTTPIInv, PlacesOK, Entries
  <2> QED BY <1>2, <1>4, <1>5, <2>2 DEF HTTPIInv
<1> QED BY <1>6, <1>7

\* FinishRequest: the place is given back where it was taken.
LEMMA FinishRequestKeeps ==
    ASSUME HTTPConstants, HTTPIInv, NEW r \in Request, FinishRequest(r)
    PROVE  HTTPIInv'
<1>1. /\ RequestsOK'
      /\ ~requests'[r].slot /\ requests'[r].pc = "none"
      /\ \A o \in Request \ {r} : requests'[o] = requests[o]
  BY DEF FinishRequest, HTTPIInv, RequestsOK, NoRequest, RequestFields
<1>2. /\ UNCHANGED <<made, entries>>
      /\ slots' = IF requests[r].slot THEN [slots EXCEPT ![Entry(r)] = @ - 1] ELSE slots
  BY DEF FinishRequest
<1>3. EntriesOK'
  BY <1>2 DEF HTTPIInv, EntriesOK, Entries
<1>4. ASSUME NEW o \in Request PROVE HeldOK(o)'
  <2>1. HeldOK(o)
    BY DEF HTTPIInv
  <2> QED BY <1>1, <1>2, <2>1 DEF HeldOK
<1>5. \A e \in Entries : slots[e] = Cardinality(Holders(e)) /\ slots[e] <= MaxSlots
  BY DEF HTTPIInv, PlacesOK
<1>6. CASE requests[r].slot
  <2>1. PICK f \in Entries : f = Entry(r)
    BY <1>6, EntryExists
  <2>2. /\ Holders(f)' = Holders(f) \ {r} /\ r \in Holders(f)
        /\ \A e \in Entries \ {f} : Holders(e)' = Holders(e)
    BY <1>1, <1>6, <2>1 DEF Holders, Entry
  <2>3. Cardinality(Holders(f)') = Cardinality(Holders(f)) - 1
    BY <2>2, HoldersFinite, FS_RemoveElement
  <2>4. slots'[f] = slots[f] - 1 /\ \A e \in Entries \ {f} : slots'[e] = slots[e]
    BY <1>2, <1>6, <2>1 DEF HTTPIInv, EntriesOK
  <2>5. PlacesOK'
    <3>1. SUFFICES ASSUME NEW e \in Entries
                   PROVE  slots'[e] = Cardinality(Holders(e)') /\ slots'[e] <= MaxSlots
      BY DEF PlacesOK, Entries
    <3>2. CASE e = f
      BY <1>5, <2>1, <2>3, <2>4, <3>2, HoldersFinite DEF HTTPConstants
    <3>3. CASE e # f
      BY <1>5, <2>2, <2>4, <3>3
    <3> QED BY <3>2, <3>3
  <2> QED BY <1>1, <1>3, <1>4, <2>5 DEF HTTPIInv
<1>7. CASE ~requests[r].slot
  <2>1. \A e \in Entries : Holders(e)' = Holders(e)
    BY <1>1, <1>7 DEF Holders, Entry
  <2>2. PlacesOK'
    BY <1>2, <1>5, <1>7, <2>1 DEF PlacesOK, Entries
  <2> QED BY <1>1, <1>3, <1>4, <2>2 DEF HTTPIInv
<1> QED BY <1>6, <1>7

\* Every step keeps the invariant.
LEMMA HTTPNextIInv == ASSUME HTTPConstants, HTTPIInv, [HTTPNext]_httpVars PROVE HTTPIInv'
<1>0. RequestsOK /\ \A r \in Request : HeldOK(r)
  BY DEF HTTPIInv
<1>1. ASSUME NEW r \in Request, NEW ip \in Address, NEW h \in Host, NEW p \in BOOLEAN,
             Arrive(r, ip, h, p)
      PROVE  HTTPIInv'
  <2>1. /\ RequestsOK' /\ UNCHANGED <<made, entries, slots>>
        /\ requests'[r].pc = "lookup" /\ ~requests'[r].slot /\ requests'[r].ip \in Address
        /\ \A o \in Request \ {r} : requests'[o] = requests[o]
    BY <1>0, <1>1 DEF Arrive, rateVars, RequestsOK, NoRequest, RequestFields
  <2>2. ~requests[r].slot
    BY <1>0, <1>1 DEF Arrive, HeldOK
  <2>3. \A e \in Entries : Holders(e)' = Holders(e)
    BY <2>1, <2>2 DEF Holders, Entry
  <2>4. PlacesOK' /\ EntriesOK'
    BY <2>1, <2>3 DEF HTTPIInv, PlacesOK, EntriesOK, Entries
  <2>5. ASSUME NEW o \in Request PROVE HeldOK(o)'
    BY <1>0, <2>1 DEF HeldOK
  <2> QED BY <2>1, <2>4, <2>5 DEF HTTPIInv
<1>2. ASSUME NEW r \in Request, Lookup(r)
      PROVE  HTTPIInv'
  <2>1. \A o \in Request : Keeps(o)
    BY <1>0, <1>2 DEF Lookup, Answer, Keeps, RequestsOK, RequestFields
  <2>2. DOMAIN requests' = Request /\ \A o \in Request : Advances(o)
    BY <1>0, <1>2 DEF Lookup, Answer, Advances, RequestsOK, RequestFields
  <2> QED BY <1>2, <2>1, <2>2, PlacesKept DEF Lookup, rateVars
<1>3. ASSUME NEW r \in Request, GetEntry(r) \/ TakeSlot(r) \/ FinishRequest(r)
      PROVE  HTTPIInv'
  BY <1>3, GetEntryKeeps, TakeSlotKeeps, FinishRequestKeeps
<1>4. ASSUME NEW r \in Request, SlotTimeout(r)
      PROVE  HTTPIInv'
  <2>1. ~requests[r].slot
    BY <1>0, <1>4 DEF SlotTimeout, HeldOK
  <2>2. /\ \A o \in Request \ {r} : requests'[o] = requests[o]
        /\ DOMAIN requests' = Request /\ DOMAIN requests'[r] = RequestFields
        /\ requests'[r].ip = requests[r].ip /\ requests'[r].entry = requests[r].entry
        /\ requests'[r].slot = FALSE /\ requests'[r].pc = "finish" /\ requests[r].pc = "slot"
    BY <1>0, <1>4 DEF SlotTimeout, NeedFinish, RequestsOK, RequestFields
  <2>3. /\ RequestsOK' /\ UNCHANGED <<made, entries, slots>>
    BY <1>0, <1>4, <2>2 DEF SlotTimeout, rateVars, RequestsOK
  <2>4. \A e \in Entries : Holders(e)' = Holders(e)
    BY <2>1, <2>2 DEF Holders, Entry
  <2>5. PlacesOK' /\ EntriesOK'
    BY <2>3, <2>4 DEF HTTPIInv, PlacesOK, EntriesOK, Entries
  <2>6. ASSUME NEW o \in Request PROVE HeldOK(o)'
    BY <1>0, <2>2, <2>3 DEF HeldOK
  <2> QED BY <2>3, <2>5, <2>6 DEF HTTPIInv
<1>5. ASSUME NEW r \in Request, Reserve(r)
      PROVE  HTTPIInv'
  <2>1. \A o \in Request : Keeps(o)
    BY <1>0, <1>5 DEF Reserve, Keeps, RequestsOK, RequestFields
  <2>2. DOMAIN requests' = Request /\ \A o \in Request : Advances(o)
    BY <1>0, <1>5 DEF Reserve, Advances, RequestsOK, RequestFields
  <2> QED BY <1>5, <2>1, <2>2, PlacesKept DEF Reserve
<1>6. ASSUME NEW r \in Request, TooLate(r) \/ Redirect(r) \/ Panic(r) \/ Backend(r)
      PROVE  HTTPIInv'
  <2>1. PICK status : Answer(r, status) /\ requests[r].pc # "none" /\ UNCHANGED rateVars
    BY <1>6, Zenon DEF TooLate, Redirect, Panic, Backend
  <2>2. \A o \in Request : Keeps(o)
    BY <1>0, <2>1 DEF Answer, Keeps, RequestsOK, RequestFields
  <2>3. DOMAIN requests' = Request /\ \A o \in Request : Advances(o)
    BY <1>0, <2>1 DEF Answer, Advances, RequestsOK, RequestFields
  <2> QED BY <2>1, <2>2, <2>3, PlacesKept DEF rateVars
<1>7. ASSUME NEW r \in Request, ClientLeaves(r) \/ Serve(r)
      PROVE  HTTPIInv'
  <2>1. \A o \in Request : Keeps(o)
    BY <1>0, <1>7 DEF ClientLeaves, Serve, Goto, Keeps, RequestsOK, RequestFields
  <2>2. DOMAIN requests' = Request /\ \A o \in Request : Advances(o)
    BY <1>0, <1>7 DEF ClientLeaves, Serve, Goto, Advances, RequestsOK, RequestFields
  <2>3. UNCHANGED <<made, entries, slots>>
    BY <1>7 DEF ClientLeaves, Serve, rateVars
  <2> QED BY <2>1, <2>2, <2>3, PlacesKept
<1>8. ASSUME NEW e \in Entries, Refill(e)
      PROVE  HTTPIInv'
  <2>1. DOMAIN requests' = Request /\ UNCHANGED <<made, entries, slots>>
    BY <1>8 DEF Refill
  <2>2. ASSUME NEW o \in Request PROVE Keeps(o) /\ Advances(o)
    <3>1. requests'[o] = requests[o]
          \/ \E pc \in {requests[o].pc, "route"} :
                /\ requests[o].pc = "wait"
                /\ requests'[o] = [requests[o] EXCEPT !.wait = @ - 1, !.pc = pc]
      BY <1>8 DEF Refill, Waiting
    <3>2. DOMAIN requests[o] = RequestFields
      BY <1>0 DEF RequestsOK
    <3> QED BY <3>1, <3>2 DEF Keeps, Advances, RequestFields
  <2> QED BY <2>1, <2>2, PlacesKept
<1>9. ASSUME UNCHANGED <<requests, made, slots>>,
             entries' = entries
             \/ entries' = [ip \in Address |-> IF ip \in recent THEN entries[ip] ELSE 0]
      PROVE  HTTPIInv'
  <2>1. DOMAIN requests' = Request /\ \A o \in Request : Keeps(o) /\ Advances(o)
    BY <1>0, <1>9 DEF Keeps, Advances, RequestsOK
  <2> QED BY <1>9, <2>1, PlacesKept
<1>10. ASSUME NEW db, ReloadDomains(db)
       PROVE  HTTPIInv'
  BY <1>9, <1>10 DEF ReloadDomains, rateVars
<1>11. CASE Age \/ Clean \/ RefreshReverseProxies \/ UNCHANGED httpVars
  BY <1>9, <1>11 DEF Age, Clean, RefreshReverseProxies, rateVars, httpVars
<1> QED
  BY <1>1, <1>2, <1>3, <1>4, <1>5, <1>6, <1>7, <1>8, <1>10, <1>11 DEF HTTPNext, Handle

(***************************************************************************)
(* The places taken in an entry are the ones of the requests that will     *)
(* give them back, and never more than the limit, even for an entry that   *)
(* was forgotten: FinishRequest never waits (rate_controller.go:113-154,   *)
(* proxy.go:313-316).                                                      *)
(***************************************************************************)
THEOREM PlacesAreHeld == ASSUME HTTPConstants PROVE HTTPSpec => []SlotsAreHeld
<1>1. HTTPIInv => SlotsAreHeld
  BY Zenon DEF HTTPIInv, PlacesOK, Holders, SlotsAreHeld
<1> QED BY HTTPInitIInv, HTTPNextIInv, <1>1, PTL DEF HTTPSpec

-----------------------------------------------------------------------------
(***************************************************************************)
(* The chain (ProxyChain).  A registration that is on its way, or being    *)
(* saved, has the domains its child has loaded; the routes of a child that *)
(* is registered are the ones of what it has loaded, in memory or, when    *)
(* the parent is down, in the file it will start from; and a domain two    *)
(* children have loaded is contested.  A registration that is read after   *)
(* its child has given up is excluded: it would replace a later one.       *)
(***************************************************************************)
NeverLate == "late" \notin Failures

Routes == [Domain -> Child \cup {Nobody}]

ChainTypes ==
    /\ wanted \in [Child -> SUBSET Domain] /\ loaded \in [Child -> SUBSET Domain]
    /\ DOMAIN child = Child /\ calls \subseteq Call
    /\ routes \in Routes /\ (file # Broken => file \in Routes)

\* A child that has no signal to handle has loaded the file of mulchd.
LoadedIsWanted == \A c \in Child : child[c] # "down" /\ c \notin hup => loaded[c] = wanted[c]

\* A child whose registration is under way is not registered.
PendingOK == \A c \in Child : child[c] \in {"starting", "reloaded", "first", "sent"} => c \in unregistered

\* The child m comes from waits for its answer, with the domains of m.
Awaited(m) ==
    /\ m \in Call /\ m.live = TRUE
    /\ child[m.child] \in {"first", "sent"} /\ m.domains = loaded[m.child]

CallsOK == \A m \in calls : Awaited(m)

Serving(m) ==
    /\ Awaited(m)
    /\ \A o \in calls : o.child # m.child
    /\ \A d \in Domain : routes[d] = m.child <=> d \in m.domains

ServingOK == parent = "saving" => Serving(serving)

\* What two children have, or will have, is contested.
SharedAreContested ==
    \A c, o \in Child : \A d \in Domain :
        c # o /\ d \in wanted[c] \cup loaded[c] /\ d \in wanted[o] \cup loaded[o] => d \in contested

\* The routes of a child that is registered.
RoutedIn(r, c) == \A d \in Domain \ contested : r[d] = c <=> d \in loaded[c]

Routed ==
    /\ parent # "down" /\ file # Broken => file = routes
    /\ \A c \in Child \ unregistered :
          /\ parent # "down" => RoutedIn(routes, c)
          /\ parent = "down" /\ file # Broken => RoutedIn(file, c)
          /\ parent \in {"up", "saving"} =>
                \A d \in loaded[c] \ contested : d \in proxied

ChainIInv ==
    ChainTypes /\ LoadedIsWanted /\ PendingOK /\ CallsOK /\ ServingOK /\ SharedAreContested /\ Routed

\* It holds initially.
LEMMA ChainInitIInv == ChainInit => ChainIInv
BY DEF ChainInit, ChainIInv, ChainTypes, Routes, LoadedIsWanted, PendingOK, CallsOK, ServingOK,
   SharedAreContested, Routed, NoRoute

\* The actions of mulchd change what is wanted, and tell mulch-proxy.
LEMMA MulchdKeeps ==
    ASSUME ChainIInv, NEW c \in Child, Mulchd(c)
    PROVE  ChainIInv'
<1>1. PICK d \in Domain :
        CheckDomainsConflicts(c, d) \/ Activate(c, d) \/ Deactivate(c, d)
  BY DEF Mulchd
<1>2. /\ UNCHANGED <<child, loaded, unregistered, calls, routes, file, proxied, parent, serving>>
      /\ contested \subseteq contested'
  BY <1>1 DEF CheckDomainsConflicts, Activate, Deactivate, childVars, parentVars
<1>3. PendingOK' /\ ServingOK' /\ CallsOK'
  BY <1>2 DEF ChainIInv, PendingOK, ServingOK, Serving, CallsOK, Awaited
<1>4. Routed'
  BY <1>2 DEF ChainIInv, Routed, RoutedIn
<1>5. ChainTypes' /\ LoadedIsWanted' /\ SharedAreContested'
  <2>0. ChainTypes /\ LoadedIsWanted /\ SharedAreContested
    BY DEF ChainIInv
  <2>1. CASE CheckDomainsConflicts(c, d)
    BY <2>0, <2>1 DEF CheckDomainsConflicts, childVars, parentVars,
       ChainTypes, LoadedIsWanted, SharedAreContested
  <2>2. CASE Activate(c, d)
    <3>1. /\ wanted' = [wanted EXCEPT ![c] = @ \cup {d}]
          /\ (\E o \in Child \ {c} : d \in Claims(o)) => d \in contested'
          /\ hup' = hup \cup {c}
      BY <2>2 DEF Activate, parentVars
    <3>2. ChainTypes' /\ LoadedIsWanted'
      BY <1>2, <2>0, <3>1 DEF ChainTypes, LoadedIsWanted
    <3>3. /\ wanted'[c] = wanted[c] \cup {d}
          /\ \A o \in Child \ {c} : wanted'[o] = wanted[o]
      BY <2>0, <3>1 DEF ChainTypes
    <3>4. SharedAreContested'
      BY <1>2, <2>0, <3>1, <3>3 DEF SharedAreContested, Claims
    <3> QED BY <3>2, <3>4
  <2>3. CASE Deactivate(c, d)
    <3>1. wanted' = [wanted EXCEPT ![c] = @ \ {d}] /\ hup' = hup \cup {c}
      BY <2>3 DEF Deactivate, parentVars
    <3>2. ChainTypes' /\ LoadedIsWanted'
      BY <1>2, <2>0, <3>1 DEF ChainTypes, LoadedIsWanted
    <3>3. \A o \in Child : wanted'[o] \subseteq wanted[o]
      BY <2>0, <3>1 DEF ChainTypes
    <3>4. SharedAreContested'
      BY <1>2, <2>0, <3>3 DEF SharedAreContested
    <3> QED BY <3>2, <3>4
  <2> QED BY <1>1, <2>1, <2>2, <2>3
<1> QED BY <1>3, <1>4, <1>5 DEF ChainIInv

\* The child reloads its domains: it is not registered any more.
LEMMA ReloadKeeps ==
    ASSUME ChainIInv, NEW c \in Child, Reload(c)
    PROVE  ChainIInv'
<1>1. /\ child[c] \in {"idle", "down"}
      /\ child' = [child EXCEPT ![c] = IF @ = "down" THEN "starting" ELSE "reloaded"]
      /\ loaded' = [loaded EXCEPT ![c] = wanted[c]]
      /\ hup' = hup \ {c} /\ unregistered' = unregistered \cup {c}
      /\ UNCHANGED <<wanted, contested, calls, routes, file, proxied, parent, serving>>
  BY DEF Reload, mulchdVars, parentVars
<1>2. ChainTypes'
  BY <1>1 DEF ChainIInv, ChainTypes
<1>3. /\ loaded'[c] = wanted[c] /\ child'[c] \in {"starting", "reloaded"}
      /\ \A o \in Child \ {c} : loaded'[o] = loaded[o] /\ child'[o] = child[o]
  BY <1>1 DEF ChainIInv, ChainTypes
<1>4. LoadedIsWanted' /\ PendingOK'
  BY <1>1, <1>3 DEF ChainIInv, LoadedIsWanted, PendingOK
<1>5. SharedAreContested'
  BY <1>1, <1>3 DEF ChainIInv, SharedAreContested
<1>6. ASSUME NEW m, Awaited(m) PROVE Awaited(m)'
  BY <1>1, <1>3, <1>6 DEF Awaited, Call
<1>7. CallsOK' /\ ServingOK'
  BY <1>1, <1>6 DEF ChainIInv, CallsOK, ServingOK, Serving
<1>8. Routed'
  BY <1>1, <1>3 DEF ChainIInv, Routed, RoutedIn
<1> QED BY <1>2, <1>4, <1>5, <1>7, <1>8 DEF ChainIInv

\* A step that changes neither the domains nor the routes, and registers nobody.
SameRoutes ==
    /\ UNCHANGED <<wanted, contested, hup, loaded, unregistered, routes, file, proxied>>
    /\ DOMAIN child' = Child

LEMMA SameRoutesKeep ==
    ASSUME ChainIInv, SameRoutes, calls' \subseteq Call,
           \A c \in Child : child'[c] # "down" => child[c] # "down",
           \A c \in Child : child'[c] = child[c] \/ child'[c] \in {"down", "idle"}
                            \/ child[c] \in {"starting", "reloaded"},
           parent' = parent
    PROVE  ChainTypes' /\ LoadedIsWanted' /\ PendingOK' /\ SharedAreContested' /\ Routed'
<1>1. ChainTypes' /\ SharedAreContested'
  BY DEF ChainIInv, SameRoutes, ChainTypes, SharedAreContested
<1>2. LoadedIsWanted' /\ PendingOK'
  BY DEF ChainIInv, SameRoutes, LoadedIsWanted, PendingOK
<1>3. Routed'
  BY DEF ChainIInv, SameRoutes, Routed, RoutedIn
<1> QED BY <1>1, <1>2, <1>3

LEMMA SendKeeps ==
    ASSUME ChainIInv, NEW c \in Child, Send(c)
    PROVE  ChainIInv'
<1>1. PICK n : n = [child |-> c, domains |-> loaded[c], live |-> TRUE]
  OBVIOUS
<1>2. /\ child[c] \in {"starting", "reloaded"}
      /\ child' = [child EXCEPT ![c] = IF @ = "starting" THEN "first" ELSE "sent"]
      /\ calls' = calls \cup {n}
      /\ UNCHANGED <<wanted, contested, hup, loaded, unregistered, routes, file, proxied,
                     parent, serving>>
  BY <1>1 DEF Send, mulchdVars, parentVars
<1>3. /\ DOMAIN child' = Child /\ child'[c] \in {"first", "sent"}
      /\ \A o \in Child \ {c} : child'[o] = child[o]
  BY <1>2 DEF ChainIInv, ChainTypes
<1>4. n \in Call /\ n.child = c /\ n.domains = loaded[c] /\ n.live = TRUE
  BY <1>1 DEF Call, ChainIInv, ChainTypes
<1>5. ChainTypes' /\ LoadedIsWanted' /\ PendingOK' /\ SharedAreContested' /\ Routed'
  BY <1>2, <1>3, <1>4, SameRoutesKeep DEF SameRoutes, ChainIInv, ChainTypes
<1>6. ASSUME NEW m, Awaited(m) PROVE Awaited(m)' /\ m.child # c
  BY <1>2, <1>3, <1>6 DEF Awaited, Call
<1>7. CallsOK' /\ ServingOK'
  BY <1>2, <1>3, <1>4, <1>6 DEF ChainIInv, CallsOK, ServingOK, Serving, Awaited
<1> QED BY <1>5, <1>7 DEF ChainIInv

\* The child gives up, and its registration is lost.
LEMMA GivesUpKeeps ==
    ASSUME NeverLate, ChainIInv, NEW c \in Child, Unreachable(c) \/ Timeout(c)
    PROVE  ChainIInv'
<1>1. PICK m \in calls :
        /\ m.child = c /\ calls' = calls \ {m} /\ child' = AfterError(c)
        /\ UNCHANGED <<wanted, contested, hup, loaded, unregistered, routes, file, proxied,
                       parent, serving>>
  <2>1. CASE Unreachable(c)
    BY <2>1, Zenon DEF Unreachable, mulchdVars, parentVars
  <2>2. CASE Timeout(c)
    <3>1. ~Fail("late")
      BY DEF NeverLate, Fail
    <3>2. PICK m \in calls :
            /\ m.child = c /\ calls' = calls \ {m} /\ child' = AfterError(c)
            /\ UNCHANGED <<mulchdVars, hup, loaded, unregistered, parentVars>>
      BY <2>2, <3>1, Zenon DEF Timeout
    <3> QED BY <3>2 DEF mulchdVars, parentVars
  <2> QED BY <2>1, <2>2
<1>2. /\ DOMAIN child' = Child /\ child'[c] \in {"down", "idle"}
      /\ \A o \in Child \ {c} : child'[o] = child[o]
  BY <1>1 DEF AfterError, ChainIInv, ChainTypes
<1>3. ASSUME NEW o \in calls, o.child = c PROVE o = m
  <2>1. Awaited(o) /\ Awaited(m)
    BY <1>1 DEF ChainIInv, CallsOK
  <2>2. o \in Call /\ m \in Call /\ o.domains = m.domains /\ o.live = m.live
    BY <1>1, <1>3, <2>1 DEF Awaited
  <2> QED BY <1>1, <1>3, <2>2 DEF Call
<1>4. child[c] \in {"first", "sent"}
  BY <1>1 DEF ChainIInv, CallsOK, Awaited
<1>5. ChainTypes' /\ LoadedIsWanted' /\ PendingOK' /\ SharedAreContested' /\ Routed'
  BY <1>1, <1>2, <1>4, SameRoutesKeep DEF SameRoutes, ChainIInv, ChainTypes
<1>6. ASSUME NEW o, Awaited(o), o.child # c PROVE Awaited(o)'
  BY <1>1, <1>2, <1>6 DEF Awaited, Call
<1>7. CallsOK'
  BY <1>1, <1>3, <1>6 DEF ChainIInv, CallsOK
<1>8. ServingOK'
  BY <1>1, <1>6 DEF ChainIInv, ServingOK, Serving
<1> QED BY <1>5, <1>7, <1>8 DEF ChainIInv

\* The parent replaces the domains of the child.
LEMMA ReplaceKeeps ==
    ASSUME Nobody \notin Child, ChainIInv, NEW m \in calls, ReplaceChainedDomains(m)
    PROVE  ChainIInv'
<1>1. /\ parent = "up" /\ parent' = "saving" /\ serving' = m
      /\ calls' = calls \ {m} /\ file' = Broken
      /\ routes' = Replaced(m.child, m.domains)
      /\ proxied' = {d \in proxied \ m.domains : Replaced(m.child, m.domains)[d] # Nobody}
      /\ UNCHANGED <<wanted, contested, hup, child, loaded, unregistered>>
  BY DEF ReplaceChainedDomains, mulchdVars, childVars
<1>2. m \in Call /\ m.child \in Child /\ Awaited(m)
  BY DEF ChainIInv, CallsOK, Awaited, Call
<1>3. /\ routes' \in Routes
      /\ \A d \in Domain : routes'[d] = IF d \in m.domains THEN m.child
                                         ELSE IF routes[d] = m.child THEN Nobody ELSE routes[d]
  BY <1>1, <1>2 DEF Replaced, Routes, ChainIInv, ChainTypes
<1>4. ChainTypes' /\ LoadedIsWanted' /\ PendingOK' /\ SharedAreContested'
  BY <1>1, <1>3 DEF ChainIInv, ChainTypes, LoadedIsWanted, PendingOK, SharedAreContested
<1>5. CallsOK'
  BY <1>1 DEF ChainIInv, CallsOK, Awaited
<1>6. ServingOK'
  <2>1. Awaited(m)'
    BY <1>1, <1>2 DEF Awaited
  <2>2. ASSUME NEW o \in calls', o.child = m.child PROVE FALSE
    <3>1. Awaited(o) /\ o # m
      BY <1>1, <2>2 DEF ChainIInv, CallsOK
    <3> QED BY <1>2, <2>2, <3>1 DEF Awaited, Call
  <2>3. \A d \in Domain : routes'[d] = m.child <=> d \in m.domains
    BY <1>2, <1>3
  <2> QED BY <1>1, <2>1, <2>2, <2>3 DEF ServingOK, Serving
<1>7. Routed'
  <2>1. SUFFICES ASSUME NEW c \in Child \ unregistered
                 PROVE  /\ RoutedIn(routes', c)
                        /\ \A d \in loaded[c] \ contested : d \in proxied'
    BY <1>1 DEF Routed, RoutedIn
  <2>2. c # m.child
    BY <1>2 DEF ChainIInv, PendingOK, Awaited
  <2>3. RoutedIn(routes, c) /\ \A d \in loaded[c] \ contested : d \in proxied
    BY <1>1 DEF ChainIInv, Routed
  <2>4. \A d \in loaded[c] \ contested : d \notin m.domains
    BY <1>2, <2>2 DEF ChainIInv, SharedAreContested, ChainTypes, Awaited
  <2>5. \A d \in Domain \ contested : routes'[d] = c <=> d \in loaded[c]
    BY <1>2, <1>3, <2>2, <2>3, <2>4 DEF RoutedIn
  <2>6. ASSUME NEW d \in loaded[c] \ contested PROVE d \in proxied'
    <3>1. d \in Domain /\ routes'[d] = c
      BY <2>5 DEF ChainIInv, ChainTypes
    <3>2. routes'[d] # Nobody /\ d \in proxied \ m.domains
      BY <2>3, <2>4, <3>1
    <3> QED BY <1>1, <3>2
  <2> QED BY <2>5, <2>6 DEF RoutedIn
<1> QED BY <1>4, <1>5, <1>6, <1>7 DEF ChainIInv

\* The parent has saved, or could not: the child has its answer.
LEMMA SaveKeeps ==
    ASSUME ChainIInv, Save \/ SaveFails
    PROVE  ChainIInv'
<1>1. PICK c : c = serving.child
  OBVIOUS
<1>2. Serving(serving) /\ serving.live = TRUE /\ c \in Child
  BY <1>1 DEF Save, SaveFails, ChainIInv, ServingOK, Serving, Awaited, Call
<1>3. /\ parent = "saving"
      /\ child' = [child EXCEPT ![c] = "idle"]
      /\ UNCHANGED <<wanted, contested, hup, loaded, calls, routes, proxied>>
      /\ \/ /\ parent' = "refreshing" /\ file' = routes
            /\ unregistered' = unregistered \ {c}
         \/ parent' = "up" /\ UNCHANGED <<file, unregistered>>
  BY <1>1, <1>2 DEF Save, SaveFails, Answered, mulchdVars
<1>4. ChainTypes'
  BY <1>3 DEF ChainIInv, ChainTypes
<1>5. child'[c] = "idle" /\ \A o \in Child \ {c} : child'[o] = child[o]
  BY <1>2, <1>3 DEF ChainIInv, ChainTypes
<1>6. LoadedIsWanted' /\ PendingOK' /\ SharedAreContested'
  <2>1. child[c] \in {"first", "sent"}
    BY <1>1, <1>2 DEF Serving, Awaited
  <2>2. LoadedIsWanted'
    BY <1>2, <1>3, <1>5, <2>1 DEF ChainIInv, LoadedIsWanted
  <2>3. PendingOK'
    BY <1>2, <1>3, <1>5 DEF ChainIInv, PendingOK
  <2>4. SharedAreContested'
    BY <1>3 DEF ChainIInv, SharedAreContested
  <2> QED BY <2>2, <2>3, <2>4
<1>7. CallsOK' /\ ServingOK'
  <2>1. ASSUME NEW m \in calls PROVE Awaited(m)'
    <3>1. Awaited(m) /\ m.child # c
      BY <1>1, <1>2 DEF ChainIInv, CallsOK, Serving
    <3> QED BY <1>3, <1>5, <3>1 DEF Awaited, Call
  <2> QED BY <1>3, <2>1 DEF CallsOK, ServingOK
<1>8. Routed'
  <2>1. RoutedIn(routes, c)
    <3>1. \A d \in Domain : routes[d] = c <=> d \in loaded[c]
      BY <1>1, <1>2 DEF Serving, Awaited
    <3> QED BY <3>1 DEF RoutedIn
  <2>2. CASE parent' = "refreshing" /\ file' = routes /\ unregistered' = unregistered \ {c}
    BY <1>3, <2>1, <2>2 DEF ChainIInv, Routed, RoutedIn
  <2>3. CASE parent' = "up" /\ UNCHANGED <<file, unregistered>>
    BY <1>3, <2>3 DEF ChainIInv, Routed, RoutedIn
  <2> QED BY <1>3, <2>2, <2>3
<1> QED BY <1>4, <1>6, <1>7, <1>8 DEF ChainIInv

LEMMA ParentRefreshesKeeps ==
    ASSUME Nobody \notin Child, ChainIInv, ParentRefreshes
    PROVE  ChainIInv'
<1>1. /\ parent = "refreshing" /\ parent' = "up"
      /\ proxied' = {d \in Domain : routes[d] # Nobody}
      /\ UNCHANGED <<wanted, contested, hup, child, loaded, unregistered, calls, routes, file>>
  BY DEF ParentRefreshes, mulchdVars, childVars
<1>2. ChainTypes' /\ LoadedIsWanted' /\ PendingOK' /\ SharedAreContested' /\ CallsOK' /\ ServingOK'
  BY <1>1 DEF ChainIInv, ChainTypes, LoadedIsWanted, PendingOK, SharedAreContested, CallsOK,
     ServingOK, Awaited
<1>3. ASSUME NEW c \in Child \ unregistered, NEW d \in loaded[c] \ contested
      PROVE  d \in proxied'
  <2>1. d \in Domain /\ routes[d] = c
    BY <1>1 DEF ChainIInv, ChainTypes, Routed, RoutedIn
  <2> QED BY <1>1, <2>1
<1>4. Routed'
  BY <1>1, <1>3 DEF ChainIInv, Routed, RoutedIn
<1> QED BY <1>2, <1>4 DEF ChainIInv

\* The watchdog stops the parent, that keeps its file.
LEMMA WatchdogExitKeeps ==
    ASSUME ChainIInv, WatchdogExit
    PROVE  ChainIInv'
<1>1. /\ parent # "down" /\ parent' = "down"
      /\ routes' = [d \in Domain |-> Nobody]
      /\ child' = IF parent = "saving" /\ serving.live THEN AfterError(serving.child) ELSE child
      /\ UNCHANGED <<wanted, contested, hup, loaded, unregistered, calls, file>>
  BY DEF WatchdogExit, mulchdVars
<1>2. /\ DOMAIN child' = Child
      /\ \A c \in Child : child'[c] = child[c]
            \/ /\ parent = "saving" /\ c = serving.child /\ child'[c] \in {"down", "idle"}
               /\ child[c] \in {"first", "sent"}
  BY <1>1 DEF AfterError, ChainIInv, ChainTypes, ServingOK, Serving, Awaited
<1>3. ChainTypes' /\ SharedAreContested'
  BY <1>1, <1>2 DEF ChainIInv, ChainTypes, SharedAreContested, Routes
<1>4. LoadedIsWanted' /\ PendingOK'
  BY <1>1, <1>2 DEF ChainIInv, LoadedIsWanted, PendingOK
<1>5. CallsOK' /\ ServingOK'
  <2>1. ASSUME NEW m \in calls PROVE Awaited(m)'
    <3>1. Awaited(m) /\ ~(parent = "saving" /\ m.child = serving.child)
      BY DEF ChainIInv, CallsOK, ServingOK, Serving
    <3> QED BY <1>1, <1>2, <3>1 DEF Awaited, Call
  <2> QED BY <1>1, <2>1 DEF CallsOK, ServingOK
<1>6. Routed'
  BY <1>1 DEF ChainIInv, Routed, RoutedIn
<1> QED BY <1>3, <1>4, <1>5, <1>6 DEF ChainIInv

\* The parent starts from its file.
LEMMA ParentStartsKeeps ==
    ASSUME Nobody \notin Child, ChainIInv, ParentStarts
    PROVE  ChainIInv'
<1>1. /\ parent = "down" /\ file # Broken /\ parent' = "up"
      /\ routes' = file /\ proxied' = {d \in Domain : file[d] # Nobody}
      /\ UNCHANGED <<wanted, contested, hup, child, loaded, unregistered, calls, file>>
  BY DEF ParentStarts, mulchdVars, childVars
<1>2. ChainTypes' /\ LoadedIsWanted' /\ PendingOK' /\ SharedAreContested' /\ CallsOK' /\ ServingOK'
  BY <1>1 DEF ChainIInv, ChainTypes, LoadedIsWanted, PendingOK, SharedAreContested, CallsOK,
     ServingOK, Awaited
<1>3. \A c \in Child \ unregistered : RoutedIn(file, c)
  BY <1>1 DEF ChainIInv, Routed
<1>4. ASSUME NEW c \in Child \ unregistered, NEW d \in loaded[c] \ contested
      PROVE  d \in proxied'
  <2>1. d \in Domain /\ file[d] = c
    BY <1>3 DEF ChainIInv, ChainTypes, RoutedIn
  <2> QED BY <1>1, <2>1
<1>5. Routed'
  BY <1>1, <1>3, <1>4 DEF Routed, RoutedIn
<1> QED BY <1>2, <1>5 DEF ChainIInv

\* Every step keeps the invariant.
LEMMA ChainNextIInv ==
    ASSUME Nobody \notin Child, NeverLate, ChainIInv, [ChainNext]_chainVars
    PROVE  ChainIInv'
<1>1. CASE UNCHANGED chainVars
  BY <1>1 DEF chainVars, ChainIInv, ChainTypes, LoadedIsWanted, PendingOK, CallsOK, ServingOK,
     Serving, Awaited, SharedAreContested, Routed, RoutedIn
<1>2. ASSUME NEW c \in Child, Mulchd(c) \/ Proxy(c)
      PROVE  ChainIInv'
  BY <1>2, MulchdKeeps, ReloadKeeps, SendKeeps, GivesUpKeeps DEF Proxy
<1>3. CASE Parent
  BY <1>3, ReplaceKeeps, SaveKeeps, ParentRefreshesKeeps, WatchdogExitKeeps, ParentStartsKeeps
  DEF Parent
<1> QED BY <1>1, <1>2, <1>3 DEF ChainNext

(***************************************************************************)
(* A child whose last registration was accepted has its domains forwarded  *)
(* by the parent, ready to be served, and only them, in spite of failures, *)
(* of a parent that was restarted, and of the other children, as long as   *)
(* no two children claimed a domain at once and no registration is read    *)
(* after its child gave up (domain_database.go:131-159, app.go:251-291).   *)
(***************************************************************************)
THEOREM RegisteredAreRouted ==
    ASSUME Nobody \notin Child, NeverLate PROVE ChainSpec => []RegisteredIsRouted
<1>1. ChainIInv => RegisteredIsRouted
  <2> SUFFICES ASSUME ChainIInv, NEW c \in Child, Quiet(c), parent = "up",
                      NEW d \in Domain \ contested
               PROVE  /\ d \in wanted[c] => routes[d] = c /\ d \in proxied
                      /\ routes[d] = c => d \in wanted[c]
    BY DEF RegisteredIsRouted
  <2>1. loaded[c] = wanted[c] /\ c \notin unregistered
    BY DEF ChainIInv, LoadedIsWanted, Quiet
  <2> QED BY <2>1 DEF ChainIInv, Routed, RoutedIn
<1> QED BY ChainInitIInv, ChainNextIInv, <1>1, PTL DEF ChainSpec

-----------------------------------------------------------------------------
(***************************************************************************)
(* The types of the parts.  No port of a file is the value that stands for *)
(* no port, and no child is the value that stands for nobody.              *)
(***************************************************************************)
PortsHypothesis == \A db \in PortFiles : NoPort \notin DOMAIN db

\* The signal handler updates the ports of the file it has loaded.
HandlerTypes ==
    /\ portDB \in PortFiles \cup {Empty}
    /\ refresh \in {"idle", "open", "add", "remove", "set"}
    /\ kept \cup todo \subseteq DOMAIN portDB
    /\ busy # NoPort <=> refresh \in {"add", "remove", "set"}

LEMMA HandlerTypesNext ==
    ASSUME PortsHypothesis, HandlerTypes, [PortsNext]_portVars
    PROVE  HandlerTypes'
<1> USE DEF HandlerTypes
<1>1. ASSUME NEW db \in PortFiles \cup {Empty}, Load(db) PROVE HandlerTypes'
  BY <1>1 DEF Load
<1>2. ASSUME NEW p \in todo, OpenListener(p) \/ ListenFails(p) PROVE HandlerTypes'
  BY <1>2 DEF OpenListener, ListenFails
<1>3. ASSUME NEW p \in todo, UpdateForwardMap(p) PROVE HandlerTypes'
  <2>1. p # NoPort
    BY DEF PortsHypothesis, Empty
  <2> QED BY <1>3, <2>1 DEF UpdateForwardMap
<1>4. CASE AddChannels \/ RemoveChannels
  BY <1>4 DEF AddChannels, RemoveChannels
<1>5. CASE SetForwardMap
  BY <1>5 DEF SetForwardMap
<1>6. ASSUME NEW p, CloseListener(p) PROVE HandlerTypes'
  BY <1>6 DEF CloseListener
<1>7. CASE EndRefresh
  BY <1>7 DEF EndRefresh
<1>8. CASE Listen \/ PortForward \/ UNCHANGED portVars
  BY <1>8 DEF Listen, PortForward, portVars, serverVars, Accept, Forward,
     ConcurrentMapAccess, AcceptFails, Dial, Disconnect, PipeFails, PipeCloses, Collect
<1> HIDE DEF HandlerTypes
<1> QED BY <1>1, <1>2, <1>3, <1>4, <1>5, <1>6, <1>7, <1>8 DEF PortsNext, ReloadPorts

LEMMA HandlerTypesInit == PortsInit => HandlerTypes
BY DEF PortsInit, HandlerTypes

LEMMA PortsTypes == PortsIInv /\ HandlerTypes => PortsTypeOK
BY DEF PortsIInv, HasChannel, HandlerTypes, PortsTypeOK

\* The parent and the registrations, the late ones too.
LEMMA ChainTypesNext ==
    ASSUME Nobody \notin Child, ChainTypes, ChainTypeOK, [ChainNext]_chainVars
    PROVE  ChainTypes' /\ ChainTypeOK'
<1> USE DEF ChainTypes, ChainTypeOK, Routes, mulchdVars, childVars, parentVars
<1>1. ASSUME NEW c \in Child, Mulchd(c) PROVE ChainTypes' /\ ChainTypeOK'
  BY <1>1 DEF Mulchd, CheckDomainsConflicts, Activate, Deactivate
<1>2. ASSUME NEW c \in Child, Reload(c) PROVE ChainTypes' /\ ChainTypeOK'
  BY <1>2 DEF Reload
<1>3. ASSUME NEW c \in Child, Send(c) PROVE ChainTypes' /\ ChainTypeOK'
  <2>1. [child |-> c, domains |-> loaded[c], live |-> TRUE] \in Call
    BY DEF Call
  <2> QED BY <1>3, <2>1 DEF Send
<1>4. ASSUME NEW c \in Child, Unreachable(c) \/ Timeout(c) PROVE ChainTypes' /\ ChainTypeOK'
  <2>1. \A m \in Call : [m EXCEPT !.live = FALSE] \in Call
    BY DEF Call
  <2>2. DOMAIN AfterError(c) = Child
    BY DEF AfterError
  <2>3. /\ calls' \subseteq Call /\ DOMAIN child' = Child
        /\ UNCHANGED <<wanted, loaded, routes, file, proxied, parent, serving>>
    BY <1>4, <2>1, <2>2, Zenon DEF Unreachable, Timeout
  <2> QED BY <2>3
<1>5. ASSUME NEW m \in calls, ReplaceChainedDomains(m) PROVE ChainTypes' /\ ChainTypeOK'
  <2>1. m \in Call /\ m.child \in Child /\ m # NoCall
    BY DEF Call, NoCall
  <2>2. Replaced(m.child, m.domains) \in [Domain -> Child \cup {Nobody}]
    BY <2>1 DEF Replaced
  <2> QED BY <1>5, <2>1, <2>2 DEF ReplaceChainedDomains
<1>6. CASE Save \/ SaveFails
  BY <1>6 DEF Save, SaveFails, Answered
<1>7. CASE ParentRefreshes
  BY <1>7 DEF ParentRefreshes
<1>8. CASE WatchdogExit
  BY <1>8 DEF WatchdogExit, AfterError
<1>9. CASE ParentStarts
  BY <1>9 DEF ParentStarts
<1>10. CASE UNCHANGED chainVars
  BY <1>10 DEF chainVars
<1> HIDE DEF ChainTypes, ChainTypeOK
<1> QED BY <1>1, <1>2, <1>3, <1>4, <1>5, <1>6, <1>7, <1>8, <1>9, <1>10 DEF ChainNext, Proxy, Parent

LEMMA ChainTypesInit == ChainInit => ChainTypes /\ ChainTypeOK
BY DEF ChainInit, NoRoute, ChainTypes, ChainTypeOK, Routes

\* The requests: a pointer is of an object that was made before.
PointersOK ==
    /\ loads \in Nat
    /\ \A r \in Request : requests[r].domain \in 0..loads /\ requests[r].entry \in Nat

\* The list has the requests that are not over.
Listed == requestList = {r \in Request : requests[r].pc # "none"}

EntriesAreLast ==
    /\ \A r \in Request : requests[r].entry > 0 => requests[r].entry <= made[requests[r].ip]
    /\ \A ip \in Address : entries[ip] \in {0, made[ip]}

HTTPTypes == PointersOK /\ Listed /\ EntriesAreLast

LEMMA HTTPTypesInit == HTTPInit => HTTPTypes
<1> SUFFICES ASSUME HTTPInit PROVE HTTPTypes
  OBVIOUS
<1>1. NoRequest.pc = "none" /\ NoRequest.domain = 0 /\ NoRequest.entry = 0
  BY DEF NoRequest
<1>2. \A r \in Request : requests[r] = NoRequest
  BY DEF HTTPInit
<1>3. PointersOK /\ Listed
  BY <1>1, <1>2 DEF HTTPInit, PointersOK, Listed
<1>4. EntriesAreLast
  BY <1>1, <1>2 DEF HTTPInit, EntriesAreLast
<1> QED BY <1>3, <1>4 DEF HTTPTypes

\* A request that goes on with the pointers it has.
LEMMA SamePointers ==
    ASSUME HTTPTypes, DOMAIN requests' = Request,
           \A r \in Request : /\ requests'[r].domain \in {requests[r].domain, loads}
                              /\ requests'[r].entry = requests[r].entry
                              /\ requests'[r].ip = requests[r].ip
                              /\ requests'[r].pc = "none" <=> requests[r].pc = "none",
           UNCHANGED <<requestList, loads, made>>,
           entries' = entries
             \/ entries' = [ip \in Address |-> IF ip \in recent THEN entries[ip] ELSE 0]
    PROVE  HTTPTypes'
<1>1. PointersOK'
  BY DEF HTTPTypes, PointersOK
<1>2. Listed'
  BY DEF HTTPTypes, Listed
<1>3. EntriesAreLast'
  BY DEF HTTPTypes, EntriesAreLast
<1> QED BY <1>1, <1>2, <1>3 DEF HTTPTypes

LEMMA HTTPTypesNext ==
    ASSUME HTTPConstants, HTTPIInv, HTTPTypes, [HTTPNext]_httpVars
    PROVE  HTTPTypes'
<1>0. RequestsOK /\ (\A r \in Request : HeldOK(r)) /\ EntriesOK
  BY DEF HTTPIInv
<1>1. ASSUME NEW r \in Request, NEW ip \in Address, NEW h \in Host, NEW p \in BOOLEAN,
             Arrive(r, ip, h, p)
      PROVE  HTTPTypes'
  <2>1. /\ requests'[r].pc = "lookup" /\ requests'[r].domain = 0 /\ requests'[r].entry = 0
        /\ \A o \in Request \ {r} : requests'[o] = requests[o]
        /\ requestList' = requestList \cup {r}
        /\ UNCHANGED <<loads, made, entries>>
    BY <1>0, <1>1 DEF Arrive, rateVars, domainVars, RequestsOK, NoRequest
  <2>2. PointersOK' /\ Listed'
    BY <2>1 DEF HTTPTypes, PointersOK, Listed
  <2>3. EntriesAreLast'
    BY <2>1 DEF HTTPTypes, EntriesAreLast
  <2> QED BY <2>2, <2>3 DEF HTTPTypes
<1>2. ASSUME NEW r \in Request, FinishRequest(r) PROVE HTTPTypes'
  <2>1. /\ requests'[r].pc = "none" /\ requests'[r].domain = 0 /\ requests'[r].entry = 0
        /\ \A o \in Request \ {r} : requests'[o] = requests[o]
        /\ requestList' = requestList \ {r}
        /\ UNCHANGED <<loads, made, entries>>
    BY <1>0, <1>2 DEF FinishRequest, DeleteRequest, domainVars, RequestsOK, NoRequest
  <2>2. PointersOK' /\ Listed'
    BY <2>1 DEF HTTPTypes, PointersOK, Listed
  <2>3. EntriesAreLast'
    BY <2>1 DEF HTTPTypes, EntriesAreLast
  <2> QED BY <2>2, <2>3 DEF HTTPTypes
<1>3. ASSUME NEW r \in Request, GetEntry(r) PROVE HTTPTypes'
  <2>1. PICK n, ip : /\ n = IF entries[ip] # 0 THEN entries[ip] ELSE made[ip] + 1
                     /\ ip = requests[r].ip
    OBVIOUS
  <2>2. /\ requests[r].pc = "entry" /\ ip \in Address
        /\ requests' = [requests EXCEPT ![r].entry = n, ![r].pc = "slot"]
        /\ entries' = [entries EXCEPT ![ip] = n]
        /\ made' = [made EXCEPT ![ip] = IF entries[ip] # 0 THEN @ ELSE n]
        /\ UNCHANGED <<requestList, loads>>
    BY <1>0, <1>3, <2>1 DEF GetEntry, HeldOK, domainVars
  <2>3. /\ requests'[r].pc = "slot" /\ requests'[r].entry = n /\ requests'[r].ip = ip
        /\ requests'[r].domain = requests[r].domain
        /\ \A o \in Request \ {r} : requests'[o] = requests[o]
    BY <1>0, <2>1, <2>2 DEF RequestsOK, RequestFields
  <2>4. /\ n \in Nat /\ entries'[ip] = n /\ made'[ip] = n /\ made[ip] <= n
        /\ \A i \in Address \ {ip} : entries'[i] = entries[i] /\ made'[i] = made[i]
    BY <1>0, <2>1, <2>2 DEF EntriesOK, HTTPTypes, EntriesAreLast, HTTPConstants
  <2>5. PointersOK'
    BY <2>2, <2>3, <2>4 DEF HTTPTypes, PointersOK
  <2>6. Listed'
    BY <2>2, <2>3 DEF HTTPTypes, Listed
  <2>7. \A i \in Address : entries'[i] \in {0, made'[i]}
    BY <2>4 DEF HTTPTypes, EntriesAreLast
  <2>8. ASSUME NEW o \in Request, requests'[o].entry > 0
        PROVE  requests'[o].entry <= made'[requests'[o].ip]
    <3>1. CASE o = r
      BY <2>3, <2>4, <3>1
    <3>2. CASE o # r
      <4>1. requests'[o] = requests[o] /\ requests[o].entry \in Nat
            /\ requests[o].entry <= made[requests[o].ip]
        BY <2>3, <2>8, <3>2 DEF HTTPTypes, PointersOK, EntriesAreLast
      <4>2. CASE requests[o].ip = ip
        BY <1>0, <2>2, <2>4, <4>1, <4>2 DEF EntriesOK, HTTPConstants
      <4>3. CASE requests[o].ip # ip
        <5>1. made'[requests[o].ip] = made[requests[o].ip]
          BY <2>2, <4>3
        <5> QED BY <4>1, <5>1
      <4> QED BY <4>2, <4>3
    <3> QED BY <3>1, <3>2
  <2> QED BY <2>5, <2>6, <2>7, <2>8 DEF HTTPTypes, EntriesAreLast
<1>4. ASSUME NEW r \in Request,
             \/ Lookup(r) \/ TakeSlot(r) \/ SlotTimeout(r) \/ Reserve(r) \/ TooLate(r)
             \/ ClientLeaves(r) \/ Redirect(r) \/ Serve(r) \/ Panic(r) \/ Backend(r)
      PROVE  HTTPTypes'
  <2>1. /\ requests[r].pc # "none" /\ requests'[r].pc # "none"
        /\ requests'[r].domain \in {requests[r].domain, loads}
        /\ requests'[r].entry = requests[r].entry /\ requests'[r].ip = requests[r].ip
        /\ DOMAIN requests' = Request /\ \A o \in Request \ {r} : requests'[o] = requests[o]
    <3>1. CASE Lookup(r)
      BY <1>0, <3>1 DEF Lookup, Answer, RequestsOK, RequestFields
    <3>2. CASE TakeSlot(r) \/ SlotTimeout(r) \/ Reserve(r)
      BY <1>0, <3>2 DEF TakeSlot, SlotTimeout, Reserve, RequestsOK, RequestFields
    <3>3. CASE TooLate(r) \/ Redirect(r) \/ Panic(r) \/ Backend(r)
      <4>1. PICK status : Answer(r, status) /\ requests[r].pc # "none"
        BY <3>3, Zenon DEF TooLate, Redirect, Panic, Backend
      <4> QED BY <1>0, <4>1 DEF Answer, RequestsOK, RequestFields
    <3>4. CASE ClientLeaves(r) \/ Serve(r)
      BY <1>0, <3>4 DEF ClientLeaves, Serve, Goto, RequestsOK, RequestFields
    <3> QED BY <1>4, <3>1, <3>2, <3>3, <3>4
  <2>2. UNCHANGED <<requestList, loads, made, entries>>
    BY <1>4, Zenon DEF Lookup, TakeSlot, SlotTimeout, Reserve, TooLate, ClientLeaves, Redirect,
       Serve, Panic, Backend, domainVars, rateVars
  <2> QED BY <2>1, <2>2, SamePointers
<1>5. ASSUME NEW e \in Entries, Refill(e) PROVE HTTPTypes'
  <2>1. DOMAIN requests' = Request /\ UNCHANGED <<requestList, loads, made, entries>>
    BY <1>5 DEF Refill, domainVars
  <2>2. ASSUME NEW o \in Request
        PROVE  /\ requests'[o].domain = requests[o].domain
               /\ requests'[o].entry = requests[o].entry /\ requests'[o].ip = requests[o].ip
               /\ requests'[o].pc = "none" <=> requests[o].pc = "none"
    <3>1. requests'[o] = requests[o]
          \/ \E pc \in {requests[o].pc, "route"} :
                /\ requests[o].pc = "wait"
                /\ requests'[o] = [requests[o] EXCEPT !.wait = @ - 1, !.pc = pc]
      BY <1>5 DEF Refill, Waiting
    <3>2. DOMAIN requests[o] = RequestFields
      BY <1>0 DEF RequestsOK
    <3> QED BY <3>1, <3>2 DEF RequestFields
  <2> QED BY <2>1, <2>2, SamePointers
<1>6. CASE Age \/ Clean \/ RefreshReverseProxies \/ UNCHANGED httpVars
  <2>1. UNCHANGED <<requests, requestList, loads, made>>
        /\ \/ entries' = entries
           \/ entries' = [ip \in Address |-> IF ip \in recent THEN entries[ip] ELSE 0]
    BY <1>6 DEF Age, Clean, RefreshReverseProxies, httpVars, domainVars, rateVars
  <2> QED BY <1>0, <2>1, SamePointers DEF RequestsOK
<1>7. ASSUME NEW db, ReloadDomains(db) PROVE HTTPTypes'
  <2>1. loads' = loads + 1 /\ UNCHANGED <<requests, requestList, made, entries>>
    BY <1>7 DEF ReloadDomains, rateVars
  <2> QED BY <2>1 DEF HTTPTypes, PointersOK, Listed, EntriesAreLast
<1> QED BY <1>1, <1>2, <1>3, <1>4, <1>5, <1>6, <1>7 DEF HTTPNext, Handle

LEMMA HTTPTypesOK == HTTPTypes => HTTPTypeOK
BY DEF HTTPTypes, PointersOK, Listed, EntriesAreLast, HTTPTypeOK

-----------------------------------------------------------------------------
(***************************************************************************)
(* Proofs about all the parts together: a behavior of mulch-proxy is one   *)
(* of each part.                                                           *)
(***************************************************************************)
LEMMA MulchProxyIsItsParts == Spec => HTTPSpec /\ PortsSpec /\ ChainSpec
<1>1. Init => HTTPInit /\ PortsInit /\ ChainInit
  BY DEF Init
<1>2. [Next]_vars => [HTTPNext]_httpVars /\ [PortsNext]_portVars /\ [ChainNext]_chainVars
  BY DEF Next, vars, NextRequest, NextPort, NextChain
<1> QED BY <1>1, <1>2, PTL DEF Spec, HTTPSpec, PortsSpec, ChainSpec

\* Type correctness of the requests, of the listeners and their connections, and of the
\* chain (MCMulchProxy.tla, all the parts).
THEOREM MulchProxyTypes ==
    ASSUME HTTPConstants, PortsHypothesis, Nobody \notin Child
    PROVE  Spec => []TypeOK
<1>1. HTTPSpec => []HTTPTypeOK
  <2>1. HTTPInit => HTTPIInv /\ HTTPTypes
    BY HTTPInitIInv, HTTPTypesInit
  <2>2. HTTPIInv /\ HTTPTypes /\ [HTTPNext]_httpVars => HTTPIInv' /\ HTTPTypes'
    BY HTTPNextIInv, HTTPTypesNext
  <2> QED BY <2>1, <2>2, HTTPTypesOK, PTL DEF HTTPSpec
<1>2. PortsSpec => []PortsTypeOK
  <2>1. PortsInit => PortsIInv /\ HandlerTypes
    BY PortsInitIInv, HandlerTypesInit
  <2>2. PortsIInv /\ HandlerTypes /\ [PortsNext]_portVars => PortsIInv' /\ HandlerTypes'
    BY PortsNextIInv, HandlerTypesNext
  <2> QED BY <2>1, <2>2, PortsTypes, PTL DEF PortsSpec
<1>3. ChainSpec => []ChainTypeOK
  <2>1. ChainTypes /\ ChainTypeOK /\ [ChainNext]_chainVars => ChainTypes' /\ ChainTypeOK'
    BY ChainTypesNext
  <2> QED BY ChainTypesInit, <2>1, PTL DEF ChainSpec
<1>4. TypeOK <=> HTTPTypeOK /\ PortsTypeOK /\ ChainTypeOK
  BY DEF TypeOK
<1> QED BY MulchProxyIsItsParts, <1>1, <1>2, <1>3, <1>4, PTL

\* All that is proved of the parts is true of mulch-proxy (MCMulchProxy.tla), under the
\* hypotheses of each.
THEOREM MulchProxyServes ==
    ASSUME HTTPConstants, FixedPorts, Nobody \notin Child, NeverLate
    PROVE  Spec => [](/\ SlotsAreHeld /\ EstablishedAreAllowed
                      /\ ServesLoadedFile /\ RegisteredIsRouted)
<1>1. HTTPSpec => []SlotsAreHeld
  BY PlacesAreHeld
<1>2. PortsSpec => []ServesLoadedFile
  BY LoadedFileIsServed
<1>3. ChainSpec => []RegisteredIsRouted
  BY RegisteredAreRouted
<1> QED BY MulchProxyIsItsParts, WithdrawnAreClosed, <1>1, <1>2, <1>3, PTL

=============================================================================
