------------------------- MODULE PhoneHomeHubProofs -------------------------
(***************************************************************************)
(* The safety of the phone home hub, for any number of goroutines, VMs and *)
(* calls.  What the three theorems share is where a client can be: in the  *)
(* hub from its registration until the goroutine that made it is out of    *)
(* its select for good.                                                    *)
(***************************************************************************)
EXTENDS PhoneHomeHub, TLAPS

USE ClientAssumption, NoCallAssumption

\* A goroutine that listens is registered, one that runs scripts is not.
InHub ==
    \A c \in Client :
        /\ cstate[c] \in {"registered", "waiting", "unregistering"} => c \in clients
        /\ cstate[c] \in {"off", "booted", "registering", "working"} => c \notin clients

\* The hub has sent the call to all before it goes back to its select.
LoopEnds == target = None => todo = {}

HubIInv == TypeOK /\ InHub /\ LoopEnds /\ NeverPanics /\ StarterHears

LEMMA HubInitIInv == Init => HubIInv
BY DEF Init, HubIInv, TypeOK, InHub, LoopEnds, NeverPanics, StarterHears, CState

-----------------------------------------------------------------------------
(* The steps of the goroutines that wait, and of the VMs.                  *)

\* A move of a goroutine between two places that are both in or both out of the hub.
LEMMA MoveKeeps ==
    ASSUME HubIInv, NEW c \in Client, NEW from, NEW to \in CState, Move(c, from, to),
           UNCHANGED hub,
           \/ from \in {"off", "booted"} /\ to \in {"booted", "registering"}
           \/ from \in {"registered", "waiting", "working"} /\ to = "leaving"
           \/ from = "registered" /\ to = "waiting"
    PROVE  InHub' /\ LoopEnds' /\ NeverPanics'
<1>1. cstate' \in [Client -> CState]
  BY DEF HubIInv, TypeOK, Move
<1>2. InHub'
  BY <1>1 DEF HubIInv, TypeOK, InHub, Move, hub
<1> QED BY <1>2 DEF HubIInv, LoopEnds, NeverPanics, hub

LEMMA WaitKeepsIInv ==
    ASSUME HubIInv, NEW c \in Client, Wait(c)
    PROVE  HubIInv'
<1>0. \A from, to : Move(c, from, to) =>
         cstate[c] = from /\ cstate' = [cstate EXCEPT ![c] = to]
  BY DEF Move
<1>1. CASE BootAtOnce(c)
  <2>1. UNCHANGED <<hub, caller>> /\ Move(c, "off", "booted")
    BY <1>1 DEF BootAtOnce
  <2>2. TypeOK'
    BY <1>1, <2>1 DEF BootAtOnce, Boot, Move, HubIInv, TypeOK, CState, hub
  <2>3. StarterHears'
    BY <1>1, <2>1 DEF BootAtOnce, Boot, Move, HubIInv, TypeOK, StarterHears
  <2> QED BY <2>1, <2>2, <2>3, MoveKeeps DEF HubIInv, CState
<1>2. CASE Register(c)
  <2>1. /\ UNCHANGED <<hub, running, caller, missed>>
        /\ Move(c, "off", "registering") \/ Move(c, "booted", "registering")
    BY <1>2 DEF Register
  <2>2. TypeOK'
    BY <2>1 DEF Move, HubIInv, TypeOK, CState, hub
  <2>3. StarterHears'
    BY <2>1 DEF Move, HubIInv, TypeOK, StarterHears
  <2> QED BY <2>1, <2>2, <2>3, MoveKeeps DEF HubIInv, CState
<1>3. CASE BootRegistered(c)
  <2>1. /\ UNCHANGED <<hub, caller>> /\ Boot(SecretOf[c])
        /\ Move(c, "registered", "waiting")
    BY <1>3 DEF BootRegistered
  <2>2. TypeOK'
    BY <2>1 DEF Boot, Move, HubIInv, TypeOK, CState, hub
  <2>3. StarterHears'
    BY <2>1 DEF Boot, Move, HubIInv, TypeOK, StarterHears
  <2> QED BY <2>1, <2>2, <2>3, MoveKeeps DEF HubIInv, CState
<1>4. CASE BootFails(c) \/ Timeout(c) \/ Finish(c)
  <2>1. /\ UNCHANGED <<hub, running, caller, missed>>
        /\ \E from \in {"registered", "waiting", "working"} : Move(c, from, "leaving")
    BY <1>4 DEF BootFails, Timeout, Finish
  <2>2. TypeOK'
    BY <2>1 DEF Move, HubIInv, TypeOK, CState, hub
  <2>3. StarterHears'
    BY <2>1 DEF Move, HubIInv, TypeOK, StarterHears
  <2> QED BY <2>1, <2>2, <2>3, MoveKeeps DEF HubIInv, CState
<1> QED BY <1>1, <1>2, <1>3, <1>4 DEF Wait

\* A call and a stop are not seen by the hub.
LEMMA VMKeepsIInv ==
    ASSUME HubIInv,
           \/ \E k \in Caller, s \in Secret, ci \in BOOLEAN : PhoneCall(k, s, ci)
           \/ \E s \in Secret : Stop(s)
    PROVE  HubIInv'
<1>1. UNCHANGED <<hub, cstate, missed>> /\ running' \subseteq running
  BY DEF PhoneCall, Stop
<1>2. caller' \in [Caller -> Call \cup {None}]
  BY DEF PhoneCall, Stop, HubIInv, TypeOK, Call
<1>3. TypeOK'
  BY <1>1, <1>2 DEF HubIInv, TypeOK, hub
<1> QED BY <1>1, <1>3 DEF HubIInv, InHub, LoopEnds, NeverPanics, StarterHears, hub

-----------------------------------------------------------------------------
(* The steps of the hub.                                                   *)

LEMMA HubRegisterKeepsIInv ==
    ASSUME HubIInv, NEW c \in Client, HubRegister(c)
    PROVE  HubIInv'
<1>1. /\ call = None
      /\ UNCHANGED <<call, target, todo, running, caller, missed>>
      /\ clients' = clients \cup {c} /\ closed' = [closed EXCEPT ![c] = 0]
      /\ cstate[c] = "registering"
      /\ cstate' = [cstate EXCEPT ![c] = AfterRegister(c)]
  BY DEF HubRegister, Move, HubIInv, TypeOK
<1>2. /\ AfterRegister(c) \in {"registered", "waiting"}
      /\ c \notin Builder => AfterRegister(c) = "registered"
  BY DEF AfterRegister, RegistersFirst
<1>3. TypeOK'
  BY <1>1, <1>2 DEF HubIInv, TypeOK, CState
<1>4. InHub' /\ LoopEnds' /\ NeverPanics'
  BY <1>1, <1>2 DEF HubIInv, TypeOK, InHub, LoopEnds, NeverPanics
<1>5. StarterHears'
  BY <1>1, <1>2 DEF HubIInv, TypeOK, StarterHears
<1> QED BY <1>3, <1>4, <1>5 DEF HubIInv

LEMMA HubUnregisterKeepsIInv ==
    ASSUME HubIInv, NEW c \in Client, HubUnregister(c)
    PROVE  HubIInv'
<1>1. /\ call = None /\ target = None /\ todo = {}
      /\ UNCHANGED <<call, target, todo, running, caller, missed>>
  BY DEF HubUnregister, HubIInv, TypeOK, LoopEnds
<1>2. PICK to \in {"working", "off"} : cstate' = [cstate EXCEPT ![c] = to]
  BY DEF HubUnregister, Move
<1>3. /\ clients' = clients \ {c}
      /\ closed' \in [Client -> 0..1]
      /\ \A d \in clients' : closed'[d] = 0
  <2>1. CASE c \in clients
    BY <2>1 DEF HubUnregister, Remove, HubIInv, TypeOK, NeverPanics
  <2>2. CASE c \notin clients
    BY <2>2 DEF HubUnregister, Remove, HubIInv, TypeOK, NeverPanics
  <2> QED BY <2>1, <2>2
<1>4. TypeOK'
  <2>1. clients' \subseteq Client /\ cstate' \in [Client -> CState]
    BY <1>2, <1>3 DEF HubIInv, TypeOK, CState
  <2>2. closed' \in [Client -> 0..2]
    BY <1>3
  <2> QED BY <1>1, <2>1, <2>2 DEF HubIInv, TypeOK
<1>5. InHub' /\ LoopEnds' /\ NeverPanics'
  <2>1. \A d \in Client : closed'[d] <= 1
    BY <1>3
  <2> QED BY <1>1, <1>2, <1>3, <2>1 DEF HubIInv, TypeOK, InHub, LoopEnds, NeverPanics
<1>6. StarterHears'
  BY <1>1, <1>2 DEF HubIInv, TypeOK, StarterHears
<1> QED BY <1>4, <1>5, <1>6 DEF HubIInv

\* The hub only ever sends to registered clients that asked for the VM of the call.
LEMMA ContinueType ==
    ASSUME HubIInv, NEW message \in Call, NEW left \in SUBSET clients,
           UNCHANGED <<clients, closed>>, Continue(message, left),
           \A c \in left : SecretOf[c] = message.secret
    PROVE  /\ call' \in Call \cup {None} /\ target' \in Client \cup {None}
           /\ todo' \subseteq clients
           /\ (call' = None) <=> (target' = None)
           /\ target' # None => target' \in clients \ todo'
           /\ \A c \in todo' \cup ({target'} \ {None}) : SecretOf[c] = call'.secret
           /\ LoopEnds' /\ NeverPanics'
<1>1. CASE left = {}
  BY <1>1 DEF Continue, HubIInv, TypeOK, LoopEnds, NeverPanics
<1>2. CASE left # {}
  BY <1>2 DEF Continue, HubIInv, TypeOK, LoopEnds, NeverPanics
<1> QED BY <1>1, <1>2

LEMMA HubBroadcastKeepsIInv ==
    ASSUME HubIInv, NEW k \in Caller, HubBroadcast(k)
    PROVE  HubIInv'
<1>1. PICK message \in Call : message = caller[k]
  BY DEF HubBroadcast, HubIInv, TypeOK
<1>2. PICK requesters : requesters = {c \in clients : SecretOf[c] = message.secret}
  OBVIOUS
<1>3. /\ caller' = [caller EXCEPT ![k] = None]
      /\ Continue(message, requesters)
      /\ missed' = IF requesters = {} /\ message.secret \in running
                   THEN missed \cup {message.secret} ELSE missed
      /\ UNCHANGED <<clients, cstate, closed, running>>
  BY <1>1, <1>2 DEF HubBroadcast
<1>4. TypeOK' /\ LoopEnds' /\ NeverPanics'
  <2>1. missed' \subseteq Secret /\ caller' \in [Caller -> Call \cup {None}]
    BY <1>1, <1>3 DEF HubIInv, TypeOK, Call
  <2> QED BY <1>2, <1>3, <2>1, ContinueType DEF HubIInv, TypeOK
<1>5. InHub'
  BY <1>3 DEF HubIInv, InHub
<1>6. StarterHears'
  <2> SUFFICES ASSUME NEW c \in Client \ Builder, cstate[c] = "waiting"
               PROVE  SecretOf[c] \notin missed'
    BY <1>3 DEF StarterHears
  <2>1. c \in clients /\ SecretOf[c] \notin missed
    BY DEF HubIInv, InHub, StarterHears
  <2> QED BY <1>2, <1>3, <2>1
<1> QED BY <1>4, <1>5, <1>6 DEF HubIInv

LEMMA HubSendKeepsIInv ==
    ASSUME HubIInv, HubSend
    PROVE  HubIInv'
<1>1. /\ target \in Client /\ call \in Call /\ call # None
      /\ cstate[target] = "waiting"
      /\ cstate' = [cstate EXCEPT ![target] = AfterCall(target)]
      /\ Continue(call, todo)
      /\ UNCHANGED <<clients, closed, running, caller, missed>>
  BY DEF HubSend, Move, HubIInv, TypeOK
<1>2. PICK to \in {"unregistering", "waiting", "leaving"} :
         to = AfterCall(target) /\ (target \notin Builder => to = "leaving")
  BY DEF AfterCall
<1>3. TypeOK' /\ LoopEnds' /\ NeverPanics'
  <2>1. cstate' \in [Client -> CState]
    BY <1>1, <1>2 DEF HubIInv, TypeOK, CState
  <2>2. todo \in SUBSET clients /\ \A c \in todo : SecretOf[c] = call.secret
    BY DEF HubIInv, TypeOK
  <2> QED BY <1>1, <2>1, <2>2, ContinueType DEF HubIInv, TypeOK
<1>4. InHub'
  BY <1>1, <1>2 DEF HubIInv, TypeOK, InHub
<1>5. StarterHears'
  BY <1>1, <1>2 DEF HubIInv, TypeOK, StarterHears
<1> QED BY <1>3, <1>4, <1>5 DEF HubIInv

-----------------------------------------------------------------------------

LEMMA HubNextIInv == HubIInv /\ [Next]_vars => HubIInv'
<1> SUFFICES ASSUME HubIInv, [Next]_vars
             PROVE  HubIInv'
  OBVIOUS
<1>1. CASE \E c \in Client : Wait(c)
  BY <1>1, WaitKeepsIInv
<1>2. CASE \E c \in Client : HubRegister(c)
  BY <1>2, HubRegisterKeepsIInv
<1>3. CASE \E c \in Client : HubUnregister(c)
  BY <1>3, HubUnregisterKeepsIInv
<1>4. CASE \/ \E k \in Caller, s \in Secret, ci \in BOOLEAN : PhoneCall(k, s, ci)
           \/ \E s \in Secret : Stop(s)
  BY <1>4, VMKeepsIInv
<1>5. CASE \E k \in Caller : HubBroadcast(k)
  BY <1>5, HubBroadcastKeepsIInv
<1>6. CASE HubSend
  BY <1>6, HubSendKeepsIInv
<1>7. CASE UNCHANGED vars
  BY <1>7 DEF HubIInv, TypeOK, InHub, LoopEnds, NeverPanics, StarterHears, vars
<1> QED BY <1>1, <1>2, <1>3, <1>4, <1>5, <1>6, <1>7 DEF Next

LEMMA HubInvariant == Spec => []HubIInv
BY HubInitIInv, HubNextIInv, PTL DEF Spec

(***************************************************************************)
(* No channel of a client is closed twice, and the hub never sends to one  *)
(* that was closed: "double unregister is safe".                           *)
(***************************************************************************)
THEOREM HubNeverPanics == Spec => []NeverPanics
<1>1. HubIInv => NeverPanics
  BY DEF HubIInv
<1> QED BY <1>1, HubInvariant, PTL

(***************************************************************************)
(* A goroutine that runs scripts is not registered, so that a script that  *)
(* phones home never blocks the hub.                                       *)
(***************************************************************************)
THEOREM HubScriptsDoNotBlock == Spec => []ScriptsDoNotBlock
<1>1. HubIInv => ScriptsDoNotBlock
  BY DEF HubIInv, InHub, ScriptsDoNotBlock
<1> QED BY <1>1, HubInvariant, PTL

(***************************************************************************)
(* VMStartByName hears the first call of the boot it asked for: it is      *)
(* registered before the VM starts and until it stops waiting.             *)
(***************************************************************************)
THEOREM StartersHear == Spec => []StarterHears
<1>1. HubIInv => StarterHears
  BY DEF HubIInv
<1> QED BY <1>1, HubInvariant, PTL

\* A client the hub sends to receives, is about to, or is on its way out.
BlockedByLeaversOnly ==
    target # None => cstate[target] \in {"registered", "waiting"} \/ Stuck

(***************************************************************************)
(* The one way to block the hub is a call that meets a client on its way   *)
(* out: nothing a goroutine does elsewhere delays the loop of the hub.     *)
(***************************************************************************)
THEOREM HubBlockedByLeaversOnly == Spec => []BlockedByLeaversOnly
<1>1. HubIInv => BlockedByLeaversOnly
  <2> SUFFICES ASSUME HubIInv, target # None
               PROVE  cstate[target] \in {"registered", "waiting"} \/ Stuck
    BY DEF BlockedByLeaversOnly
  <2>1. target \in Client /\ target \in clients
    BY DEF HubIInv, TypeOK
  <2>2. cstate[target] \in CState \ {"off", "booted", "registering", "working"}
    BY <2>1 DEF HubIInv, TypeOK, InHub
  <2> QED BY <2>2 DEF CState, Stuck
<1> QED BY <1>1, HubInvariant, PTL
=============================================================================
