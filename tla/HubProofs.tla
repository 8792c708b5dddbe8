------------------------------- MODULE HubProofs -------------------------------
(***************************************************************************)
(* Proofs about Hub: the types, the streams the hub sends to, and what the *)
(* hub may wait for while it broadcasts, for any number of streams,        *)
(* controllers, loggers and savers.                                        *)
(*                                                                         *)
(* A stream is a client of the hub from its registration until it has been *)
(* unregistered; while it starts, its controller has not logged yet, so    *)
(* that the controller never waits for the hub, that may wait for it.      *)
(***************************************************************************)
EXTENDS Hub, TLAPS

\* Where the goroutines of a stream are.
StreamOK(s) ==
    /\ s \in clients <=> main[s] \in {"starting", "streaming", "writing", "blocked", "unregistering"}
    /\ main[s] = "registering" => handler[s] = "off"
    /\ main[s] = "starting" <=> handler[s] \in {"looking", "starting"}
    /\ pending[s] # None => handler[s] = "running"

StreamsOK == \A s \in Stream : StreamOK(s)

IInv == TypeOK /\ StreamsOK

\* It holds initially.
LEMMA InitIInv == Init => IInv
<1> SUFFICES ASSUME Init PROVE IInv
  OBVIOUS
<1>1. TypeOK
  BY DEF Init, TypeOK, Target, MainState, HandlerState
<1>2. StreamsOK
  BY DEF Init, StreamsOK, StreamOK, Writer
<1> QED BY <1>1, <1>2 DEF IInv

\* Every step keeps it: the cases of the select of the hub, and its loop ...
LEMMA HubKeeps ==
    ASSUME IInv, NEW s \in Stream,
           HubRegister(s) \/ HubUnregister(s) \/ HubVisit(s) \/ HubSend
    PROVE  IInv'
<1> USE HubAssumption DEF IInv, TypeOK, StreamsOK, StreamOK
<1>1. CASE HubRegister(s)
  <2>1. TypeOK'
    BY <1>1 DEF HubRegister, Move, Handle, MainState, HandlerState
  <2>2. StreamsOK'
    BY <1>1 DEF HubRegister, Move, Handle
  <2> QED BY <2>1, <2>2
<1>2. CASE HubUnregister(s)
  <2>1. TypeOK'
    BY <1>2 DEF HubUnregister, Move, MainState
  <2>2. StreamsOK'
    BY <1>2 DEF HubUnregister, Move
  <2> QED BY <2>1, <2>2
<1>3. CASE HubVisit(s)
  BY <1>3 DEF HubVisit, Leave
<1>4. CASE HubSend
  BY <1>4 DEF HubSend, Leave, Move, MainState
<1> QED BY <1>1, <1>2, <1>3, <1>4

LEMMA BroadcastKeeps ==
    ASSUME IInv, NEW w \in Writer, HubBroadcast(w)
    PROVE  IInv'
<1> USE HubAssumption DEF IInv, TypeOK, StreamsOK, StreamOK, HubBroadcast
<1>1. TypeOK'
  OBVIOUS
<1>2. StreamsOK'
  OBVIOUS
<1> QED BY <1>1, <1>2

\* ... those of a stream ...
LEMMA StreamKeeps ==
    ASSUME IInv, NEW s \in Stream,
           \/ Connect(s) \/ Break(s) \/ Look(s) \/ StartStream(s)
           \/ \E t \in Topic \cup {All} : SetTarget(s, t)
           \/ \E trace \in Trace : StreamLog(s, trace)
           \/ Return(s) \/ Close(s) \/ Abandon(s) \/ Done(s)
           \/ KeepAlive(s) \/ Stall(s) \/ Written(s)
    PROVE  IInv'
<1> USE HubAssumption DEF IInv, TypeOK, hub
<1>1. CASE \/ Connect(s) \/ Break(s) \/ Look(s) \/ StartStream(s)
           \/ Return(s) \/ Close(s) \/ Abandon(s) \/ Done(s)
           \/ KeepAlive(s) \/ Stall(s) \/ Written(s)
  <2>1. TypeOK'
    BY <1>1 DEF Connect, Break, Look, StartStream, Return, Close, Abandon, Done, AfterDone,
       KeepAlive, Stall, Written, Move, Handle, MainState, HandlerState, Target
  <2>2. StreamsOK'
    BY <1>1 DEF Connect, Break, Look, StartStream, Return, Close, Abandon, Done, AfterDone,
       KeepAlive, Stall, Written, Move, Handle, StreamsOK, StreamOK, MainState, HandlerState
  <2> QED BY <2>1, <2>2
<1>2. ASSUME NEW t \in Topic \cup {All}, SetTarget(s, t) PROVE IInv'
  BY <1>2 DEF SetTarget, Target, StreamsOK, StreamOK
<1>3. ASSUME NEW trace \in Trace, StreamLog(s, trace) PROVE IInv'
  <2>1. PICK m \in Message : Log(s, m)
    <3>1. (IF target[s] = All THEN None ELSE target[s]) \in Target /\ trace \in BOOLEAN
      BY DEF Target
    <3> QED BY <1>3, <3>1 DEF StreamLog, Message
  <2>2. handler[s] = "running" /\ UNCHANGED <<hub, target, main, handler, ctxDone, lock>>
    BY <1>3 DEF StreamLog, Logging
  <2> QED BY <2>1, <2>2 DEF Log, StreamsOK, StreamOK, Writer
<1> QED BY <1>1, <1>2, <1>3

\* ... and those of the goroutines that log and save.
LEMMA OthersKeep ==
    ASSUME IInv,
           \/ \E l \in Logger, t \in Topic \cup {None}, trace \in Trace :
                 LoggerLogs(l, [target |-> t, trace |-> trace])
           \/ \E v \in Saver : SaverLocks(v) \/ SaverLogs(v) \/ SaverUnlocks(v)
    PROVE  IInv'
<1> USE HubAssumption DEF IInv, TypeOK, hub
<1>1. ASSUME NEW w \in Logger \cup Saver, NEW m \in Message, Log(w, m),
             UNCHANGED <<hub, target, main, handler, ctxDone, lock>>
      PROVE  IInv'
  BY <1>1 DEF Log, StreamsOK, StreamOK, Writer
<1>2. ASSUME NEW l \in Logger, NEW t \in Topic \cup {None}, NEW trace \in Trace,
             LoggerLogs(l, [target |-> t, trace |-> trace])
      PROVE  IInv'
  <2>1. [target |-> t, trace |-> trace] \in Message
    BY DEF Message, Target
  <2> QED BY <1>1, <1>2, <2>1 DEF LoggerLogs
<1>3. ASSUME NEW v \in Saver, SaverLogs(v) PROVE IInv'
  <2>1. [target |-> None, trace |-> TRUE] \in Message
    BY DEF Message, Target
  <2> QED BY <1>1, <1>3, <2>1 DEF SaverLogs
<1>4. ASSUME NEW v \in Saver, SaverLocks(v) \/ SaverUnlocks(v) PROVE IInv'
  BY <1>4 DEF SaverLocks, SaverUnlocks, StreamsOK, StreamOK
<1> QED BY <1>2, <1>3, <1>4

LEMMA NextIInv == IInv /\ [Next]_vars => IInv'
<1> SUFFICES ASSUME IInv, [Next]_vars PROVE IInv'
  OBVIOUS
<1>1. ASSUME NEW s \in Stream, StreamNext(s) PROVE IInv'
  BY <1>1, HubKeeps, StreamKeeps DEF StreamNext
<1>2. CASE HubSend
  <2>1. client \in Stream
    BY <1>2 DEF HubSend, IInv, TypeOK
  <2> QED BY <1>2, <2>1, HubKeeps
<1>3. CASE UNCHANGED vars
  BY <1>3 DEF vars, IInv, TypeOK, StreamsOK, StreamOK
<1> QED BY <1>1, <1>2, <1>3, BroadcastKeeps, OthersKeep DEF Next

\* The types; the hub sends to registered clients only, once to each (hub.go:36-66).
THEOREM TypeCorrect == Spec => []TypeOK
<1>1. IInv => TypeOK
  BY DEF IInv
<1> QED BY InitIInv, NextIInv, <1>1, PTL DEF Spec

\* The hub never has a stream whose main goroutine has returned, however the stream ended
\* (hub.go:44-49, route_handler.go:104-114).
THEOREM ClientsAreAlive == Spec => []NoDeadClient
<1>1. IInv => NoDeadClient
  BY DEF IInv, TypeOK, StreamsOK, StreamOK, NoDeadClient
<1> QED BY InitIInv, NextIInv, <1>1, PTL DEF Spec

(***************************************************************************)
(* What the hub waits for while it broadcasts is a step of the hub, or of  *)
(* the stream it sends to, or of the holder of the mutex this stream needs *)
(* to start, and the guards of this step hold; or the hub is stuck, in one *)
(* of the three ways of Stuck.  No fourth way exists (hub.go:36-66,        *)
(* route_handler.go:58-133, log.go:27-41): BroadcastReturns needs only     *)
(* that these steps are taken.  The step of a stream that writes is the    *)
(* end of its write: its client reads, or its connection is lost.          *)
(***************************************************************************)
HubGoesOn ==
    \/ client = None /\ todo # {}
    \/ client # None /\ main[client] = "streaming"
WriteEnds ==
    /\ client # None
    /\ main[client] = "writing" \/ (main[client] = "blocked" /\ client \in ctxDone)
StreamStarts ==
    /\ client # None /\ main[client] = "starting" /\ pending[client] = None
    /\ handler[client] = "starting" \/ (handler[client] = "looking" /\ lock = None)
HolderUnlocks ==
    /\ client # None /\ handler[client] = "looking"
    /\ lock \in Saver /\ pending[lock] = None

HubWaitsOrIsStuck ==
    message # None => HubGoesOn \/ WriteEnds \/ StreamStarts \/ HolderUnlocks \/ Stuck

THEOREM HubIsStuckInThreeWays == Spec => []HubWaitsOrIsStuck
<1>1. IInv => HubWaitsOrIsStuck
  <2> SUFFICES ASSUME IInv, message # None, client # None, main[client] # "streaming"
               PROVE  WriteEnds \/ StreamStarts \/ HolderUnlocks \/ Stuck
    BY DEF HubWaitsOrIsStuck, HubGoesOn, IInv, TypeOK
  <2>1. client \in clients /\ client \in Stream /\ StreamOK(client)
    BY DEF IInv, TypeOK, StreamsOK
  <2>2. CASE main[client] = "unregistering"
    BY <2>2 DEF Stuck, Ended
  <2>3. CASE main[client] \in {"writing", "blocked"}
    BY <2>3 DEF WriteEnds, Stuck, Stalled
  <2>4. CASE main[client] = "starting"
    <3>1. handler[client] \in {"looking", "starting"} /\ pending[client] = None
      BY <2>1, <2>4 DEF StreamOK
    <3>2. lock \in Saver \cup {None}
      BY DEF IInv, TypeOK
    <3> QED BY <2>4, <3>1, <3>2 DEF StreamStarts, HolderUnlocks, Stuck, Locked
  <2> QED BY <2>1, <2>2, <2>3, <2>4 DEF StreamOK
<1> QED BY InitIInv, NextIInv, <1>1, PTL DEF Spec

=============================================================================
