----------------------------- MODULE SecretSync -----------------------------
(***************************************************************************)
(* Secrets shared by the mulchd servers (server/secret_database.go,        *)
(* controllers/secret.go).  Each peer has a map of secrets, dated by its   *)
(* own clock, and a file.  A request that changes a secret saves, then     *)
(* calls every peer in turn: it sends its whole map, the peer merges it    *)
(* and answers what it has of newer, which is merged in turn.  The maps    *)
(* sent are encoded without the mutex, and Delete changes a secret in      *)
(* place.                                                                  *)
(***************************************************************************)
EXTENDS Naturals, FiniteSets

CONSTANTS
    Peer,           \* mulchd servers, peers of each other with sync_secrets
    Key,            \* names of secrets
    Request,        \* goroutines that serve the users
    Home,           \* the server of each of them
    MaxStamp,       \* bound: dates are 1..MaxStamp, each is used once at most
    None,
    Torn,           \* a file that was truncated and not written
    Settings        \* the circumstances that are checked

\* clock: whether the clocks of the servers agree (none of them steps back).
\* faults: what may fail: calls between peers, the disk, mulchd itself.
\* changes: bound on the changes users make.
Setting == [clock : {"sound", "skewed"}, faults : SUBSET {"call", "disk", "crash"},
            changes : 0..MaxStamp]

ASSUME SyncAssumption ==
    /\ Home \in [Request -> Peer]
    /\ MaxStamp \in Nat
    /\ Settings \subseteq Setting

VARIABLES
    setting,
    db,             \* the map of secrets of each server
    file,           \* mulch-secrets.db
    up,             \* "down", "starting" (before the API listens), "up"
    req,            \* the requests being served
    written,        \* history: the changes the users made
    acked,          \* history: those each server said successful
    sound,          \* history: no call failed, no mulchd stopped
    torn            \* history: a secret was encoded while Delete was changing it

vars == <<setting, db, file, up, req, written, acked, sound, torn>>

Stamp == 1..MaxStamp

(***************************************************************************)
(* A secret.  Its value is told by its date; "empty" and "deleted" are the *)
(* states Delete puts it in before it changes the date.                    *)
(***************************************************************************)
Secret == [stamp : Stamp, state : {"live", "empty", "deleted"}]

ASSUME NoneAssumption == None \notin Secret

Secrets == [Key -> Secret \cup {None}]

NoSecrets == [k \in Key |-> None]

\* A change, as the user sees it.
Write == [by : Peer, key : Key, stamp : Stamp, live : BOOLEAN]

ASSUME NoChangeAssumption == None \notin Write \cup [key : Key, stamp : Stamp, live : BOOLEAN]

\* What a request has done (change), the peers it still has to call, the one
\* it is calling, and the map that is sent to it or that it answers.
RequestState ==
    [pc : {"idle", "erased", "marked", "save", "sync", "iterate", "encode", "call",
           "respond", "reply"},
     key : Key \cup {None}, change : Write \cup {None},
     todo : SUBSET Peer, peer : Peer \cup {None}, msg : Secrets]

Idle == [pc |-> "idle", key |-> None, change |-> None, todo |-> {}, peer |-> None,
         msg |-> NoSecrets]

TypeOK ==
    /\ setting \in Settings
    /\ db \in [Peer -> Secrets]
    /\ file \in [Peer -> Secrets \cup {Torn}]
    /\ up \in [Peer -> {"down", "starting", "up"}]
    /\ req \in [Request -> RequestState]
    /\ written \subseteq Write
    /\ acked \in [Peer -> SUBSET Write]
    /\ sound \in BOOLEAN /\ torn \in BOOLEAN

Init ==
    /\ setting \in Settings
    /\ db = [p \in Peer |-> NoSecrets]
    /\ file = [p \in Peer |-> NoSecrets]
    /\ up = [p \in Peer |-> "up"]
    /\ req = [r \in Request |-> Idle]
    /\ written = {}
    /\ acked = [p \in Peer |-> {}]
    /\ sound = TRUE
    /\ torn = FALSE

May(fault) == fault \in setting.faults

-----------------------------------------------------------------------------
(* Merging. *)

\* (mutant: every entry received replaces ours)
LaterAlways(e, f) == e # None

\* entry.Modified.After(my.Modified), or there is no other entry.
Later(e, f) == e # None /\ (f = None \/ e.stamp > f.stamp)

\* Our map once the entries of another are merged.
Merged(my, other) == [k \in Key |-> IF Later(other[k], my[k]) THEN other[k] ELSE my[k]]

\* (mutant: the entries the other has older are left out)
NewerAbsent(my, other) == [k \in Key |-> IF other[k] = None THEN my[k] ELSE None]

\* The answer: what the other did not have, or had older.
Newer(my, other) == [k \in Key |-> IF Later(my[k], other[k]) THEN my[k] ELSE None]

-----------------------------------------------------------------------------
(* Changes made by users. *)

\* (mutant: the peers are called with the mutex locked)
LockedCalling(p) ==
    \E r \in Request : Home[r] = p /\ req[r].pc \in {"erased", "marked", "call", "respond"}

\* Delete keeps the mutex of its server while it changes a secret.
Locked(p) == \E r \in Request : Home[r] = p /\ req[r].pc \in {"erased", "marked"}

Deleting(p, k) == \E r \in Request : Home[r] = p /\ req[r].key = k
                                     /\ req[r].pc \in {"erased", "marked"}

\* How many changes may still begin.
Left == setting.changes
            - Cardinality(written \cup {r \in Request : req[r].pc \in {"erased", "marked"}})

\* A date that time.Now() may return on server p.  The clocks may differ as
\* long as there are dates for the changes to come.
Now(p, s) ==
    /\ \A w \in written : w.stamp # s /\ (w.by = p => w.stamp < s)
    /\ IF setting.clock = "sound" THEN s = Cardinality(written) + 1
       ELSE Cardinality({t \in s..MaxStamp : \A w \in written : w.stamp # t})
                >= setting.changes - Cardinality(written)

\* Set, up to its unlock.  The entry is a new object.
Set(r, k, s) ==
    LET w == [by |-> Home[r], key |-> k, stamp |-> s, live |-> TRUE] IN
    /\ req[r].pc = "idle" /\ up[Home[r]] = "up" /\ ~Locked(Home[r])
    /\ Left > 0 /\ Now(Home[r], s)
    /\ db' = [db EXCEPT ![Home[r]][k] = [stamp |-> s, state |-> "live"]]
    /\ written' = written \cup {w}
    /\ req' = [req EXCEPT ![r] = [@ EXCEPT !.pc = "save", !.key = k, !.change = w]]
    /\ UNCHANGED <<setting, file, up, acked, sound, torn>>

\* The maps that hold the same object as the map of server p: those it is
\* about to encode, to call a peer or to answer one.
Shares(q, p, k) ==
    /\ \/ Home[q] = p /\ req[q].pc = "encode"
       \/ req[q].peer = p /\ req[q].pc = "respond"
    /\ req[q].msg[k] = db[p][k]

\* Request r changes the secret in place, and goes to pc.
InPlace(r, k, e, pc, w) ==
    LET p == Home[r] IN
    /\ db' = [db EXCEPT ![p][k] = e]
    /\ req' = [q \in Request |->
                 IF q = r THEN [req[r] EXCEPT !.pc = pc, !.key = k, !.change = w]
                 ELSE IF Shares(q, p, k) THEN [req[q] EXCEPT !.msg[k] = e]
                 ELSE req[q]]

\* Delete: the value, the mark and the date, in this order.
DeleteErase(r, k) ==
    LET e == db[Home[r]][k] IN
    /\ req[r].pc = "idle" /\ up[Home[r]] = "up" /\ ~Locked(Home[r])
    /\ Left > 0
    /\ e # None /\ e.state # "deleted"
    /\ InPlace(r, k, [e EXCEPT !.state = "empty"], "erased", None)
    /\ UNCHANGED <<setting, file, up, written, acked, sound, torn>>

DeleteMark(r) ==
    LET k == req[r].key IN
    /\ req[r].pc = "erased"
    /\ InPlace(r, k, [db[Home[r]][k] EXCEPT !.state = "deleted"], "marked", None)
    /\ UNCHANGED <<setting, file, up, written, acked, sound, torn>>

DeleteStamp(r, s) ==
    LET k == req[r].key
        w == [by |-> Home[r], key |-> k, stamp |-> s, live |-> FALSE] IN
    /\ req[r].pc = "marked"
    /\ Now(Home[r], s)
    /\ InPlace(r, k, [stamp |-> s, state |-> "deleted"], "save", w)
    /\ written' = written \cup {w}
    /\ UNCHANGED <<setting, file, up, acked, sound, torn>>

\* Save takes the mutex again, then SyncPeers begins.
Save(r) ==
    LET p == Home[r] IN
    /\ req[r].pc = "save" /\ ~Locked(p)
    /\ file' = [file EXCEPT ![p] = db[p]]
    /\ req' = [req EXCEPT ![r] = [@ EXCEPT !.pc = "sync", !.todo = Peer \ {p}]]
    /\ UNCHANGED <<setting, db, up, written, acked, sound, torn>>

\* The file cannot be opened, or not be written once truncated.
FileAfterError(p) == \E f \in {file[p], Torn} : file' = [file EXCEPT ![p] = f]

\* The user is told of the error, and the change stays in memory.
SaveFails(r) ==
    /\ May("disk")
    /\ req[r].pc = "save" /\ ~Locked(Home[r])
    /\ FileAfterError(Home[r])
    /\ req' = [req EXCEPT ![r] = Idle]
    /\ sound' = FALSE
    /\ UNCHANGED <<setting, db, up, written, acked, torn>>

-----------------------------------------------------------------------------
(* Calls to the peers. *)

\* The entry does not say what the change of its date was.
Half(k, e) ==
    e # None /\ \E w \in written : w.key = k /\ w.stamp = e.stamp
                                   /\ w.live # (e.state = "live")

Encoded(msg) == torn' = (torn \/ \E k \in Key : Half(k, msg[k]))

\* SyncPeer(q): json.Marshal begins to iterate over the map.
CallPeer(r, q) ==
    /\ req[r].pc = "sync" /\ q \in req[r].todo
    /\ req' = [req EXCEPT ![r] = [@ EXCEPT !.pc = "iterate", !.peer = q]]
    /\ UNCHANGED <<setting, db, file, up, written, acked, sound, torn>>

\* It holds all the entries, which it then encodes.
Iterate(r) ==
    /\ req[r].pc = "iterate"
    /\ req' = [req EXCEPT ![r] = [@ EXCEPT !.pc = "encode", !.msg = db[Home[r]]]]
    /\ UNCHANGED <<setting, db, file, up, written, acked, sound, torn>>

Encode(r) ==
    /\ req[r].pc = "encode"
    /\ Encoded(req[r].msg)
    /\ req' = [req EXCEPT ![r].pc = "call"]
    /\ UNCHANGED <<setting, db, file, up, written, acked, sound>>

\* SyncSecretsController of the peer, up to the unlock of SyncWithDatabase.
Handle(r) ==
    LET q == req[r].peer
        msg == req[r].msg IN
    /\ req[r].pc = "call" /\ up[q] = "up" /\ ~Locked(q)
    /\ db' = [db EXCEPT ![q] = Merged(@, msg)]
    /\ file' = [file EXCEPT ![q] = db'[q]]
    /\ req' = [req EXCEPT ![r] = [@ EXCEPT !.pc = "respond", !.msg = Newer(db[q], msg)]]
    /\ UNCHANGED <<setting, up, written, acked, sound, torn>>

\* It encodes its answer without the mutex.
Respond(r) ==
    /\ req[r].pc = "respond"
    /\ Encoded(req[r].msg)
    /\ req' = [req EXCEPT ![r].pc = "reply"]
    /\ UNCHANGED <<setting, db, file, up, written, acked, sound>>

\* The next peer.
NextPeer(x) ==
    [x EXCEPT !.pc = "sync", !.todo = @ \ {x.peer}, !.peer = None, !.msg = NoSecrets]

\* The callback of SyncPeer.
Merge(r) ==
    LET p == Home[r] IN
    /\ req[r].pc = "reply" /\ ~Locked(p)
    /\ db' = [db EXCEPT ![p] = Merged(@, req[r].msg)]
    /\ file' = [file EXCEPT ![p] = db'[p]]
    /\ req' = [req EXCEPT ![r] = NextPeer(@)]
    /\ UNCHANGED <<setting, up, written, acked, sound, torn>>

\* The peer does not listen, or the call or its answer is lost; SyncPeers
\* reports the error and goes on.
CallFails(r) ==
    /\ req[r].pc \in {"call", "respond", "reply"}
    /\ May("call") \/ up[req[r].peer] # "up"
    /\ req' = [req EXCEPT ![r] = NextPeer(@)]
    /\ sound' = FALSE
    /\ UNCHANGED <<setting, db, file, up, written, acked, torn>>

\* The save of a merge fails: the peer answers an error, or SyncPeer returns
\* one; what was merged stays in memory.
MergeFails(r, p) ==
    /\ May("disk") /\ ~Locked(p)
    /\ \/ req[r].pc = "call" /\ p = req[r].peer /\ up[p] = "up"
       \/ req[r].pc = "reply" /\ p = Home[r]
    /\ db' = [db EXCEPT ![p] = Merged(@, req[r].msg)]
    /\ FileAfterError(p)
    /\ req' = [req EXCEPT ![r] = NextPeer(@)]
    /\ sound' = FALSE
    /\ UNCHANGED <<setting, up, written, acked, torn>>

\* The user is told of the success, or the start of the server goes on.
Finish(r) ==
    LET p == Home[r] IN
    /\ req[r].pc = "sync" /\ req[r].todo = {}
    /\ req' = [req EXCEPT ![r] = Idle]
    /\ up' = [up EXCEPT ![p] = "up"]
    /\ acked' = [acked EXCEPT ![p] =
                   IF req[r].change = None THEN @ ELSE @ \cup {req[r].change}]
    /\ UNCHANGED <<setting, db, file, written, sound, torn>>

-----------------------------------------------------------------------------
(* Restarts. *)

\* Some request is in save(), or in the one of a starting server.
Saving(p) ==
    \/ up[p] = "starting"
    \/ \E r \in Request :
        \/ Home[r] = p /\ req[r].pc \in {"save", "reply"}
        \/ req[r].peer = p /\ req[r].pc = "call"

Stop(p) ==
    /\ up[p] # "down"
    /\ up' = [up EXCEPT ![p] = "down"]
    /\ db' = [db EXCEPT ![p] = NoSecrets]
    /\ \/ UNCHANGED file
       \/ Saving(p) /\ file' = [file EXCEPT ![p] = Torn]
    /\ req' = [r \in Request |->
                 IF Home[r] = p THEN Idle
                 ELSE IF req[r].peer = p /\ req[r].pc = "respond" THEN NextPeer(req[r])
                 ELSE req[r]]
    /\ sound' = FALSE
    /\ UNCHANGED <<setting, written, acked, torn>>

Crash(p) == May("crash") /\ Stop(p)

\* The map is written while json.Marshal iterates over it: the Go runtime may
\* stop mulchd.
ConcurrentMapAccess(p) ==
    /\ \E r, q \in Request :
        /\ r # q /\ Home[r] = p /\ req[r].pc = "iterate"
        /\ \/ Home[q] = p /\ req[q].pc = "idle" /\ up[p] = "up"
           \/ Home[q] = p /\ req[q].pc = "reply"
           \/ req[q].peer = p /\ req[q].pc = "call" /\ up[p] = "up"
    /\ ~Locked(p)
    /\ Stop(p)

\* NewSecretDatabase loads the file and saves it; initSecretDB calls SyncPeers.
Start(p, r) ==
    /\ up[p] = "down" /\ Home[r] = p
    /\ file[p] # Torn
    /\ up' = [up EXCEPT ![p] = "starting"]
    /\ db' = [db EXCEPT ![p] = file[p]]
    /\ req' = [req EXCEPT ![r] = [Idle EXCEPT !.pc = "sync", !.todo = Peer \ {p}]]
    /\ UNCHANGED <<setting, file, written, acked, sound, torn>>

-----------------------------------------------------------------------------
Step(r) ==
    \/ DeleteMark(r) \/ (\E s \in Stamp : DeleteStamp(r, s))
    \/ Save(r) \/ SaveFails(r)
    \/ (\E q \in Peer : CallPeer(r, q))
    \/ Iterate(r) \/ Encode(r) \/ Handle(r) \/ Respond(r) \/ Merge(r)
    \/ CallFails(r) \/ (\E p \in Peer : MergeFails(r, p))
    \/ Finish(r)

Next ==
    \/ \E r \in Request : Step(r)
    \/ \E r \in Request, k \in Key : DeleteErase(r, k) \/ \E s \in Stamp : Set(r, k, s)
    \/ \E p \in Peer : Crash(p) \/ ConcurrentMapAccess(p) \/ \E r \in Request : Start(p, r)

Spec == Init /\ [][Next]_vars

-----------------------------------------------------------------------------
(* Properties. *)

NotBefore(e, s) == e # None /\ e.stamp >= s

(***************************************************************************)
(* A change that Set or Delete reported as done is never undone by an      *)
(* older one, be it the late answer of a peer, what another request sends, *)
(* or a restart: the server that accepted it holds it or a later one, in   *)
(* memory and in its file.                                                 *)
(***************************************************************************)
AcknowledgedKept ==
    setting.clock = "sound" =>
        \A p \in Peer : \A w \in acked[p] :
            /\ up[p] # "down" => NotBefore(db[p][w.key], w.stamp)
            /\ file[p] # Torn => NotBefore(file[p][w.key], w.stamp)

Quiet == \A p \in Peer : up[p] = "up" /\ \A r \in Request : req[r].pc = "idle"

(***************************************************************************)
(* When every request is over, and no call or server failed, the last      *)
(* change of each secret, by its date, is everywhere, whatever the order   *)
(* in which the calls of concurrent requests were served (SyncPeers and    *)
(* SyncWithDatabase), and even if the clocks differ.  It is there as it    *)
(* was made, unless a server whose clock is late deleted the secret: what  *)
(* it sent meanwhile has the date of the change and not its value, and     *)
(* the deletion, dated before, does not replace it.                        *)
(***************************************************************************)
Converged ==
    sound /\ Quiet =>
        /\ \A p \in Peer : \A w \in written :
            /\ NotBefore(db[p][w.key], w.stamp)
            /\ (setting.clock = "sound" \/ ~torn) /\ db[p][w.key].stamp = w.stamp
                  => w.live = (db[p][w.key].state = "live")
        /\ file = db

(***************************************************************************)
(* No request waits for ever: it can go on, or waits for a Delete that can *)
(* (Set, Delete and SyncPeer call the peers with the mutex released; two   *)
(* servers that kept it would block each other).                           *)
(***************************************************************************)
NoDeadlock ==
    \A r \in Request : req[r].pc # "idle" =>
        \E q \in Request : (q = r \/ req[q].pc \in {"erased", "marked"}) /\ ENABLED Step(q)

(***************************************************************************)
(* Two servers that date a secret the same hold the same: merging compares *)
(* dates only, and would never repair it.  The code does not promise it: a *)
(* crash may leave half a deletion on a peer (SecretSyncHalf.cfg).         *)
(***************************************************************************)
SameDateSameSecret ==
    Quiet => \A p, q \in Peer, k \in Key :
                NotBefore(db[p][k], 1) /\ NotBefore(db[q][k], 1)
                    /\ db[p][k].stamp = db[q][k].stamp => db[p][k] = db[q][k]

\* What a server holds, its file when it is down, as changes of the users.
Held(p) == IF up[p] # "down" THEN db[p] ELSE IF file[p] = Torn THEN NoSecrets ELSE file[p]

AsWrites(p) ==
    [k \in Key |->
        LET e == Held(p)[k] IN
        IF e = None THEN None
        ELSE [key |-> k, stamp |-> e.stamp, live |-> Deleting(p, k) \/ e.state = "live"]]

Anonymous(writes) == {[key |-> w.key, stamp |-> w.stamp, live |-> w.live] : w \in writes}

Register == INSTANCE SecretRegister WITH
    written <- Anonymous(written),
    reg <- [p \in Peer |-> AsWrites(p)],
    acked <- [p \in Peer |->
                IF up[p] = "down" /\ file[p] = Torn THEN {} ELSE Anonymous(acked[p])],
    running <- {p \in Peer : up[p] # "down"}

\* What breaks it: a secret sent while Delete was changing it, and clocks.
Excused == torn' \/ setting.clock = "skewed"

(***************************************************************************)
(* The secrets of the servers are a register: each server holds writes     *)
(* that were made, and goes back to an earlier one only when it stops,     *)
(* never before one it has acknowledged.  That is when the clocks agree,   *)
(* and until the encoding without the mutex (SyncPeer,                     *)
(* SyncSecretsController) reads a secret that Delete is changing.          *)
(***************************************************************************)
ImplementsRegister == Register!Init /\ [][Excused \/ Register!Next]_(Register!vars)

=============================================================================
