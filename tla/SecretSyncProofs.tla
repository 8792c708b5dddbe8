-------------------------- MODULE SecretSyncProofs --------------------------
(***************************************************************************)
(* The promises of the shared secrets, for any number of servers, users,   *)
(* secrets and changes, wherever calls fail and servers stop: what was     *)
(* acknowledged stays, SecretRegister is implemented, servers converge.    *)
(* Each theorem adds to the invariant of the one before.                   *)
(***************************************************************************)
EXTENDS SecretSync, FiniteSetTheorems, TLAPS

USE SyncAssumption, NoneAssumption, NoChangeAssumption

-----------------------------------------------------------------------------
(* Who refers to what, and the writes.                                     *)

\* Set and Delete date a change after those made so far, or never twice the same.
Dated ==
    /\ IsFiniteSet(written)
    /\ \A v, w \in written : v.stamp = w.stamp => v = w
    /\ setting.clock = "sound" => \A w \in written : w.stamp <= Cardinality(written)

\* An entry has the date of a change of its secret.
Made(k, e) == e # None => \E w \in written : w.key = k /\ w.stamp = e.stamp

AllMade ==
    \A k \in Key :
        /\ \A p \in Peer : Made(k, db[p][k]) /\ (file[p] # Torn => Made(k, file[p][k]))
        /\ \A r \in Request : Made(k, req[r].msg[k])

Erasing(r) == req[r].pc \in {"erased", "marked"}

Calling(r) == req[r].pc \in {"iterate", "encode", "call", "respond", "reply"}

\* A request is served by a server that runs; one Delete at a time is under the mutex.
RequestsOK ==
    \A r \in Request :
        /\ req[r].pc # "idle" => up[Home[r]] # "down"
        /\ Calling(r) => req[r].peer \in Peer
        /\ Erasing(r) =>
              /\ up[Home[r]] = "up" /\ req[r].key \in Key /\ db[Home[r]][req[r].key] # None
              /\ \A q \in Request : Erasing(q) /\ Home[q] = Home[r] => q = r

\* The server has the change, and the file too if it has been saved.
HasChange(r) ==
    LET w == req[r].change
        p == Home[r]
    IN  /\ w \in written /\ req[r].pc \notin {"idle", "erased", "marked"}
        /\ setting.clock = "sound" =>
              /\ NotBefore(db[p][w.key], w.stamp)
              /\ req[r].pc # "save" /\ file[p] # Torn => NotBefore(file[p][w.key], w.stamp)

ChangesOK == \A r \in Request : req[r].change # None => HasChange(r)

AckedOK ==
    \A p \in Peer : \A w \in acked[p] :
        /\ w \in written
        /\ setting.clock = "sound" =>
              /\ up[p] # "down" => NotBefore(db[p][w.key], w.stamp)
              /\ file[p] # Torn => NotBefore(file[p][w.key], w.stamp)

SyncIInv == TypeOK /\ Dated /\ AllMade /\ RequestsOK /\ ChangesOK /\ AckedOK

-----------------------------------------------------------------------------
\* The entry says what the change of its date was.
Faithful(k, e) ==
    e # None => /\ e.state # "empty"
                /\ \E w \in written : /\ w.key = k /\ w.stamp = e.stamp
                                      /\ w.live = (e.state = "live")

\* Delete is changing the entry of a secret that was set.
Halfway(p, k) ==
    /\ Deleting(p, k)
    /\ db[p][k] # None /\ db[p][k].state # "live"
    /\ \E w \in written : w.key = k /\ w.stamp = db[p][k].stamp /\ w.live

\* The server whose objects the message of a request is made of.
Origin(r) == IF req[r].pc = "encode" THEN Home[r] ELSE req[r].peer

MessageOK(r) ==
    \A k \in Key :
        /\ req[r].pc \in {"call", "reply"} => Faithful(k, req[r].msg[k])
        /\ req[r].pc \in {"encode", "respond"} =>
              \/ Faithful(k, req[r].msg[k])
              \/ req[r].msg[k] = db[Origin(r)][k] /\ Halfway(Origin(r), k)

AllFaithful ==
    /\ \A p \in Peer, k \in Key :
          /\ IF Deleting(p, k) THEN Halfway(p, k) ELSE Faithful(k, db[p][k])
          /\ file[p] # Torn => Faithful(k, file[p][k])
    /\ \A r \in Request : MessageOK(r)

WholeIInv == SyncIInv /\ (~torn => AllFaithful)

LEMMA SyncInitIInv == Init => SyncIInv
<1> SUFFICES ASSUME Init PROVE SyncIInv
  OBVIOUS
<1>1. NoSecrets \in Secrets /\ \A k \in Key : NoSecrets[k] = None
  BY DEF NoSecrets, Secrets
<1>2. Idle \in RequestState /\ Idle.pc = "idle" /\ Idle.change = None /\ Idle.msg = NoSecrets
  BY <1>1 DEF Idle, RequestState
<1>3. TypeOK
  BY <1>1, <1>2 DEF Init, TypeOK
<1>4. Dated
  BY FS_EmptySet DEF Init, Dated
<1>5. \A r \in Request : req[r] = Idle
  BY DEF Init
<1>6. AllMade /\ RequestsOK /\ ChangesOK /\ AckedOK
  BY <1>1, <1>2, <1>5 DEF Init, AllMade, Made, RequestsOK, Erasing, Calling, ChangesOK, AckedOK
<1> QED BY <1>3, <1>4, <1>6 DEF SyncIInv

-----------------------------------------------------------------------------
(* Steps of requests that make no change: they send what a server has, and *)
(* merge it on another.                                                    *)

\* The messages of requests are entries of a server, encoded before they leave.
Sends(r, x, p) ==
    /\ \A k \in Key : x.msg[k] \in {req[r].msg[k], None} \cup {db[q][k] : q \in Peer}
    /\ x.pc \in {"iterate", "encode", "call", "respond", "reply"} => x.peer \in Peer
    /\ x.pc = "encode" => x.msg = db[Home[r]]
    /\ x.pc \in {"call", "reply"} =>
          /\ req[r].pc \in {"encode", "respond"} /\ x.msg = req[r].msg
          /\ torn' \/ \A k \in Key : ~Half(k, x.msg[k])
    /\ x.pc = "respond" => ~Locked(p) /\ \A k \in Key : x.msg[k] \in {db[p][k], None}

\* Request r becomes x; server p may merge its message, and write its file.
Serves(r, x, p) ==
    /\ req' = [req EXCEPT ![r] = x] /\ x \in RequestState
    /\ UNCHANGED <<setting, up, written, acked>>
    /\ p \in Peer /\ up[p] # "down"
    /\ \/ db' = db
       \/ /\ req[r].pc \in {"call", "reply"} /\ ~Locked(p)
          /\ db' = [db EXCEPT ![p] = Merged(db[p], req[r].msg)]
    /\ file' \in [Peer -> Secrets \cup {Torn}] /\ sound' \in BOOLEAN /\ torn' \in BOOLEAN
    /\ \A q \in Peer : \/ file'[q] = file[q]
                       \/ q = p /\ file'[q] = Torn
                       \/ q = p /\ ~Locked(p) /\ file'[q] = db'[q]
    /\ torn => torn'
    /\ ~Erasing(r) /\ x.pc \notin {"erased", "marked"}
    /\ req[r].pc # "idle"
    /\ x.change # None =>
          /\ x.change = req[r].change /\ x.pc \notin {"idle", "save"}
          /\ req[r].pc = "save" => p = Home[r] /\ file'[p] = db'[p]
    /\ Sends(r, x, p)

\* Merging leaves later entries, of one of the two maps.
LEMMA MergedLater ==
    ASSUME NEW my \in Secrets, NEW other \in Secrets
    PROVE  /\ Merged(my, other) \in Secrets /\ Newer(my, other) \in Secrets
           /\ \A k \in Key :
                 /\ Merged(my, other)[k] \in {my[k], other[k]}
                 /\ my[k] # None => /\ Merged(my, other)[k] # None
                                    /\ Merged(my, other)[k].stamp >= my[k].stamp
                 /\ Newer(my, other)[k] \in {my[k], None}
<1>1. \A k \in Key : my[k] \in Secret \cup {None} /\ other[k] \in Secret \cup {None}
  BY DEF Secrets
<1>2. \A e \in Secret : e.stamp \in Nat
  BY DEF Secret, Stamp
<1> QED BY <1>1, <1>2 DEF Merged, Newer, Later, Secrets

\* What was acknowledged stays, and so do the changes of the requests that go on.
LEMMA GrowthKeeps ==
    ASSUME SyncIInv, TypeOK', setting' = setting, up' = up, acked' = acked,
           written \subseteq written',
           setting.clock = "sound" =>
              \A p \in Peer, k \in Key : db[p][k] # None =>
                 db'[p][k] # None /\ db'[p][k].stamp >= db[p][k].stamp,
           \A p \in Peer : \/ file'[p] \in {file[p], Torn}
                           \/ up[p] # "down" /\ file'[p] = db'[p]
    PROVE  /\ AckedOK'
           /\ \A r \in Request :
                 /\ req'[r].change = req[r].change /\ req[r].change # None
                 /\ req'[r].pc \notin {"idle", "erased", "marked"}
                 /\ \/ req'[r].pc = "save" \/ req[r].pc # "save"
                    \/ file'[Home[r]] = db'[Home[r]]
                 => HasChange(r)'
<1>1. \A w \in written : w.key \in Key /\ w.stamp \in Nat
  BY DEF SyncIInv, TypeOK, Write, Stamp
<1>2. \A p \in Peer, k \in Key : /\ db[p][k] \in Secret \cup {None}
                                 /\ db'[p][k] \in Secret \cup {None}
  BY DEF SyncIInv, TypeOK, Secrets
<1>3. \A e \in Secret : e.stamp \in Nat
  BY DEF Secret, Stamp
<1>4. setting.clock = "sound" =>
         \A p \in Peer : \A w \in written :
            NotBefore(db[p][w.key], w.stamp) => NotBefore(db'[p][w.key], w.stamp)
  BY <1>1, <1>2, <1>3 DEF NotBefore
<1>5. AckedOK'
  <2> SUFFICES ASSUME NEW p \in Peer, NEW w \in acked[p]
               PROVE  /\ w \in written'
                      /\ setting.clock = "sound" =>
                            /\ up[p] # "down" => NotBefore(db'[p][w.key], w.stamp)
                            /\ file'[p] # Torn => NotBefore(file'[p][w.key], w.stamp)
    BY DEF AckedOK
  <2>1. /\ w \in written
        /\ setting.clock = "sound" =>
              /\ up[p] # "down" => NotBefore(db[p][w.key], w.stamp)
              /\ file[p] # Torn => NotBefore(file[p][w.key], w.stamp)
    BY DEF SyncIInv, AckedOK
  <2> QED BY <1>4, <2>1
<1>6. ASSUME NEW r \in Request,
             req'[r].change = req[r].change, req[r].change # None,
             req'[r].pc \notin {"idle", "erased", "marked"},
             \/ req'[r].pc = "save" \/ req[r].pc # "save"
             \/ file'[Home[r]] = db'[Home[r]]
      PROVE  HasChange(r)'
  <2>1. PICK w : w = req[r].change
    OBVIOUS
  <2>2. /\ w \in written /\ Home[r] \in Peer
        /\ req[r].pc # "idle" /\ up[Home[r]] # "down"
        /\ setting.clock = "sound" =>
              /\ NotBefore(db[Home[r]][w.key], w.stamp)
              /\ req[r].pc # "save" /\ file[Home[r]] # Torn
                 => NotBefore(file[Home[r]][w.key], w.stamp)
    BY <1>6, <2>1 DEF SyncIInv, ChangesOK, HasChange, RequestsOK
  <2> QED BY <1>4, <1>6, <2>1, <2>2 DEF HasChange
<1> QED BY <1>5, <1>6

\* The server that merges only gets later entries.
LEMMA ServesGrows ==
    ASSUME TypeOK, NEW r \in Request, NEW x, NEW p, Serves(r, x, p)
    PROVE  /\ db' \in [Peer -> Secrets]
           /\ \A q \in Peer \ {p} : db'[q] = db[q]
           /\ \A q \in Peer, k \in Key :
                 /\ db'[q][k] \in {db[q][k], req[r].msg[k]}
                 /\ db[q][k] # None => db'[q][k] # None /\ db'[q][k].stamp >= db[q][k].stamp
<1>0. /\ TypeOK /\ req[r].msg \in Secrets /\ db[p] \in Secrets /\ p \in Peer
  BY DEF TypeOK, RequestState, Serves
<1>1. CASE db' = db
  <2>1. \A q \in Peer, k \in Key : db[q][k] # None => db[q][k].stamp \in Nat
    BY <1>0 DEF TypeOK, Secrets, Secret, Stamp
  <2> QED BY <1>0, <1>1, <2>1 DEF TypeOK
<1>2. CASE db' = [db EXCEPT ![p] = Merged(db[p], req[r].msg)]
  <2>1. \A q \in Peer, k \in Key : db[q][k] # None => db[q][k].stamp \in Nat
    BY <1>0 DEF TypeOK, Secrets, Secret, Stamp
  <2>2. \A q \in Peer \ {p} : db'[q] = db[q]
    BY <1>0, <1>2 DEF TypeOK
  <2>3. db'[p] = Merged(db[p], req[r].msg)
    BY <1>0, <1>2 DEF TypeOK, Serves
  <2>4. db' \in [Peer -> Secrets]
    BY <1>0, <1>2, MergedLater DEF TypeOK
  <2> QED BY <1>0, <2>1, <2>2, <2>3, <2>4, MergedLater
<1> QED BY <1>1, <1>2 DEF Serves

LEMMA ServesKeeps ==
    ASSUME SyncIInv, NEW r \in Request, NEW x, NEW p, Serves(r, x, p)
    PROVE  SyncIInv'
<1>0. /\ TypeOK /\ Dated /\ AllMade /\ RequestsOK /\ ChangesOK /\ AckedOK
      /\ req[r] \in RequestState /\ req[r].msg \in Secrets /\ db[p] \in Secrets
  BY DEF SyncIInv, TypeOK, RequestState, Serves
<1>1. /\ req'[r] = x /\ \A q \in Request \ {r} : req'[q] = req[q]
      /\ req' \in [Request -> RequestState]
      /\ UNCHANGED <<setting, up, written, acked>>
  BY <1>0 DEF Serves, TypeOK
<1>2. /\ db' \in [Peer -> Secrets]
      /\ \A q \in Peer, k \in Key : /\ db'[q][k] \in {db[q][k], req[r].msg[k]}
                                    /\ db[q][k] # None => /\ db'[q][k] # None
                                                          /\ db'[q][k].stamp >= db[q][k].stamp
  BY <1>0, ServesGrows
<1>3. file' \in [Peer -> Secrets \cup {Torn}] /\ p \in Peer
      /\ \A q \in Peer : \/ file'[q] \in {file[q], Torn}
                         \/ (q = p /\ up[p] # "down" /\ file'[q] = db'[q])
  BY DEF Serves
<1>4. TypeOK'
  BY <1>0, <1>1, <1>2, <1>3 DEF TypeOK, Serves
<1>5. Dated'
  BY <1>0, <1>1 DEF Dated
<1>6. \A k, e : Made(k, e)' = Made(k, e)
  BY <1>1 DEF Made
<1>7. AllMade'
  <2>1. \A k \in Key, q \in Peer : Made(k, db'[q][k])
    BY <1>0, <1>2 DEF AllMade
  <2>2. \A k \in Key : Made(k, x.msg[k])
    BY <1>0 DEF AllMade, Serves, Sends, Made
  <2>3. \A k \in Key, q \in Peer : file'[q] # Torn => Made(k, file'[q][k])
    BY <1>0, <1>3, <2>1 DEF AllMade
  <2> QED BY <1>0, <1>1, <1>6, <2>1, <2>2, <2>3 DEF AllMade
<1>8. RequestsOK'
  <2>1. ~Erasing(r) /\ ~Erasing(r)' /\ req[r].pc # "idle" /\ (Calling(r)' => req'[r].peer \in Peer)
    BY <1>1 DEF Serves, Sends, Erasing, Calling
  <2>2. \A q \in Request \ {r} : Erasing(q)' = Erasing(q) /\ Calling(q)' = Calling(q)
    BY <1>1 DEF Erasing, Calling
  <2> QED BY <1>0, <1>1, <1>2, <2>1, <2>2 DEF RequestsOK, TypeOK
<1>9. AckedOK' /\ ChangesOK'
  <2>1. /\ AckedOK'
        /\ \A q \in Request :
              /\ req'[q].change = req[q].change /\ req[q].change # None
              /\ req'[q].pc \notin {"idle", "erased", "marked"}
              /\ \/ req'[q].pc = "save" \/ req[q].pc # "save"
                 \/ file'[Home[q]] = db'[Home[q]]
              => HasChange(q)'
    BY <1>1, <1>2, <1>3, <1>4, GrowthKeeps
  <2>2. \A q \in Request \ {r} : req'[q].change # None => HasChange(q)'
    <3> SUFFICES ASSUME NEW q \in Request \ {r}, req'[q].change # None PROVE HasChange(q)'
      OBVIOUS
    <3>1. req'[q] = req[q] /\ HasChange(q)
      BY <1>0, <1>1 DEF ChangesOK
    <3> QED BY <2>1, <3>1 DEF HasChange
  <2>3. req'[r].change # None => HasChange(r)'
    BY <1>1, <2>1 DEF Serves
  <2> QED BY <2>1, <2>2, <2>3 DEF ChangesOK
<1> QED BY <1>4, <1>5, <1>7, <1>8, <1>9 DEF SyncIInv

\* What is known of a request that is served.
LEMMA Served ==
    ASSUME SyncIInv, NEW r \in Request, req[r].pc # "idle"
    PROVE  /\ req[r] \in RequestState /\ req[r].msg \in Secrets /\ Home[r] \in Peer
           /\ up[Home[r]] # "down" /\ (Calling(r) => req[r].peer \in Peer)
           /\ db \in [Peer -> Secrets] /\ file \in [Peer -> Secrets \cup {Torn}]
           /\ sound \in BOOLEAN /\ torn \in BOOLEAN
BY DEF SyncIInv, TypeOK, RequestState, RequestsOK

\* Save and its failure.
LEMMA SaveServes ==
    ASSUME SyncIInv, NEW r \in Request, Save(r) \/ SaveFails(r)
    PROVE  \E x, p : Serves(r, x, p)
<1>1. req[r].pc = "save"
  BY DEF Save, SaveFails
<1>2. Idle \in RequestState /\ Idle.pc = "idle" /\ Idle.change = None /\ Idle.msg = NoSecrets
  BY DEF Idle, RequestState, NoSecrets, Secrets
<1>3. CASE Save(r)
  <2>1. PICK x : x = [req[r] EXCEPT !.pc = "sync", !.todo = Peer \ {Home[r]}]
    OBVIOUS
  <2>2. /\ x \in RequestState /\ x.pc = "sync" /\ x.msg = req[r].msg /\ x.change = req[r].change
    BY <1>1, <2>1, Served DEF RequestState
  <2>3. Serves(r, x, Home[r])
    BY <1>1, <1>3, <2>1, <2>2, Served DEF Save, Serves, Sends, Erasing
  <2> QED BY <2>3
<1>4. CASE SaveFails(r)
  <2>1. PICK f \in {file[Home[r]], Torn} : file' = [file EXCEPT ![Home[r]] = f]
    BY <1>4 DEF SaveFails, FileAfterError
  <2>2. /\ file' \in [Peer -> Secrets \cup {Torn}]
        /\ \A q \in Peer : file'[q] = file[q] \/ (q = Home[r] /\ file'[q] = Torn)
    BY <1>1, <2>1, Served
  <2>3. /\ req' = [req EXCEPT ![r] = Idle] /\ sound' = FALSE
        /\ UNCHANGED <<setting, db, up, written, acked, torn>>
    BY <1>4 DEF SaveFails
  <2>4. \A k \in Key : Idle.msg[k] = None
    BY <1>2 DEF NoSecrets
  <2>5. Sends(r, Idle, Home[r])
    BY <1>2, <2>4 DEF Sends
  <2>6. Serves(r, Idle, Home[r])
    BY <1>1, <1>2, <2>2, <2>3, <2>5, Served DEF Serves, Erasing
  <2> QED BY <2>6
<1> QED BY <1>3, <1>4

LEMMA EncodedTorn ==
    ASSUME NEW msg, torn \in BOOLEAN, Encoded(msg)
    PROVE  torn' \in BOOLEAN /\ (torn => torn') /\ (torn' \/ \A k \in Key : ~Half(k, msg[k]))
<1>1. CASE \E k \in Key : Half(k, msg[k])
  BY <1>1 DEF Encoded
<1>2. CASE ~\E k \in Key : Half(k, msg[k])
  BY <1>2 DEF Encoded
<1> QED BY <1>1, <1>2

\* CallPeer, and the encodings.
LEMMA SendServes ==
    ASSUME SyncIInv, NEW r \in Request,
           (\E q \in Peer : CallPeer(r, q)) \/ Iterate(r) \/ Encode(r) \/ Respond(r)
    PROVE  \E x, p : Serves(r, x, p)
<1>1. req[r].pc \in {"sync", "iterate", "encode", "respond"} /\ req[r].pc # "idle"
  BY DEF CallPeer, Iterate, Encode, Respond
<1>2. PICK x : req' = [req EXCEPT ![r] = x]
               /\ \/ \E q \in Peer : x = [req[r] EXCEPT !.pc = "iterate", !.peer = q]
                  \/ /\ req[r].pc = "iterate"
                     /\ x = [req[r] EXCEPT !.pc = "encode", !.msg = db[Home[r]]]
                  \/ /\ req[r].pc = "encode" /\ x = [req[r] EXCEPT !.pc = "call"]
                     /\ Encoded(req[r].msg)
                  \/ /\ req[r].pc = "respond" /\ x = [req[r] EXCEPT !.pc = "reply"]
                     /\ Encoded(req[r].msg)
  BY DEF CallPeer, Iterate, Encode, Respond
<1>3. /\ x \in RequestState /\ x.pc \in {"iterate", "encode", "call", "reply"}
      /\ x.change = req[r].change /\ x.peer \in Peer
      /\ x.msg = req[r].msg \/ x.msg = db[Home[r]]
  <2>1. req[r] \in RequestState /\ Home[r] \in Peer /\ db[Home[r]] \in Secrets
    BY <1>1, Served
  <2>2. req[r].pc # "sync" => req[r].peer \in Peer
    BY <1>1, Served DEF Calling
  <2>3. ASSUME NEW q \in Peer, x = [req[r] EXCEPT !.pc = "iterate", !.peer = q]
        PROVE  x \in RequestState /\ x.pc = "iterate" /\ x.change = req[r].change
               /\ x.peer = q /\ x.msg = req[r].msg
    BY <2>1, <2>3 DEF RequestState
  <2>4. CASE x = [req[r] EXCEPT !.pc = "encode", !.msg = db[Home[r]]]
    BY <1>1, <1>2, <2>1, <2>2, <2>4 DEF RequestState
  <2>5. CASE x = [req[r] EXCEPT !.pc = "call"] \/ x = [req[r] EXCEPT !.pc = "reply"]
    BY <1>1, <1>2, <2>1, <2>2, <2>5 DEF RequestState
  <2> QED BY <1>2, <2>3, <2>4, <2>5
<1>4. \A k \in Key : x.msg[k] \in {req[r].msg[k], None} \cup {db[q][k] : q \in Peer}
  BY <1>1, <1>3, Served
<1>5. UNCHANGED <<setting, up, written, acked, db, file>> /\ sound' \in BOOLEAN
      /\ (Encoded(req[r].msg) \/ torn' = torn)
  BY <1>1, Served DEF CallPeer, Iterate, Encode, Respond
<1>6. torn' \in BOOLEAN /\ (torn => torn')
  BY <1>1, <1>5, Served, EncodedTorn
<1>7. /\ x.pc = "encode" => x.msg = db[Home[r]]
      /\ x.pc \in {"call", "reply"} =>
            /\ req[r].pc \in {"encode", "respond"} /\ x.msg = req[r].msg /\ Encoded(req[r].msg)
      /\ x.pc # "respond"
  BY <1>1, <1>2, Served DEF RequestState
<1>8. x.pc \in {"call", "reply"} => torn' \/ \A k \in Key : ~Half(k, x.msg[k])
  BY <1>1, <1>7, Served, EncodedTorn
<1>9. Sends(r, x, Home[r])
  BY <1>3, <1>4, <1>7, <1>8 DEF Sends
<1>10. file' \in [Peer -> Secrets \cup {Torn}] /\ \A q \in Peer : file'[q] = file[q]
  BY <1>1, <1>5, Served
<1>11. Serves(r, x, Home[r])
  BY <1>1, <1>2, <1>3, <1>5, <1>6, <1>9, <1>10, Served DEF Serves, Erasing
<1> QED BY <1>11

\* The end of a call.
LEMMA NextPeerServes ==
    ASSUME SyncIInv, NEW r \in Request, req[r].pc \in {"call", "respond", "reply"}
    PROVE  LET x == NextPeer(req[r])
           IN  /\ x \in RequestState /\ x.pc = "sync" /\ x.change = req[r].change
               /\ x.msg = NoSecrets /\ \A k \in Key : x.msg[k] = None
<1>1. NoSecrets \in Secrets
  BY DEF NoSecrets, Secrets
<1> QED BY <1>1, Served DEF NextPeer, RequestState, NoSecrets

\* Handle, Merge, and their failures.
LEMMA MergeServes ==
    ASSUME SyncIInv, NEW r \in Request,
           Handle(r) \/ Merge(r) \/ CallFails(r) \/ \E p \in Peer : MergeFails(r, p)
    PROVE  \E x, p : Serves(r, x, p)
<1>1. req[r].pc \in {"call", "respond", "reply"} /\ req[r].pc # "idle"
  BY DEF Handle, Merge, CallFails, MergeFails
<1>2. req[r].peer \in Peer /\ Home[r] \in Peer /\ ~Erasing(r)
  BY <1>1, Served DEF Calling, Erasing
<1>3. PICK next : next = NextPeer(req[r])
  OBVIOUS
<1>4. /\ next \in RequestState /\ next.pc = "sync" /\ next.change = req[r].change
      /\ \A k \in Key : next.msg[k] = None
  BY <1>1, <1>3, NextPeerServes
<1>5. CASE Handle(r)
  <2>1. PICK x : x = [req[r] EXCEPT !.pc = "respond", !.msg = Newer(db[req[r].peer], req[r].msg)]
    OBVIOUS
  <2>2. /\ db[req[r].peer] \in Secrets /\ req[r].msg \in Secrets
        /\ Merged(db[req[r].peer], req[r].msg) \in Secrets
        /\ Newer(db[req[r].peer], req[r].msg) \in Secrets
        /\ \A k \in Key : Newer(db[req[r].peer], req[r].msg)[k] \in {db[req[r].peer][k], None}
    BY <1>1, <1>2, Served, MergedLater
  <2>3. /\ x \in RequestState /\ x.pc = "respond"
        /\ x.change = req[r].change /\ x.peer = req[r].peer
        /\ x.msg = Newer(db[req[r].peer], req[r].msg)
    BY <1>1, <2>1, <2>2, Served DEF RequestState
  <2>4. /\ req[r].pc = "call"
        /\ req' = [req EXCEPT ![r] = x] /\ ~Locked(req[r].peer) /\ up[req[r].peer] = "up"
        /\ db' = [db EXCEPT ![req[r].peer] = Merged(db[req[r].peer], req[r].msg)]
        /\ file' = [file EXCEPT ![req[r].peer] = db'[req[r].peer]]
        /\ UNCHANGED <<setting, up, written, acked, sound, torn>>
    BY <1>5, <2>1 DEF Handle
  <2>5. file' \in [Peer -> Secrets \cup {Torn}] /\ db'[req[r].peer] \in Secrets
    BY <1>1, <1>2, <2>2, <2>4, Served
  <2>6. Sends(r, x, req[r].peer)
    BY <1>2, <2>2, <2>3, <2>4 DEF Sends
  <2>7. \A q \in Peer : file'[q] = file[q] \/ (q = req[r].peer /\ file'[q] = db'[q])
    BY <1>1, <1>2, <2>4, <2>5, Served
  <2>8. sound' \in BOOLEAN /\ torn' \in BOOLEAN /\ (torn => torn')
    BY <1>1, <2>4, Served
  <2>9. Serves(r, x, req[r].peer)
    BY <1>2, <2>3, <2>4, <2>5, <2>6, <2>7, <2>8 DEF Serves
  <2> QED BY <2>9
<1>6. ASSUME NEW p \in Peer, up[p] # "down", ~Locked(p),
             req' = [req EXCEPT ![r] = next], req[r].pc \in {"call", "reply"},
             db' = [db EXCEPT ![p] = Merged(db[p], req[r].msg)],
             UNCHANGED <<setting, up, written, acked, torn>>, sound' \in BOOLEAN,
             \E f \in {db'[p], file[p], Torn} : file' = [file EXCEPT ![p] = f]
      PROVE  Serves(r, next, p)
  <2>1. db'[p] \in Secrets
    BY <1>1, <1>6, Served, MergedLater
  <2>2. /\ file' \in [Peer -> Secrets \cup {Torn}]
        /\ \A q \in Peer : file'[q] = file[q] \/ (q = p /\ file'[q] \in {Torn, db'[q]})
    BY <1>1, <1>6, <2>1, Served
  <2>3. Sends(r, next, p)
    BY <1>4 DEF Sends
  <2> QED BY <1>1, <1>2, <1>4, <1>6, <2>2, <2>3, Served DEF Serves
<1>7. CASE Merge(r)
  BY <1>1, <1>2, <1>3, <1>6, <1>7, Served DEF Merge
<1>8. ASSUME NEW p \in Peer, MergeFails(r, p)
      PROVE  Serves(r, next, p)
  BY <1>1, <1>2, <1>3, <1>6, <1>8, Served DEF MergeFails, FileAfterError
<1>9. CASE CallFails(r)
  <2>1. Serves(r, next, Home[r])
    BY <1>1, <1>2, <1>3, <1>4, <1>9, Served DEF CallFails, Serves, Sends
  <2> QED BY <2>1
<1> QED BY <1>5, <1>7, <1>8, <1>9

-----------------------------------------------------------------------------
(* Steps of Set and Delete.                                                *)

\* The change of a request is new, and dated as the entry.
New(w, k, e) ==
    /\ w \in Write /\ w.key = k /\ w.stamp = e.stamp /\ written' = written \cup {w}
    /\ \A v \in written : v.stamp # w.stamp /\ (v.by = w.by => v.stamp < w.stamp)
    /\ setting.clock = "sound" => w.stamp = Cardinality(written) + 1

\* Request r becomes x, and the entry of secret k of its server becomes e, in the messages
\* that share it too.
Puts(r, k, e, x) ==
    /\ k \in Key /\ e \in Secret /\ up[Home[r]] = "up"
    /\ \A q \in Request : Erasing(q) /\ Home[q] = Home[r] => q = r
    /\ req[r].pc \in {"idle", "erased", "marked"} /\ (Erasing(r) => req[r].key = k)
    /\ x \in RequestState /\ x.key = k /\ x.msg = req[r].msg
    /\ \/ /\ x.pc \in {"erased", "marked"} /\ x.change = None /\ UNCHANGED written
          /\ db[Home[r]][k] # None /\ e.stamp = db[Home[r]][k].stamp /\ e.state # "live"
          /\ Deleting(Home[r], k) \/ db[Home[r]][k].state # "deleted"
       \/ x.pc = "save" /\ New(x.change, k, e) /\ e.state # "empty"
          /\ x.change.live = (e.state = "live") /\ x.change.by = Home[r]
    /\ db' = [db EXCEPT ![Home[r]][k] = e]
    /\ req' = [q \in Request |-> req'[q]] /\ req'[r] = x
    /\ \A q \in Request \ {r} :
          \/ req'[q] = req[q] /\ ~(Shares(q, Home[r], k) /\ Deleting(Home[r], k))
          \/ Shares(q, Home[r], k) /\ req'[q] = [req[q] EXCEPT !.msg[k] = e]
    /\ UNCHANGED <<setting, file, up, acked, sound, torn>>

\* A change in place: the entry in the database and in the messages that share it.
LEMMA Placed ==
    ASSUME TypeOK, NEW r \in Request, NEW k, NEW e, NEW x, Puts(r, k, e, x)
    PROVE  /\ Home[r] \in Peer /\ db' \in [Peer -> Secrets]
           /\ db'[Home[r]][k] = e
           /\ \A p \in Peer, l \in Key : <<p, l>> # <<Home[r], k>> => db'[p][l] = db[p][l]
           /\ req' \in [Request -> RequestState]
           /\ \A q \in Request \ {r} :
                 /\ \A l \in Key \ {k} : req'[q].msg[l] = req[q].msg[l]
                 /\ req'[q].msg[k] = req[q].msg[k] \/ (Shares(q, Home[r], k) /\ req'[q].msg[k] = e)
                 /\ req'[q].pc = req[q].pc /\ req'[q].peer = req[q].peer
                 /\ req'[q].key = req[q].key /\ req'[q].change = req[q].change
<1>1. Home[r] \in Peer /\ k \in Key /\ e \in Secret /\ db[Home[r]] \in Secrets
  BY DEF TypeOK, Puts
<1>2. PICK m : m = [db[Home[r]] EXCEPT ![k] = e]
  OBVIOUS
<1>3. /\ m \in Secrets /\ m[k] = e /\ \A l \in Key \ {k} : m[l] = db[Home[r]][l]
      /\ db' = [db EXCEPT ![Home[r]] = m]
  BY <1>1, <1>2 DEF Secrets, Puts
<1>4. /\ db' \in [Peer -> Secrets] /\ db'[Home[r]] = m
      /\ \A p \in Peer \ {Home[r]} : db'[p] = db[p]
  BY <1>1, <1>3 DEF TypeOK
<1>5. ASSUME NEW q \in Request \ {r}
      PROVE  /\ req'[q] \in RequestState
             /\ \A l \in Key \ {k} : req'[q].msg[l] = req[q].msg[l]
             /\ req'[q].msg[k] = req[q].msg[k] \/ (Shares(q, Home[r], k) /\ req'[q].msg[k] = e)
             /\ req'[q].pc = req[q].pc /\ req'[q].peer = req[q].peer
             /\ req'[q].key = req[q].key /\ req'[q].change = req[q].change
  <2>1. req[q] \in RequestState
    BY DEF TypeOK
  <2>2. CASE req'[q] = req[q]
    BY <2>1, <2>2
  <2>3. CASE Shares(q, Home[r], k) /\ req'[q] = [req[q] EXCEPT !.msg[k] = e]
    <3>1. PICK n : n = [req[q].msg EXCEPT ![k] = e]
      OBVIOUS
    <3>2. n \in Secrets /\ n[k] = e /\ \A l \in Key \ {k} : n[l] = req[q].msg[l]
      BY <1>1, <2>1, <3>1 DEF RequestState, Secrets
    <3>3. req'[q] = [req[q] EXCEPT !.msg = n]
      BY <2>1, <2>3, <3>1 DEF RequestState
    <3> QED BY <2>1, <2>3, <3>2, <3>3 DEF RequestState
  <2> QED BY <2>2, <2>3 DEF Puts
<1>6. req'[r] \in RequestState /\ req' = [q \in Request |-> req'[q]]
  BY DEF Puts
<1>7. req' \in [Request -> RequestState]
  BY <1>5, <1>6
<1> QED BY <1>1, <1>3, <1>4, <1>5, <1>7

LEMMA PutsKeeps ==
    ASSUME SyncIInv, NEW r \in Request, NEW k, NEW e, NEW x, Puts(r, k, e, x)
    PROVE  SyncIInv'
<1>0. /\ TypeOK /\ Dated /\ AllMade /\ RequestsOK /\ ChangesOK /\ AckedOK
      /\ k \in Key /\ e \in Secret /\ Home[r] \in Peer /\ up[Home[r]] = "up"
      /\ x.pc \in {"erased", "marked", "save"} /\ req'[r] = x
      /\ UNCHANGED <<setting, file, up, acked, sound, torn>>
  BY DEF SyncIInv, Puts
<1>1. /\ db' \in [Peer -> Secrets] /\ db'[Home[r]][k] = e
      /\ \A p \in Peer, l \in Key : <<p, l>> # <<Home[r], k>> => db'[p][l] = db[p][l]
      /\ req' \in [Request -> RequestState]
      /\ \A q \in Request \ {r} :
            /\ \A l \in Key \ {k} : req'[q].msg[l] = req[q].msg[l]
            /\ req'[q].msg[k] = req[q].msg[k] \/ (Shares(q, Home[r], k) /\ req'[q].msg[k] = e)
            /\ req'[q].pc = req[q].pc /\ req'[q].peer = req[q].peer
            /\ req'[q].key = req[q].key /\ req'[q].change = req[q].change
  BY <1>0, Placed
<1>2. /\ written \subseteq written' /\ written' \subseteq Write
      /\ x.change # None => /\ x.pc = "save" /\ New(x.change, k, e)
      /\ x.change = None => written' = written
  BY <1>0 DEF Puts, New, TypeOK
<1>3. TypeOK'
  BY <1>0, <1>1, <1>2 DEF TypeOK
<1>4. Dated'
  <2>1. CASE written' = written
    BY <1>0, <2>1 DEF Dated
  <2>2. CASE New(x.change, k, e)
    <3>1. PICK w : w = x.change
      OBVIOUS
    <3>2. /\ w \in Write /\ w \notin written /\ written' = written \cup {w}
          /\ \A v \in written : v.stamp # w.stamp
          /\ setting.clock = "sound" => w.stamp = Cardinality(written) + 1
      BY <2>2, <3>1 DEF New
    <3>3. IsFiniteSet(written') /\ Cardinality(written') = Cardinality(written) + 1
          /\ Cardinality(written) \in Nat
      BY <1>0, <3>2, FS_AddElement, FS_CardinalityType DEF Dated
    <3>4. \A v \in written : v.stamp \in Nat
      BY <1>0 DEF TypeOK, Write, Stamp
    <3>5. \A u, v \in written' : u.stamp = v.stamp => u = v
      BY <1>0, <3>2 DEF Dated
    <3>6. setting.clock = "sound" => \A v \in written' : v.stamp <= Cardinality(written')
      BY <1>0, <3>2, <3>3, <3>4 DEF Dated
    <3> QED BY <1>0, <3>3, <3>5, <3>6 DEF Dated
  <2> QED BY <1>2, <2>1, <2>2
<1>5. \A l, f : Made(l, f) => Made(l, f)'
  BY <1>2 DEF Made
<1>6. Made(k, e)'
  <2>1. CASE x.change = None
    <3>1. Made(k, db[Home[r]][k]) /\ db[Home[r]][k] # None /\ e.stamp = db[Home[r]][k].stamp
      BY <1>0, <2>1 DEF AllMade, Puts, New
    <3> QED BY <1>2, <3>1 DEF Made
  <2>2. CASE x.change # None
    BY <1>2, <2>2 DEF New, Made
  <2> QED BY <2>1, <2>2
<1>7. AllMade'
  <2>1. ASSUME NEW p \in Peer, NEW l \in Key
        PROVE  Made(l, db[p][l])' /\ (file[p] # Torn => Made(l, file[p][l]))'
    <3>1. PICK f : f = db'[p][l]
      OBVIOUS
    <3>2. Made(l, f)'
      BY <1>0, <1>1, <1>5, <1>6, <3>1 DEF AllMade
    <3>3. file'[p] = file[p] /\ (file[p] # Torn => Made(l, file[p][l]))
      BY <1>0 DEF AllMade
    <3>4. PICK g : g = file'[p][l]
      OBVIOUS
    <3>5. file[p] # Torn => Made(l, g)'
      BY <1>5, <3>3, <3>4
    <3> QED BY <3>1, <3>2, <3>3, <3>4, <3>5 DEF Made
  <2>2. ASSUME NEW q \in Request, NEW l \in Key
        PROVE  Made(l, req[q].msg[l])'
    <3>1. req'[q].msg[l] = req[q].msg[l] \/ (l = k /\ req'[q].msg[l] = e)
      BY <1>0, <1>1 DEF Puts
    <3>2. PICK f : f = req'[q].msg[l]
      OBVIOUS
    <3>3. Made(l, f)'
      BY <1>0, <1>5, <1>6, <3>1, <3>2 DEF AllMade
    <3> QED BY <3>2, <3>3 DEF Made
  <2> QED BY <2>1, <2>2 DEF AllMade
<1>8. RequestsOK'
  <2>1. Erasing(r)' => db'[Home[r]][k] # None /\ req'[r].key = k
    BY <1>0, <1>1 DEF Puts
  <2>2. /\ ~Calling(r)'
        /\ \A q \in Request \ {r} : Calling(q)' = Calling(q) /\ Erasing(q)' = Erasing(q)
    BY <1>0, <1>1 DEF Calling, Erasing
  <2>3. \A q \in Request \ {r} : Home[q] = Home[r] => ~Erasing(q)
    BY DEF Puts
  <2> QED BY <1>0, <1>1, <2>1, <2>2, <2>3 DEF RequestsOK, TypeOK
<1>9. AckedOK' /\ ChangesOK'
  <2>1. setting.clock = "sound" =>
           \A p \in Peer, l \in Key : db[p][l] # None =>
              db'[p][l] # None /\ db'[p][l].stamp >= db[p][l].stamp
    <3> SUFFICES ASSUME setting.clock = "sound", NEW p \in Peer, NEW l \in Key, db[p][l] # None
                 PROVE  db'[p][l] # None /\ db'[p][l].stamp >= db[p][l].stamp
      OBVIOUS
    <3>1. db[p][l].stamp \in Nat
      BY <1>0 DEF TypeOK, Secrets, Secret, Stamp
    <3>2. CASE ~(p = Home[r] /\ l = k)
      BY <1>1, <3>1, <3>2
    <3>3. CASE p = Home[r] /\ l = k
      <4>1. db'[p][l] = e /\ e # None
        BY <1>0, <1>1, <3>3
      <4>2. PICK v \in written : v.stamp = db[p][l].stamp
        BY <1>0 DEF AllMade, Made
      <4>3. v.stamp <= Cardinality(written) /\ Cardinality(written) \in Nat
        BY <1>0, FS_CardinalityType DEF Dated
      <4>4. CASE x.change = None
        BY <1>0, <3>1, <3>3, <4>1, <4>4 DEF Puts, New
      <4>5. CASE x.change # None
        BY <1>2, <3>1, <4>1, <4>2, <4>3, <4>5 DEF New
      <4> QED BY <4>4, <4>5
    <3> QED BY <3>2, <3>3
  <2>2. /\ AckedOK'
        /\ \A q \in Request :
              /\ req'[q].change = req[q].change /\ req[q].change # None
              /\ req'[q].pc \notin {"idle", "erased", "marked"}
              /\ \/ req'[q].pc = "save" \/ req[q].pc # "save"
                 \/ file'[Home[q]] = db'[Home[q]]
              => HasChange(q)'
    BY <1>0, <1>2, <1>3, <2>1, GrowthKeeps
  <2>3. ASSUME NEW q \in Request \ {r}, req'[q].change # None
        PROVE  HasChange(q)'
    <3>1. HasChange(q) /\ req'[q].change = req[q].change /\ req'[q].pc = req[q].pc
      BY <1>0, <1>1, <2>3 DEF ChangesOK
    <3> QED BY <2>2, <2>3, <3>1 DEF HasChange
  <2>4. ASSUME req'[r].change # None
        PROVE  HasChange(r)'
    <3>1. PICK w : w = x.change
      OBVIOUS
    <3>2. w \in Write /\ w.key = k /\ w.stamp = e.stamp /\ w \in written' /\ x.pc = "save"
      BY <1>0, <1>2, <2>4, <3>1 DEF New
    <3>3. w.stamp \in Nat /\ e # None
      BY <1>0, <3>2 DEF Write, Stamp
    <3> QED BY <1>0, <1>1, <3>1, <3>2, <3>3 DEF HasChange, NotBefore
  <2> QED BY <2>2, <2>3, <2>4 DEF ChangesOK
<1> QED BY <1>3, <1>4, <1>7, <1>8, <1>9 DEF SyncIInv

\* Only one request of a server may be erasing, which then holds the mutex.
LEMMA Unlocked ==
    ASSUME NEW r \in Request, ~Locked(Home[r])
    PROVE  \A q \in Request : Erasing(q) /\ Home[q] = Home[r] => q = r
BY DEF Locked, Erasing

\* What InPlace does.
LEMMA InPlacePuts ==
    ASSUME SyncIInv, NEW r \in Request, NEW k \in Key, NEW e \in Secret, NEW pc, NEW w,
           pc \in {"erased", "marked", "save"}, w \in Write \cup {None},
           InPlace(r, k, e, pc, w), up[Home[r]] = "up",
           \A q \in Request : Erasing(q) /\ Home[q] = Home[r] => q = r,
           req[r].pc \in {"idle", "erased", "marked"}, Erasing(r) => req[r].key = k,
           \/ /\ pc \in {"erased", "marked"} /\ w = None /\ UNCHANGED written
              /\ db[Home[r]][k] # None /\ e.stamp = db[Home[r]][k].stamp /\ e.state # "live"
              /\ Deleting(Home[r], k) \/ db[Home[r]][k].state # "deleted"
           \/ pc = "save" /\ New(w, k, e) /\ e.state # "empty" /\ w.live = (e.state = "live")
              /\ w.by = Home[r],
           UNCHANGED <<setting, file, up, acked, sound, torn>>
    PROVE  \E x : Puts(r, k, e, x)
<1>1. PICK x : x = [req[r] EXCEPT !.pc = pc, !.key = k, !.change = w]
  OBVIOUS
<1>2. req[r] \in RequestState
  BY DEF SyncIInv, TypeOK
<1>3. /\ x \in RequestState /\ x.pc = pc /\ x.key = k /\ x.change = w /\ x.msg = req[r].msg
  BY <1>1, <1>2 DEF RequestState
<1>4. /\ db' = [db EXCEPT ![Home[r]][k] = e]
      /\ req' = [q \in Request |-> req'[q]] /\ req'[r] = x
      /\ \A q \in Request \ {r} :
            \/ req'[q] = req[q] /\ ~Shares(q, Home[r], k)
            \/ Shares(q, Home[r], k) /\ req'[q] = [req[q] EXCEPT !.msg[k] = e]
  BY <1>1 DEF InPlace
<1>5. Puts(r, k, e, x)
  BY <1>3, <1>4 DEF Puts
<1> QED BY <1>5

\* Set, and the three steps of Delete.
LEMMA SetPuts ==
    ASSUME SyncIInv, NEW r \in Request, NEW k \in Key, NEW s \in Stamp, Set(r, k, s)
    PROVE  \E e, x : Puts(r, k, e, x)
<1>1. PICK w : w = [by |-> Home[r], key |-> k, stamp |-> s, live |-> TRUE]
  OBVIOUS
<1>2. PICK e : e = [stamp |-> s, state |-> "live"]
  OBVIOUS
<1>3. PICK x : x = [req[r] EXCEPT !.pc = "save", !.key = k, !.change = w]
  OBVIOUS
<1>4. req[r] \in RequestState /\ req \in [Request -> RequestState] /\ Home[r] \in Peer
  BY DEF SyncIInv, TypeOK
<1>5. w \in Write /\ w.key = k /\ w.stamp = e.stamp /\ w.live = (e.state = "live")
      /\ w.by = Home[r] /\ e \in Secret /\ e.state # "empty" /\ e.stamp = s
  BY <1>1, <1>2, <1>4 DEF Write, Secret
<1>6. /\ x \in RequestState /\ x.pc = "save" /\ x.key = k /\ x.change = w /\ x.msg = req[r].msg
  BY <1>3, <1>4, <1>5 DEF RequestState
<1>7. /\ db' = [db EXCEPT ![Home[r]][k] = e] /\ req' = [req EXCEPT ![r] = x]
      /\ written' = written \cup {w} /\ up[Home[r]] = "up" /\ ~Locked(Home[r])
      /\ UNCHANGED <<setting, file, up, acked, sound, torn>> /\ Now(Home[r], s)
  BY <1>1, <1>2, <1>3 DEF Set
<1>8. New(w, k, e)
  BY <1>5, <1>7 DEF New, Now
<1>9. req' = [q \in Request |-> req'[q]] /\ req'[r] = x
      /\ \A q \in Request \ {r} : req'[q] = req[q]
  BY <1>4, <1>7
<1>10. ~Deleting(Home[r], k) /\ ~Erasing(r) /\ req[r].pc = "idle"
  BY <1>7 DEF Deleting, Locked, Erasing, Set
<1>11. Puts(r, k, e, x)
  BY <1>5, <1>6, <1>7, <1>8, <1>9, <1>10, Unlocked DEF Puts
<1> QED BY <1>11

LEMMA ErasePuts ==
    ASSUME SyncIInv, NEW r \in Request, NEW k \in Key, DeleteErase(r, k)
    PROVE  \E e, x : Puts(r, k, e, x)
<1>1. PICK e : e = [db[Home[r]][k] EXCEPT !.state = "empty"]
  OBVIOUS
<1>2. Home[r] \in Peer /\ db[Home[r]][k] \in Secret \cup {None} /\ db[Home[r]][k] # None
  BY DEF SyncIInv, TypeOK, Secrets, DeleteErase
<1>3. e \in Secret /\ e.stamp = db[Home[r]][k].stamp /\ e.state # "live"
  BY <1>1, <1>2 DEF Secret
<1>4. /\ InPlace(r, k, e, "erased", None) /\ up[Home[r]] = "up" /\ ~Locked(Home[r])
      /\ ~Erasing(r) /\ req[r].pc = "idle" /\ db[Home[r]][k].state # "deleted"
      /\ UNCHANGED <<setting, file, up, written, acked, sound, torn>>
  BY <1>1 DEF DeleteErase, Erasing
<1>5. \E x : Puts(r, k, e, x)
  BY <1>2, <1>3, <1>4, Unlocked, InPlacePuts
<1> QED BY <1>5

LEMMA MarkPuts ==
    ASSUME SyncIInv, NEW r \in Request, DeleteMark(r)
    PROVE  \E k, e, x : Puts(r, k, e, x)
<1>1. PICK k : k = req[r].key
  OBVIOUS
<1>2. PICK e : e = [db[Home[r]][k] EXCEPT !.state = "deleted"]
  OBVIOUS
<1>3. /\ k \in Key /\ up[Home[r]] = "up" /\ db[Home[r]][k] # None
      /\ \A q \in Request : Erasing(q) /\ Home[q] = Home[r] => q = r
  BY <1>1 DEF DeleteMark, SyncIInv, RequestsOK, Erasing
<1>4. Home[r] \in Peer /\ db[Home[r]][k] \in Secret /\ Deleting(Home[r], k) /\ req[r].pc = "erased"
  BY <1>1, <1>3 DEF SyncIInv, TypeOK, Secrets, DeleteMark, Deleting
<1>5. e \in Secret /\ e.stamp = db[Home[r]][k].stamp /\ e.state # "live"
  BY <1>2, <1>4 DEF Secret
<1>6. /\ InPlace(r, k, e, "marked", None)
      /\ UNCHANGED <<setting, file, up, written, acked, sound, torn>>
  BY <1>1, <1>2 DEF DeleteMark
<1>7. \E x : Puts(r, k, e, x)
  BY <1>1, <1>3, <1>4, <1>5, <1>6, InPlacePuts
<1> QED BY <1>7

LEMMA StampPuts ==
    ASSUME SyncIInv, NEW r \in Request, NEW s \in Stamp, DeleteStamp(r, s)
    PROVE  \E k, e, x : Puts(r, k, e, x)
<1>1. PICK k : k = req[r].key
  OBVIOUS
<1>2. PICK e : e = [stamp |-> s, state |-> "deleted"]
  OBVIOUS
<1>3. PICK w : w = [by |-> Home[r], key |-> k, stamp |-> s, live |-> FALSE]
  OBVIOUS
<1>4. /\ k \in Key /\ up[Home[r]] = "up" /\ Home[r] \in Peer /\ req[r].pc = "marked"
      /\ \A q \in Request : Erasing(q) /\ Home[q] = Home[r] => q = r
  BY <1>1 DEF DeleteStamp, SyncIInv, TypeOK, RequestsOK, Erasing
<1>5. e \in Secret /\ e.state # "empty" /\ w \in Write /\ w.key = k /\ w.stamp = e.stamp
      /\ w.stamp = s /\ w.by = Home[r] /\ w.live = (e.state = "live")
  BY <1>2, <1>3, <1>4 DEF Secret, Write
<1>6. /\ InPlace(r, k, e, "save", w) /\ Now(Home[r], s)
      /\ written' = written \cup {w} /\ UNCHANGED <<setting, file, up, acked, sound, torn>>
  BY <1>1, <1>2, <1>3 DEF DeleteStamp
<1>7. New(w, k, e)
  BY <1>5, <1>6 DEF New, Now
<1>8. \E x : Puts(r, k, e, x)
  BY <1>1, <1>4, <1>5, <1>6, <1>7, InPlacePuts
<1> QED BY <1>8

-----------------------------------------------------------------------------
(* The end of a request, and restarts.                                     *)

\* What is acknowledged is what the request of a running server has done.
LEMMA FinishKeeps ==
    ASSUME SyncIInv, NEW r \in Request, Finish(r)
    PROVE  SyncIInv'
<1>0. /\ TypeOK /\ Dated /\ AllMade /\ RequestsOK /\ ChangesOK /\ AckedOK
      /\ req[r].pc = "sync" /\ up[Home[r]] # "down" /\ Home[r] \in Peer
      /\ UNCHANGED <<setting, db, file, written, sound, torn>>
  BY DEF SyncIInv, Finish, TypeOK, RequestsOK
<1>1. /\ req[r] \in RequestState /\ Idle \in RequestState
      /\ Idle.pc = "idle" /\ Idle.change = None /\ \A k \in Key : Idle.msg[k] = None
  BY <1>0 DEF TypeOK, Idle, RequestState, NoSecrets, Secrets
<1>2. /\ req' \in [Request -> RequestState]
      /\ req'[r] = Idle /\ \A q \in Request \ {r} : req'[q] = req[q]
  BY <1>0, <1>1 DEF Finish, TypeOK
<1>3. /\ up' \in [Peer -> {"down", "starting", "up"}]
      /\ up'[Home[r]] = "up" /\ \A p \in Peer \ {Home[r]} : up'[p] = up[p]
  BY <1>0 DEF Finish, TypeOK
<1>4. req[r].change # None => HasChange(r)
  BY <1>0 DEF ChangesOK
<1>5. /\ acked' \in [Peer -> SUBSET Write]
      /\ \A p \in Peer : \A w \in acked'[p] :
            w \in acked[p] \/ (p = Home[r] /\ w = req[r].change /\ req[r].change # None)
  <2>1. acked' = [acked EXCEPT ![Home[r]] = IF req[r].change = None THEN @
                                            ELSE @ \cup {req[r].change}]
    BY DEF Finish
  <2>2. req[r].change # None => req[r].change \in Write
    BY <1>1 DEF RequestState
  <2> QED BY <1>0, <2>1, <2>2 DEF TypeOK
<1>6. TypeOK'
  BY <1>0, <1>2, <1>3, <1>5 DEF TypeOK
<1>7. Dated'
  BY <1>0 DEF Dated
<1>8. AllMade'
  <2>1. \A q \in Request, k \in Key : req'[q].msg[k] \in {req[q].msg[k], None}
    BY <1>1, <1>2
  <2>2. \A q \in Request, k \in Key : Made(k, req'[q].msg[k])
    BY <1>0, <2>1 DEF AllMade, Made
  <2> QED BY <1>0, <2>2 DEF AllMade, Made
<1>9. RequestsOK'
  <2>1. ~Erasing(r)' /\ ~Calling(r)' /\ req'[r].pc = "idle"
    BY <1>1, <1>2 DEF Erasing, Calling
  <2>2. \A q \in Request \ {r} : Erasing(q)' = Erasing(q) /\ Calling(q)' = Calling(q)
    BY <1>2 DEF Erasing, Calling
  <2>3. \A p \in Peer : (up[p] # "down" => up'[p] # "down") /\ (up[p] = "up" => up'[p] = "up")
    BY <1>3
  <2> QED BY <1>0, <1>2, <2>1, <2>2, <2>3 DEF RequestsOK, TypeOK
<1>10. ChangesOK'
  <2> SUFFICES ASSUME NEW q \in Request, req'[q].change # None PROVE HasChange(q)'
    BY DEF ChangesOK
  <2>1. q # r /\ req'[q] = req[q]
    BY <1>1, <1>2
  <2>2. HasChange(q)
    BY <1>0, <2>1 DEF ChangesOK
  <2> QED BY <1>0, <2>1, <2>2 DEF HasChange
<1>11. AckedOK'
  <2> SUFFICES ASSUME NEW p \in Peer, NEW w \in acked'[p]
               PROVE  /\ w \in written
                      /\ setting.clock = "sound" =>
                            /\ up'[p] # "down" => NotBefore(db[p][w.key], w.stamp)
                            /\ file[p] # Torn => NotBefore(file[p][w.key], w.stamp)
    BY <1>0 DEF AckedOK
  <2>1. CASE w \in acked[p]
    <3>1. up'[p] # "down" => up[p] # "down"
      BY <1>0, <1>3
    <3> QED BY <1>0, <2>1, <3>1 DEF AckedOK
  <2>2. CASE p = Home[r] /\ w = req[r].change /\ req[r].change # None
    BY <1>0, <1>4, <2>2 DEF HasChange
  <2> QED BY <1>5, <2>1, <2>2
<1> QED BY <1>6, <1>7, <1>8, <1>9, <1>10, <1>11 DEF SyncIInv

\* A server that stops forgets its requests and what is not in its file.
LEMMA StopKeeps ==
    ASSUME SyncIInv, NEW p \in Peer, Stop(p)
    PROVE  SyncIInv'
<1>0. /\ TypeOK /\ Dated /\ AllMade /\ RequestsOK /\ ChangesOK /\ AckedOK
      /\ UNCHANGED <<setting, written, acked, torn>> /\ sound' = FALSE
      /\ NoSecrets \in Secrets /\ \A k \in Key : NoSecrets[k] = None
  BY DEF SyncIInv, Stop, NoSecrets, Secrets
<1>1. /\ Idle \in RequestState /\ Idle.pc = "idle" /\ Idle.change = None
      /\ \A k \in Key : Idle.msg[k] = None
  BY <1>0 DEF Idle, RequestState
<1>2. \A q \in Request :
         /\ req'[q] \in RequestState
         /\ \A k \in Key : req'[q].msg[k] \in {req[q].msg[k], None}
         /\ req'[q].change \in {req[q].change, None}
         /\ Home[q] = p => req'[q] = Idle
         /\ Home[q] # p => /\ req'[q].change = req[q].change
                           /\ \/ req'[q] = req[q]
                              \/ req[q].pc = "respond" /\ req'[q].pc = "sync"
  <2> SUFFICES ASSUME NEW q \in Request
               PROVE  /\ req'[q] \in RequestState
                      /\ \A k \in Key : req'[q].msg[k] \in {req[q].msg[k], None}
                      /\ req'[q].change \in {req[q].change, None}
                      /\ Home[q] = p => req'[q] = Idle
                      /\ Home[q] # p => /\ req'[q].change = req[q].change
                                        /\ \/ req'[q] = req[q]
                                           \/ req[q].pc = "respond" /\ req'[q].pc = "sync"
    OBVIOUS
  <2>1. req[q] \in RequestState
    BY <1>0 DEF TypeOK
  <2>2. CASE Home[q] = p
    BY <1>1, <2>2 DEF Stop
  <2>3. CASE Home[q] # p /\ req'[q] = req[q]
    BY <2>1, <2>3
  <2>4. CASE Home[q] # p /\ req[q].pc = "respond" /\ req'[q] = NextPeer(req[q])
    <3>1. PICK x : x = NextPeer(req[q])
      OBVIOUS
    <3>2. x \in RequestState /\ x.pc = "sync" /\ x.change = req[q].change
          /\ \A k \in Key : x.msg[k] = None
      BY <2>4, <3>1, NextPeerServes
    <3> QED BY <2>4, <3>1, <3>2
  <2> QED BY <2>2, <2>3, <2>4 DEF Stop
<1>3. req' \in [Request -> RequestState]
  <2>1. \E f : req' = [q \in Request |-> f[q]]
    <3>1. req' = [q \in Request |-> req'[q]]
      BY DEF Stop
    <3> QED BY <3>1
  <2> QED BY <1>2, <2>1
<1>4. /\ up' \in [Peer -> {"down", "starting", "up"}]
      /\ up'[p] = "down" /\ \A q \in Peer \ {p} : up'[q] = up[q]
  BY <1>0 DEF Stop, TypeOK
<1>5. /\ db' \in [Peer -> Secrets]
      /\ db'[p] = NoSecrets /\ \A q \in Peer \ {p} : db'[q] = db[q]
  BY <1>0 DEF Stop, TypeOK
<1>6. /\ file' \in [Peer -> Secrets \cup {Torn}]
      /\ \A q \in Peer : file'[q] \in {file[q], Torn}
  BY <1>0 DEF Stop, TypeOK
<1>7. TypeOK'
  BY <1>0, <1>3, <1>4, <1>5, <1>6 DEF TypeOK
<1>8. Dated'
  BY <1>0 DEF Dated
<1>9. AllMade'
  <2>1. \A q \in Request, k \in Key : Made(k, req'[q].msg[k])
    BY <1>0, <1>2 DEF AllMade, Made
  <2>2. \A q \in Peer, k \in Key : Made(k, db'[q][k])
    BY <1>0, <1>5 DEF AllMade, Made
  <2>3. \A q \in Peer, k \in Key : file'[q] # Torn => Made(k, file'[q][k])
    BY <1>0, <1>6 DEF AllMade
  <2> QED BY <1>0, <2>1, <2>2, <2>3 DEF AllMade, Made
<1>10. RequestsOK'
  <2> SUFFICES ASSUME NEW r \in Request
               PROVE  /\ req'[r].pc # "idle" => up'[Home[r]] # "down"
                      /\ Calling(r)' => req'[r].peer \in Peer
                      /\ Erasing(r)' =>
                            /\ up'[Home[r]] = "up" /\ req'[r].key \in Key
                            /\ db'[Home[r]][req'[r].key] # None
                            /\ \A q \in Request : Erasing(q)' /\ Home[q] = Home[r] => q = r
    BY DEF RequestsOK
  <2>1. \A q \in Request : Erasing(q)' => Erasing(q) /\ Home[q] # p /\ req'[q] = req[q]
    BY <1>1, <1>2 DEF Erasing
  <2>2. Calling(r)' => Calling(r) /\ Home[r] # p /\ req'[r] = req[r]
    BY <1>1, <1>2 DEF Calling
  <2>3. req'[r].pc # "idle" => Home[r] # p /\ req[r].pc # "idle"
    BY <1>1, <1>2
  <2>4. Home[r] \in Peer
    OBVIOUS
  <2> QED BY <1>0, <1>4, <1>5, <2>1, <2>2, <2>3, <2>4 DEF RequestsOK
<1>11. ChangesOK'
  <2> SUFFICES ASSUME NEW q \in Request, req'[q].change # None PROVE HasChange(q)'
    BY DEF ChangesOK
  <2>1. Home[q] # p /\ req'[q].change = req[q].change /\ Home[q] \in Peer
    BY <1>1, <1>2
  <2>2. HasChange(q) /\ req'[q].pc \notin {"idle", "erased", "marked"}
        /\ (req'[q].pc # "save" => req[q].pc # "save")
    BY <1>0, <1>2, <2>1 DEF ChangesOK, HasChange
  <2>3. db'[Home[q]] = db[Home[q]] /\ file'[Home[q]] \in {file[Home[q]], Torn}
    BY <1>5, <1>6, <2>1
  <2> QED BY <1>0, <2>1, <2>2, <2>3 DEF HasChange
<1>12. AckedOK'
  <2> SUFFICES ASSUME NEW q \in Peer, NEW w \in acked[q]
               PROVE  /\ w \in written
                      /\ setting.clock = "sound" =>
                            /\ up'[q] # "down" => NotBefore(db'[q][w.key], w.stamp)
                            /\ file'[q] # Torn => NotBefore(file'[q][w.key], w.stamp)
    BY <1>0 DEF AckedOK
  <2>1. up'[q] # "down" => up[q] # "down" /\ db'[q] = db[q]
    BY <1>4, <1>5
  <2> QED BY <1>0, <1>6, <2>1 DEF AckedOK
<1> QED BY <1>7, <1>8, <1>9, <1>10, <1>11, <1>12 DEF SyncIInv

\* A server starts from its file.
LEMMA StartKeeps ==
    ASSUME SyncIInv, NEW p \in Peer, NEW r \in Request, Start(p, r)
    PROVE  SyncIInv'
<1>0. /\ TypeOK /\ Dated /\ AllMade /\ RequestsOK /\ ChangesOK /\ AckedOK
      /\ UNCHANGED <<setting, file, written, acked, sound, torn>>
      /\ up[p] = "down" /\ Home[r] = p /\ file[p] \in Secrets /\ file[p] # Torn
  BY DEF SyncIInv, Start, TypeOK
<1>1. PICK x : x = [Idle EXCEPT !.pc = "sync", !.todo = Peer \ {p}]
  OBVIOUS
<1>2. x \in RequestState /\ x.pc = "sync" /\ x.change = None /\ \A k \in Key : x.msg[k] = None
  BY <1>1 DEF Idle, RequestState, NoSecrets, Secrets
<1>3. /\ req' \in [Request -> RequestState]
      /\ req'[r] = x /\ \A q \in Request \ {r} : req'[q] = req[q]
  BY <1>0, <1>1, <1>2 DEF Start, TypeOK
<1>4. /\ up' \in [Peer -> {"down", "starting", "up"}]
      /\ up'[p] = "starting" /\ \A q \in Peer \ {p} : up'[q] = up[q]
  BY <1>0 DEF Start, TypeOK
<1>5. /\ db' \in [Peer -> Secrets]
      /\ db'[p] = file[p] /\ \A q \in Peer \ {p} : db'[q] = db[q]
  BY <1>0 DEF Start, TypeOK
<1>6. \A q \in Request : Home[q] = p => req[q].pc = "idle"
  BY <1>0 DEF RequestsOK
<1>7. TypeOK'
  BY <1>0, <1>3, <1>4, <1>5 DEF TypeOK
<1>8. Dated'
  BY <1>0 DEF Dated
<1>9. AllMade'
  <2>1. \A q \in Request, k \in Key : Made(k, req'[q].msg[k])
    BY <1>0, <1>2, <1>3 DEF AllMade, Made
  <2>2. \A q \in Peer, k \in Key : Made(k, db'[q][k])
    BY <1>0, <1>5 DEF AllMade
  <2> QED BY <1>0, <2>1, <2>2 DEF AllMade, Made
<1>10. RequestsOK'
  <2>1. ~Erasing(r)' /\ ~Calling(r)' /\ ~Erasing(r)
    BY <1>0, <1>2, <1>3, <1>6 DEF Erasing, Calling
  <2>2. \A q \in Request \ {r} : /\ Erasing(q)' = Erasing(q) /\ Calling(q)' = Calling(q)
                                 /\ Erasing(q) => Home[q] # p
    BY <1>3, <1>6 DEF Erasing, Calling
  <2>3. \A q \in Request : Home[q] \in Peer
    OBVIOUS
  <2> QED BY <1>0, <1>3, <1>4, <1>5, <2>1, <2>2, <2>3 DEF RequestsOK
<1>11. ChangesOK'
  <2> SUFFICES ASSUME NEW q \in Request, req'[q].change # None PROVE HasChange(q)'
    BY DEF ChangesOK
  <2>1. q # r /\ req'[q] = req[q]
    BY <1>2, <1>3
  <2>2. HasChange(q)
    BY <1>0, <2>1 DEF ChangesOK
  <2>3. Home[q] # p /\ db'[Home[q]] = db[Home[q]]
    BY <1>5, <1>6, <2>2 DEF HasChange
  <2> QED BY <1>0, <2>1, <2>2, <2>3 DEF HasChange
<1>12. AckedOK'
  <2> SUFFICES ASSUME NEW q \in Peer, NEW w \in acked[q]
               PROVE  /\ w \in written
                      /\ setting.clock = "sound" =>
                            /\ up'[q] # "down" => NotBefore(db'[q][w.key], w.stamp)
                            /\ file[q] # Torn => NotBefore(file[q][w.key], w.stamp)
    BY <1>0 DEF AckedOK
  <2> QED BY <1>0, <1>4, <1>5 DEF AckedOK
<1> QED BY <1>7, <1>8, <1>9, <1>10, <1>11, <1>12 DEF SyncIInv

LEMMA SyncNextIInv == SyncIInv /\ [Next]_vars => SyncIInv'
<1> SUFFICES ASSUME SyncIInv, [Next]_vars PROVE SyncIInv'
  OBVIOUS
<1>1. CASE UNCHANGED vars
  BY <1>1 DEF vars, SyncIInv, TypeOK, Dated, AllMade, Made, RequestsOK, Erasing, Calling,
              ChangesOK, HasChange, NotBefore, AckedOK
<1>2. ASSUME NEW r \in Request, Step(r)
      PROVE  SyncIInv'
  <2>1. CASE Save(r) \/ SaveFails(r)
    BY <2>1, SaveServes, ServesKeeps
  <2>2. CASE (\E q \in Peer : CallPeer(r, q)) \/ Iterate(r) \/ Encode(r) \/ Respond(r)
    BY <2>2, SendServes, ServesKeeps
  <2>3. CASE Handle(r) \/ Merge(r) \/ CallFails(r) \/ \E p \in Peer : MergeFails(r, p)
    BY <2>3, MergeServes, ServesKeeps
  <2>4. CASE DeleteMark(r)
    BY <2>4, MarkPuts, PutsKeeps
  <2>5. CASE \E s \in Stamp : DeleteStamp(r, s)
    BY <2>5, StampPuts, PutsKeeps
  <2>6. CASE Finish(r)
    BY <2>6, FinishKeeps
  <2> QED BY <1>2, <2>1, <2>2, <2>3, <2>4, <2>5, <2>6 DEF Step
<1>3. CASE \E r \in Request, k \in Key : DeleteErase(r, k) \/ \E s \in Stamp : Set(r, k, s)
  BY <1>3, ErasePuts, SetPuts, PutsKeeps
<1>4. CASE \E p \in Peer : Crash(p) \/ ConcurrentMapAccess(p) \/ \E r \in Request : Start(p, r)
  BY <1>4, StopKeeps, StartKeeps DEF Crash, ConcurrentMapAccess
<1> QED BY <1>1, <1>2, <1>3, <1>4 DEF Next

LEMMA SyncInvariant == Spec => []SyncIInv
BY SyncInitIInv, SyncNextIInv, PTL DEF Spec

(***************************************************************************)
(* Whatever the interleaving of the requests, of their calls and of the    *)
(* restarts, and with any number of servers and of users: what Set and     *)
(* Delete reported as done is never undone by an older change.             *)
(***************************************************************************)
THEOREM AcknowledgedAreKept == Spec => []AcknowledgedKept
<1>1. SyncIInv => AcknowledgedKept
  BY DEF SyncIInv, AckedOK, AcknowledgedKept
<1> QED BY <1>1, SyncInvariant, PTL

-----------------------------------------------------------------------------
(* What a server sends or saves says what the users did.                   *)

LEMMA DeletingLocked == \A p, k : Deleting(p, k) => Locked(p)
BY DEF Deleting, Locked

LEMMA ServesFaithful ==
    ASSUME WholeIInv, NEW r \in Request, NEW x, NEW p, Serves(r, x, p), ~torn'
    PROVE  AllFaithful'
<1>0. /\ SyncIInv /\ AllFaithful /\ TypeOK /\ written' = written
      /\ p \in Peer /\ req[r] \in RequestState /\ req[r].msg \in Secrets /\ db \in [Peer -> Secrets]
  BY DEF WholeIInv, SyncIInv, TypeOK, RequestState, Serves
<1>1. req'[r] = x /\ \A q \in Request \ {r} : req'[q] = req[q]
  BY <1>0 DEF Serves, TypeOK
<1>2. \A q, k : Deleting(q, k)' = Deleting(q, k)
  <2>1. req[r].pc \notin {"erased", "marked"} /\ req'[r].pc \notin {"erased", "marked"}
    BY <1>1 DEF Serves, Erasing
  <2> QED BY <1>1, <2>1 DEF Deleting
<1>3. \A k, e : Faithful(k, e)' = Faithful(k, e)
  BY <1>0 DEF Faithful
<1>4. ~Locked(p) => \A k \in Key : Faithful(k, db[p][k])
  BY <1>0, DeletingLocked DEF AllFaithful
<1>5. req[r].pc \in {"call", "reply"} => \A k \in Key : Faithful(k, req[r].msg[k])
  BY <1>0 DEF AllFaithful, MessageOK
<1>6. ASSUME NEW q \in Peer, NEW k \in Key
      PROVE  db'[q][k] = db[q][k] \/ (q = p /\ ~Locked(p) /\ Faithful(k, db'[q][k]))
  <2>1. CASE db' = db
    BY <2>1
  <2>2. CASE req[r].pc \in {"call", "reply"} /\ ~Locked(p)
             /\ db' = [db EXCEPT ![p] = Merged(db[p], req[r].msg)]
    <3>1. q # p => db'[q] = db[q]
      BY <1>0, <2>2
    <3>2. q = p => db'[q][k] \in {db[p][k], req[r].msg[k]}
      BY <1>0, <2>2, MergedLater
    <3> QED BY <1>4, <1>5, <2>2, <3>1, <3>2
  <2> QED BY <2>1, <2>2 DEF Serves
<1>7. ASSUME NEW q \in Peer, NEW k \in Key, Halfway(q, k)
      PROVE  db'[q][k] = db[q][k] /\ Halfway(q, k)'
  <2>1. Locked(q)
    BY <1>7, DeletingLocked DEF Halfway
  <2>2. db'[q][k] = db[q][k]
    BY <1>6, <2>1
  <2> QED BY <1>0, <1>2, <1>7, <2>2 DEF Halfway
<1>8. ASSUME NEW q \in Peer, NEW k \in Key
      PROVE  /\ IF Deleting(q, k) THEN Halfway(q, k)' ELSE Faithful(k, db'[q][k])
             /\ file'[q] # Torn => Faithful(k, file'[q][k])
  <2>1. Deleting(q, k) => Halfway(q, k)'
    BY <1>0, <1>7 DEF AllFaithful
  <2>2. ~Deleting(q, k) => Faithful(k, db'[q][k])
    BY <1>0, <1>6 DEF AllFaithful
  <2>3. ~Locked(q) => Faithful(k, db'[q][k])
    BY <2>2, DeletingLocked
  <2>4. file[q] # Torn => Faithful(k, file[q][k])
    BY <1>0 DEF AllFaithful
  <2> QED BY <2>1, <2>2, <2>3, <2>4 DEF Serves
<1>9. ASSUME NEW q \in Request, NEW k \in Key, NEW o, o = Origin(q)'
      PROVE  /\ req'[q].pc \in {"call", "reply"} => Faithful(k, req'[q].msg[k])
             /\ req'[q].pc \in {"encode", "respond"} =>
                   \/ Faithful(k, req'[q].msg[k])
                   \/ req'[q].msg[k] = db'[o][k] /\ Halfway(o, k)'
  <2>1. CASE q # r
    <3>1. req'[q] = req[q] /\ o = Origin(q)
      BY <1>1, <1>9, <2>1 DEF Origin
    <3>2. req[q].pc \in {"encode", "respond"} => Origin(q) \in Peer
      BY <1>0 DEF Origin, SyncIInv, RequestsOK, Calling
    <3> QED BY <1>0, <1>7, <3>1, <3>2 DEF AllFaithful, MessageOK
  <2>2. CASE q = r /\ req'[r].pc = "encode"
    <3>1. Home[r] \in Peer /\ req'[r].msg[k] = db[Home[r]][k] /\ o = Home[r]
      BY <1>1, <1>9, <2>2 DEF Serves, Sends, Origin
    <3>2. CASE Deleting(o, k)
      <4>1. Halfway(o, k)
        BY <1>0, <3>1, <3>2 DEF AllFaithful
      <4> QED BY <1>7, <2>2, <3>1, <4>1
    <3>3. CASE ~Deleting(o, k)
      BY <1>0, <2>2, <3>1, <3>3 DEF AllFaithful
    <3> QED BY <3>2, <3>3
  <2>3. CASE q = r /\ req'[r].pc = "respond"
    <3>1. ~Locked(p) /\ x.msg[k] \in {db[p][k], None}
      BY <1>1, <2>3 DEF Serves, Sends
    <3> QED BY <1>1, <1>4, <2>3, <3>1 DEF Faithful
  <2>4. CASE q = r /\ req'[r].pc \in {"call", "reply"}
    <3>1. req[r].pc \in {"encode", "respond"} /\ x.msg = req[r].msg /\ ~Half(k, x.msg[k])
      BY <1>1, <2>4 DEF Serves, Sends
    <3>2. \/ Faithful(k, req[r].msg[k])
          \/ req[r].msg[k] = db[Origin(r)][k] /\ Halfway(Origin(r), k)
      BY <1>0, <3>1 DEF AllFaithful, MessageOK
    <3>3. req[r].msg[k] = db[Origin(r)][k] /\ Halfway(Origin(r), k) => Half(k, req[r].msg[k])
      BY DEF Halfway, Half
    <3>4. Faithful(k, req[r].msg[k])
      BY <3>1, <3>2, <3>3
    <3> QED BY <1>1, <2>4, <3>1, <3>4
  <2> QED BY <2>1, <2>2, <2>3, <2>4
<1>10. \A q \in Request : MessageOK(q)'
  <2> SUFFICES ASSUME NEW q \in Request PROVE MessageOK(q)'
    OBVIOUS
  <2>1. PICK o : o = Origin(q)'
    OBVIOUS
  <2> QED BY <1>0, <1>9, <2>1 DEF MessageOK, Faithful
<1> QED BY <1>0, <1>2, <1>8, <1>10 DEF AllFaithful, Faithful

\* The entry that Puts puts says what the change of its date was, or is being deleted.
LEMMA PutsEntry ==
    ASSUME WholeIInv, NEW r \in Request, NEW k, NEW e, NEW x, Puts(r, k, e, x), AllFaithful
    PROVE  /\ written \subseteq written' /\ k \in Key /\ Home[r] \in Peer
           /\ \A q \in Peer, l \in Key :
                 /\ <<q, l>> # <<Home[r], k>> => Deleting(q, l)' = Deleting(q, l)
                 /\ q = Home[r] /\ l # k => ~Deleting(q, l)
           /\ IF x.pc \in {"erased", "marked"} THEN Deleting(Home[r], k)' /\ Halfway(Home[r], k)'
              ELSE ~Deleting(Home[r], k)' /\ Faithful(k, e)'
           /\ x.pc \in {"erased", "marked"} =>
                 /\ written' = written /\ e.stamp = db[Home[r]][k].stamp /\ db[Home[r]][k] # None
                 /\ Deleting(Home[r], k) \/ db[Home[r]][k].state = "live"
<1>0. /\ SyncIInv /\ TypeOK /\ AllFaithful
      /\ k \in Key /\ e \in Secret /\ Home[r] \in Peer /\ written \subseteq written'
      /\ x.key = k /\ x.pc \in {"erased", "marked", "save"} /\ req'[r] = x
      /\ Erasing(r) => req[r].key = k
      /\ \A q \in Request : Erasing(q) /\ Home[q] = Home[r] => q = r
  BY DEF WholeIInv, SyncIInv, Puts, New
<1>1. /\ db'[Home[r]][k] = e
      /\ \A q \in Request \ {r} : req'[q].pc = req[q].pc /\ req'[q].key = req[q].key
  BY <1>0, Placed
<1>2. \A q \in Peer, l \in Key :
         /\ <<q, l>> # <<Home[r], k>> => Deleting(q, l)' = Deleting(q, l)
         /\ q = Home[r] /\ l # k => ~Deleting(q, l)
  BY <1>0, <1>1 DEF Deleting, Erasing
<1>3. IF x.pc \in {"erased", "marked"} THEN Deleting(Home[r], k)' ELSE ~Deleting(Home[r], k)'
  <2>1. x.pc \in {"erased", "marked"} => Deleting(Home[r], k)'
    BY <1>0 DEF Deleting
  <2>2. x.pc \notin {"erased", "marked"} => ~Deleting(Home[r], k)'
    BY <1>0, <1>1 DEF Deleting, Erasing
  <2> QED BY <2>1, <2>2
<1>4. ASSUME x.pc \in {"erased", "marked"}
      PROVE  /\ written' = written /\ e.stamp = db[Home[r]][k].stamp /\ db[Home[r]][k] # None
             /\ Deleting(Home[r], k) \/ db[Home[r]][k].state = "live"
             /\ Halfway(Home[r], k)'
  <2>1. /\ written' = written /\ e.stamp = db[Home[r]][k].stamp /\ db[Home[r]][k] # None
        /\ e.state # "live"
        /\ (Deleting(Home[r], k) \/ db[Home[r]][k].state # "deleted")
    BY <1>4 DEF Puts
  <2>2. db[Home[r]][k] \in Secret
    BY <1>0, <2>1 DEF TypeOK, Secrets
  <2>3. IF Deleting(Home[r], k) THEN Halfway(Home[r], k) ELSE Faithful(k, db[Home[r]][k])
    BY <1>0 DEF AllFaithful
  <2>4. Deleting(Home[r], k) \/ db[Home[r]][k].state = "live"
    BY <2>1, <2>2, <2>3 DEF Faithful, Secret
  <2>5. \E w \in written : w.key = k /\ w.stamp = e.stamp /\ w.live
    BY <2>1, <2>3, <2>4 DEF Faithful, Halfway
  <2> QED BY <1>0, <1>1, <1>3, <1>4, <2>1, <2>4, <2>5 DEF Halfway
<1>5. ASSUME x.pc = "save"
      PROVE  Faithful(k, e)'
  <2>1. PICK w : w = x.change
    OBVIOUS
  <2>2. /\ w.key = k /\ w.stamp = e.stamp /\ w \in written' /\ e.state # "empty"
        /\ w.live = (e.state = "live")
    BY <1>5, <2>1 DEF Puts, New
  <2> QED BY <2>2 DEF Faithful
<1> QED BY <1>0, <1>2, <1>3, <1>4, <1>5

LEMMA PutsFaithful ==
    ASSUME WholeIInv, NEW r \in Request, NEW k, NEW e, NEW x, Puts(r, k, e, x), ~torn'
    PROVE  AllFaithful'
<1>0. AllFaithful /\ SyncIInv /\ TypeOK /\ UNCHANGED file
  BY DEF WholeIInv, SyncIInv, Puts
<1>1. /\ written \subseteq written' /\ k \in Key /\ Home[r] \in Peer
      /\ \A q \in Peer, l \in Key :
            /\ <<q, l>> # <<Home[r], k>> => Deleting(q, l)' = Deleting(q, l)
            /\ q = Home[r] /\ l # k => ~Deleting(q, l)
      /\ IF x.pc \in {"erased", "marked"} THEN Deleting(Home[r], k)' /\ Halfway(Home[r], k)'
         ELSE ~Deleting(Home[r], k)' /\ Faithful(k, e)'
  BY <1>0, PutsEntry
<1>2. /\ db'[Home[r]][k] = e
      /\ \A q \in Peer, l \in Key : <<q, l>> # <<Home[r], k>> => db'[q][l] = db[q][l]
      /\ \A q \in Request \ {r} : req'[q].pc = req[q].pc /\ req'[q].peer = req[q].peer
      /\ \A q \in Request \ {r} : \A l \in Key \ {k} : req'[q].msg[l] = req[q].msg[l]
  BY <1>0, Placed
<1>3. \A l, f : Faithful(l, f) => Faithful(l, f)'
  BY <1>1 DEF Faithful
<1>4. ASSUME NEW q \in Peer, NEW l \in Key, <<q, l>> # <<Home[r], k>>, Halfway(q, l)
      PROVE  Halfway(q, l)'
  BY <1>1, <1>2, <1>4 DEF Halfway
<1>5. ASSUME NEW q \in Peer, NEW l \in Key, NEW f, f = db'[q][l]
      PROVE  IF Deleting(q, l)' THEN Halfway(q, l)' ELSE Faithful(l, f)'
  <2>1. CASE <<q, l>> = <<Home[r], k>>
    BY <1>1, <1>2, <1>5, <2>1
  <2>2. CASE <<q, l>> # <<Home[r], k>>
    <3>1. IF Deleting(q, l) THEN Halfway(q, l) ELSE Faithful(l, f)
      BY <1>0, <1>2, <1>5, <2>2 DEF AllFaithful
    <3> QED BY <1>1, <1>3, <1>4, <2>2, <3>1
  <2> QED BY <2>1, <2>2
<1>6. ASSUME NEW q \in Peer, NEW l \in Key, file[q] # Torn, NEW f, f = file[q][l]
      PROVE  Faithful(l, f)'
  BY <1>0, <1>3, <1>6 DEF AllFaithful
<1>7. ASSUME NEW q \in Request, NEW l \in Key, NEW f, f = req'[q].msg[l], NEW o, o = Origin(q)'
      PROVE  /\ req'[q].pc \in {"call", "reply"} => Faithful(l, f)'
             /\ req'[q].pc \in {"encode", "respond"} =>
                   \/ Faithful(l, f)'
                   \/ f = db'[o][l] /\ Halfway(o, l)'
  <2>1. CASE q = r
    <3>1. req'[r].pc \in {"erased", "marked", "save"}
      BY DEF Puts
    <3> QED BY <2>1, <3>1
  <2>2. CASE q # r
    <3>1. o = Origin(q) /\ req'[q].pc = req[q].pc
      BY <1>2, <1>7, <2>2 DEF Origin
    <3>2. req[q].pc \in {"encode", "respond"} => o \in Peer
      BY <1>0, <3>1 DEF Origin, SyncIInv, RequestsOK, Calling
    <3>3. /\ req[q].pc \in {"call", "reply"} => Faithful(l, req[q].msg[l])
          /\ req[q].pc \in {"encode", "respond"} =>
                \/ Faithful(l, req[q].msg[l])
                \/ req[q].msg[l] = db[o][l] /\ Halfway(o, l)
      BY <1>0, <3>1 DEF AllFaithful, MessageOK
    <3>4. Halfway(o, l) => Deleting(o, l)
      BY DEF Halfway
    <3>5. CASE l # k
      <4>1. f = req[q].msg[l]
        BY <1>2, <1>7, <2>2, <3>5
      <4> QED BY <1>1, <1>2, <1>3, <1>4, <3>1, <3>2, <3>3, <3>4, <3>5, <4>1
    <3>6. CASE l = k /\ req'[q] = req[q] /\ ~(Shares(q, Home[r], k) /\ Deleting(Home[r], k))
      <4>1. CASE Faithful(l, f)
        BY <1>3, <4>1
      <4>2. CASE ~Faithful(l, f) /\ req[q].pc \in {"encode", "respond"}
        <5>1. /\ f = db[o][k] /\ Deleting(o, k) /\ o \in Peer
              /\ Halfway(o, k) /\ req[q].msg[k] = db[o][k]
          BY <1>7, <3>2, <3>3, <3>4, <3>6, <4>2
        <5>2. o # Home[r]
          BY <3>1, <3>6, <4>2, <5>1 DEF Shares, Origin
        <5>3. db'[o][k] = db[o][k] /\ Halfway(o, k)'
          BY <1>1, <1>2, <1>4, <5>1, <5>2
        <5> QED BY <3>1, <3>6, <4>2, <5>1, <5>3
      <4> QED BY <1>7, <3>1, <3>3, <3>6, <4>1, <4>2
    <3>7. CASE l = k /\ Shares(q, Home[r], k) /\ req'[q] = [req[q] EXCEPT !.msg[k] = e]
      <4>1. f = e \/ f = req[q].msg[k]
        BY <1>0, <1>7, <3>7, Placed
      <4>2. f = e
        <5>1. req[q] \in RequestState /\ k \in Key
          BY <1>0, <1>1 DEF TypeOK
        <5>2. PICK n : n = [req[q].msg EXCEPT ![k] = e]
          OBVIOUS
        <5>3. n[k] = e
          BY <5>1, <5>2 DEF RequestState, Secrets
        <5>4. req'[q] = [req[q] EXCEPT !.msg = n]
          BY <3>7, <5>1, <5>2 DEF RequestState
        <5> QED BY <1>7, <3>7, <5>1, <5>3, <5>4 DEF RequestState
      <4>3. req[q].pc \in {"encode", "respond"} /\ o = Home[r]
        BY <3>1, <3>7 DEF Shares, Origin
      <4> QED BY <1>1, <1>2, <3>1, <3>7, <4>2, <4>3
    <3> QED BY <2>2, <3>5, <3>6, <3>7 DEF Puts
  <2> QED BY <2>1, <2>2
<1>8. \A q \in Request : MessageOK(q)'
  <2> SUFFICES ASSUME NEW q \in Request, NEW l \in Key
               PROVE  /\ req'[q].pc \in {"call", "reply"} => Faithful(l, req[q].msg[l])'
                      /\ req'[q].pc \in {"encode", "respond"} =>
                            \/ Faithful(l, req[q].msg[l])'
                            \/ (req[q].msg[l] = db[Origin(q)][l] /\ Halfway(Origin(q), l))'
    BY DEF MessageOK
  <2>1. PICK o : o = Origin(q)'
    OBVIOUS
  <2>2. PICK f : f = req'[q].msg[l]
    OBVIOUS
  <2> QED BY <1>7, <2>1, <2>2 DEF Faithful, Halfway
<1>9. ASSUME NEW q \in Peer, NEW l \in Key
      PROVE  /\ (IF Deleting(q, l) THEN Halfway(q, l) ELSE Faithful(l, db[q][l]))'
             /\ (file[q] # Torn => Faithful(l, file[q][l]))'
  <2>1. PICK f : f = db'[q][l]
    OBVIOUS
  <2>2. PICK g : g = file[q][l]
    OBVIOUS
  <2> QED BY <1>0, <1>5, <1>6, <2>1, <2>2 DEF Faithful
<1> QED BY <1>8, <1>9 DEF AllFaithful

\* Server p stops, or starts from its file: what its requests were doing is forgotten.
Forgets(p) ==
    /\ written' = written
    /\ \A q \in Request :
          \/ req'[q].pc \in {"idle", "sync"}
          \/ /\ req'[q] = req[q] /\ Home[q] # p
             /\ req[q].pc \in {"encode", "respond"} /\ Origin(q) = p => ~Locked(p)
    /\ \A q \in Request : Home[q] # p /\ req[q].pc \in {"erased", "marked"} => req'[q] = req[q]
    /\ \A q \in Peer \ {p} : db'[q] = db[q]
    /\ (\A k \in Key : db'[p][k] = None) \/ (file[p] # Torn /\ db'[p] = file[p])
    /\ \A q \in Peer : file'[q] \in {file[q], Torn}

LEMMA ForgetsFaithful ==
    ASSUME SyncIInv, AllFaithful, NEW p \in Peer, Forgets(p)
    PROVE  /\ AllFaithful'
           /\ \A q, k : /\ q # p => Deleting(q, k)' = Deleting(q, k)
                        /\ ~Deleting(p, k)'
<1>1. \A k, e : Faithful(k, e)' = Faithful(k, e)
  BY DEF Forgets, Faithful
<1>2. \A q, k : /\ q # p => Deleting(q, k)' = Deleting(q, k)
                /\ ~Deleting(p, k)'
  BY DEF Forgets, Deleting
<1>3. ASSUME NEW q \in Peer, NEW k \in Key
      PROVE  /\ IF Deleting(q, k)' THEN Halfway(q, k)' ELSE Faithful(k, db'[q][k])
             /\ file'[q] # Torn => Faithful(k, file'[q][k])
  <2>1. file[q] # Torn => Faithful(k, file[q][k])
    BY DEF AllFaithful
  <2>2. file'[q] # Torn => Faithful(k, file'[q][k])
    BY <2>1 DEF Forgets
  <2>3. CASE q = p
    BY <1>2, <2>1, <2>2, <2>3 DEF Forgets, Faithful
  <2>4. CASE q # p
    <3>1. db'[q] = db[q] /\ written' = written /\ Deleting(q, k)' = Deleting(q, k)
      BY <1>2, <2>4 DEF Forgets
    <3>2. IF Deleting(q, k) THEN Halfway(q, k) ELSE Faithful(k, db[q][k])
      BY DEF AllFaithful
    <3>3. Deleting(q, k) => Halfway(q, k)'
      BY <3>1, <3>2 DEF Halfway
    <3> QED BY <2>2, <3>1, <3>2, <3>3
  <2> QED BY <2>3, <2>4
<1>4. ASSUME NEW q \in Request, NEW k \in Key, NEW o, o = Origin(q)'
      PROVE  /\ req'[q].pc \in {"call", "reply"} => Faithful(k, req'[q].msg[k])
             /\ req'[q].pc \in {"encode", "respond"} =>
                   \/ Faithful(k, req'[q].msg[k])
                   \/ req'[q].msg[k] = db'[o][k] /\ Halfway(o, k)'
  <2>1. CASE req'[q].pc \in {"idle", "sync"}
    BY <2>1
  <2>2. CASE /\ req'[q] = req[q] /\ Home[q] # p
             /\ req[q].pc \in {"encode", "respond"} /\ Origin(q) = p => ~Locked(p)
    <3>1. o = Origin(q)
      BY <1>4, <2>2 DEF Origin
    <3>2. req[q].pc \in {"encode", "respond"} => o \in Peer
      BY <3>1 DEF Origin, SyncIInv, RequestsOK, Calling
    <3>3. /\ req[q].pc \in {"call", "reply"} => Faithful(k, req[q].msg[k])
          /\ req[q].pc \in {"encode", "respond"} =>
                \/ Faithful(k, req[q].msg[k])
                \/ req[q].msg[k] = db[o][k] /\ Halfway(o, k)
      BY <3>1 DEF AllFaithful, MessageOK
    <3>4. req[q].pc \in {"encode", "respond"} /\ Halfway(o, k) => o # p
      BY <2>2, <3>1, DeletingLocked DEF Halfway
    <3>5. req[q].pc \in {"encode", "respond"} /\ Halfway(o, k) => db'[o] = db[o] /\ Halfway(o, k)'
      BY <1>2, <3>2, <3>4 DEF Forgets, Halfway
    <3> QED BY <2>2, <3>2, <3>3, <3>5
  <2> QED BY <2>1, <2>2 DEF Forgets
<1>5. \A q \in Request : MessageOK(q)'
  <2> SUFFICES ASSUME NEW q \in Request PROVE MessageOK(q)'
    OBVIOUS
  <2>1. PICK o : o = Origin(q)'
    OBVIOUS
  <2>2. written' = written
    BY DEF Forgets
  <2> QED BY <1>4, <2>1, <2>2 DEF MessageOK, Faithful
<1>6. ASSUME NEW q \in Peer, NEW k \in Key
      PROVE  /\ (IF Deleting(q, k) THEN Halfway(q, k) ELSE Faithful(k, db[q][k]))'
             /\ (file[q] # Torn => Faithful(k, file[q][k]))'
  <2>1. PICK f : f = db'[q][k]
    OBVIOUS
  <2>2. PICK g : g = file'[q][k]
    OBVIOUS
  <2>3. written' = written
    BY DEF Forgets
  <2> QED BY <1>3, <2>1, <2>2, <2>3 DEF Faithful
<1> QED BY <1>2, <1>5, <1>6 DEF AllFaithful

LEMMA StopForgets ==
    ASSUME SyncIInv, NEW p \in Peer, Stop(p)
    PROVE  Forgets(p)
<1>0. /\ TypeOK /\ UNCHANGED written /\ \A k \in Key : NoSecrets[k] = None
  BY DEF SyncIInv, Stop, NoSecrets
<1>1. ASSUME NEW q \in Request
      PROVE  /\ \/ req'[q].pc \in {"idle", "sync"}
                \/ /\ req'[q] = req[q] /\ Home[q] # p
                   /\ req[q].pc \in {"encode", "respond"} /\ Origin(q) = p => ~Locked(p)
             /\ Home[q] # p /\ req[q].pc \in {"erased", "marked"} => req'[q] = req[q]
  <2>1. req[q] \in RequestState
    BY <1>0 DEF TypeOK
  <2>2. Idle.pc \in {"idle", "sync"} /\ NextPeer(req[q]).pc \in {"idle", "sync"}
    BY <2>1 DEF Idle, NextPeer, RequestState
  <2>3. \/ Home[q] = p /\ req'[q] = Idle
        \/ Home[q] # p /\ req[q].pc = "respond" /\ req'[q] = NextPeer(req[q])
        \/ Home[q] # p /\ ~(req[q].peer = p /\ req[q].pc = "respond") /\ req'[q] = req[q]
    BY DEF Stop
  <2>4. Home[q] # p /\ req[q].pc \in {"encode", "respond"} /\ Origin(q) = p =>
           req[q].peer = p /\ req[q].pc = "respond"
    BY DEF Origin
  <2>5. req[q].pc = "respond" => req[q].pc \notin {"erased", "marked"}
    OBVIOUS
  <2> QED BY <2>2, <2>3, <2>4, <2>5
<1>2. /\ db'[p] = NoSecrets /\ \A q \in Peer \ {p} : db'[q] = db[q]
  BY <1>0 DEF Stop, TypeOK
<1>3. \A q \in Peer : file'[q] \in {file[q], Torn}
  BY <1>0 DEF Stop, TypeOK
<1> QED BY <1>0, <1>1, <1>2, <1>3 DEF Forgets

LEMMA StartForgets ==
    ASSUME SyncIInv, NEW p \in Peer, NEW r \in Request, Start(p, r)
    PROVE  Forgets(p)
<1>0. /\ TypeOK /\ RequestsOK /\ UNCHANGED <<written, file>> /\ file[p] # Torn
      /\ up[p] = "down" /\ Home[r] = p
  BY DEF SyncIInv, Start
<1>1. /\ req'[r].pc = "sync" /\ \A q \in Request \ {r} : req'[q] = req[q]
  BY <1>0 DEF Start, TypeOK, Idle
<1>2. /\ db'[p] = file[p] /\ \A q \in Peer \ {p} : db'[q] = db[q]
  BY <1>0 DEF Start, TypeOK
<1>3. \A q \in Request : Home[q] = p => req[q].pc = "idle"
  BY <1>0 DEF RequestsOK
<1>4. ~Locked(p)
  BY <1>3 DEF Locked
<1> QED BY <1>0, <1>1, <1>2, <1>3, <1>4 DEF Forgets

\* A request that ends: nothing else changes.
LEMMA FinishFaithful ==
    ASSUME SyncIInv, AllFaithful, NEW r \in Request, Finish(r)
    PROVE  AllFaithful' /\ \A q, k : Deleting(q, k)' = Deleting(q, k)
<1>0. TypeOK /\ UNCHANGED <<written, db, file>> /\ req[r].pc = "sync"
  BY DEF SyncIInv, Finish
<1>1. /\ req'[r].pc = "idle" /\ \A q \in Request \ {r} : req'[q] = req[q]
  BY <1>0 DEF Finish, TypeOK, Idle
<1>2. \A q, k : Deleting(q, k)' = Deleting(q, k)
  BY <1>0, <1>1 DEF Deleting
<1>3. \A q \in Request : MessageOK(q)'
  <2>1. \A q \in Request \ {r} : Origin(q)' = Origin(q)
    BY <1>1 DEF Origin
  <2> QED BY <1>0, <1>1, <1>2, <2>1 DEF AllFaithful, MessageOK, Faithful, Halfway
<1> QED BY <1>0, <1>2, <1>3 DEF AllFaithful, Faithful, Halfway

\* Every step is of one of these kinds.
LEMMA Kinds ==
    ASSUME SyncIInv, [Next]_vars
    PROVE  \/ UNCHANGED vars
           \/ \E r \in Request : \/ \E x, p : Serves(r, x, p)
                                 \/ \E k, e, x : Puts(r, k, e, x)
                                 \/ Finish(r)
           \/ \E p \in Peer : Stop(p) \/ \E r \in Request : Start(p, r)
<1>1. ASSUME NEW r \in Request, Step(r)
      PROVE  (\E x, p : Serves(r, x, p)) \/ (\E k, e, x : Puts(r, k, e, x)) \/ Finish(r)
  <2>1. CASE Save(r) \/ SaveFails(r)
    BY <2>1, SaveServes
  <2>2. CASE (\E q \in Peer : CallPeer(r, q)) \/ Iterate(r) \/ Encode(r) \/ Respond(r)
    BY <2>2, SendServes
  <2>3. CASE Handle(r) \/ Merge(r) \/ CallFails(r) \/ \E p \in Peer : MergeFails(r, p)
    BY <2>3, MergeServes
  <2>4. CASE DeleteMark(r)
    BY <2>4, MarkPuts
  <2>5. CASE \E s \in Stamp : DeleteStamp(r, s)
    BY <2>5, StampPuts
  <2> QED BY <1>1, <2>1, <2>2, <2>3, <2>4, <2>5 DEF Step
<1>2. ASSUME NEW r \in Request, NEW k \in Key,
             DeleteErase(r, k) \/ \E s \in Stamp : Set(r, k, s)
      PROVE  \E e, x : Puts(r, k, e, x)
  BY <1>2, ErasePuts, SetPuts
<1>3. CASE \E p \in Peer : Crash(p) \/ ConcurrentMapAccess(p) \/ \E r \in Request : Start(p, r)
  BY <1>3 DEF Crash, ConcurrentMapAccess
<1> QED BY <1>1, <1>2, <1>3 DEF Next

\* The invariant that says so, until a secret is encoded while it is being deleted.
LEMMA WholeNextIInv == WholeIInv /\ [Next]_vars => WholeIInv'
<1> SUFFICES ASSUME WholeIInv, [Next]_vars, ~torn' PROVE AllFaithful'
  BY SyncNextIInv DEF WholeIInv
<1>1. SyncIInv /\ (~torn => AllFaithful)
  BY DEF WholeIInv
<1>2. CASE UNCHANGED vars
  BY <1>1, <1>2 DEF vars, AllFaithful, MessageOK, Origin, Faithful, Halfway, Deleting
<1>3. ASSUME NEW r \in Request, \E x, p : Serves(r, x, p)
      PROVE  AllFaithful'
  BY <1>3, ServesFaithful
<1>4. ASSUME NEW r \in Request, \E k, e, x : Puts(r, k, e, x)
      PROVE  AllFaithful'
  BY <1>4, PutsFaithful
<1>5. ASSUME NEW r \in Request, Finish(r)
      PROVE  AllFaithful'
  <2>1. torn' = torn
    BY <1>5 DEF Finish
  <2> QED BY <1>1, <1>5, <2>1, FinishFaithful
<1>6. ASSUME NEW p \in Peer, Stop(p) \/ \E r \in Request : Start(p, r)
      PROVE  AllFaithful'
  <2>1. torn' = torn
    BY <1>6 DEF Stop, Start
  <2>2. Forgets(p)
    BY <1>1, <1>6, StopForgets, StartForgets
  <2> QED BY <1>1, <2>1, <2>2, ForgetsFaithful
<1> QED BY <1>1, <1>2, <1>3, <1>4, <1>5, <1>6, Kinds

-----------------------------------------------------------------------------
(* The register.                                                           *)

Reg == [p \in Peer |-> AsWrites(p)]

AckedWrites ==
    [p \in Peer |-> IF up[p] = "down" /\ file[p] = Torn THEN {} ELSE Anonymous(acked[p])]

Running == {p \in Peer : up[p] # "down"}

Writes == Anonymous(written)

\* What a server holds is a change that was made.
Holds(r, k) == r \in {None} \cup {v \in Writes : v.key = k}

LEMMA LearnStep ==
    ASSUME NEW p \in Running, Running' = Running, AckedWrites' = AckedWrites, Writes' = Writes,
           \A q \in Peer \ {p} : Reg'[q] = Reg[q],
           \A k \in Key : /\ Holds(Reg'[p][k], k)
                          /\ Register!NotBefore(Reg'[p][k], Reg[p][k])
    PROVE  Register!Learn(p)
<1>1. Reg' = [Reg EXCEPT ![p] = Reg'[p]]
  BY DEF Reg, Running
<1> QED BY <1>1 DEF Register!Learn, Register!Change, Reg, AckedWrites, Running, Writes, Holds

\* The writes of a register are the changes and the entries that say what they were.
RegEntry(p, k) ==
    LET e == Held(p)[k] IN
    /\ e = None => Reg[p][k] = None
    /\ e # None => /\ Reg[p][k] = [key |-> k, stamp |-> e.stamp, live |-> Reg[p][k].live]
                   /\ Reg[p][k] # None /\ Reg[p][k].stamp = e.stamp /\ e.stamp \in Nat
                   /\ Reg[p][k].live = (Deleting(p, k) \/ e.state = "live")
    /\ Holds(Reg[p][k], k)

RegEntries == \A p \in Peer, k \in Key : RegEntry(p, k)

LEMMA RegHolds == SyncIInv /\ AllFaithful => RegEntries
<1> SUFFICES ASSUME SyncIInv, AllFaithful, NEW p \in Peer, NEW k \in Key PROVE RegEntry(p, k)
  BY DEF RegEntries
<1>1. TypeOK /\ RequestsOK
  BY DEF SyncIInv
<1>2. PICK e : e = Held(p)[k]
  OBVIOUS
<1>3. e \in Secret \cup {None}
  BY <1>1, <1>2 DEF Held, NoSecrets, TypeOK, Secrets
<1>4. Deleting(p, k) => up[p] = "up"
  BY <1>1 DEF Deleting, RequestsOK, Erasing
<1>5. IF Deleting(p, k) THEN Halfway(p, k) /\ e = db[p][k] ELSE Faithful(k, e)
  BY <1>1, <1>2, <1>4 DEF AllFaithful, Held, NoSecrets, Faithful
<1>6. CASE e = None
  <2>1. Reg[p][k] = None
    BY <1>2, <1>6 DEF Reg, AsWrites
  <2> QED BY <1>2, <1>6, <2>1 DEF RegEntry, Holds
<1>7. CASE e # None
  <2>1. PICK b : b = (Deleting(p, k) \/ e.state = "live")
    OBVIOUS
  <2>2. Reg[p][k] = [key |-> k, stamp |-> e.stamp, live |-> b]
    BY <1>2, <1>7, <2>1 DEF Reg, AsWrites
  <2>3. PICK w \in written : w.key = k /\ w.stamp = e.stamp /\ w.live = b
    <3>1. CASE Deleting(p, k)
      <4>1. b = TRUE
        BY <2>1, <3>1
      <4>2. PICK w \in written : w.key = k /\ w.stamp = e.stamp /\ w.live
        BY <1>5, <3>1 DEF Halfway
      <4>3. w.live = TRUE
        BY <1>1, <4>2 DEF TypeOK, Write
      <4> QED BY <4>1, <4>2, <4>3
    <3>2. CASE ~Deleting(p, k)
      <4>1. b = (e.state = "live")
        BY <2>1, <3>2
      <4> QED BY <1>5, <1>7, <3>2, <4>1 DEF Faithful
    <3> QED BY <3>1, <3>2
  <2>4. Reg[p][k] = [key |-> w.key, stamp |-> w.stamp, live |-> w.live]
    BY <2>2, <2>3
  <2>5. Reg[p][k] \in Writes /\ Reg[p][k].key = k
    BY <2>3, <2>4 DEF Writes, Anonymous
  <2>6. w \in Write /\ e.stamp \in Nat
    BY <1>1, <1>3, <1>7 DEF TypeOK, Secret, Stamp
  <2>7. Reg[p][k] # None
    BY <2>3, <2>4, <2>6 DEF Write
  <2>8. Reg[p][k].live = b /\ Reg[p][k].stamp = e.stamp
    BY <2>2
  <2> QED BY <1>2, <1>7, <2>1, <2>2, <2>5, <2>6, <2>7, <2>8 DEF RegEntry, Holds
<1> QED BY <1>6, <1>7

LEMMA RegHoldsNext == SyncIInv' /\ AllFaithful' => RegEntries'
BY RegHolds, PTL

LEMMA ServesLearns ==
    ASSUME WholeIInv, WholeIInv', ~torn', NEW r \in Request, NEW x, NEW p, Serves(r, x, p)
    PROVE  Register!Learn(p)
<1>0. /\ TypeOK /\ RegEntries /\ RegEntries' /\ p \in Running
      /\ UNCHANGED <<up, acked, written>> /\ p \in Peer
  BY RegHolds, RegHoldsNext DEF WholeIInv, SyncIInv, Serves, Running
<1>1. /\ \A q \in Peer \ {p} : db'[q] = db[q] /\ file'[q] = file[q]
      /\ \A k \in Key : db[p][k] # None => db'[p][k] # None /\ db'[p][k].stamp >= db[p][k].stamp
  BY <1>0, ServesGrows DEF Serves
<1>2. \A q, k : Deleting(q, k)' = Deleting(q, k)
  <2>1. /\ req'[r] = x /\ \A q \in Request \ {r} : req'[q] = req[q]
        /\ req[r].pc \notin {"erased", "marked"} /\ x.pc \notin {"erased", "marked"}
    BY <1>0 DEF Serves, TypeOK, Erasing
  <2> QED BY <2>1 DEF Deleting
<1>3. \A q \in Peer \ {p} : Reg'[q] = Reg[q]
  BY <1>0, <1>1, <1>2 DEF Reg, AsWrites, Held
<1>4. Running' = Running /\ Writes' = Writes
  BY <1>0 DEF Running, Writes, Anonymous
<1>5. AckedWrites' = AckedWrites
  BY <1>0, <1>1 DEF AckedWrites, Anonymous, Running
<1>6. \A k \in Key : Holds(Reg'[p][k], k)
  BY <1>0, <1>4 DEF RegEntries, RegEntry, Holds
<1>7. ASSUME NEW k \in Key
      PROVE  Register!NotBefore(Reg'[p][k], Reg[p][k])
  <2>1. Held(p)[k] = db[p][k] /\ Held(p)'[k] = db'[p][k]
    BY <1>0 DEF Held, Running
  <2>2. RegEntry(p, k) /\ RegEntry(p, k)'
    BY <1>0 DEF RegEntries
  <2>3. /\ db[p][k] = None => Reg[p][k] = None
        /\ db[p][k] # None => Reg[p][k].stamp = db[p][k].stamp
        /\ db'[p][k] # None => Reg'[p][k] # None /\ Reg'[p][k].stamp = db'[p][k].stamp
    BY <2>1, <2>2 DEF RegEntry
  <2> QED BY <1>1, <2>3 DEF Register!NotBefore
<1> QED BY <1>0, <1>3, <1>4, <1>5, <1>6, <1>7, LearnStep

LEMMA PutStep ==
    ASSUME NEW p \in Running, NEW k \in Key, NEW w, w.key = k,
           \A v \in Writes : v.stamp < w.stamp, Writes' = Writes \cup {w},
           \A q \in Peer \ {p} : Reg'[q] = Reg[q],
           \A l \in Key \ {k} : Reg'[p][l] = Reg[p][l], Reg'[p][k] = w,
           Running' = Running, AckedWrites' = AckedWrites
    PROVE  Register!Put(p, w)
<1>1. \A q \in Peer : Reg'[q] = [l \in Key |-> Reg'[q][l]] /\ Reg[q] = [l \in Key |-> Reg[q][l]]
  BY DEF Reg, AsWrites
<1>2. Reg'[p] = [Reg[p] EXCEPT ![k] = w]
  BY <1>1 DEF Running
<1>3. Reg' = [Reg EXCEPT ![p] = [Reg[p] EXCEPT ![k] = w]]
  BY <1>2 DEF Reg, Running
<1>4. Reg' = [Reg EXCEPT ![p][w.key] = w]
  BY <1>3
<1> QED BY <1>4 DEF Register!Put, Reg, AckedWrites, Running, Writes

\* Set and Delete write, and Delete has no effect before it dates the secret.
LEMMA PutsPut ==
    ASSUME WholeIInv, WholeIInv', ~torn', setting.clock = "sound",
           NEW r \in Request, NEW k, NEW e, NEW x, Puts(r, k, e, x)
    PROVE  \/ \E w : w \in Register!Write /\ Register!Put(Home[r], w)
           \/ UNCHANGED <<Writes, Reg, AckedWrites, Running>>
<1>0. /\ TypeOK /\ Dated /\ RegEntries /\ RegEntries' /\ AllFaithful /\ e \in Secret
      /\ Home[r] \in Peer /\ k \in Key /\ Home[r] \in Running /\ up[Home[r]] = "up"
      /\ UNCHANGED <<up, acked, file>>
  BY RegHolds, RegHoldsNext DEF WholeIInv, SyncIInv, Puts, Running
<1>1. /\ db'[Home[r]][k] = e
      /\ \A q \in Peer, l \in Key : <<q, l>> # <<Home[r], k>> => db'[q][l] = db[q][l]
      /\ db' \in [Peer -> Secrets]
  BY <1>0, Placed
<1>2. /\ \A q \in Peer, l \in Key :
            <<q, l>> # <<Home[r], k>> => Deleting(q, l)' = Deleting(q, l)
      /\ IF x.pc \in {"erased", "marked"} THEN Deleting(Home[r], k)' ELSE ~Deleting(Home[r], k)'
      /\ x.pc \in {"erased", "marked"} =>
            /\ written' = written /\ e.stamp = db[Home[r]][k].stamp /\ db[Home[r]][k] # None
            /\ Deleting(Home[r], k) \/ db[Home[r]][k].state = "live"
  BY <1>0, PutsEntry
<1>3. Running' = Running /\ AckedWrites' = AckedWrites
  BY <1>0 DEF Running, AckedWrites, Anonymous
<1>4. ASSUME NEW q \in Peer \ {Home[r]}
      PROVE  Reg'[q] = Reg[q]
  <2>1. db'[q] = db[q]
    BY <1>0, <1>1 DEF TypeOK, Secrets
  <2> QED BY <1>0, <1>2, <2>1 DEF Reg, AsWrites, Held
<1>5. ASSUME NEW l \in Key \ {k}
      PROVE  Reg'[Home[r]][l] = Reg[Home[r]][l]
  <2>1. db'[Home[r]][l] = db[Home[r]][l] /\ Deleting(Home[r], l)' = Deleting(Home[r], l)
    BY <1>0, <1>1, <1>2
  <2> QED BY <1>0, <2>1 DEF Reg, AsWrites, Held
<1>6. CASE x.pc \in {"erased", "marked"}
  <2>1. Reg'[Home[r]][k] = [key |-> k, stamp |-> e.stamp, live |-> TRUE]
    BY <1>0, <1>1, <1>2, <1>6 DEF Reg, AsWrites, Held
  <2>2. Reg[Home[r]][k] = [key |-> k, stamp |-> e.stamp, live |-> TRUE]
    <3>1. Deleting(Home[r], k) \/ db[Home[r]][k].state = "live"
      BY <1>2, <1>6
    <3>2. Reg[Home[r]][k] = [key |-> k, stamp |-> e.stamp,
                             live |-> Deleting(Home[r], k) \/ db[Home[r]][k].state = "live"]
      BY <1>0, <1>2, <1>6 DEF Reg, AsWrites, Held
    <3> QED BY <3>1, <3>2
  <2>3. \A q \in Peer, l \in Key : Reg'[q][l] = Reg[q][l]
    BY <1>4, <1>5, <2>1, <2>2
  <2>4. Reg' = Reg
    BY <2>3 DEF Reg, AsWrites
  <2>5. Writes' = Writes
    BY <1>2, <1>6 DEF Writes, Anonymous
  <2> QED BY <1>3, <2>4, <2>5
<1>7. CASE x.pc = "save" /\ New(x.change, k, e) /\ x.change.live = (e.state = "live")
  <2>1. PICK c : c = x.change
    OBVIOUS
  <2>2. /\ c \in Write /\ c.key = k /\ c.stamp = e.stamp /\ written' = written \cup {c}
        /\ c.stamp = Cardinality(written) + 1 /\ c.live = (e.state = "live")
    BY <1>0, <1>7, <2>1 DEF New, Puts
  <2>3. PICK w : w = [key |-> c.key, stamp |-> c.stamp, live |-> c.live]
    OBVIOUS
  <2>4. w \in Register!Write /\ w.key = k /\ w.stamp = c.stamp
    BY <2>2, <2>3 DEF Register!Write, Write, Stamp
  <2>5. Reg'[Home[r]][k] = w
    <3>1. Reg'[Home[r]][k] = [key |-> k, stamp |-> e.stamp,
                              live |-> Deleting(Home[r], k)' \/ e.state = "live"]
      BY <1>0, <1>1 DEF Reg, AsWrites, Held, Secret
    <3>2. ~Deleting(Home[r], k)'
      BY <1>2, <1>7
    <3> QED BY <2>2, <2>3, <3>1, <3>2
  <2>6. Writes' = Writes \cup {w}
    BY <2>2, <2>3 DEF Writes, Anonymous
  <2>7. ASSUME NEW v \in Writes
        PROVE  v.stamp < w.stamp
    <3>1. PICK u \in written : v.stamp = u.stamp
      BY DEF Writes, Anonymous
    <3>2. u.stamp \in Nat /\ u.stamp <= Cardinality(written) /\ Cardinality(written) \in Nat
      BY <1>0, FS_CardinalityType DEF Dated, TypeOK, Write, Stamp
    <3> QED BY <2>2, <2>4, <3>1, <3>2
  <2>8. Register!Put(Home[r], w)
    BY <1>0, <1>3, <1>4, <1>5, <2>4, <2>5, <2>6, <2>7, PutStep
  <2> QED BY <2>4, <2>8
<1> QED BY <1>6, <1>7 DEF Puts

\* The user is told of a change that the server holds.
LEMMA FinishAcknowledges ==
    ASSUME WholeIInv, WholeIInv', ~torn', setting.clock = "sound",
           NEW r \in Request, Finish(r)
    PROVE  \/ \E w \in Writes : Register!Acknowledge(Home[r], w)
           \/ UNCHANGED <<Writes, Reg, AckedWrites, Running>>
<1>0. /\ TypeOK /\ RegEntries /\ AllFaithful /\ SyncIInv
      /\ Home[r] \in Peer /\ up[Home[r]] # "down" /\ req[r].pc = "sync"
      /\ UNCHANGED <<db, file, written, torn>>
      /\ (req[r].change # None => HasChange(r))
  BY RegHolds DEF WholeIInv, SyncIInv, Finish, RequestsOK, ChangesOK
<1>1. /\ up'[Home[r]] = "up" /\ \A q \in Peer \ {Home[r]} : up'[q] = up[q]
      /\ \A q \in Peer \ {Home[r]} : acked'[q] = acked[q]
      /\ acked'[Home[r]] = IF req[r].change = None THEN acked[Home[r]]
                           ELSE acked[Home[r]] \cup {req[r].change}
  BY <1>0 DEF Finish, TypeOK
<1>2. \A q, k : Deleting(q, k)' = Deleting(q, k)
  BY <1>0, FinishFaithful
<1>3. \A q \in Peer : Held(q)' = Held(q)
  BY <1>0, <1>1 DEF Held
<1>4. Reg' = Reg /\ Running' = Running /\ Writes' = Writes
  BY <1>0, <1>1, <1>2, <1>3 DEF Reg, AsWrites, Running, Writes, Anonymous
<1>5. CASE req[r].change = None
  <2>1. AckedWrites' = AckedWrites
    BY <1>0, <1>1, <1>5 DEF AckedWrites, Anonymous
  <2> QED BY <1>4, <2>1
<1>6. CASE req[r].change # None
  <2>1. PICK c : c = req[r].change
    OBVIOUS
  <2>2. /\ c \in written /\ c \in Write /\ c.key \in Key /\ c.stamp \in Nat
        /\ NotBefore(db[Home[r]][c.key], c.stamp)
    BY <1>0, <1>6, <2>1 DEF HasChange, TypeOK, Write, Stamp
  <2>3. PICK w : w = [key |-> c.key, stamp |-> c.stamp, live |-> c.live]
    OBVIOUS
  <2>4. w \in Writes /\ w.key = c.key /\ w.stamp = c.stamp
    BY <2>2, <2>3 DEF Writes, Anonymous
  <2>5. Register!NotBefore(Reg[Home[r]][w.key], w)
    <3>1. RegEntry(Home[r], c.key) /\ Held(Home[r]) = db[Home[r]]
      BY <1>0, <2>2 DEF RegEntries, Held
    <3> QED BY <2>2, <2>4, <3>1 DEF RegEntry, Register!NotBefore, NotBefore
  <2>6. Anonymous(acked[Home[r]] \cup {c}) = Anonymous(acked[Home[r]]) \cup {w}
    BY <2>3 DEF Anonymous
  <2>7. AckedWrites' = [AckedWrites EXCEPT ![Home[r]] = AckedWrites[Home[r]] \cup {w}]
    <3>1. \A q \in Peer \ {Home[r]} : AckedWrites'[q] = AckedWrites[q]
      BY <1>0, <1>1 DEF AckedWrites, Anonymous
    <3>2. acked'[Home[r]] = acked[Home[r]] \cup {c}
      BY <1>1, <1>6, <2>1
    <3>3. AckedWrites'[Home[r]] = Anonymous(acked'[Home[r]])
      BY <1>0, <1>1 DEF AckedWrites, Anonymous
    <3>4. AckedWrites'[Home[r]] = AckedWrites[Home[r]] \cup {w}
      BY <1>0, <2>6, <3>2, <3>3 DEF AckedWrites
    <3> QED BY <1>0, <3>1, <3>4 DEF AckedWrites
  <2>8. Register!Acknowledge(Home[r], w)
    BY <1>0, <1>4, <2>5, <2>7 DEF Register!Acknowledge, Reg, AckedWrites, Running, Writes
  <2> QED BY <2>4, <2>8
<1> QED BY <1>5, <1>6

\* A server that stops goes back to its file, or has lost it.
LEMMA StopStops ==
    ASSUME WholeIInv, WholeIInv', ~torn', setting.clock = "sound",
           NEW p \in Peer, Stop(p)
    PROVE  Register!Stop(p) \/ Register!Wreck(p)
<1>0. /\ TypeOK /\ RegEntries' /\ AllFaithful /\ SyncIInv /\ AckedOK
      /\ up[p] # "down" /\ UNCHANGED <<written, acked, torn>>
  BY RegHoldsNext DEF WholeIInv, SyncIInv, Stop
<1>1. /\ up'[p] = "down" /\ \A q \in Peer \ {p} : up'[q] = up[q]
      /\ \A q \in Peer \ {p} : db'[q] = db[q] /\ file'[q] = file[q]
      /\ file'[p] \in {file[p], Torn}
  BY <1>0 DEF Stop, TypeOK
<1>2. \A q, k : /\ q # p => Deleting(q, k)' = Deleting(q, k)
                /\ ~Deleting(p, k)'
  BY <1>0, StopForgets, ForgetsFaithful
<1>3. p \in Running /\ Running' = Running \ {p} /\ Writes' = Writes
  BY <1>0, <1>1 DEF Running, Writes, Anonymous
<1>4. \A q \in Peer \ {p} : Reg'[q] = Reg[q] /\ AckedWrites'[q] = AckedWrites[q]
  BY <1>0, <1>1, <1>2 DEF Reg, AsWrites, Held, AckedWrites, Anonymous
<1>5. AckedWrites[p] = Anonymous(acked[p])
  BY <1>0 DEF AckedWrites
<1>6. CASE file'[p] = Torn
  <2>1. Reg'[p] = Register!Nothing
    BY <1>1, <1>6 DEF Reg, AsWrites, Held, NoSecrets, Register!Nothing
  <2>2. AckedWrites'[p] = {}
    BY <1>1, <1>6 DEF AckedWrites
  <2>3. /\ Reg' = [Reg EXCEPT ![p] = Register!Nothing]
        /\ AckedWrites' = [AckedWrites EXCEPT ![p] = {}]
    BY <1>4, <2>1, <2>2 DEF Reg, AckedWrites
  <2>4. Register!Wreck(p)
    BY <1>3, <2>3 DEF Register!Wreck, Reg, AckedWrites, Running, Writes
  <2> QED BY <2>4
<1>7. CASE file'[p] # Torn
  <2>1. file'[p] = file[p] /\ file[p] # Torn
    BY <1>1, <1>7
  <2>2. AckedWrites' = AckedWrites
    <3>1. AckedWrites'[p] = AckedWrites[p]
      BY <1>0, <1>5, <1>7 DEF AckedWrites, Anonymous
    <3> QED BY <1>4, <3>1 DEF AckedWrites
  <2>3. Reg' = [Reg EXCEPT ![p] = Reg'[p]]
    BY <1>4 DEF Reg
  <2>4. \A k \in Key : Holds(Reg'[p][k], k)
    BY <1>0, <1>3 DEF RegEntries, RegEntry, Holds
  <2>5. ASSUME NEW w \in AckedWrites[p]
        PROVE  Register!NotBefore(Reg'[p][w.key], w)
    <3>1. PICK c \in acked[p] : w = [key |-> c.key, stamp |-> c.stamp, live |-> c.live]
      BY <1>5 DEF Anonymous
    <3>2. c \in written /\ c.key \in Key /\ NotBefore(file[p][c.key], c.stamp)
      BY <1>0, <2>1 DEF AckedOK, TypeOK, Write
    <3>3. Held(p)' = file[p]
      BY <1>1, <2>1 DEF Held
    <3>4. RegEntry(p, c.key)'
      BY <1>0, <3>2 DEF RegEntries
    <3>5. Reg'[p][c.key] # None /\ Reg'[p][c.key].stamp >= c.stamp
      BY <3>2, <3>3, <3>4 DEF RegEntry, NotBefore
    <3> QED BY <3>1, <3>5 DEF Register!NotBefore
  <2>6. Register!Stop(p)
    BY <1>3, <2>2, <2>3, <2>4, <2>5
       DEF Register!Stop, Register!Change, Reg, AckedWrites, Running, Writes, Holds
  <2> QED BY <2>6
<1> QED BY <1>6, <1>7

LEMMA StartRestarts ==
    ASSUME WholeIInv, NEW p \in Peer, NEW r \in Request, Start(p, r), ~torn'
    PROVE  Register!Restart(p)
<1>0. /\ TypeOK /\ AllFaithful /\ SyncIInv /\ RequestsOK
      /\ up[p] = "down" /\ file[p] # Torn /\ UNCHANGED <<written, acked, file, torn>>
  BY DEF WholeIInv, SyncIInv, Start
<1>1. /\ up'[p] = "starting" /\ \A q \in Peer \ {p} : up'[q] = up[q]
      /\ db'[p] = file[p] /\ \A q \in Peer \ {p} : db'[q] = db[q]
  BY <1>0 DEF Start, TypeOK
<1>2. \A q, k : /\ q # p => Deleting(q, k)' = Deleting(q, k)
                /\ ~Deleting(p, k)'
  BY <1>0, StartForgets, ForgetsFaithful
<1>3. \A k : ~Deleting(p, k)
  BY <1>0 DEF Deleting, RequestsOK
<1>4. \A q \in Peer : Held(q)' = Held(q)
  BY <1>0, <1>1 DEF Held
<1>5. \A q \in Peer : AsWrites(q)' = AsWrites(q)
  BY <1>2, <1>3, <1>4 DEF AsWrites
<1>6. Reg' = Reg
  BY <1>5 DEF Reg
<1>7. Writes' = Writes /\ AckedWrites' = AckedWrites
  BY <1>0, <1>1 DEF Writes, Anonymous, AckedWrites
<1>8. p \notin Running /\ Running' = Running \cup {p}
  BY <1>0, <1>1 DEF Running
<1> QED BY <1>6, <1>7, <1>8 DEF Register!Restart, Reg, AckedWrites, Running, Writes

-----------------------------------------------------------------------------
LEMMA WholeInitIInv == Init => WholeIInv
<1> SUFFICES ASSUME Init PROVE AllFaithful
  BY SyncInitIInv DEF WholeIInv
<1>1. \A r \in Request : req[r].pc = "idle"
  BY DEF Init, Idle
<1>2. \A p \in Peer, k \in Key : db[p][k] = None /\ file[p][k] = None
  BY DEF Init, NoSecrets
<1> QED BY <1>1, <1>2 DEF AllFaithful, MessageOK, Faithful, Deleting

LEMMA InitRegister == Init => Register!Init
<1> SUFFICES ASSUME Init PROVE Register!Init
  OBVIOUS
<1>1. \A p \in Peer : up[p] = "up" /\ db[p] = NoSecrets /\ acked[p] = {} /\ written = {}
  BY DEF Init
<1>2. \A p \in Peer : AsWrites(p) = Register!Nothing
  BY <1>1 DEF AsWrites, Held, NoSecrets, Register!Nothing
<1>3. Anonymous({}) = {}
  BY DEF Anonymous
<1>4. Writes = {} /\ Running = Peer /\ AckedWrites = [p \in Peer |-> {}]
  BY <1>1, <1>3 DEF Init, Writes, Running, AckedWrites
<1>5. Reg = [p \in Peer |-> Register!Nothing]
  BY <1>2 DEF Reg
<1> QED BY <1>4, <1>5 DEF Register!Init, Writes, Running, AckedWrites, Reg

LEMMA NextRegister ==
    WholeIInv /\ WholeIInv' /\ [Next]_vars => [Excused \/ Register!Next]_(Register!vars)
<1> SUFFICES ASSUME WholeIInv, WholeIInv', [Next]_vars, ~torn', setting.clock # "skewed"
             PROVE  Register!Next \/ UNCHANGED <<Writes, Reg, AckedWrites, Running>>
  BY DEF Excused, Register!vars, Writes, Reg, AckedWrites, Running
<1>1. SyncIInv /\ setting.clock = "sound"
  BY DEF WholeIInv, SyncIInv, TypeOK, Setting
<1>2. CASE UNCHANGED vars
  BY <1>2 DEF vars, Writes, Reg, AckedWrites, Running, Anonymous, AsWrites, Held, Deleting
<1>3. ASSUME NEW r \in Request, \E x, p : Serves(r, x, p)
      PROVE  Register!Next
  BY <1>3, ServesLearns DEF Register!Next, Serves
<1>4. ASSUME NEW r \in Request, \E k, e, x : Puts(r, k, e, x)
      PROVE  Register!Next \/ UNCHANGED <<Writes, Reg, AckedWrites, Running>>
  BY <1>1, <1>4, PutsPut DEF Register!Next
<1>5. ASSUME NEW r \in Request, Finish(r)
      PROVE  Register!Next \/ UNCHANGED <<Writes, Reg, AckedWrites, Running>>
  BY <1>1, <1>5, FinishAcknowledges DEF Register!Next, Writes
<1>6. ASSUME NEW p \in Peer, Stop(p) \/ \E r \in Request : Start(p, r)
      PROVE  Register!Next
  BY <1>1, <1>6, StopStops, StartRestarts DEF Register!Next
<1> QED BY <1>1, <1>2, <1>3, <1>4, <1>5, <1>6, Kinds

(***************************************************************************)
(* The secrets of any number of servers are a register: whatever the order *)
(* in which they call each other and merge, a server only goes back to an  *)
(* earlier change when it stops, and never before one it has acknowledged, *)
(* until a secret is encoded while Delete is changing it.                  *)
(***************************************************************************)
THEOREM SecretsAreARegister == Spec => ImplementsRegister
<1>1. Spec => []WholeIInv
  BY WholeInitIInv, WholeNextIInv, PTL DEF Spec
<1> QED BY <1>1, InitRegister, NextRegister, PTL DEF Spec, ImplementsRegister

-----------------------------------------------------------------------------
(* Convergence.                                                            *)

Syncing(r) == req[r].pc \in {"sync", "iterate", "encode", "call", "respond", "reply"}

\* Request r of the server that made change w has yet to send it to server q.
Brings(r, w, q) ==
    /\ Home[r] = w.by
    /\ \/ req[r].pc = "save"
       \/ /\ Syncing(r) /\ q \in req[r].todo
          /\ req[r].pc # "sync" /\ req[r].peer = q =>
                /\ req[r].pc \in {"iterate", "encode", "call"}
                /\ req[r].pc # "iterate" => NotBefore(req[r].msg[w.key], w.stamp)

\* Request r of server q has yet to get change w from the server that made it: what it sends
\* is older, what is answered is not.
Asks(r, w, q) ==
    /\ Home[r] = q
    /\ \/ req[r].pc = "save"
       \/ /\ Syncing(r) /\ w.by \in req[r].todo
          /\ req[r].pc # "sync" /\ req[r].peer = w.by =>
                /\ req[r].pc \in {"encode", "call"} => ~NotBefore(req[r].msg[w.key], w.stamp)
                /\ req[r].pc \in {"respond", "reply"} => NotBefore(req[r].msg[w.key], w.stamp)

Reaches(w, q) ==
    \/ NotBefore(db[q][w.key], w.stamp)
    \/ q # w.by /\ \E r \in Request : Brings(r, w, q) \/ Asks(r, w, q)

AllReach == \A w \in written, q \in Peer : Reaches(w, q)

\* A server whose file is not its map has a request that will save.
WillSave == \A p \in Peer : \/ file[p] = db[p]
                            \/ \E r \in Request : Home[r] = p /\ (Erasing(r) \/ req[r].pc = "save")

\* The entry is what its change was, or a later change replaces it, or will.
Replaced(k, e) ==
    \/ Faithful(k, e)
    \/ \E w \in written : w.key = k /\ w.stamp > e.stamp
    \/ \E p \in Peer : Deleting(p, k)

AllReplaced ==
    \A k \in Key : /\ \A p \in Peer : Replaced(k, db[p][k])
                   /\ \A r \in Request : Replaced(k, req[r].msg[k])

Converging ==
    /\ \A p \in Peer : up[p] = "up"
    /\ AllReach /\ WillSave
    /\ setting.clock = "sound" => AllReplaced

ConvIInv == WholeIInv /\ (sound => Converging)

\* Merging leaves what both maps have, or later.
LEMMA MergedNotBefore ==
    ASSUME NEW my \in Secrets, NEW other \in Secrets, NEW k \in Key, NEW s \in Nat
    PROVE  /\ NotBefore(other[k], s) => NotBefore(Merged(my, other)[k], s)
           /\ NotBefore(my[k], s) /\ ~NotBefore(other[k], s) => NotBefore(Newer(my, other)[k], s)
<1>1. my[k] \in Secret \cup {None} /\ other[k] \in Secret \cup {None}
  BY DEF Secrets
<1>2. \A e \in Secret : e.stamp \in Nat
  BY DEF Secret, Stamp
<1> QED BY <1>1, <1>2 DEF Merged, Newer, Later, NotBefore

\* What a request is bringing arrives, or it still brings it.
LEMMA BringsOn ==
    ASSUME ConvIInv, sound', NEW r \in Request, Step(r), NEW w \in written, NEW q \in Peer \ {w.by},
           Brings(r, w, q)
    PROVE  NotBefore(db'[q][w.key], w.stamp) \/ Brings(r, w, q)'
<1>0. /\ SyncIInv /\ TypeOK /\ req[r].msg \in Secrets /\ db[q] \in Secrets /\ Home[r] = w.by
      /\ w.key \in Key /\ w.stamp \in Nat /\ req[r].pc \notin {"idle", "erased", "marked"}
      /\ req[r].pc # "save" => /\ Syncing(r) /\ q \in req[r].todo
  BY DEF ConvIInv, WholeIInv, SyncIInv, TypeOK, RequestState, Write, Stamp, Brings, Syncing
<1>1. req[r] \in RequestState
  BY <1>0 DEF TypeOK
<1>2. CASE Save(r)
  <2>1. req'[r].pc = "sync" /\ req'[r].todo = Peer \ {w.by}
    BY <1>0, <1>1, <1>2 DEF Save, TypeOK, RequestState
  <2> QED BY <1>0, <2>1 DEF Brings, Syncing
<1>3. CASE \E c \in Peer : CallPeer(r, c)
  <2>1. req'[r].pc = "iterate" /\ req'[r].todo = req[r].todo
    BY <1>0, <1>1, <1>3 DEF CallPeer, TypeOK, RequestState
  <2>2. q \in req[r].todo
    BY <1>0, <1>3 DEF CallPeer
  <2> QED BY <1>0, <2>1, <2>2 DEF Brings, Syncing
<1>4. CASE Iterate(r)
  <2>1. /\ req'[r].pc = "encode" /\ req'[r].todo = req[r].todo /\ req'[r].peer = req[r].peer
        /\ req'[r].msg = db[w.by] /\ q \in req[r].todo
    BY <1>0, <1>1, <1>4 DEF Iterate, TypeOK, RequestState
  <2>2. sound
    BY <1>4 DEF Iterate
  <2>3. NotBefore(db[w.by][w.key], w.stamp)
    BY <1>0, <2>2 DEF ConvIInv, Converging, AllReach, Reaches, TypeOK, Write
  <2> QED BY <1>0, <2>1, <2>3 DEF Brings, Syncing
<1>5. CASE Encode(r)
  <2>1. /\ req[r].pc = "encode" /\ req'[r].pc = "call" /\ req'[r].todo = req[r].todo
        /\ req'[r].peer = req[r].peer /\ req'[r].msg = req[r].msg
    BY <1>0, <1>1, <1>5 DEF Encode, TypeOK, RequestState
  <2> QED BY <1>0, <2>1 DEF Brings, Syncing
<1>6. CASE Handle(r)
  <2>1. /\ req[r].pc = "call" /\ req'[r].pc = "respond" /\ req'[r].todo = req[r].todo
        /\ req'[r].peer = req[r].peer
        /\ db' = [db EXCEPT ![req[r].peer] = Merged(db[req[r].peer], req[r].msg)]
    BY <1>0, <1>1, <1>6 DEF Handle, TypeOK, RequestState
  <2>2. CASE req[r].peer = q
    <3>1. NotBefore(req[r].msg[w.key], w.stamp)
      BY <2>1, <2>2 DEF Brings
    <3>2. db'[q] = Merged(db[q], req[r].msg)
      BY <1>0, <2>1, <2>2 DEF TypeOK
    <3> QED BY <1>0, <3>1, <3>2, MergedNotBefore
  <2>3. CASE req[r].peer # q
    BY <1>0, <2>1, <2>3 DEF Brings, Syncing
  <2> QED BY <2>2, <2>3
<1>7. CASE Respond(r)
  <2>1. /\ req[r].pc = "respond" /\ req'[r].pc = "reply" /\ req'[r].todo = req[r].todo
        /\ req'[r].peer = req[r].peer
    BY <1>0, <1>1, <1>7 DEF Respond, TypeOK, RequestState
  <2> QED BY <1>0, <2>1 DEF Brings, Syncing
<1>8. CASE Merge(r)
  <2>1. /\ req[r].pc = "reply" /\ req'[r].pc = "sync" /\ req'[r].todo = req[r].todo \ {req[r].peer}
    BY <1>0, <1>1, <1>8 DEF Merge, NextPeer, TypeOK, RequestState
  <2>2. req[r].peer # q
    BY <2>1 DEF Brings
  <2> QED BY <1>0, <2>1, <2>2 DEF Brings, Syncing
<1>9. CASE Finish(r)
  BY <1>0, <1>9 DEF Finish
<1>10. CASE DeleteMark(r) \/ \E s \in Stamp : DeleteStamp(r, s)
  BY <1>0, <1>10 DEF DeleteMark, DeleteStamp
<1>11. CASE SaveFails(r) \/ CallFails(r) \/ \E p \in Peer : MergeFails(r, p)
  BY <1>11 DEF SaveFails, CallFails, MergeFails
<1> QED BY <1>2, <1>3, <1>4, <1>5, <1>6, <1>7, <1>8, <1>9, <1>10, <1>11 DEF Step

\* What a request is asking for is answered, or it still asks for it.
LEMMA AsksOn ==
    ASSUME ConvIInv, sound', NEW r \in Request, Step(r), NEW w \in written, NEW q \in Peer \ {w.by},
           Asks(r, w, q)
    PROVE  NotBefore(db'[q][w.key], w.stamp) \/ Asks(r, w, q)'
<1>0. /\ SyncIInv /\ TypeOK /\ req[r].msg \in Secrets /\ db[q] \in Secrets /\ Home[r] = q
      /\ w.key \in Key /\ w.stamp \in Nat /\ w.by \in Peer
      /\ req[r].pc \notin {"idle", "erased", "marked"}
      /\ req[r].pc # "save" => /\ Syncing(r) /\ w.by \in req[r].todo
  BY DEF ConvIInv, WholeIInv, SyncIInv, TypeOK, RequestState, Write, Stamp, Asks, Syncing
<1>1. req[r] \in RequestState
  BY <1>0 DEF TypeOK
<1>2. CASE Save(r)
  <2>1. req'[r].pc = "sync" /\ req'[r].todo = Peer \ {q}
    BY <1>0, <1>1, <1>2 DEF Save, TypeOK, RequestState
  <2> QED BY <1>0, <2>1 DEF Asks, Syncing
<1>3. CASE \E c \in Peer : CallPeer(r, c)
  <2>1. req'[r].pc = "iterate" /\ req'[r].todo = req[r].todo
    BY <1>0, <1>1, <1>3 DEF CallPeer, TypeOK, RequestState
  <2>2. w.by \in req[r].todo
    BY <1>0, <1>3 DEF CallPeer
  <2> QED BY <1>0, <2>1, <2>2 DEF Asks, Syncing
<1>4. CASE Iterate(r)
  <2>1. /\ req'[r].pc = "encode" /\ req'[r].todo = req[r].todo /\ req'[r].peer = req[r].peer
        /\ req'[r].msg = db[q] /\ w.by \in req[r].todo /\ db' = db
    BY <1>0, <1>1, <1>4 DEF Iterate, TypeOK, RequestState
  <2> QED BY <1>0, <2>1 DEF Asks, Syncing
<1>5. CASE Encode(r)
  <2>1. /\ req[r].pc = "encode" /\ req'[r].pc = "call" /\ req'[r].todo = req[r].todo
        /\ req'[r].peer = req[r].peer /\ req'[r].msg = req[r].msg
    BY <1>0, <1>1, <1>5 DEF Encode, TypeOK, RequestState
  <2> QED BY <1>0, <2>1 DEF Asks, Syncing
<1>6. CASE Handle(r)
  <2>1. /\ req[r].pc = "call" /\ req'[r].pc = "respond" /\ req'[r].todo = req[r].todo
        /\ req'[r].peer = req[r].peer /\ req'[r].msg = Newer(db[req[r].peer], req[r].msg)
    BY <1>0, <1>1, <1>6 DEF Handle, TypeOK, RequestState
  <2>2. CASE req[r].peer = w.by
    <3>1. ~NotBefore(req[r].msg[w.key], w.stamp)
      BY <2>1, <2>2 DEF Asks
    <3>2. NotBefore(db[w.by][w.key], w.stamp) /\ db[w.by] \in Secrets
      <4>1. sound
        BY <1>6 DEF Handle
      <4> QED BY <1>0, <4>1 DEF ConvIInv, Converging, AllReach, Reaches, TypeOK
    <3>3. NotBefore(req'[r].msg[w.key], w.stamp)
      BY <1>0, <2>1, <2>2, <3>1, <3>2, MergedNotBefore
    <3> QED BY <1>0, <2>1, <3>3 DEF Asks, Syncing
  <2>3. CASE req[r].peer # w.by
    BY <1>0, <2>1, <2>3 DEF Asks, Syncing
  <2> QED BY <2>2, <2>3
<1>7. CASE Respond(r)
  <2>1. /\ req[r].pc = "respond" /\ req'[r].pc = "reply" /\ req'[r].todo = req[r].todo
        /\ req'[r].peer = req[r].peer /\ req'[r].msg = req[r].msg
    BY <1>0, <1>1, <1>7 DEF Respond, TypeOK, RequestState
  <2> QED BY <1>0, <2>1 DEF Asks, Syncing
<1>8. CASE Merge(r)
  <2>1. /\ req[r].pc = "reply" /\ req'[r].pc = "sync" /\ req'[r].todo = req[r].todo \ {req[r].peer}
        /\ db'[q] = Merged(db[q], req[r].msg)
    BY <1>0, <1>1, <1>8 DEF Merge, NextPeer, TypeOK, RequestState
  <2>2. CASE req[r].peer = w.by
    <3>1. NotBefore(req[r].msg[w.key], w.stamp)
      BY <2>1, <2>2 DEF Asks
    <3> QED BY <1>0, <2>1, <3>1, MergedNotBefore
  <2>3. CASE req[r].peer # w.by
    BY <1>0, <2>1, <2>3 DEF Asks, Syncing
  <2> QED BY <2>2, <2>3
<1>9. CASE Finish(r)
  BY <1>0, <1>9 DEF Finish
<1>10. CASE DeleteMark(r) \/ \E s \in Stamp : DeleteStamp(r, s)
  BY <1>0, <1>10 DEF DeleteMark, DeleteStamp
<1>11. CASE SaveFails(r) \/ CallFails(r) \/ \E p \in Peer : MergeFails(r, p)
  BY <1>11 DEF SaveFails, CallFails, MergeFails
<1> QED BY <1>2, <1>3, <1>4, <1>5, <1>6, <1>7, <1>8, <1>9, <1>10, <1>11 DEF Step

\* A step of a request that makes no change.
LEMMA ServesConverge ==
    ASSUME ConvIInv, sound, sound', NEW r \in Request, Step(r), NEW x, NEW p, Serves(r, x, p)
    PROVE  Converging'
<1>0. /\ SyncIInv /\ TypeOK /\ Converging /\ p \in Peer /\ Home[r] \in Peer
      /\ UNCHANGED <<setting, up, written>>
      /\ x = req'[r] /\ \A q \in Request \ {r} : req'[q] = req[q]
  BY DEF ConvIInv, WholeIInv, SyncIInv, TypeOK, Serves
<1>1. /\ \A q \in Peer \ {p} : db'[q] = db[q]
      /\ \A q \in Peer, k \in Key :
            /\ db'[q][k] \in {db[q][k], req[r].msg[k]}
            /\ db[q][k] # None => db'[q][k] # None /\ db'[q][k].stamp >= db[q][k].stamp
      /\ db \in [Peer -> Secrets] /\ db' \in [Peer -> Secrets]
  BY <1>0, ServesGrows DEF TypeOK
<1>2. \A p1 \in Peer : up'[p1] = "up"
  BY <1>0 DEF Converging
<1>3. AllReach'
  <2> SUFFICES ASSUME NEW w \in written, NEW q \in Peer
               PROVE  \/ NotBefore(db'[q][w.key], w.stamp)
                      \/ q # w.by /\ \E r1 \in Request : Brings(r1, w, q)' \/ Asks(r1, w, q)'
    BY <1>0 DEF AllReach, Reaches, NotBefore
  <2>1. w.key \in Key /\ w.stamp \in Nat /\ Reaches(w, q)
    BY <1>0 DEF TypeOK, Write, Stamp, Converging, AllReach
  <2>2. CASE NotBefore(db[q][w.key], w.stamp)
    <3>1. /\ db[q][w.key] \in Secret \cup {None} /\ db'[q][w.key] \in Secret \cup {None}
          /\ \A e \in Secret : e.stamp \in Nat
      BY <1>1, <2>1 DEF Secrets, Secret, Stamp
    <3> QED BY <1>1, <2>1, <2>2, <3>1 DEF NotBefore
  <2>3. ASSUME NEW r1 \in Request, q # w.by, Brings(r1, w, q) \/ Asks(r1, w, q)
        PROVE  NotBefore(db'[q][w.key], w.stamp) \/ Brings(r1, w, q)' \/ Asks(r1, w, q)'
    <3>1. CASE r1 = r
      BY <2>3, <3>1, BringsOn, AsksOn
    <3>2. CASE r1 # r
      BY <1>0, <2>3, <3>2 DEF Brings, Asks, Syncing, NotBefore
    <3> QED BY <3>1, <3>2
  <2> QED BY <2>1, <2>2, <2>3 DEF Reaches
<1>4. WillSave'
  <2> SUFFICES ASSUME NEW q \in Peer
               PROVE  \/ file'[q] = db'[q]
                      \/ \E r1 \in Request : Home[r1] = q /\ (Erasing(r1)' \/ req'[r1].pc = "save")
    BY DEF WillSave
  <2>1. \/ file[q] = db[q]
        \/ \E r1 \in Request : Home[r1] = q /\ (Erasing(r1) \/ req[r1].pc = "save")
    BY <1>0 DEF Converging, WillSave
  <2>2. \A r1 \in Request \ {r} : Erasing(r1)' = Erasing(r1) /\ req'[r1].pc = req[r1].pc
    BY <1>0 DEF Erasing
  <2>3. ~Erasing(r)
    BY DEF Serves
  <2>4. \/ file' = file /\ db' = db /\ req[r].pc # "save"
        \/ \E c \in Peer : /\ file'[c] = db'[c] /\ (req[r].pc = "save" => c = Home[r])
                           /\ \A q1 \in Peer \ {c} : file'[q1] = file[q1] /\ db'[q1] = db[q1]
    <3>1. CASE Save(r)
      <4>1. file'[Home[r]] = db'[Home[r]] /\ db' = db
            /\ \A q1 \in Peer \ {Home[r]} : file'[q1] = file[q1]
        BY <1>0, <3>1 DEF Save, TypeOK
      <4> QED BY <1>0, <4>1
    <3>2. CASE Handle(r)
      <4>1. file' = [file EXCEPT ![req[r].peer] = db'[req[r].peer]] /\ req[r].pc = "call"
            /\ db' = [db EXCEPT ![req[r].peer] = Merged(db[req[r].peer], req[r].msg)]
        BY <3>2 DEF Handle
      <4>2. req[r].peer \in Peer
        BY <1>0, <4>1 DEF SyncIInv, RequestsOK, Calling
      <4> QED BY <1>0, <4>1, <4>2 DEF TypeOK
    <3>3. CASE Merge(r)
      <4>1. file' = [file EXCEPT ![Home[r]] = db'[Home[r]]] /\ req[r].pc = "reply"
            /\ db' = [db EXCEPT ![Home[r]] = Merged(db[Home[r]], req[r].msg)]
        BY <3>3 DEF Merge
      <4> QED BY <1>0, <4>1 DEF TypeOK
    <3>4. CASE \/ (\E c \in Peer : CallPeer(r, c)) \/ Iterate(r) \/ Encode(r)
               \/ Respond(r) \/ Finish(r)
      BY <3>4 DEF CallPeer, Iterate, Encode, Respond, Finish
    <3>5. CASE DeleteMark(r) \/ \E s \in Stamp : DeleteStamp(r, s)
      BY <2>3, <3>5 DEF DeleteMark, DeleteStamp, Erasing
    <3>6. CASE SaveFails(r) \/ CallFails(r) \/ \E c \in Peer : MergeFails(r, c)
      BY <3>6 DEF SaveFails, CallFails, MergeFails
    <3> QED BY <3>1, <3>2, <3>3, <3>4, <3>5, <3>6 DEF Step
  <2> QED BY <2>1, <2>2, <2>3, <2>4
<1>5. setting.clock = "sound" => AllReplaced'
  <2> SUFFICES ASSUME setting.clock = "sound", NEW k \in Key
               PROVE  /\ \A q \in Peer : Replaced(k, db[q][k])'
                      /\ \A r1 \in Request : Replaced(k, req[r1].msg[k])'
    BY DEF AllReplaced
  <2>1. /\ \A q \in Peer : Replaced(k, db[q][k])
        /\ \A r1 \in Request : Replaced(k, req[r1].msg[k])
    BY <1>0 DEF Converging, AllReplaced
  <2>2. \A q : Deleting(q, k)' = Deleting(q, k)
    BY <1>0 DEF Deleting, Serves, Erasing
  <2>3. ASSUME NEW e, Replaced(k, e)
        PROVE  Replaced(k, e)'
    BY <1>0, <2>2, <2>3 DEF Replaced, Faithful
  <2>4. Replaced(k, None)
    BY DEF Replaced, Faithful
  <2>5. ASSUME NEW q \in Peer
        PROVE  Replaced(k, db[q][k])'
    <3>1. PICK e : e = db'[q][k]
      OBVIOUS
    <3>2. Replaced(k, e)
      BY <1>1, <2>1, <3>1
    <3>3. Replaced(k, e)'
      BY <2>3, <3>2
    <3> QED BY <3>1, <3>3 DEF Replaced, Faithful
  <2>6. ASSUME NEW r1 \in Request
        PROVE  Replaced(k, req[r1].msg[k])'
    <3>1. PICK e : e = req'[r1].msg[k]
      OBVIOUS
    <3>2. Replaced(k, e)
      BY <1>0, <2>1, <2>4, <3>1 DEF Serves, Sends
    <3>3. Replaced(k, e)'
      BY <2>3, <3>2
    <3> QED BY <3>1, <3>3 DEF Replaced, Faithful
  <2> QED BY <2>5, <2>6
<1> QED BY <1>0, <1>2, <1>3, <1>4, <1>5 DEF Converging

\* A change that is made, or a deletion that begins.
LEMMA PutsConverge ==
    ASSUME ConvIInv, sound, NEW r \in Request, NEW k, NEW e, NEW x, Puts(r, k, e, x)
    PROVE  Converging'
<1>0. /\ SyncIInv /\ TypeOK /\ Dated /\ AllMade /\ Converging /\ Home[r] \in Peer
      /\ k \in Key /\ e \in Secret /\ e.stamp \in Nat
      /\ UNCHANGED <<setting, up, file>> /\ req'[r] = x
      /\ req[r].pc \in {"idle", "erased", "marked"} /\ x.key = k
      /\ x.pc \in {"erased", "marked", "save"}
  BY DEF ConvIInv, WholeIInv, SyncIInv, TypeOK, Puts, Secret, Stamp
<1>1. /\ db'[Home[r]][k] = e /\ db' \in [Peer -> Secrets] /\ db \in [Peer -> Secrets]
      /\ \A q \in Peer, l \in Key : <<q, l>> # <<Home[r], k>> => db'[q][l] = db[q][l]
      /\ \A q \in Request \ {r} :
            /\ \A l \in Key \ {k} : req'[q].msg[l] = req[q].msg[l]
            /\ req'[q].msg[k] = req[q].msg[k] \/ (Shares(q, Home[r], k) /\ req'[q].msg[k] = e)
            /\ req'[q].pc = req[q].pc /\ req'[q].peer = req[q].peer
            /\ req'[q].key = req[q].key
  BY <1>0, Placed DEF TypeOK
<1>2. \A q \in Request \ {r} : req'[q].todo = req[q].todo
  <2> SUFFICES ASSUME NEW q \in Request \ {r} PROVE req'[q].todo = req[q].todo
    OBVIOUS
  <2>1. PICK n : n = [req[q].msg EXCEPT ![k] = e]
    OBVIOUS
  <2>2. req[q] \in RequestState
    BY <1>0 DEF TypeOK
  <2>3. req'[q] = req[q] \/ req'[q] = [req[q] EXCEPT !.msg = n]
    BY <2>1, <2>2 DEF Puts, RequestState
  <2> QED BY <2>2, <2>3 DEF RequestState
<1>3. \/ x.pc \in {"erased", "marked"} /\ written' = written /\ db[Home[r]][k] # None
         /\ e.stamp = db[Home[r]][k].stamp
      \/ /\ x.pc = "save" /\ x.change \in Write /\ x.change.key = k /\ x.change.stamp = e.stamp
         /\ x.change.by = Home[r] /\ written' = written \cup {x.change}
         /\ \A v \in written : v.by = Home[r] => v.stamp < e.stamp
         /\ setting.clock = "sound" => e.stamp = Cardinality(written) + 1
         /\ e.state # "empty" /\ x.change.live = (e.state = "live")
  BY DEF Puts, New
<1>4. \A w \in written : w.key \in Key /\ w.stamp \in Nat /\ w.by \in Peer
  BY <1>0 DEF TypeOK, Write, Stamp
\* The entry is not older than the changes its server made.
<1>5. \A w \in written : w.by = Home[r] /\ w.key = k => e.stamp >= w.stamp
  <2> SUFFICES ASSUME NEW w \in written, w.by = Home[r], w.key = k PROVE e.stamp >= w.stamp
    OBVIOUS
  <2>1. NotBefore(db[Home[r]][k], w.stamp)
    BY <1>0 DEF Converging, AllReach, Reaches
  <2> QED BY <1>0, <1>3, <1>4, <2>1 DEF NotBefore
<1>6. AllReach'
  <2> SUFFICES ASSUME NEW w \in written', NEW q \in Peer
               PROVE  \/ NotBefore(db'[q][w.key], w.stamp)
                      \/ q # w.by /\ \E r1 \in Request : Brings(r1, w, q)' \/ Asks(r1, w, q)'
    BY DEF AllReach, Reaches, NotBefore
  <2>1. CASE w \notin written
    <3>1. w.key = k /\ w.stamp = e.stamp /\ w.by = Home[r] /\ req'[r].pc = "save"
      BY <1>0, <1>3, <2>1
    <3>2. q = Home[r] => NotBefore(db'[q][w.key], w.stamp)
      BY <1>0, <1>1, <3>1 DEF NotBefore
    <3>3. Brings(r, w, q)'
      BY <3>1 DEF Brings
    <3> QED BY <3>1, <3>2, <3>3
  <2>2. CASE w \in written /\ q = Home[r] /\ w.key = k /\ x.pc = "save"
    <3>1. q = w.by => NotBefore(db'[q][w.key], w.stamp)
      BY <1>0, <1>1, <1>5, <2>2 DEF NotBefore
    <3>2. Asks(r, w, q)'
      BY <1>0, <2>2 DEF Asks
    <3> QED BY <3>1, <3>2
  <2>3. CASE w \in written /\ ~(q = Home[r] /\ w.key = k /\ x.pc = "save")
    <3>1. NotBefore(db[q][w.key], w.stamp) => NotBefore(db'[q][w.key], w.stamp)
      BY <1>0, <1>1, <1>3, <1>4, <2>3 DEF NotBefore
    <3>2. ASSUME NEW r1 \in Request, q # w.by, Brings(r1, w, q)
          PROVE  Brings(r1, w, q)'
      <4>1. r1 # r
        BY <1>0, <3>2 DEF Brings, Syncing
      <4>2. CASE req'[r1].msg[w.key] = req[r1].msg[w.key]
        BY <1>1, <1>2, <3>2, <4>1, <4>2 DEF Brings, Syncing, NotBefore
      <4>3. CASE w.key = k /\ Shares(r1, Home[r], k) /\ req'[r1].msg[k] = e
        <5>1. req[r1].pc = "encode" /\ req[r1].peer = q => w.by = Home[r]
          BY <3>2, <4>3 DEF Shares, Brings
        <5>2. req[r1].pc # "call"
          BY <4>3 DEF Shares
        <5>3. req[r1].pc = "encode" /\ req[r1].peer = q => NotBefore(req'[r1].msg[w.key], w.stamp)
          BY <1>0, <1>5, <2>3, <4>3, <5>1 DEF NotBefore
        <5> QED BY <1>1, <1>2, <3>2, <4>1, <5>2, <5>3 DEF Brings, Syncing, NotBefore
      <4> QED BY <1>1, <1>4, <2>3, <4>1, <4>2, <4>3
    <3>3. ASSUME NEW r1 \in Request, q # w.by, Asks(r1, w, q)
          PROVE  Asks(r1, w, q)' \/ NotBefore(db'[q][w.key], w.stamp)
      <4>1. r1 # r
        BY <1>0, <3>3 DEF Asks, Syncing
      <4>2. CASE req'[r1].msg[w.key] = req[r1].msg[w.key]
        BY <1>1, <1>2, <3>3, <4>1, <4>2 DEF Asks, Syncing, NotBefore
      <4>3. CASE w.key = k /\ Shares(r1, Home[r], k) /\ req'[r1].msg[k] = e
        <5>1. CASE req[r1].pc = "encode"
          <6>1. q = Home[r]
            BY <3>3, <4>3, <5>1 DEF Shares, Asks
          <6>2. db'[q][w.key] = req'[r1].msg[w.key]
            BY <1>1, <4>3, <6>1
          <6> QED BY <1>1, <1>2, <3>3, <4>1, <5>1, <6>2 DEF Asks, Syncing, NotBefore
        <5>2. CASE req[r1].pc = "respond"
          <6>1. req[r1].peer = w.by => NotBefore(req'[r1].msg[w.key], w.stamp)
            BY <1>0, <1>5, <2>3, <4>3, <5>2 DEF NotBefore, Shares
          <6> QED BY <1>1, <1>2, <3>3, <4>1, <5>2, <6>1 DEF Asks, Syncing, NotBefore
        <5> QED BY <4>3, <5>1, <5>2 DEF Shares
      <4> QED BY <1>1, <1>4, <2>3, <4>1, <4>2, <4>3
    <3>4. Reaches(w, q)
      BY <1>0, <2>3 DEF Converging, AllReach
    <3> QED BY <3>1, <3>2, <3>3, <3>4 DEF Reaches
  <2> QED BY <2>1, <2>2, <2>3
<1>7. WillSave'
  <2> SUFFICES ASSUME NEW q \in Peer
               PROVE  \/ file[q] = db'[q]
                      \/ \E r1 \in Request : Home[r1] = q /\ (Erasing(r1)' \/ req'[r1].pc = "save")
    BY <1>0 DEF WillSave
  <2>1. CASE q = Home[r]
    BY <1>0, <2>1 DEF Erasing
  <2>2. CASE q # Home[r]
    <3>1. \/ file[q] = db[q]
          \/ \E r1 \in Request : Home[r1] = q /\ (Erasing(r1) \/ req[r1].pc = "save")
      BY <1>0 DEF Converging, WillSave
    <3>2. db'[q] = db[q]
      BY <1>1, <2>2 DEF Secrets
    <3>3. \A r1 \in Request \ {r} : Erasing(r1) => Erasing(r1)'
      BY <1>1 DEF Erasing
    <3> QED BY <1>1, <2>2, <3>1, <3>2, <3>3
  <2> QED BY <2>1, <2>2
<1>8. setting.clock = "sound" => AllReplaced'
  <2> SUFFICES ASSUME setting.clock = "sound", NEW l \in Key
               PROVE  /\ \A q \in Peer : Replaced(l, db[q][l])'
                      /\ \A r1 \in Request : Replaced(l, req[r1].msg[l])'
    BY <1>0 DEF AllReplaced
  <2>1. /\ \A q \in Peer : Replaced(l, db[q][l]) /\ Made(l, db[q][l])
        /\ \A r1 \in Request : Replaced(l, req[r1].msg[l]) /\ Made(l, req[r1].msg[l])
    BY <1>0 DEF Converging, AllReplaced, AllMade
  <2>2. ASSUME NEW f, Replaced(l, f), Made(l, f)
        PROVE  Replaced(l, f)'
    <3>1. written \subseteq written'
      BY <1>3
    <3>2. CASE Faithful(l, f) \/ \E w \in written : w.key = l /\ w.stamp > f.stamp
      BY <3>1, <3>2 DEF Replaced, Faithful
    <3>3. CASE f # None /\ \E q \in Peer : Deleting(q, l)
      <4>1. PICK q \in Peer, r1 \in Request : Home[r1] = q /\ req[r1].key = l /\ Erasing(r1)
        BY <3>3 DEF Deleting, Erasing
      <4>2. CASE r1 # r
        <5>1. Deleting(q, l)'
          BY <1>1, <4>1, <4>2 DEF Deleting, Erasing
        <5> QED BY <5>1 DEF Replaced
      <4>3. CASE r1 = r /\ x.pc # "save"
        <5>1. Deleting(q, l)'
          BY <1>0, <4>1, <4>3 DEF Deleting, Puts
        <5> QED BY <5>1 DEF Replaced
      <4>4. CASE r1 = r /\ x.pc = "save"
        <5>1. PICK w \in written : w.stamp = f.stamp
          BY <2>2, <3>3 DEF Made
        <5>2. w.stamp <= Cardinality(written) /\ Cardinality(written) \in Nat
          BY <1>0, FS_CardinalityType DEF Dated
        <5>3. x.change \in written' /\ x.change.stamp > f.stamp /\ x.change.key = l
          BY <1>3, <1>4, <4>1, <4>4, <5>1, <5>2 DEF Puts
        <5> QED BY <5>3 DEF Replaced
      <4> QED BY <4>2, <4>3, <4>4
    <3>4. CASE f = None
      BY <3>4 DEF Replaced, Faithful
    <3> QED BY <2>2, <3>2, <3>3, <3>4 DEF Replaced
  <2>3. Replaced(k, e)'
    <3>1. CASE x.pc = "save"
      BY <1>3, <3>1 DEF Replaced, Faithful
    <3>2. CASE x.pc # "save"
      <4>1. Deleting(Home[r], k)'
        BY <1>0, <3>2 DEF Deleting
      <4> QED BY <1>0, <4>1 DEF Replaced
    <3> QED BY <3>1, <3>2
  <2>4. ASSUME NEW q \in Peer
        PROVE  Replaced(l, db[q][l])'
    <3>1. PICK f : f = db'[q][l]
      OBVIOUS
    <3>2. Replaced(l, f)'
      BY <1>1, <2>1, <2>2, <2>3, <3>1
    <3> QED BY <3>1, <3>2 DEF Replaced, Faithful
  <2>5. ASSUME NEW r1 \in Request
        PROVE  Replaced(l, req[r1].msg[l])'
    <3>1. PICK f : f = req'[r1].msg[l]
      OBVIOUS
    <3>2. f = req[r1].msg[l] \/ (l = k /\ f = e)
      BY <1>0, <1>1, <3>1 DEF Puts
    <3>3. Replaced(l, f)'
      BY <2>1, <2>2, <2>3, <3>2
    <3> QED BY <3>1, <3>3 DEF Replaced, Faithful
  <2> QED BY <2>4, <2>5
<1>9. \A q \in Peer : up'[q] = "up"
  BY <1>0 DEF Converging
<1> QED BY <1>0, <1>6, <1>7, <1>8, <1>9 DEF Converging

\* A request that is over had nothing left to bring or to ask for.
LEMMA FinishConverge ==
    ASSUME ConvIInv, sound, NEW r \in Request, Finish(r)
    PROVE  Converging'
<1>0. /\ SyncIInv /\ TypeOK /\ Converging /\ Home[r] \in Peer
      /\ UNCHANGED <<setting, db, file, written>> /\ req[r].pc = "sync" /\ req[r].todo = {}
      /\ req'[r] = Idle /\ \A q \in Request \ {r} : req'[q] = req[q]
  BY DEF ConvIInv, WholeIInv, SyncIInv, TypeOK, Finish
<1>1. Idle.pc = "idle" /\ \A k \in Key : Idle.msg[k] = None
  BY DEF Idle, NoSecrets
<1>2. \A q \in Peer : up'[q] = "up"
  BY <1>0 DEF Converging, Finish, TypeOK
<1>3. AllReach'
  <2> SUFFICES ASSUME NEW w \in written, NEW q \in Peer
               PROVE  \/ NotBefore(db[q][w.key], w.stamp)
                      \/ q # w.by /\ \E r1 \in Request : Brings(r1, w, q)' \/ Asks(r1, w, q)'
    BY <1>0 DEF AllReach, Reaches, NotBefore
  <2>1. Reaches(w, q)
    BY <1>0 DEF Converging, AllReach
  <2>2. ASSUME NEW r1 \in Request, Brings(r1, w, q) \/ Asks(r1, w, q)
        PROVE  Brings(r1, w, q)' \/ Asks(r1, w, q)'
    <3>1. r1 # r
      BY <1>0, <2>2 DEF Brings, Asks
    <3> QED BY <1>0, <2>2, <3>1 DEF Brings, Asks, Syncing, NotBefore
  <2> QED BY <2>1, <2>2 DEF Reaches
<1>4. WillSave'
  <2>1. \A q \in Request : /\ Erasing(q) => Erasing(q)'
                           /\ req[q].pc = "save" => req'[q].pc = "save"
    BY <1>0 DEF Erasing
  <2> QED BY <1>0, <2>1 DEF Converging, WillSave
<1>5. setting.clock = "sound" => AllReplaced'
  <2> SUFFICES ASSUME setting.clock = "sound", NEW k \in Key
               PROVE  /\ \A q \in Peer : Replaced(k, db[q][k])'
                      /\ \A r1 \in Request : Replaced(k, req[r1].msg[k])'
    BY <1>0 DEF AllReplaced
  <2>1. \A q : Deleting(q, k)' = Deleting(q, k)
    BY <1>0, <1>1 DEF Deleting
  <2>2. ASSUME NEW f, Replaced(k, f)
        PROVE  Replaced(k, f)'
    BY <1>0, <2>1, <2>2 DEF Replaced, Faithful
  <2>3. ASSUME NEW r1 \in Request
        PROVE  Replaced(k, req[r1].msg[k])'
    <3>1. PICK f : f = req'[r1].msg[k]
      OBVIOUS
    <3>2. Replaced(k, f)
      BY <1>0, <1>1, <3>1 DEF Converging, AllReplaced, Replaced, Faithful
    <3> QED BY <2>2, <3>1, <3>2 DEF Replaced, Faithful
  <2>4. ASSUME NEW q \in Peer
        PROVE  Replaced(k, db[q][k])'
    <3>1. PICK f : f = db[q][k]
      OBVIOUS
    <3>2. Replaced(k, f)'
      BY <1>0, <2>2, <3>1 DEF Converging, AllReplaced
    <3> QED BY <1>0, <3>1, <3>2 DEF Replaced, Faithful
  <2> QED BY <2>3, <2>4
<1> QED BY <1>0, <1>2, <1>3, <1>4, <1>5 DEF Converging

LEMMA ConvInitIInv == Init => ConvIInv
<1> SUFFICES ASSUME Init PROVE Converging
  BY WholeInitIInv DEF ConvIInv
<1>1. /\ written = {} /\ file = db /\ \A p \in Peer : up[p] = "up" /\ \A k \in Key : db[p][k] = None
      /\ \A r \in Request, k \in Key : req[r].msg[k] = None
  BY DEF Init, NoSecrets, Idle
<1> QED BY <1>1 DEF Converging, AllReach, WillSave, AllReplaced, Replaced, Faithful

LEMMA ConvNextIInv == ConvIInv /\ [Next]_vars => ConvIInv'
<1> SUFFICES ASSUME ConvIInv, [Next]_vars, sound' PROVE Converging'
  BY WholeNextIInv DEF ConvIInv
<1>1. SyncIInv /\ (sound => Converging)
  BY DEF ConvIInv, WholeIInv
<1>2. CASE UNCHANGED vars
  BY <1>1, <1>2 DEF vars, Converging, AllReach, Reaches, Brings, Asks, Syncing, NotBefore, WillSave,
                    Erasing, AllReplaced, Replaced, Faithful, Deleting
<1>3. ASSUME NEW r \in Request, Step(r), \E x, p : Serves(r, x, p)
      PROVE  Converging'
  <2>1. sound
    BY <1>3 DEF Step, DeleteMark, DeleteStamp, Save, SaveFails, CallPeer, Iterate, Encode, Handle,
                Respond, Merge, CallFails, MergeFails, Finish
  <2> QED BY <1>3, <2>1, ServesConverge
<1>4. ASSUME NEW r \in Request, \E k, e, x : Puts(r, k, e, x)
      PROVE  Converging'
  <2>1. sound
    BY <1>4 DEF Puts
  <2> QED BY <1>4, <2>1, PutsConverge
<1>5. ASSUME NEW r \in Request, Finish(r)
      PROVE  Converging'
  <2>1. sound
    BY <1>5 DEF Finish
  <2> QED BY <1>5, <2>1, FinishConverge
<1>6. ASSUME NEW r \in Request, Step(r)
      PROVE  Converging'
  <2>1. CASE Save(r) \/ SaveFails(r)
    BY <1>1, <1>3, <1>6, <2>1, SaveServes
  <2>2. CASE (\E q \in Peer : CallPeer(r, q)) \/ Iterate(r) \/ Encode(r) \/ Respond(r)
    BY <1>1, <1>3, <1>6, <2>2, SendServes
  <2>3. CASE Handle(r) \/ Merge(r) \/ CallFails(r) \/ \E p \in Peer : MergeFails(r, p)
    BY <1>1, <1>3, <1>6, <2>3, MergeServes
  <2>4. CASE DeleteMark(r)
    BY <1>1, <1>4, <2>4, MarkPuts
  <2>5. CASE \E s \in Stamp : DeleteStamp(r, s)
    BY <1>1, <1>4, <2>5, StampPuts
  <2> QED BY <1>5, <1>6, <2>1, <2>2, <2>3, <2>4, <2>5 DEF Step
<1>7. CASE \E r \in Request, k \in Key : DeleteErase(r, k) \/ \E s \in Stamp : Set(r, k, s)
  BY <1>1, <1>4, <1>7, ErasePuts, SetPuts
<1>8. ASSUME NEW p \in Peer, Stop(p) \/ \E r \in Request : Start(p, r)
      PROVE  FALSE
  <2>1. CASE Stop(p)
    BY <2>1 DEF Stop
  <2>2. CASE \E r \in Request : Start(p, r)
    BY <1>1, <2>2 DEF Start, Converging
  <2> QED BY <1>8, <2>1, <2>2
<1>9. CASE \E p \in Peer : Crash(p) \/ ConcurrentMapAccess(p) \/ \E r \in Request : Start(p, r)
  BY <1>8, <1>9 DEF Crash, ConcurrentMapAccess
<1> QED BY <1>2, <1>6, <1>7, <1>9 DEF Next

LEMMA ConvergedIInv == ConvIInv => Converged
<1> SUFFICES ASSUME ConvIInv, sound, Quiet
             PROVE  /\ \A p \in Peer : \A w \in written :
                          /\ NotBefore(db[p][w.key], w.stamp)
                          /\ (setting.clock = "sound" \/ ~torn) /\ db[p][w.key].stamp = w.stamp
                                => w.live = (db[p][w.key].state = "live")
                    /\ file = db
  BY DEF Converged
<1>1. /\ TypeOK /\ Dated /\ Converging /\ (~torn => AllFaithful)
      /\ \A w \in written : w.key \in Key /\ w.stamp \in Nat
  BY DEF ConvIInv, WholeIInv, SyncIInv, TypeOK, Write, Stamp
<1>2. ASSUME NEW p \in Peer
      PROVE  /\ \A r \in Request : req[r].pc = "idle"
             /\ \A w \in written : NotBefore(db[p][w.key], w.stamp)
             /\ file[p] = db[p]
  <2>1. \A r \in Request : req[r].pc = "idle"
    BY DEF Quiet
  <2>2. \A w \in written : Reaches(w, p)
    BY <1>1 DEF Converging, AllReach
  <2>3. \A r \in Request : \A w : ~Brings(r, w, p) /\ ~Asks(r, w, p) /\ ~Erasing(r)
    BY <2>1 DEF Brings, Asks, Syncing, Erasing
  <2> QED BY <1>1, <2>1, <2>2, <2>3 DEF Reaches, Converging, WillSave
<1>3. ASSUME NEW p \in Peer, NEW w \in written, setting.clock = "sound" \/ ~torn,
             db[p][w.key].stamp = w.stamp
      PROVE  w.live = (db[p][w.key].state = "live")
  <2>1. PICK e : e = db[p][w.key]
    OBVIOUS
  <2>2. e # None
    BY <1>2, <2>1 DEF NotBefore
  <2>3. Faithful(w.key, e)
    <3>1. \A q : ~Deleting(q, w.key)
      BY <1>2 DEF Deleting
    <3>2. CASE ~torn
      BY <1>1, <2>1, <3>1, <3>2 DEF AllFaithful
    <3>3. CASE setting.clock = "sound"
      <4>1. Replaced(w.key, e)
        BY <1>1, <2>1, <3>3 DEF Converging, AllReplaced
      <4>2. \A v \in written : v.key = w.key => ~(v.stamp > e.stamp)
        BY <1>1, <1>2, <1>3, <2>1 DEF NotBefore
      <4> QED BY <3>1, <4>1, <4>2 DEF Replaced
    <3> QED BY <1>3, <3>2, <3>3
  <2>4. PICK v \in written : v.stamp = e.stamp /\ v.live = (e.state = "live")
    BY <2>2, <2>3 DEF Faithful
  <2>5. v = w
    BY <1>1, <1>3, <2>1, <2>4 DEF Dated
  <2> QED BY <2>1, <2>4, <2>5
<1>4. file = db
  BY <1>1, <1>2 DEF TypeOK
<1> QED BY <1>2, <1>3, <1>4

(***************************************************************************)
(* Whatever the order in which any number of servers call each other, the  *)
(* last change of each secret is everywhere once the requests are over,    *)
(* when no call failed and no server stopped.                              *)
(***************************************************************************)
THEOREM SecretsConverge == Spec => []Converged
<1>1. Spec => []ConvIInv
  BY ConvInitIInv, ConvNextIInv, PTL DEF Spec
<1> QED BY <1>1, ConvergedIInv, PTL
============================================================================
