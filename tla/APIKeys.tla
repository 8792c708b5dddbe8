------------------------------- MODULE APIKeys -------------------------------
(***************************************************************************)
(* The API keys (api_keys.go), and the requests that change them           *)
(* (controllers/key.go).  Creations, deletions and the trusted VMs of a    *)
(* key change under the mutex of the database and are saved with it; its   *)
(* rights, and the cleaning of its trusted VMs, are a list that is read,   *)
(* changed, then saved, in three steps.                                    *)
(*                                                                         *)
(* A right stands for its method, path and headers.  When it has several   *)
(* headers, String writes them in any order, and two equal rights may look *)
(* different.  The file is truncated, then written: a save that fails, or  *)
(* that a stop cuts short, may leave one mulchd refuses to start with.     *)
(***************************************************************************)
EXTENDS FiniteSets, Naturals

CONSTANTS
    Key,       \* keys, as pointers: a new one each time
    Comment,   \* their names
    Right,
    Ambiguous, \* rights with several headers
    Guarded,   \* VMs a key of a user may be forwarded to
    Admin,     \* requests
    KeysTorn,  \* a file that is truncated
    KeyFaults, \* what may happen: a subset of {"save", "stop", "stopSaving", "overlap"}
    MaxEdits,  \* bound: requests
    MaxReloads \* bound: stops of mulchd

VARIABLES
    keysUp,   \* mulchd runs
    keyring,  \* APIKeyDatabase.keys: [a set of keys -> [comment, rights, trusted]]
    dropped,  \* deleted keys that requests still hold
    keyFile,  \* what the file holds, or KeysTorn
    edit,     \* the requests that hold a key: [pc, key, rights, trusted, done, undone]
    present,  \* <<key, right or VM>> acknowledged, and not removed since
    absent,   \* <<key, right>> whose removal was acknowledged, and not added since
    edits, reloads \* bounds

keyVars == <<keysUp, keyring, dropped, keyFile, edit, present, absent, edits, reloads>>

NoRights == [r \in Right |-> 0]
NewKey(c) == [comment |-> c, rights |-> NoRights, trusted |-> {}]
NoEdit == [pc |-> "idle", key |-> CHOOSE k \in Key : TRUE, rights |-> NoRights, trusted |-> {},
           done |-> {}, undone |-> {}]
Holds(a, pc) == edit[a].pc = pc

\* Save, whose error is returned; it may come before the file is truncated, or after.
SaveKeys(onSuccess, onError) ==
    \/ keyFile' = keyring' /\ onSuccess
    \/ "save" \in KeyFaults /\ keyFile' \in {keyFile, KeysTorn} /\ onError

KeysOfFile == IF keyFile = KeysTorn THEN {} ELSE DOMAIN keyFile

Requested == keysUp /\ edits < MaxEdits /\ edits' = edits + 1

\* No other request changes the key.
Alone(k) == "overlap" \in KeyFaults \/ \A a \in Admin : edit[a].pc # "idle" => edit[a].key # k

-----------------------------------------------------------------------------
(* NewKeyController, DeleteKeyController. *)

\* (mutant: nobody looks for the comment among the keys)
keyExistsNever(c) == FALSE

keyExists(c) == \E l \in DOMAIN keyring : keyring[l].comment = c

AddNew(k, c) ==
    /\ Requested
    /\ k \notin DOMAIN keyring \cup DOMAIN dropped \cup KeysOfFile
    /\ ~keyExists(c)
    /\ keyring' = [l \in DOMAIN keyring \cup {k} |-> IF l = k THEN NewKey(c) ELSE keyring[l]]
    /\ SaveKeys(TRUE, TRUE)
    /\ UNCHANGED <<keysUp, dropped, edit, present, absent, reloads>>

DeleteKey(k) ==
    /\ Requested /\ Alone(k)
    /\ k \in DOMAIN keyring
    /\ keyring' = [l \in DOMAIN keyring \ {k} |-> keyring[l]]
    /\ dropped' = [l \in DOMAIN dropped \cup {k} |-> IF l = k THEN keyring[k] ELSE dropped[l]]
    /\ SaveKeys(TRUE, TRUE)
    /\ present' = {p \in present : p[1] # k} /\ absent' = {p \in absent : p[1] # k}
    /\ UNCHANGED <<keysUp, edit, reloads>>

-----------------------------------------------------------------------------
(* NewKeyRightController, DeleteKeyRightController and                      *)
(* CleanKeyTrustedVMsController: the list of the key is read ...            *)

Reads(a, k, rights, trusted, done, undone) ==
    /\ Requested /\ Alone(k) /\ Holds(a, "idle") /\ k \in DOMAIN keyring
    /\ edit' = [edit EXCEPT ![a] = [pc |-> "read", key |-> k, rights |-> rights,
                                    trusted |-> trusted, done |-> done, undone |-> undone]]
    /\ present' = present \ undone /\ absent' = absent \ done
    /\ UNCHANGED <<keysUp, keyring, dropped, keyFile, reloads>>

AddRight(a, k, r) ==
    LET rights == keyring[k].rights
    IN  /\ k \in DOMAIN keyring
        /\ rights[r] = 0 \/ (r \in Ambiguous /\ rights[r] = 1)
        /\ Reads(a, k, [rights EXCEPT ![r] = @ + 1], {}, {<<k, r>>}, {})

\* One entry of the list that looks like the right; an ambiguous one may not be found.
RemoveRight(a, k, r) ==
    LET rights == keyring[k].rights
    IN  /\ k \in DOMAIN keyring
        /\ rights[r] > 0
        /\ Reads(a, k, [rights EXCEPT ![r] = @ - 1], {}, {}, {<<k, r>>})

\* The VMs that are not active any more.
CleanTrusted(a, k) ==
    /\ k \in DOMAIN keyring
    /\ \E inactive \in SUBSET keyring[k].trusted :
          Reads(a, k, NoRights, keyring[k].trusted \ inactive, {}, {k} \X inactive)

\* ... the new list is stored in the key, that may have been deleted since ...
Edited(a, key) ==
    LET e == edit[a]
    IN  IF e.done \cup e.undone \subseteq Key \X Right /\ e.done \cup e.undone # {}
        THEN [key EXCEPT !.rights = e.rights] ELSE [key EXCEPT !.trusted = e.trusted]

Writes(a) ==
    LET k == edit[a].key
    IN  /\ Holds(a, "read")
        /\ keyring' = [l \in DOMAIN keyring |-> IF l = k THEN Edited(a, keyring[l]) ELSE keyring[l]]
        /\ dropped' = [l \in DOMAIN dropped |-> IF l = k THEN Edited(a, dropped[l]) ELSE dropped[l]]
        /\ edit' = [edit EXCEPT ![a].pc = "written"]
        /\ UNCHANGED <<keysUp, keyFile, present, absent, edits, reloads>>

\* (mutant: the controller does not save the database)
SavedNever(a, onSuccess, onError) == UNCHANGED keyFile /\ onSuccess

Saved(a, onSuccess, onError) == SaveKeys(onSuccess, onError)

\* ... and the database is saved.
Saves(a) ==
    LET e == edit[a]
    IN  /\ Holds(a, "written")
        /\ UNCHANGED keyring
        /\ Saved(a,
                 /\ present' = IF e.key \in DOMAIN keyring THEN present \cup e.done ELSE present
                 /\ absent' = absent \cup (e.undone \cap (Key \X Right)),
                 UNCHANGED <<present, absent>>)
        /\ edit' = [edit EXCEPT ![a] = NoEdit]
        /\ UNCHANGED <<keysUp, dropped, edits, reloads>>

-----------------------------------------------------------------------------
(* AddKeyTrustedVMController, DeleteKeyTrustedVMController. *)

AllowSSHFingerprint(k, v) ==
    /\ Requested /\ Alone(k)
    /\ k \in DOMAIN keyring /\ v \notin keyring[k].trusted
    /\ keyring' = [keyring EXCEPT ![k].trusted = @ \cup {v}]
    /\ SaveKeys(present' = present \cup {<<k, v>>}, UNCHANGED present)
    /\ UNCHANGED <<keysUp, dropped, edit, absent, reloads>>

RemoveSSHFingerprints(k, v) ==
    /\ Requested /\ Alone(k)
    /\ k \in DOMAIN keyring /\ v \in keyring[k].trusted
    /\ keyring' = [keyring EXCEPT ![k].trusted = @ \ {v}]
    /\ SaveKeys(TRUE, TRUE)
    /\ present' = present \ {<<k, v>>}
    /\ UNCHANGED <<keysUp, dropped, edit, absent, reloads>>

-----------------------------------------------------------------------------

\* Anywhere: in the middle of the save of a request too.
StopKeys ==
    /\ keysUp /\ "stop" \in KeyFaults /\ reloads < MaxReloads
    /\ keysUp' = FALSE /\ reloads' = reloads + 1
    /\ keyFile' \in {keyFile} \cup IF "stopSaving" \in KeyFaults THEN {KeysTorn} ELSE {}
    /\ dropped' = [k \in {} |-> NewKey(k)]
    /\ edit' = [a \in Admin |-> NoEdit]
    /\ UNCHANGED <<keyring, present, absent, edits>>

\* NewAPIKeyDatabase: the file is loaded, which must work, and saved again.
Reload ==
    /\ ~keysUp /\ keyFile # KeysTorn
    /\ keysUp' = TRUE /\ keyring' = keyFile
    /\ edit' = [a \in Admin |-> NoEdit]
    /\ UNCHANGED <<dropped, keyFile, present, absent, edits, reloads>>

\* It cannot be, or mulchd stops meanwhile: mulchd has not started.
ReloadFails ==
    /\ ~keysUp /\ keyFile # KeysTorn
    /\ {"save", "stopSaving"} \cap KeyFaults # {}
    /\ keyFile' = KeysTorn
    /\ UNCHANGED <<keysUp, keyring, dropped, edit, present, absent, edits, reloads>>

\* A database with keys that have no right yet, that is, no restriction.
KeysInit ==
    /\ keysUp = TRUE
    /\ \E some \in SUBSET Key, names \in [Key -> Comment] :
          /\ \A k, l \in some : names[k] = names[l] => k = l
          /\ keyring = [k \in some |-> NewKey(names[k])]
    /\ dropped = [k \in {} |-> NewKey(k)] /\ keyFile = keyring
    /\ edit = [a \in Admin |-> NoEdit]
    /\ present = {} /\ absent = {}
    /\ edits = 0 /\ reloads = 0

KeysNext ==
    \/ \E k \in Key :
          \/ \E c \in Comment : AddNew(k, c)
          \/ DeleteKey(k)
          \/ \E v \in Guarded : AllowSSHFingerprint(k, v) \/ RemoveSSHFingerprints(k, v)
          \/ \E a \in Admin :
                \/ \E r \in Right : AddRight(a, k, r) \/ RemoveRight(a, k, r)
                \/ CleanTrusted(a, k)
    \/ \E a \in Admin : Writes(a) \/ Saves(a)
    \/ StopKeys \/ Reload \/ ReloadFails

KeysSpec == KeysInit /\ [][KeysNext]_keyVars

-----------------------------------------------------------------------------
(* Properties. *)

\* Type correctness: a key has one comment, and a comment one key.
KeysTypeOK ==
    /\ DOMAIN keyring \subseteq Key
    /\ \A k, l \in DOMAIN keyring : keyring[k].comment = keyring[l].comment => k = l
    /\ \A a \in Admin : edit[a].done \subseteq Key \X Right

\* A right or a trusted VM whose addition was acknowledged is in its key until it is
\* removed, and one whose removal was acknowledged is not: in memory, and in the file
\* unless a save that failed or was cut short has left it unreadable, with which mulchd
\* does not start.  Requests about other keys may cross, saves fail and mulchd stop; two
\* requests that change one key at once are left out (Alone), for they lose a right
\* (api_keys.go:64-84, 147-162, 464-560, controllers/key.go:109-134, 256-279).
StoresRights(db) ==
    /\ \A p \in present : p[1] \in DOMAIN db
    /\ \A k \in DOMAIN db :
        /\ \A r \in Right : (<<k, r>> \in present => db[k].rights[r] > 0)
                            /\ (<<k, r>> \in absent => db[k].rights[r] = 0)
        /\ \A v \in Guarded : <<k, v>> \in present => v \in db[k].trusted

AcknowledgedRightsAreStored ==
    /\ keysUp => StoresRights(keyring)
    /\ keyFile # KeysTorn => StoresRights(keyFile)

=============================================================================
