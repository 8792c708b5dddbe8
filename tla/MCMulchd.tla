------------------------------- MODULE MCMulchd -------------------------------
(***************************************************************************)
(* The stores of mulchd that share no state (the states of VMs, backups,    *)
(* seeds, DHCP leases, API keys) and its migrations of VMs to a peer.  In a *)
(* behavior one part, chosen at the start, takes all the steps, and the     *)
(* others stay in one empty initial state: the states of the parts add up   *)
(* and do not multiply.                                                     *)
(***************************************************************************)
EXTENDS VMStates, Backups, Seeds, Migration, Addresses, APIKeys

VARIABLE part

\* The configuration names all the seeds, or all but the seeders.
Configurations == {Seed, Seed \ Seeders}

Parts == {"states", "backups", "seeds", "migration", "addresses", "keys"}

\* The server the other parts wait on: nothing is stored, nothing is up.
Init ==
    /\ part \in Parts
    /\ StatesInit /\ (part # "states" => up = {})
    /\ BackupsInit /\ (part # "backups" => kept = {})
    /\ SeedsInit /\ (part # "seeds" => DOMAIN seedDB = Seed /\ whole = {})
    /\ MigrationInit
    /\ part # "migration" => exists = {"source"} /\ active = {} /\ locked = {}
    /\ AddressesInit /\ (part # "addresses" => DOMAIN guests = {})
    /\ KeysInit /\ (part # "keys" => DOMAIN keyring = {})

NextStates ==
    /\ StatesNext
    /\ UNCHANGED <<part, backupVars, seedVars, migrationVars, addressVars, keyVars>>
NextBackups ==
    /\ BackupsNext
    /\ UNCHANGED <<part, stateVars, seedVars, migrationVars, addressVars, keyVars>>
NextSeeds ==
    /\ SeedsNext
    /\ UNCHANGED <<part, stateVars, backupVars, migrationVars, addressVars, keyVars>>
NextMigration ==
    /\ MigrationNext
    /\ UNCHANGED <<part, stateVars, backupVars, seedVars, addressVars, keyVars>>
NextAddresses ==
    /\ AddressesNext
    /\ UNCHANGED <<part, stateVars, backupVars, seedVars, migrationVars, keyVars>>
NextKeys ==
    /\ KeysNext
    /\ UNCHANGED <<part, stateVars, backupVars, seedVars, migrationVars, addressVars>>

Next ==
    \/ part = "states" /\ NextStates
    \/ part = "backups" /\ NextBackups
    \/ part = "seeds" /\ NextSeeds
    \/ part = "migration" /\ NextMigration
    \/ part = "addresses" /\ NextAddresses
    \/ part = "keys" /\ NextKeys

vars == <<part, stateVars, backupVars, seedVars, migrationVars, addressVars, keyVars>>
Spec == Init /\ [][Next]_vars

-----------------------------------------------------------------------------
\* The variables of each part have their types.
TypeOK ==
    /\ StatesTypeOK /\ BackupsTypeOK /\ SeedsTypeOK
    /\ MigrationTypeOK /\ AddressesTypeOK /\ KeysTypeOK

=============================================================================
