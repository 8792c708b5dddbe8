# Mulch, modelled and checked

TLA+ specifications of [Mulch](../src/README.md), a KVM virtual machine manager: the daemon
`mulchd` (HTTP API, VM database, builds, backups, secrets), the reverse proxy `mulch-proxy`
(HTTP domains and TCP ports of the VMs) and the client `mulch`. The modules are translated
from the Go code under `src/cmd` and `src/common`; `PROJECT.json` gives, for every definition,
the lines it stands for.

    tlc -workers 2 -config VMDatabaseSerial.cfg MCVMDatabase     # model-check a run
    tlapm VMDatabaseProofs.tla                                   # check the proofs

## 1. The system

### Parts, state and operations

| Part | State | Operations | Talks to |
|---|---|---|---|
| VM database (`vm_database.go`) | `db`, `greenhouse`, one mutex, three files | Add, Delete, SetActiveRevision, Update, AddToGreenhouse, DeleteFromGreenhouse, save, load, lookups | every VM handler; `onUpdate` calls the proxy reloader; save() logs |
| VM creation and handlers (`vm.go`, `controllers/vm.go`) | VM objects, locks, work-in-progress flags, rollbacks (`defer`) | NewVM, start, stop, delete, backup, restore, rebuild, redefine, activate | VM database, libvirt, hubs, scripts over SSH |
| Phone home hub (`phone_home.go`, `controllers/phone.go`) | set of clients, three unbuffered channels | Register, Unregister, Broadcast | NewVM, VMStartByName, the VMs |
| Message hub, logs, streams (`hub.go`, `log.go`, `route_handler.go`, `request.go`) | set of clients, three unbuffered channels, one per client | Register, Unregister, Broadcast, SetTarget, StartStream | every handler that logs |
| Proxy reloader (`proxy_reload.go`) | a one-place token channel | Request | VM database, signal to mulch-proxy |
| VM state database (`vmstate_database.go`) | states, file, a restore flag | Update, Run, WaitRestore | libvirt, VM start |
| Backups (`backup_database.go`, `backup.go`) | map of backups, mutex, file | Add, Delete, Expire, upload, deleteExpired | volumes, VM backup and restore |
| Secrets (`secret_database.go`) | map with timestamps and tombstones, file | Set, Delete, Get, SyncPeers | peers |
| Migration (`MigrateVM` in `controllers/vm.go`, `peer_call.go`) | its deferred functions | create, back up, send, restore, activate, delete; undo | the API of a peer |
| Seeds (`seeds.go`) | map of seeds, file | Refresh, Pause, scheduler | volumes, NewVM (seeders) |
| DHCP (`libvirt_dhcp.go`, `network.go`) | leases of the libvirt network | add, rebuild, RandomUniqueIPv4 | NewVM, VMDelete |
| Automatic rebuild (`auto_rebuild.go`) | operations map | daily, weekly, monthly rebuilds | VMRebuild |
| API keys (`api_keys.go`) | keys, rights | key check, rights match | routes |
| SSH proxy (`ssh_proxy.go`) | connections | channels in both directions | VMs |
| mulch-proxy, HTTP (`proxy.go`, `domain_database.go`, `app.go`) | domain map, ReverseProxy instances | handleRequest, ReloadDomains, RefreshReverseProxies | files of mulchd, SIGHUP |
| mulch-proxy, TCP (`port_server.go`, `port_listener.go`, `port_forward.go`) | listeners, forward maps, close channels | ReloadPorts, Listen, UpdateForwardMap, Close | files of mulchd |
| Rate controller (`rate_controller.go`) | entry per client address | IsAllowed, FinishRequest, Clean | handleRequest |
| Proxy chain (`api_server.go`, `watchdog.go`) | domains of the children | register, conflicts | child and parent proxies |

### What is hard

* **Check then act.** The conflict checks (domains, ports, names, revisions, backups, leases) run
  out of the lock that protects what they checked.
* **Blocking hubs.** Both hubs are one goroutine on unbuffered channels: a client that leaves while
  the hub sends to it, or a stream whose user stops reading, blocks the hub, and with it everybody that logs or waits for a VM.
* **Locks around logs.** save() logs with the VM database locked.
* **Files as interfaces.** The database file is written in place; mulch-proxy reads two files of
  mulchd without any lock, on a signal that may be lost, merged or sent too early.
* **Crashes** between a change, its save and the reload it asks for.
* **Rollbacks** of long operations (build, backup, rebuild, migration), each step of which may fail.

The list of hazards, each at its line, is in `PROJECT.json`.

### What makes each part correct

* VM database: one active revision per name; no domain or public port active twice; files that follow
  the memory and from which mulchd starts again; names that stay served.
* Phone home hub: no panic, no missed call of a start, no goroutine blocked on its way out.
* Message hub: no goroutine blocked by a stream, but in the three situations of `Stuck`; streams leave; the database mutex is released.
* Reload: every change reaches mulch-proxy.
* VM lifecycle: a failed operation leaves the VM it started from, its disk, domain and entry; no volume
  or domain without an owner; two operations do not run on one VM.
* Secrets: peers converge to the last write; a deleted secret does not come back.
* VM states: after a restart of mulchd or of the host, the VMs that ran run again.
* Backups: what was acknowledged stays, with its whole volume, until it expires or is deleted.
* Seeds: what is ready is whole; what is not is downloaded again.
* Migration: the last write survives and is the one that is served; one of the two VMs is served at the end.
* Addresses: each VM has its lease.
* API keys: a right that was added is there, one that was removed is not.
* HTTP proxy: requests of a client never exceed its places, and give each back once.
* TCP proxy: connections reach the VM the last configuration names, and end when it withdraws it.
* Proxy chain: a child that registered has its domains, and only them, forwarded.

## 2. Modules

| Module | Models | Runs |
|---|---|---|
| `VMDatabase` (`MCVMDatabase`) | the VM database and the handlers that change it | `vmdb_*` |
| `VMRegistry` | abstract specification: which revision serves each name; `VMDatabase` implements it when changes do not cross | `vmdb_serial` |
| `VMLifecycle` (`MCVMLifecycle`) | creation, backup, restore, rebuild and deletion of a VM, with disks, domains, backups, locks and marks | `vm_lifecycle*` |
| `VMStates` | the recorded states of VMs and their restoration | `mulchd` |
| `Backups` | the backup database, its volumes, the requests and the expiration | `mulchd`, `backup_expire` |
| `Seeds` | images, their refreshes, the VMs made from them | `mulchd` |
| `Migration` | MigrateVM, its calls to the peer, its deferred functions | `mulchd`, `migration_rollback` |
| `Addresses` | addresses drawn by creations, DHCP leases | `mulchd` |
| `APIKeys` | keys, rights, trusted VMs | `mulchd` |
| `SecretSync` (`MCSecretSync`) | the secrets of servers that are peers, their calls and merges | `secret_sync` |
| `SecretRegister` | abstract specification: what shared secrets promise; `SecretSync` implements it | `secret_sync` |
| `PhoneHomeHub` (`MCPhoneHomeHub`) | the phone home hub, NewVM and VMStartByName around it, the calls | `phone_hub` |
| `Hub` | the message hub, what logs, the HTTP streams | `hub` |
| `ProxyReload` | save(), the reloader, the signal, the reload of mulch-proxy | `proxy_reload` |
| `HTTPProxy` | requests, limits per client, reload of domains | `mulch_proxy` |
| `PortServer` | listeners, forward maps, connections and their pipes | `mulch_proxy` |
| `ProxyChain` | registrations of children on a parent proxy, the watchdog | `mulch_proxy` |
| `MCMulchd`, `MCMulchProxy` | the parts of each program that share no state, one at a time | `mulchd`, `mulch_proxy` |
| `VMDatabaseProofs`, `VMLifecycleProofs`, `SecretSyncProofs`, `PhoneHomeHubProofs`, `HubProofs`, `ProxyReloadProofs` | theorems about the module of that name | |
| `MulchdProofs` | theorems about VMStates, Backups, Seeds, Migration, Addresses and APIKeys, and about `MCMulchd`, all of them together | |
| `MulchProxyProofs` | theorems about PortServer, HTTPProxy and ProxyChain, and about `MCMulchProxy` | |

`MCMulchd` and `MCMulchProxy` extend the components that share no variable. The variable `part`, chosen in the initial state, says which one takes the steps of a behavior; the others stay
in one initial state, so that the states of the parts add up and do not multiply. The properties of the parts are checked under their own names: those of a part that waits hold in its initial state. Most modules have a constant that is the set of what may go wrong (`StateFaults`, `BackupFaults`, ...):
a run names the faults under which it checks its properties, a theorem the ones it excludes.

### VMDatabase

The state is the one of `VMDatabase` in `vm_database.go`: `db` maps a `VMName` (name and revision) to
its VM object, `active` holds the entries with the Active flag, `greenhouse` the VMs being built, `conf`
the configuration each VM object points to. `vmFile`, `domainFile` and `portFile` are the three files
`save()` writes; each write truncates first, so a failed one may leave `Corrupt`. Each request is a
small program counter `pc` with what it carries in `arg` (the Go locals): the lookups and the conflict checks
are one step, out of the lock; the critical section that changes the maps and saves is another. NewVM is
`NewVM` (revision and greenhouse), `AddCheck`, `AddCommit` or `AddExists`, `DeleteFromGreenhouse` (the deferred call), with
`BuildFails` anywhere between; Delete is `DeleteLookup`, then `FallbackCheck` and `FallbackCommit` when another revision
takes over, then `DeleteCommit`; redefine is `RedefineCheck`, `RedefineWrite` (no lock in the code), `Update`. `Crash`
loses the memory, anywhere: `Stops` says whose save it may cut short, and `cutSave` what that leaves, on any disk (one of the three files truncated, or those before it written and those after it not). `Start` loads and saves at once,
and may be cut short as well (`StartStops`); `InitVMDB` ends the start. A database file that a stop has left truncated keeps mulchd from starting (status "failed"), and nothing in the code prevents it; on a sound disk nothing else does (`StartsUnlessTorn`, a theorem).

Abstractions: a conflict check reads all the entries in one step; only the exports to `@PUBLIC` are modelled in
the port file; the IP addresses, locks and work-in-progress flags of the VMs are not part of this module; `FallbackRefused`
also stands for the parent proxy that refuses a domain.

### VMRegistry

The registry has no requests, locks, files or restarts: a VM is added, activated, deactivated, redefined or removed in one step, and the two lists of mulch-proxy say, after each, which entry each domain and public port leads to.
`ImplementsRegistry` checks VMDatabase against it on a sound disk. The entries are those of the memory while mulchd runs and those of the file when it does not (`KnownVMs`, `KnownActive`); a configuration is the one that was last saved (`KnownConfs`), since the
code changes the VM object before it saves. Each request has its effect at once, in the step that saves; its checks, the construction of its VM, starts and the save of a start change nothing. A stop in the middle of a save is the change that was being saved, or nothing: the files of the lists that it leaves behind are written again by
the start, before mulchd serves (`KnownDomains`, `KnownPorts`). The one exception, in the formula, is a step that leaves the database file truncated. `Remove` adds what VMDelete must respect: the
revision that serves a name goes only when no other is left, because Delete gave the name to another one in an earlier step.

### VMLifecycle

The revisions of one name, with everything an operation handles besides the VM database: `disk` (the data of each
volume, as the set of writes the service made), `dom`, `on` and `attached` (libvirt: defined and running domains, the backup volume
behind their `vdb`), `bvol` (backup volumes), `bdb` (backup database), `locked`, `wip`. The VM database is `db` and `active`; its operations
are one step here, their interleavings are the subject of `VMDatabase`. `data` is not in the code: it is what the users expect to
find in the active VM, `None` when they want none; the actions of users change it, internal steps of a rebuild do not.

`op[r]` is the operation of a request: the Go call stack as a record, with the program counter, the revision it is about, the one it builds, its backup,
the domain handle of VMDelete, and the booleans `sourceIsActive`, `success` and `lock` of VMRebuild. NewVM, VMBackup, VMRestoreNoChecks and VMDelete are called
by VMRebuild as well as by handlers: `BackupFails`, `RestoreReturns` and `DeleteReturns` say where each returns to. `Unwound`,
`Reverted` and `Discarded` are the deferred calls of VMRebuild, in their order: delete the backup, make the original active again, delete the new VM.

A `Setting` is a set of circumstances, chosen in the initial state:

* `fault = "none"`: the steps of creations, backups, restores and rebuilds may fail, without effect; the calls that delete or undo succeed.
* `fault = "partial"`: a step that fails may have had part of its effect (a volume created whose copy fails, a save that fails once the memory is
  changed), and deletions and rollbacks may fail too.
* `fault = "crash"`: as `none`, and mulchd may stop between any two steps and start again.
* `overlap`: whether a request may begin before another one is over; `kinds`: which are requested; `scripts`: whether the VM has backup and restore scripts.

Abstractions: a script replaces or saves the whole data of a VM in one step; those that fail may have erased it. Scripts the users run, do-actions,
renames, the `restore-vm` and `lock` options of a creation, and uploads are left out. VMLifecycle also allows what `--force` allows: the lock only protects from VMDelete, as in the code.

### SecretSync and SecretRegister

`db`, `file` and `up` are the map, the file and the state of each server; `req[r]` is the request of a user on server `Home[r]` (or the
synchronisation of a start): the change it made, the peers it still has to call, and `msg`, the map it sends or that it is answered. A secret is its date and
its state; the date stands for the value too, since each change has a date of its own. Set, Save and each call are separate steps, because the mutex is released
between them; `Handle` and `Merge` are the two sides of SyncWithDatabase. Before it is encoded, `msg` holds the objects of the map, as the Go pointers do: `InPlace` changes them too.
`DeleteErase`, `DeleteMark`, `DeleteStamp` are the three assignments of delete, under the mutex, that encoding does not take. `ConcurrentMapAccess` is the fatal error of the Go
runtime when a map is written during an iteration. Encoding is one step: the keys of a message do not interact.

`written`, `acked`, `sound` and `torn` are history variables. `SecretRegister` has no messages, locks or files: a write goes to one server, a server learns later writes,
and stops, perhaps forgetting what it has not acknowledged. `ImplementsRegister` checks every step of SecretSync against it, with the mapping `AsWrites`: the memory of a running server, the file of a stopped one,
the previous write while Delete is at work. Two things break it, and are said in `Excused`: a secret encoded while it was being deleted, and clocks that differ (a change may then be
older than what it replaces).

Not modelled: a call handled after its sender has given it up, clocks that step back on one server (two changes of the same server may then leave its peers different for ever),
the usage of secrets by the VMs. Peers are called in any order, which includes the one of the configuration.

### PhoneHomeHub

`clients` is the map of the hub; `call`, `target` and `todo` are its `for range` loop, blocked on the channel of
`target`; `closed` counts how often each channel was closed. `cstate` is the program counter of the goroutines that wait:
`Builder`s run NewVM (start the domain, register, wait for the call of cloud-init, unregister, run scripts, unregister again in the deferred call), the others
VMStartByName (register, start, wait, unregister). A send and its receive on an unbuffered channel are one step.

### Hub

Same structure for `hub.go`. A stream is two goroutines, `main` (routeStreamHandler) and `handler` (the controller);
`ctxDone` is the request context; `pending` is the message each goroutine is blocked with in Broadcast; `lock` is the mutex of the
VM database, because `genPortsDB` logs while `save()` holds it and `getEntryFromRequest` takes it before StartStream. After StartStream, each message and each keep-alive, the main goroutine is "writing": the server has no write
deadline, so that it may stay there ("blocked") while a client that reads no more keeps its connection. Buffers are not modelled: a write to a client that reads, or is gone, returns (`Written`).

### ProxyReload

Contents are version numbers of save(). `asking` are the goroutines of Request that have not reached their
select, `token` the channel, `reloader` the goroutine that took it, `sighup` the one-place channel of signal.Notify in mulch-proxy,
`proxy` the program counter of the signal handler.

### VMStates

`phase` is the program counter of Run, from the start of mulchd to its loop; `states` and `stateFile` are the map and the file, which is truncated before it is
written (`Broken`); `restoring` has the goroutines of restoreStates. `UserAction` starts, stops, creates or deletes a VM as soon as mulchd runs, the restoration
included. `StateFaults`: mulchd stops, alone or with the host ("stop"), in the middle of a save ("stopSaving"), a save fails ("save"), a VM cannot be started or stopped ("action").
`recorded` (the states of the last save that followed a restoration) and `excused` (the VMs users changed since, or that failed) are history variables.
With "stopSaving" the file may stay truncated, and mulchd then does not start: `StateFileIsReadable` is refuted.

### Backups

`job[p]` is what the request of each client, or the goroutine of Run (`Timer`), is doing, with its name and date. An upload is `Upload` (name free, volume created), `UploadCopied` or `UploadFails`, `UploadAdded` or `UploadRefused`;
a deletion is `DeleteVolume` and `DeleteEntry`, by a client or by the timer, which lists what has expired (`ListExpired`) and then looks each name up. libvirt deletes no volume that is being copied. `BackupFaults`: mulchd stops ("stop"), in the middle of a save too ("stopSaving"), a save fails ("save"),
a copy or a deletion fails, a name is used again, a date is changed. `save()` truncates the file before it writes it: when it fails, its error is returned (an upload is then not acknowledged, but its entry stays in memory; a deletion has taken its entry from the memory), and the
file is what it was or `BackupsTorn`. A start reads the file and writes it again (`StartMulchd`), unless it fails (`StartFails`). `kept`, `removable` and `promised` are history variables: what was acknowledged, what someone may delete, what was said to never expire.
Three more properties are stated and refuted: `BackupFileIsReadable` (a save that fails, or that a stop cuts short, may leave a file with which mulchd does not start, and the entries of all backups are then lost with it),
`EntriesAreStored` (a deletion that stops between its two steps leaves an entry without volume) and
`TimerKeepsPromises` (a date that is removed once the list is made does not save the backup).

### Seeds

`work[w]` is a refresh: of the hourly round, which visits `toCheck`, or of a user. An image with an URL is downloaded to a temporary file, marked as not ready, deleted, created, copied, stored; a seeder
is built by a VM, then copied the same way. `making` are creations of VMs that read an image. A version is both the content of an image and its date. `SeedFaults`: any step of the round fails ("fail"), of a refresh by a user ("failForced"), two refreshes
of one seed cross ("overlap"), mulchd stops ("stop"), in the middle of a save too ("stopSaving"), a save fails ("save"). The run has all but "failForced" and "overlap", each of which breaks a promise of the seeds: `SeedsForced.cfg`, `SeedsOverlap.cfg`.

What is "not ready" is not always in the file: RefreshSeeder marks a seeder in memory only before it deletes its volume, and the errors of the saves are ignored. Two history variables follow this: `unmarked` are the seeds whose volume is replaced while the file may
call them ready, `misled` those that were so when mulchd stopped, which it then takes for ready without an image until their next refresh. `ReadyIsWhole` excepts them, and only them; it says nothing of a file that a save has left unreadable (`SeedsTorn`), with which mulchd does not start. Even without all this a VM may be made from half an image (`DisksAreWhole` is refuted): a creation finds the seed ready, and a refresh replaces its volume before the copy begins.

### Migration

MigrateVM is sequential: `pc` is its next call, `undo` the stack of its deferred functions. The two VMs, and an older revision on the peer, are `exists`, `active`, `locked` and `data` (the last write each has); users write to any VM that is active.
The steps of the peer are atomic here; VMLifecycle models them. `MigrationFaults`: a call fails ("call"), or its effect is there but its answer lost ("lost"), the backup fails ("backup"), the peer cannot be
reached when the backup is sent ("unreachable"), the deletion of the source fails ("delete"), mulchd stops ("stop"), the VM database fails to save that the source is (de)activated ("save") or refuses to activate it again ("refuse": another VM has its domains, or the parent proxy does not answer), `--keep-source-active` is used ("keep"), users activate the source during the migration ("activate").
A deactivation whose save fails has cleared the flag, and MigrateVM returns before it has deferred the reactivation; the error of the reactivation is ignored: after either the source may not serve (`denied`), which `MigrationKeepsServing` excepts, as it does the panic.
The run has all but "lost", "keep" and "activate": each of these three lets the two VMs serve at once or the copy miss a write; with a lost answer the deferred functions undo less than was done.

### Addresses

`RandomUniqueIPv4` draws an address that no VM and no lease has; a creation then adds a transient lease, adds its VM, and removes the transient lease when it returns. Each change calls `rebuildDHCPStaticLeases`, which compares the wanted leases, by name, with `known`, the copy of
the network mulchd read last, deletes, adds, then reads it again; the first error ends it (`RebuildFails`) and the copy is stale from then on. `AddressFaults`: two creations draw the same
address ("same"), libvirt refuses ("network"), a creation fails, mulchd restarts. `failed` says that a rebuild has failed once: `LeasesCanBeRebuilt` is refuted with "network", the rebuild that follows an error may fail again for ever.

### APIKeys

A key is an object: `keyring` maps the ones of the database, `dropped` the ones a request still holds after their deletion. Rights are read (`AddRight`, `RemoveRight`), stored in the key (`Writes`) and saved (`Saves`) by three
steps of the controller, without the mutex; trusted VMs change and are saved under it. A right is counted, since it may be added twice. `KeyFaults`: saves that fail ("save"), stops ("stop"), in the middle of a save too ("stopSaving"), and several requests on the same key ("overlap", which loses a right: `APIKeysOverlap.cfg`): what the run claims is for requests that cross on different keys.
The file is truncated before it is written: a save that fails, or is cut short, leaves what it held or `KeysTorn`, with which mulchd does not start (`keysUp`, `Reload`, `ReloadFails`), and the property then speaks of the memory only. `present` and `absent` are what
was acknowledged. Rights with several headers (`Ambiguous`) are compared through a text whose order changes: with `Ambiguous = {t1}` a removal is acknowledged that removed nothing.

### HTTPProxy

`requests[r]` has the pointers a request holds: the load of its Domain, the entry of its client, its place. `Arrive`, `Lookup`, the entry, the place (`IsAllowed`, its first select), the limiter, the redirection, the backend, then the deferred calls: each is a step,
between which `ReloadDomains` and `RefreshReverseProxies` replace the domains and `Clean` forgets the entries that have not been used for long. Time is not modelled: tokens come back, waits end and entries age at any moment, which includes what clocks do. A forgotten entry is still
held by its requests, and the next one gets a new entry with all its places: `RunningBounded` (two sets of places at once) is refuted with `MaxEntries = 2`, `SlotsAreHeld` is not.

### PortServer

`refresh`, `todo`, `kept` and `busy` are ReloadPorts and its loops, under the mutex; `listeners` are read by the Listen goroutines and the connections without it. `conns[c]` goes from AcceptTCP (the forward map is read) to the dial, the two pipes and the close of
its channel. Its channel is found by its source and the address of its destination, as the keys of closeChannels are, so a forward that changes port only leaves its connections open. A listener that was public stays so, even when the file says otherwise; the port
files of the run never reuse a public port for a group. `running` becomes false when the Go runtime, or a panic, stops the program: concurrent read and write of the map, channel closed twice, connection `nil`.

### ProxyChain

For each child, mulchd asks its parent about conflicts (`granted`), gives the domain to a VM (`wanted`), and its mulch-proxy loads the file and sends its domains; `calls` are registrations on their way, which the parent handles one at a time
(`serving`), replacing the domains of the child, saving, then making their ReverseProxies. `Failures`: the watchdog or a stop ends a proxy ("exit"), the disk is full ("save"), the answer is lost, or the call late ("late"). `unregistered` and `contested` are what
the property leaves out: children whose last registration failed, domains two children were told are free. Two more behaviors are refuted: a registration that arrives late replaces a newer one ("late"), and a parent that stops during a save cannot start (`ParentCanStart`).

## 3. Runs

| Run | Bounds | Shows |
|---|---|---|
| `vmdb_serial` | 2 names, 2 revisions, 2 VMs, 3 configurations, 1 request, sound and failing disk | what the database promises holds when requests do not overlap; the registry is implemented |
| `vmdb_concurrent` | 2 names, 2 revisions, 3 VMs, 2 configurations, 2 requests | one active revision per name and durability do not need that |
| `vm_lifecycle` | 2 revisions, 3 VM objects, 1 backup, 1 write; one request at a time of any kind with each kind of fault, or two overlapping ones (rebuilds; creations and deletions; backups, restores and backup deletions) | data and service survive failures and restarts; nothing is left behind |
| `vm_lifecycle_loss` | 1 rebuild, calls that fail after an effect | the rollback of a rebuild may delete every copy (counterexample) |
| `mulchd` | states: 2 VMs, 3 stops, 3 actions; backups: 2 names, 2 clients, 3 requests, times 0 to 2, 1 stop; seeds: 1 URL and 1 seeder, 1 user, 1 creation at a time, 2 versions, 2 manual requests, 1 stop; migration: 3 writes, 2 migrations; addresses: 2 VMs, 3 addresses, 3 creations, 1 restart; keys: 2 keys, 1 right, 1 trusted VM, 2 requests at a time, 4 in all, 1 stop | six databases and procedures of mulchd keep what they acknowledged |
| `backup_expire` | 1 backup, 1 client, 1 stop | a date that was removed comes back (counterexample) |
| `migration_rollback` | 1 migration, a backup that fails | the source is not activated again (counterexample) |
| `secret_sync` | 2 servers, 3 users, 1 secret; 3 changes with calls that fail or none, 2 with disk errors, restarts or clocks that differ | acknowledged changes stay, servers converge, nobody blocks; the register is implemented |
| `phone_hub` | 1 VM, a creation and a start, 3 calls at a time | no panic, no missed call, no other blocked goroutine than the known one |
| `hub` | 2 streams (one that reads the database first, one that follows the log), 1 goroutine that logs and saves | the same for the message hub and the database mutex |
| `proxy_reload` | 3 saves | reloads are done |
| `mulch_proxy` | HTTP: 1 client, 3 requests at a time, 2 places, a burst of 1, 1 delayed request, 2 loads, 2 entries; ports: 2 clients, 1 connection, 3 files, 3 reloads; chain: 2 children, 2 domains, 3 changes, 2 failures | places, connections and routes are those of what was answered |

The bounds are enough for the interactions: two names are needed for a conflict and two revisions for a
fallback; two concurrent requests suffice for every check-then-act race of the code, which involves two critical
sections; a rebuild uses two revisions and one transient backup, and a second backup would only repeat the first; secrets do not
interact, so one is enough, and three changes are a value, its deletion and a change that crosses them; two streams let the hub be blocked by one while the other starts or ends; three saves let one be written, one be
asked for and one be loaded at the same time. VMs do not interact in VMStates: two let one be restored while the other waits, and three stops let mulchd stop in a restoration that follows a restoration. Backups interact by their name only: two clients and the timer may meet on one, and the other is
what the timer does next. A seed is refreshed by the round while a user refreshes another, and a second version arrives during the download of the first; the second migration begins with what the first has left, on either server. Two VMs whose creations cross may draw
two addresses out of three, with a third creation that reuses a name. A third request waits for a place while two run, and an entry is forgotten and made again once. One connection is enough, for connections share only the channel of their key; three
files change a public forward, then withdraw one of a group. Two children that claim the same domain need two domains to keep another one.

`CHECK_DEADLOCK FALSE` is said where the real system stops or the bounds do: a daemon whose file is unreadable exits (the VM database of any disk, the backups, seeds, keys and states), both hubs may
block for good, nothing moves after the last save or the last request.

**What the lifecycle run claims, and what not.** Data is only promised to requests that do not overlap: VMRebuild sets no work-in-progress
mark while it builds the new VM, so an activation or a second rebuild may get between its steps, and the automatic rebuild does not look at the
lock. With calls that fail after an effect (`partial`) the data is not promised either, which `vm_lifecycle_loss` shows. In all settings marks
are removed (`NoStuckOperation`); `BackupsAreStored`, and `NoOrphans` with the two requests of the run (section 4 says what three can do), hold with overlapping requests, as long as rollbacks and deletions work and mulchd stays up:
a crash leaves volumes and domains behind, for which the code has no cleaning.

**Liveness.** `Fairness` in each module says: goroutines run, the blocked one that a select or the mutex keeps
finding ready is chosen some day (strong fairness: Go's select is random among the ready cases, its mutex is handed over), nobody is forced to
connect, log, save, call or read what a stream sends. The properties of the hubs are stated with their exact exceptions: `Stuck` names the states in which the hub
is blocked for good, and the property says there is no other reason to wait forever. The configurations below show that these states are reached.
The modules of `mulchd` and `mulch_proxy` state safety only: an operation of theirs ends when libvirt, a peer or a client answers, which nothing in the code ensures.

**Findings.** Three runs refute what the code says of itself: the rollback of a rebuild deletes the last copy (`RebuildKeepsData`), a backup that "will never
expire" does after a restart (`ExpirationIsKept`), and the failure of the backup in a migration stops mulchd with the source inactive (`SourceIsReactivated`).

**Other counterexamples.** These configurations are not among the runs; each shows a behaviour the code does not prevent.

| Configuration | Module | Refutes |
|---|---|---|
| `VMDatabaseConflict.cfg` | `MCVMDatabase` | `NoActiveConflict`, with two requests: both pass the check before either commits |
| `VMDatabaseFallback.cfg` | `MCVMDatabase` | Delete activates a revision that is gone |
| `VMDatabaseGreenhouse.cfg` | `MCVMDatabase` | two builds with the same revision |
| `VMDatabaseTwoPorts.cfg` | `MCVMDatabase` | two ports of a VM behind one public port: every save fails from then on |
| `PhoneHomeHubOverlap.cfg` | `MCPhoneHomeHub` | `AvoidsDeadlocks`: a call meets a client that leaves |
| `HubDeadlock.cfg` | `Hub` | `NoHubDeadlock`: a message meets a stream that ends |
| `ProxyReloadLast.cfg` | `ProxyReload` | `LastSaveIsLoaded`: a request between the signal and the return of the token is ignored |
| `SecretSyncHalf.cfg` | `MCSecretSync` | half a deletion is sent to a peer, then the server crashes before it saves: both hold the secret with the same date, one deleted and one not, and no synchronisation repairs it |
| `SeedsForced.cfg`, `SeedsOverlap.cfg` | `Seeds` | `NotReadyIsRetried` after a refresh by a user that fails; `ReadyIsWhole` with two refreshes of a seed |
| `AddressesSame.cfg` | `Addresses` | `AddressesAreUnique`, with two creations between the draw and the lease |
| `APIKeysOverlap.cfg` | `APIKeys` | `AcknowledgedRightsAreStored`, with two requests on a key |
| `MCMulchProxyAborted.cfg` | `MCMulchProxy` | `NeverAborted`: a request between Reload and RefreshReverseProxies |
| `MCMulchProxyStops.cfg` | `MCMulchProxy` | `NeverStops`: the forward map, or the channel of a connection, is used by two goroutines |
| `ProxyChainContested.cfg` | `ProxyChain` | `NeverContested`: two servers are told that a domain is free |

## 4. Theorems

Each proof module has the same shape: an inductive invariant, a lemma that it holds initially, lemmas with one step per action, and theorems that close with
PTL. What holds in all states is proved for every value of the constants, under the assumptions said here and nothing else. A hypothesis of a theorem is a
circumstance the property excludes and a counterexample needs: each was met as a behaviour TLC found, or as a step that could not be proved.

### VMDatabaseProofs

For any number of names, revisions, VMs, configurations and concurrent requests, with crashes, torn writes and conflicts:

* `TypeCorrect` (`TypeOK`). `SaveType` (whatever fails, save() leaves well-typed files) and `GotoType` (moving a request) carry it.
* `OneActiveRevision` (`OneActivePerName`), in memory and in the file, because a restart loads the latter. `ActiveAfterOne`: recomputing the flags of a name leaves one.
* `DurableChanges` (`Durable`). On a sound disk, what is in memory is in the database file: save() writes this file first, even when the domains or ports are then found in conflict.

The promises that concurrent requests break are proved of `Spec /\ []Serial`: changes do not cross. `Serial` does not forbid requests that overlap (constructions last for minutes): only the windows that go
from a conflict check to the change it allows, and from a redefinition to its save, are alone. `OnePortEach` leaves out the VM with two ports behind one public port, which passes every check and fails every save.

* `SerialHasNoConflict` (`NoActiveConflict`), `SerialFilesAreCurrent` (`FilesCurrent`), `SerialKeepsServing` (the action property `KeepsServing`), and `SerialStartsUnlessTorn`: on a sound disk mulchd starts again wherever it stopped, unless it was writing the database file itself.
* `SerialIsARegistry` (`ImplementsRegistry`): on a sound disk VMDatabase implements VMRegistry. `AddCommit` is Add; `FallbackCommit` and an activation are Activate; a deactivation is Deactivate; `Update` is Redefine; `DeleteCommit` is Remove; `Crash` in the middle of one of their saves is that change or a stutter; all others are stutters.
  `RegistryInv` adds to `SerialIInv` that the lists of mulch-proxy are the indexes of what is known (`Published`), stopped or not, and that only the VM of a redefinition under way differs from what was saved (`OthersSaved`). `DeleteCommit` is the step where it matters that changes do not cross:
  the revision chosen to take the name over must still be there.

Their invariant `SerialIInv` says that each VM has its own configuration (`OwnVM`), that the requests in a window are apart (`Apart`), that the database file is one mulchd can start from (`FileOK`), that the files follow
the memory unless a redefinition is half-way (`Current`), and that what was checked is still true when it is used (`Checked`). That the highest revision exists is well-foundedness of the order of the naturals.
Assumptions: `ConfigAssumption`, `DiskAssumption`, and that the sentinels (`None`, `Corrupt`, no argument) are no values.

### VMLifecycleProofs

For any number of revisions, VMs, backups, writes and requests, and any settings:

* `TypeCorrect` (`TypeOK`). It includes `WellFormed`: at each step of an operation, what its record holds is what the next step of
  the code uses (a revision, a VM, a backup that a failed step before may not have given).
* `MarksAreRemoved` (`NoStuckOperation`). The invariant `Inv` adds `MarksOK` to the types: each marked VM has an operation between
  SetOperation and its deferred reset. Both follow from one lemma per action, which shows what record the action puts (`Moves`) and that marks
  it does not own are left alone; `MovesPreserve` then concludes.
* `ListedBackupsExist` (`BackupsAreStored`), however requests overlap. `StoredOK`: the volume of a backup that is being made is known to its operation alone,
  because no name is used twice, and a listed backup has its volume unless BackupDelete is between the volume and the entry. The proof corrected the model: a backup may be deleted
  while a domain has its volume attached, and what a restore then reads is unknown (`Readable`).
* `NothingIsOrphaned` (`NoOrphans`), under `DeletionsApart`: no two requests are removing the same revision at once, which is always so when requests do not overlap (`OneAtATime`).
  `OrphanOK`: a disk or a domain without an entry belongs to the creation that made it, at a step from which its deferred calls remove it; VMDelete removes disk and domain before the entry.
  The hypothesis is needed. The run has two requests; with three, TLC finds the behaviour that the proof could not exclude: two creations that chose the same revision and two deletions of it cross,
  and the second deletion removes, by name, the entry of a VM added since, whose disk and domain stay.
* `ServedIsCurrent` (`ServedDataIsCurrent`), `DataIsKept` (`DataSurvives`), `ServiceComesBack` (`ServiceReturns`), from `DataHolds`: when requests do not overlap and the fault is not "partial", `DataOK`. The properties
  say nothing of the operation under way; the invariant says, at each step, what it may go back to and what it goes on with. A rebuild that can still fail has an original that is whole (`UndoOK`): if it was active, its disk has the data
  and nobody writes to it, as no revision is active; if not, another revision than the new one serves or has the data. Between the backup and the activation, the backup, then the new
  disk, is a copy of the original (`CopyOK`). Once the original may go, the data is elsewhere (`RemoveOK`). The service may write at any of these steps: to an active revision, that is neither the original of a rebuild that set it inactive, nor
  the revision it builds. While no revision is active and the users want one, the operation is a rebuild on its way to an activation or to the deferred reactivation (`Awaited`). Each step of the operation is shown to advance it (`Advances`), the calls that undo in one lemma (`UndoAdvances`).
  That GetNextRevisionForName gives a new revision is well-foundedness of the order of the naturals (`NextRevisionIsNew`).

They assume `LifecycleAssumption` (sizes of the constants, sentinels that are no VM, revision, backup or content) and `SentinelAssumption` (`None` is no operation).

### MulchdProofs: VMStates, Backups, Seeds, Migration, Addresses, APIKeys

* `StatesRestored` (`StatesAreRestored`), with every fault and no assumption. A file that can be read holds the last recorded states, and so does the memory until the restoration is over; meanwhile every VM without an
  excuse is still to be visited, on its way, or in its state.
* `KeptBackups` (`KeptBackupsAreStored`), with every fault (saves that fail or are cut short included) and no assumption: a file that a save has left unreadable is excepted in the property, nothing else. The property says nothing of the requests under way; the invariant adds why none of them can hurt: whatever is being deleted, listed as expired, or has
  a date is removable, in memory and in the file, and what an upload is about to add is whole.
* `Leased` (`VMsHaveLeases`), if there is an address, with every fault. A rebuild compares names only; it is right because a lease under a name is always the one of the VM, or of the creation, that has the name, and leases of a deleted VM
  are gone before its name is used again.
* `RightsStored` (`AcknowledgedRightsAreStored`), under `KeysHypothesis`: rights and trusted VMs have different names, no right is ambiguous (two headers), and two requests do not change the same key at once. An edit that
  was read is the key as it is, changed as asked (`EditOK`); what the history variables say fits the memory and the file.
* `ReadySeeds` (`ReadyIsWhole`) and `RetriedSeeds` (`NotReadyIsRetried`), under `SeedsHypothesis`: no "overlap", and configurations that name seeds; `RetriedSeeds` also needs `NoneForcedFails` (no "failForced"). Every other fault may happen. Each seed has one refresh at a time; the progress of a refresh tells which version its volume has and whether it is whole, and the seed is not ready meanwhile, in memory,
  and in the file too unless it is `unmarked`; a stop turns the unmarked ones into misled ones (`MemoryIsRight`, `FileIsRight`). The dates of a refresh never exceed the date of the site, so a seed that is not ready has an older one.
* `MigratedData` (`MigratedDataSurvives`) and `ServedCopy` (`ServedCopyIsCurrent`), if the faults `MigrationExcluded` ("keep", "lost" and "activate") do not happen: the last write is in the copy once it serves or is alone, otherwise in the source; the backup has it from its end to the activation; what remains to be undone does no harm (`Undoable`).
* `MigrationServes` (`MigrationKeepsServing`) has no assumption. While the migration is not a success, the source is active, its reactivation is still on the stack of deferred functions, or the VM database has denied what it was asked; the lemmas `Defers` and `Undoes` are about this stack.
* `MulchdTypes` (the `TypeOK` of `MCMulchd`), with every fault, if there is an address, the guests of the addresses are finitely many and configurations name seeds. Types need more than types: an upload is alone with its name (`UploadsAreAlone`),
  a comment has one key (`OneKeyPerComment`), the volumes a refresh reads exist (`VolumesExist`).
* `MulchdKeepsItsStores`: the nine safety properties above at once, of `MCMulchd`, under their hypotheses together. The argument is `MulchdIsItsParts`: a behavior of mulchd is a behavior of each part, since a step of one leaves the variables of the others alone.

### MulchProxyProofs: PortServer, HTTPProxy, ProxyChain

* `WithdrawnAreClosed` (`EstablishedAreAllowed`), with no assumption on files, ports or clients. A connection nobody told to end has a channel in its listener, and the channels of the listeners a reload has visited are those of the file: when the reload ends, all have been.
* `LoadedFileIsServed` (`ServesLoadedFile`), under `FixedPorts`: a port number is public in every file, or belongs to a group in every file. A listener keeps the kind it was made with.
* `PlacesAreHeld` (`SlotsAreHeld`), for any finite set of requests and limits that are numbers. The places taken in an entry are counted by the requests that hold them, even in an entry that was forgotten while they waited:
  the invariant is an equality of cardinals (`PlacesOK`).
* `RegisteredAreRouted` (`RegisteredIsRouted`), if no registration is handled after its child gave it up (`NeverLate`): otherwise an older list replaces a newer one. The history variables `unregistered` and `contested` are in the property itself.
* `MulchProxyTypes` (the `TypeOK` of `MCMulchProxy`), under `HTTPConstants` (finitely many requests, limits that are numbers), `PortsHypothesis` (the sentinel `NoPort` is in no file) and if `Nobody` is no child; late registrations included.
* `MulchProxyServes`: the four safety properties at once, of `MCMulchProxy`, under `HTTPConstants`, `FixedPorts`, `NeverLate` and if `Nobody` is no child, by `MulchProxyIsItsParts`.

### SecretSyncProofs

For any number of servers, secrets, users and calls, under the assumptions that `None` and "no change" are no values:

* `AcknowledgedAreKept` (`AcknowledgedKept`), from `SyncIInv`: every date is the one of a change that was made, messages carry entries that are not newer than those of their origin, and nothing acknowledged is older anywhere it was stored.
* `SecretsAreARegister` (`ImplementsRegister`): SecretSync implements SecretRegister. `WholeIInv` adds that an entry says what the change of its date was, but for the one that Delete is changing (`AllFaithful`). The step of a request that
  puts is Put or a stutter, the one that serves a call or merges an answer is Learn, the end of a request is Acknowledge, a stop is Stop or, when it loses more than it may, Wreck, a start is Restart; all others stutter.
* `SecretsConverge` (`Converged`), from `ConvIInv`: while no call fails and no server stops, every change is at each server, or is on its way to it by a request that will go there (`AllReach`), and what is in memory will be saved.
  The proof corrected the property. With three servers, one of which has a late clock, that server's deletion does not replace what it has sent meanwhile: with clocks that differ, what is claimed is that no server is behind a change,
  and that they agree on it unless a secret was encoded while Delete was changing it.

### PhoneHomeHubProofs

For any number of clients: `HubNeverPanics` (`NeverPanics`), `StartersHear` (`StarterHears`), `HubBlockedByLeaversOnly`: the only client that blocks the loop of the hub is one that is leaving (`Stuck`). The invariant `HubIInv`
says which program counters are in the map of the hub, and that the loop has sent to all when it ends. Assumption: `NoCallAssumption`, a sentinel.

### HubProofs

For any number of streams, goroutines that log and goroutines that save; `HubAssumption` (which streams look, follow and trace are streams; sentinels are no values) is the only one:

* `TypeCorrect` (`TypeOK`) and `ClientsAreAlive` (`NoDeadClient`): however a stream ends, the hub never sends to one whose main goroutine has returned.
* `HubIsStuckInThreeWays` (`HubWaitsOrIsStuck`): while it broadcasts, the hub can go on, or the stream it sends to can end its write or start, or the holder of the mutex that stream needs can release it; otherwise `Stuck` holds. It shows that the three situations `Stuck` names
  (the stream waits to leave the hub; it has not started and waits for the mutex of a goroutine that waits for the hub; it writes to a client that reads no more) are the only ones, and with it the exception of the liveness properties is exact: what is left to TLC is that a step which stays possible is taken. The invariant `StreamsOK` says where the two goroutines of a stream are when the hub has it; a
  stream that starts has not logged yet, so the two never wait for each other.

### ProxyReloadProofs

For any number of saves, whatever signals fail and whenever the files are read, under `ReloadAssumption` (there may be a save; `Nothing` is no version):

* `TypeCorrect` (`TypeOK`): one goroutine at most holds the token.
* `SignalsAreServed` (`SignalledIsLoaded`), the safety core of `ScheduledIsDone`: when the signal of a reload was sent and mulch-proxy is idle again, it has the files of the save the reload is for, or later ones, or read one that was being written. It follows from `SignalOK`: what the
  handler has read since it took the last signal is as new as that save, since signal.Notify keeps a signal that arrives during a reload.
* `PortsAreNotOlder` (`PortsFollow`): between reloads the ports are never older than the domains, as save() writes, and the handler reads, the domains first.
* `ProxyNeverGoesBack` (the action property `NeverOlder`): no reload replaces domains or ports by older ones.

### Only model-checked

Liveness (`Hub`, `PhoneHomeHub`, `ProxyReload`) and `NoDeadlock` of SecretSync, which is about ENABLED: both are out of the reach of TLAPS. Every other property of the runs that must pass is the conclusion of a theorem.

## 5. Plan

Done: the modules of section 2, and the theorems of section 4. What could follow, in this order:

1. VMRename, the `restore-vm` and `lock` options of a creation, do-actions, in VMLifecycle.
2. The list of operations and the log history, which are bounded buffers read while they are written.

## 6. Not modelled

* The command line client: one HTTP call per command, then display. Colours, tables, formatting.
* The SSH proxy, the consoles and script runs: goroutines that copy bytes between two ends and share nothing else. A script is a step that may fail in VMLifecycle.
* Parsing of TOML files, of origins, of search expressions; names and rights as text; the PROXY protocol, HTTP headers and bodies: sequential functions of their input.
* TLS certificates, SSH key pairs, encryption of the secrets: cryptography and files written once.
* The matching of a request with the rights of a key, the status and the searches: they only read.
* The copy of a volume: two steps, begun and whole, of Backups and Seeds.
* The schedule of the automatic rebuild: dates; its rebuilds are requests of VMLifecycle. Alerts: a script, called.
