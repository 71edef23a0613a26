# scanbus: a TLA+ model of the service

scanbus is a D-Bus service (`org.scanbus`) that finds network scanners through
vendor backends, pairs with them, listens to their panel buttons and turns a
press into a scan job; a command line and a desktop client use it. This directory
holds TLA+ modules for its core, its backends and its clients, the TLC configurations
that check them and TLAPS proofs about them. Paths below are relative to `src/`; `core/` is
`scanbus-core/src/`, `daemon/` is `scanbus-daemon/src/`, `gui/` is `scanbus-gui/src/`, `cli/` is
`scanbus-cli/src/` and `client/` is `scanbus-client/src/`.

Contents: 1 the system, 2 the modules, 3 what the runs check, 4 what the code
was found to do otherwise, 5 what is proved, 6 what is not modelled, 7 the plan.

## 1. The system

| part | state it keeps | operations |
|---|---|---|
| `core/pairing.rs` `PairingMachine` | per scanner: state, paired flag, abort handle of the driver; a broadcast of transitions | `pair`, `cancel`, `unpair`, `restore_paired`, `restore_failed`, drop; driver task `run`, relay task |
| `daemon/store.rs` `JsonPairingStore` | a map and its file `pairings.json`: pairing, connected flag, default profile, buttons | save, forget, read back at startup |
| `daemon/scanners.rs` `ScannerRegistry` | entries (origin, seen in this session, listener task, description) and which entry owns a physical address | `observe`, `promote`, `retire`, `ensure_listening`, `stop_listening`, `listener_failed`, `mark_unseen_offline`, `end_discovery`, `restore` |
| `daemon/dbus/scanner.rs` `Scanner1` | the object and its supervisor task | Pair, CancelPairing, Connect, Disconnect, Unpair |
| `daemon/discovery.rs` `Discovery` | who holds a session open, the session task and its stop channel | StartDiscovery, StopDiscovery, `watch_owners`, `run_session` |
| `daemon/listeners.rs` | one task per connected scanner: the vendor stream, a restart budget | press, stream end, backoff, give up |
| `daemon/jobs.rs`, `profiles.rs` | one task per scan, one per processor, a bounded page channel, a retention timer, a `Job1` object | fetch, receive, deliver, announce, retire |
| `daemon/dbus/button.rs`, `profile.rs` | label, profile and options of a key; profile options | setters that persist |
| `backend-brother` `registrar.rs`, `lib.rs` | per device: the functions kept alive and a refresh task; per backend: button assignments, the noted address of each printer | `set_button_mapping`, `forget`, `start`, `stop`, `round` |
| `backend-brother` `listener.rs` | one UDP socket and its receive task, the table of streams, a task still closing | `subscribe`, `unsubscribe`, stream drop, `receive`, dispatch |
| `backend-hplip` `lib.rs`, `walkup.rs` | per scanner: a task on hpssd's signals, the URI of the entry this host has on the device's panel; the collection of entries itself belongs to the device | `start_listening` (watch hpssd, sweep, register), `stop_listening` and `forget` (withdraw), the listener task |
| `backend-mobile` pairing | a table of tokens, `devices.json`, the host's id and port, the TLS identity | `ensure_installed` (the handshake), `forget`, `prune`, load |
| `backend-mobile` uploads | one task per connection, a table of subscriptions, uploads waiting to be fetched, a page channel for each | accept, authorize, trigger, claim, acknowledge a page, `fetch_pages`, `start_listening`, `stop_listening` |
| `backend-common` | a scanimage child process, an mDNS browser | pages, browse, register |
| `daemon/profiles/options.rs`, `profiles.rs` | the option map of each profile | validate, the merge with a key's own map, what a processor reads of it |
| `scanbus-client` | proxies, `PropertyWatch` | subscribe then read, resolve a selector |
| `scanbus-cli` | a command's own connection; `job watch` has a task for each job | per command |
| `scanbus-gui` `bus.rs`, `store.rs`, `notify.rs` | a mirror of the object tree, the notifications of jobs, the discovery sessions held for pairings | sessions with the daemon, signals, commands |
| `scanbus-gui` `options.rs`, `buttons.rs`, `profiles.rs` | the open editor of one option map | commit, clear, render |

**How they interact.** A client calls the daemon over D-Bus, each call in a task
of its own. `Discovery` runs one session task that asks every backend and hands
each sighting to the registry. The registry publishes a `Scanner1` object with a
`PairingMachine` and a supervisor task that follows the machine's broadcasts:
on `Done` it promotes the object (so that it outlives the session), signals
`Paired`, and asks the registry to listen. The listener task awaits each press's
job; a job feeds a processor through a bounded channel and publishes a `Job1`
below its scanner. The store is written by the machine (pairing), the registry
(connected), and the button and profile setters. At startup the registry restores
what the store holds before the bus name is owned, so no client sees a half
restored daemon.

A mobile phone is a client of its own: it confirms a pairing over a socket, keeps a
token, and sends a scan as pages the host acknowledges one by one. An HP device keeps
a list of the hosts it offers on its panel, shared by all of them, and hpssd tells
the backend over D-Bus of what is chosen there. The desktop client and the command line
read properties, follow their signals and write whole maps back.

**What is hard.** Tokio aborts a task at an await and nowhere else, and aborting a
task detaches what it spawned: the relay of a driver, the job of a listener.
Locks are short: a broadcast, a store write or a backend call often comes after
the lock is released. D-Bus calls run concurrently with each other and with
`NameOwnerChanged`. The store's flush may fail with the map already changed. The
daemon may die anywhere. A printer's panel forgets entries by itself and cannot be
asked to. `PROJECT.json` lists each of these hazards at its line,
with the properties that would catch it.

## 2. The modules

| module | models | extended or used by |
|---|---|---|
| `Pairing` | the pairing machine of one scanner and its store entry | `MCPairing`, `PairingProofs` |
| `Scanners` | one scanner's object: why it exists, its listener, its properties, Connect and Unpair, restart | `MCScanners`, `ScannersProofs` |
| `Sightings` | the registry across scanners: entries and address owners | `MCSightings`, `Discovery`, `DiscoveryProofs` |
| `Discovery` | the discovery session on top of the registry | `MCDiscovery`, `DiscoveryProofs` |
| `Jobs` | a listener, its jobs, their processors and objects | `MCJobs`, `JobsProofs` |
| `PanelListener` | the Brother event socket and the streams it feeds | `MCPanelListener`, `BrotherProofs` |
| `Panel` | one Brother panel: assignments, leases, the refresh task, restart | `MCPanel`, `BrotherProofs` |
| `Walkup` | the walk-up destinations of one HP device and this host's calls | `Hplip`, `HplipProofs` |
| `Hplip` | `start_listening` and the listener task of the HP backend, hpssd, presses | `MCHplip`, `HplipProofs` |
| `MobilePairing` | pairing a phone: three records of one pairing, two files | `MCMobilePairing`, `MobileProofs` |
| `MobileUploads` | uploads of a paired phone, the listener and the jobs they feed | `MCMobileUploads`, `MobileProofs` |
| `Follow` | abstract: what a client that follows an object is promised | `JobWatch`, `JobsProofs` |
| `JobWatch` | `scanbus job watch --until-done` over `PropertyWatch` | `MCJobWatch`, `JobsProofs` |
| `Mirror` | the desktop client's store, notifications and discovery holds | `MCMirror`, `DesktopProofs` |
| `Options` | option maps, their setters, the editor and the commands that write them | `MCOptions`, `DesktopProofs` |

An action is one critical section, one broadcast, one store call, one exchange with a
device or one await. What a module leaves out of another's subject it keeps as a free
choice: `Scanners` lets a pairing end in any way at any time, `Pairing` lets the object
go whenever it may, `Mirror` lets objects come and go.

**Pairing.** `state`, `paired`, `task` are the fields of `Inner`; `pc[r]` is where
driver `r` is in `run()`, named by the await it is parked at or, between
awaits, by what it does next; `chan` is the progress channel, `pend` a state the
relay has set and not broadcast. `Abort` removes a parked driver and leaves a
polled one alone, which is tokio's rule. `Assign` and `Broadcast` do nothing for an
orphan, a task whose machine was dropped. `mem`/`disk` are the store's map and
file; `Flush` may fail before or after the rename.

**Scanners.** The registry runs under one async mutex, so each of its methods is a
step; `Unpair` is five steps (`stop_listening`, the check of `paired`,
forget, clear, retire), `Connect` two, the supervisor four (receive, promote,
emit, listen), a failed listener three. `Remove` is what `remove_subtree` takes
with the object, and `StaleCalls` the calls that still hold the old machine.

**Sightings and Discovery.** `Sightings` is the registry as a specification of its
own: any sequence of calls. `Discovery` extends it with the session and calls the
same operators; `RegistrySpec` is a property of its run and a theorem, so the
session adds no way to change the registry. `releasing` is the lock the stop path
keeps while it awaits the task: `Start` and the releases wait for it.

**Jobs.** `pc[j]` follows `jobs::run`; `tx`, `chan`, `proc`, `eaten` are the page channel and
the processor at its end; `serving` is the `JoinHandle` the listener awaits. An aborted
listener forgets it and the job goes on.

**PanelListener.** `gate` is the async mutex, `table`, `bound` and `closing` are the critical
section of the same names, `task[t]` the receive task that owns socket `t`. A call is
`Enter...` (gate and first critical section), the await of the handle it took (`Drained`),
then `Look`, `Bind`, `Record`, `Insert` for a subscriber; the code has no await after the bind,
but other threads run between these steps. `Cancel` drops a call at an await. A
`Subscription` is told by its epoch, so a stream in the model is one.

**Panel.** `pc[k]` is where the Profile write of key `k` is: waiting for the
registrars' lock, holding it through the first round, or about to move the property and
save. `phase`, `functions`, `target`, `todo` and `delay` are the registrar and its refresh
task; `panel` is the device. Time is `Tick`; a request is answered, refused or lost, and one whose
task is aborted is taken at once or never. Flush failures of the store are left to `Pairing`.

**Walkup.** `collection` is on the device and other hosts write it between any two
exchanges. An installation is one action per exchange: `Limits`, `Listed`, a `Sweep` for
each entry of this host's that it read, `Register`; each may go unanswered with or without its
effect, and a POST may arrive after its call is over (`late`). `panel` is the URI the
backend keeps to delete its entry with, and `orphans` the entries whose URI it never had.

**Hplip.** Extends `Walkup` with the steps of `start_listening` in their order (owner,
toolbox, watch, install) for its three callers, and with the backend's task: `select` is its
`tokio::select!`, `history` the call it makes for a signal, `send` the trigger it hands over.
hpssd has an owner number, so that a rule about one owner misses the next.

**MobilePairing.** `paired` is the backend's table, `file` is `devices.json`, `done` and
`saved` the daemon's memory and `pairings.json`, `phone` what the phone keeps. `driver[p]` follows
`ensure_installed`: dial, confirm, save; `unpair[p]` the two halves of `Unpair()`. A start reads
`devices.json`, which may have become unreadable, draws what it lacks, writes it back if it
can, and prunes tokens the daemon no longer knows.

**MobileUploads.** `pc[u]` follows a connection: looked up by its token, its trigger
queued, waiting to be claimed, then page by page, each acknowledged once it is in
the channel. `entry` is the sender in the table of subscriptions, `queue` the stream behind
it, `listener` and `job` what of `listeners.rs` and `jobs.rs` touches these tables. `Connect()`,
`Disconnect()` and the steps of `Unpair()` run beside them.

**Follow and JobWatch.** `Follow` is the promise `client/watch.rs` states, as a
specification: values the object has had, never ahead of it, never back. `JobWatch` models the
daemon's transition (state under one lock, result under another, then the signal), one
ordered wire on which a reply keeps its place, and for each job a task with its
stream, whose snapshot drains what came before it was polled. `FollowSpec` is the refinement:
`truth` is the rank of the daemon's view and `told` that of what the loop printed.

**Mirror.** The daemon is what the client sees: objects that come, change and go, each
with a signal on `stream`, and the whole of it dying and coming back. `phase` is where `run_session`
is, `mirror` the store of one scanner and one job, `record` and `banner` the notifier's,
`held` and `hold` the discovery session a Pair command takes, `leased` what the daemon counts for it.

**Options.** `Maps` are option maps of two options, one from a closed set that differs
between profiles and a folder that may be blank. `Validate`, `Resolve` and `Used` are the daemon's table,
merge and fallbacks; `Shown` is the editor's chain, written a second time in the GUI. A setter is
`Set` or `Refuse` or `MoveUnsaved`, then `ReadBack`, then `Announce`, for each client at its
own pace. `Commit` and `Clear` change the editor at once and queue the whole map; `Receive` and
`RenderAgain` put it back to what the store holds. `ProfileSet` and `ButtonSet` are the commands, which
read, merge and write one property after another.

**History variables.** Some properties are promised only when calls do not
overlap in a way the code does not defend against. Rather than forbid those
behaviours the models keep them and remember what happened. A property
names the windows it excepts, and only those; no guard reads a history
variable. Each window is a real race and is documented where it is defined:

- `doubt` in `Pairing`: `overlap` (an operation began while another was in its tail, for
  instance `pair()` after a `cancel()` whose driver or relay still runs;
  `TaskIsLive` holds regardless, the single driver and `LastWordIsState` do not),
  `flush` and `unbacked` (the store reported a failed write; the backend lost
  its half of a persisted pairing).
- `doubt` in `Scanners`: `late_failure` (a listener was started while a failed one had not yet
  announced its end), `session_end` (a session ended between Done and its promotion), `cut` (the
  restore timed out between the listener and its announcement), and `overlap` as above.
- `doubt` in `PanelListener`: `raced` (the last stream was dropped, or the socket failed, while a
  subscriber had already taken the parked handle: it joins a table without a socket and
  stays deaf, or binds against a socket that is still open), `cut` (a call was dropped
  while it awaited a receive task), `failed` (a receive task gives up the slot before
  the socket).
- `taken` in `Sightings`: an address was taken over. `detached` in `Jobs`: a scan went on without
  its listener or object. `lost` and `since` in `Panel`: failed attempts, and the age of a wrong entry.
- `stragglers` and `orphans` in `Walkup`: entries a POST made after its call, and entries whose
  URI was never heard or was forgotten. `missed` and `unserved` in `Hplip`: hpssd left before its
  ownership was watched; an entry has nobody behind it because a pairing dropped its
  stream or a listener gave up.
- `torn`, `spoilt`, `unwritten` and `tried` in `MobilePairing`: a write failed between two records; the
  file was once unreadable; a start could not write what it drew; a pairing got as far
  as the phone's consent.
- `overlap` and `revoked` in `MobileUploads`: a `Connect()` overlapped an `Unpair()` or the stream of an
  earlier listener; the uploads under way when their token went.
- `meant` and `behind` in `Options`: what the editor's user last asked of each option, given up
  when a render, a refusal or another program's write takes it back; properties whose last signal
  was lost with a failed write, or overtaken.

## 3. What the runs check

| run | instance | properties | distinct states |
|---|---|---|---|
| `pairing` | 2 drivers, 1 Unpair, 1 step kind, buffer 1 | `DriverIsKnown`, `LastWordIsState`, `StoreAgrees`, `PairingSettles` | 376 k |
| `scanners` | 1 Unpair, 1 Connect, 1 failing listener, queue 2 | `ScannerAgrees`, `SignalsCatchUp`, `DoneIsHandled` | 545 k |
| `discovery` | 2 clients, 2 backends, 1 scanner, 2 addresses | `SessionAgrees`, `RegistryAgrees`, `FilterSparesOthers`, `SessionsEnd`, `RegistrySpec` | 137 k |
| `jobs` | 2 jobs, 2 pages, buffer 1, 1 restart | `JobsAgree`, `NoPageIsLost`, `JobsLeaveTheBus`, `BudgetRunsOut` | 174 k |
| `panel_listener` | 2 scanners, 2 calls, 2 streams, 2 tasks | `SocketAgrees`, `StreamsEndForACause`, `CallsReturn` | 150 k |
| `panel` | 2 keys, 1 address, 2 host addresses, lease 4 ticks, retry 1 | `AssignmentsAgree`, `LeasesFollow` | 830 k |
| `hplip` | 2 URIs, 1 other host, capacity 2, 1 late POST, 2 owners of hpssd's name, 2 presses | `FootprintIsKept`, `OfferIsServed`, `ForeignStay`, `PressesAreHeard` | 1.2 M |
| `mobile` | 1 phone, 3 tokens, 3 starts, TLS not required | `PhoneAgrees`, `PairingEnds` | 425 k |
| `mobile_uploads` | 2 uploads of 2 and 1 pages, page buffer 1, queue 1, 1 restart | `HeardWhileListening`, `UploadsAgree`, `RevokedStartsNothing`, `UploadsSettle` | 508 k |
| `mirror` | 1 scanner, 1 job, 3 signals on the stream | `ClientAgrees`, `HoldIsGivenBack`, `EndsUpLive` | 236 k |
| `job_watch` | 2 jobs, 1 message on the wire | `VerdictIsEarned`, `FollowSpec`, `FollowedToTheEnd` | 365 k |
| `options` | 2 clients, 2 changes, 2 profiles, 1 key with any profile | `OptionsAgree`, `EditsStand`, `VerdictIsShown` | 296 k |

Every run passes. A property whose name ends in `Agree` or `Agrees` is a conjunction of named
parts, the module's type invariant among them, and the parts are what is worth reading.

*Bounds.* Two drivers are the least in which one pairing can run into the tail of
another; a third adds no pair of actors that two do not have. A buffer of one makes a
full channel an everyday event (the code's is 16 and 8). One Unpair and one Connect call
overlap each other and the supervisor; two overlapping Unpair calls are covered by
the proofs about `Scanners` and `Pairing` and not by a run. One scanner is enough in `Discovery`, for the
address logic across scanners is checked by `MCSightings.cfg` (three scanners and three
addresses: a takeover with a bystander, then a move on) and proved to be unaffected; two clients
share the session and two backends make a filter mean something. A listener's second job is the
one that may overlap the first. Two streams and two receive tasks are what a scanner that
subscribes again, or a socket that is reopened while the old one closes, needs. Two keys are the
least for one key's write to touch the other; four ticks of lease the least in which a retry comes
sooner than the next renewal. Two URIs and a capacity of two let this host's forgotten entry and a
stranger's fill the device; one late POST is the duplicate a sweep may miss; two owners of hpssd's name are
one that leaves and one that comes; two presses are one that may hide the other. Three starts let a
phone pair, the daemon come back and an unreadable file be drawn anew twice; one phone, for no step
of the code relates two but the file they share, which is read again before each write. An upload of
two pages has a page in the channel while another is sent, and a second upload competes for the queue
and the listener. One scanner with one job are what the mirror's removals nest; three signals are a
whole publication and a change. Two jobs give `job watch` one to end while the other goes on. Two
changes give each client one, or one client two in a row; the proofs of `DesktopProofs` do not need the bound.
`QueueBound`, `MaxPages`, `WireBound`, `EventBound`, `MaxChanges` and their like are bounds of the model, `Attempts`,
`PageBuffer`, `Capacity` and `Lease` policies of the code or of a device; each is named in the module that declares it.

*Safety worth reading.* `StoreAgrees` relates memory to the file
across crashes, in both directions. `LastWordIsState` says that broadcasts outside the lock still end on
the right word. `ConnectionAgrees` and `ListenerIsPaired` (`Scanners`) tie a task, a
property and a stored flag together. `OwnersNameObjects` (`Sightings`) is what keeps
`observe` from indexing a missing entry. `SessionAgrees` bounds
a session's objects by the session, however it ends. `NoPageIsLost` says
a job reads `done` only when its processor has consumed every counted page.
`ServedUnlessRaced` and `RefusalIsForeign` (`PanelListener`) say when a subscriber has a socket and when a bind
that fails is somebody else's doing. `LeaseIsRenewed` and `WrongEntriesLapse` (`Panel`) bound, in time, what
is missing from the panel and what should not be on it.
`Footprint` (`Walkup`) says that however often a host died or lost an answer it is on the panel once, and
`HandlesAreKept` that each entry of its can still be deleted by it or is known to be lost; `ForeignStay` that a sweep
never takes another's entry although it deletes by what it read earlier. `OfferIsServed` ties the
entry on the device to a task that listens. `PressedOnce` says that a press the history repeats starts one job.
`PairedIsRecognised` (`MobilePairing`) is that phone, backend and daemon hold one token; `TokensArePruned` that
a token is honoured only while the daemon, or the phone's consent, backs it. `AckedIsKept` and `OfferedIsAwaited`
(`MobileUploads`) place every page the phone may forget, and `RevokedStartsNothing` is what `Unpair()` promises of
uploads already under way. `MirrorAgrees` and `ProgressIsOfAJob` (`Mirror`) are about a store that
applies signals older than its reading. `FollowSpec` is the refinement; `ExitIsEarned` (`JobWatch`) that an exit
code belongs to a job that ended so. `StoreCatchesUp` and `ShownIsUsed` (`Options`) say that what the editor shows of
an option is what the next scan uses, and `EditsStand` that an edit is not lost to the next one.

*Liveness and fairness.* Weak fairness on each task's own steps: the tokio
runtime polls every task that is ready, and backend calls are assumed to return
(the ones discovery makes are wrapped in a timeout, `daemon/discovery.rs:412`; those
a driver makes are the backend's promise). Clients, users, presses, crashes and
failures owe nothing. `SessionsEnd` also uses the session limit
(`Expire`); `JobsLeaveTheBus` the retention timer. `DoneIsHandled` uses that the supervisor
is polled. `CallsReturn` (`PanelListener`) takes the gate as strongly fair, for a tokio mutex serves
its waiters in order. `BudgetRunsOut` has its own premise, that presses stop and
streams keep ending. `PressesAreHeard` uses the backend's task and the daemon's listener; `PairingEnds`
the phone's driver, each of whose waits has a timeout; `UploadsSettle` the calls, the listener, and each
connection and job, whose reads have a timeout too. `EndsUpLive` uses the bus task, and its premise is a daemon that
stays. `FollowedToTheEnd` uses the daemon's transitions and answers, the wire and the client's tasks, while the
command runs. `VerdictIsShown` uses the daemon's setters, the bus task that sends the
writes, and the main loop that applies signals. `panel` states no fairness and no liveness.

*Deadlock.* It is checked except where the system may come to rest: in `discovery` every client may
have left the bus with its call answered, in `mobile` the host may be down with the starts used up, in `job_watch` the
command has exited and the jobs have ended.

*Mutants.* Each property of a passing run comes with a mutated definition in the
module (marked `Mutant:`), a plausible bug under which that property fails.

*Further configurations.* `MCSightings.cfg` is the registry alone under its largest
instance (36 k states); what it shows is proved in `DiscoveryProofs`. The seven of section 4 each end in a
counterexample.

## 4. What the code does otherwise

Each of these configurations finds a counterexample to a sentence of the repository.

1. `MCPairingCancel.cfg`, `NothingHangs` (`core/pairing.rs:346`). After `CancelPairing` the detached relay delivers
   the step it still holds and sets an in-progress state with nothing running:
   Pair answers AlreadyInProgress, CancelPairing finds no handle, until a restart.
2. `MCPairingForget.cfg`, `UnpairIsDurable` (`daemon/store.rs:178`). `forget` changes the map, then fails to flush; the
   retry finds nothing to remove, answers Ok, and a restart restores the pairing.
3. `MCScannersSession.cfg`, `SessionEndKeepsPaired` (`daemon/scanners.rs:824`). A discovery session ending between Done
   and the promotion removes the object of a paired scanner.
4. `MCDiscoveryLeak.cfg`, `ReferencesAreLive` (`daemon/discovery.rs:138`). A StartDiscovery handled after its sender's
   NameOwnerChanged leaves a reference for good.
5. `MCPanelMoved.cfg`, `RoundsFollowTheRecord` (`backend-brother/src/lib.rs:532`). Discovery notes a printer's new
   address, the refresh task keeps the one it was started with: the entries lapse until the next
   Profile write or restart.
6. `MCMobileBroken.cfg`, `NoPartialDocument` (`backend-mobile/src/lib.rs:1571`). A connection that drops mid-job ends its
   page channel like one that finished, and the job is `done` with the pages it had;
   `docs/scanbus-mobile-backend.md:277-279` says it ends in error.
7. `MCOptionsBlank.cfg`, `BlankIsAbsent` (`daemon/profiles/options.rs`, the merge). A key's blank folder goes over
   its profile's folder and the scan lands in the user directory, while the editor shows the profile's;
   `docs/scanbus-dbus-api.md:188` treats present and blank like absent.

Stated in a module without a configuration, because the code does not keep them: `NobodyBehindAnEntry` (`Hplip`;
`walkup.rs:19-24` asks that nobody select a host that does not listen, but `listener_failed`,
`daemon/scanners.rs:723`, and the pairing driver's dropped stream, `core/pairing.rs:535`, never tell the backend),
`HostIdIsKept` (`MobilePairing`; an id that could not be written is drawn again at the next start,
against `docs/scanbus-mobile-backend.md:660`), `ExitsAtTheFirstEnd` (`JobWatch`; the verdict is taken from the job with the greatest
path, `cli/cmd/job.rs:126-131`, so another that has ended does not end the command), `PairingKeepsItsSession`
(`Mirror`; the path is inserted into the held ones before StartDiscovery may fail, a stale
`failed` signal releases a new hold, and a session lost while it is waited for keeps its lease on paper).

Read in the code:

- A scanner restored offline has no task that would reconnect it, although `daemon/scanners.rs:389` leaves it
  "for the reconnect backoff". A scanner that passes through another one's address leaves it
  unowned. A job says `processing` only once processing is over (`daemon/jobs.rs:406`). A
  subscriber that races the last drop is deaf, and the assertion in `Subscription::drop` is then reached.
- DefaultProfile is persisted and never read back (`daemon/store.rs:184`). The spool is swept before the name is
  requested, so a second instance of the daemon takes away the spool of a running job. An error in the middle of a transfer still
  leaves the document of the pages before it.
- A Brother press is recorded for `fetch_pages` and then dropped when the queue is full (`listener.rs:547`), and the
  record keeps sixteen: as many presses during one scan push out those still queued, whose jobs then fail.
- `job watch` fetches the jobs before it subscribes to InterfacesAdded (`cli/cmd/job.rs:63-84`): a job published in
  between is not followed. A snapshot drains signals newer than its reply along with older ones
  (`client/watch.rs:20-30`); only the next signal repairs it. A GetAll between the two locks of a transition reads `done` with an
  empty Result. A raw job has none and never ends `--until-done`.
- A press copies a key's profile and its options under two locks, though `daemon/jobs.rs:258-259` says "under one
  read". Assigning another profile keeps the key's options, which no table checks: a key with a format of its
  own that moves from images to documents has every scan refused. A setter that fails to persist
  leaves the property moved and unsignalled. A render of the store between two quick edits takes the first one back and the
  second sends the map without it. Two setters in flight may signal in the other order.

## 5. What is proved

`tlapm` checks eight modules, for every value of the constants that satisfies the modules' named assumptions
(`NoRun` is no run, `NoJob` no job, a buffer holds at least one element, each scanner has a backend and
sites, a device hands out finitely many URIs, a sleep and a retry fit into a lease, a bound is a number). Every
safety invariant and every action property of the runs, and both refinements, are theorems.

| proofs | about |
|---|---|
| `PairingProofs` | `Pairing` |
| `ScannersProofs` | `Scanners` |
| `DiscoveryProofs` | `Sightings`, `Discovery` |
| `JobsProofs` | `Jobs`, `JobWatch`, `Follow` |
| `BrotherProofs` | `Panel`, `PanelListener` |
| `HplipProofs` | `Walkup`, `Hplip` |
| `MobileProofs` | `MobilePairing`, `MobileUploads` |
| `DesktopProofs` | `Options`, `Mirror` |

A module that holds the proofs of two models that do not extend one another is why their specifications have
names of their own (`WatchSpec`, `ListenerSpec`, `PhoneSpec`, `MirrorSpec`).

- **Pairing**: type correctness and the safety invariants of its run (`DriverKnown`, `SubscribersAgree`,
  `StoreAgree`). The inductive invariant adds to them: `Down` (before the restore nothing runs),
  and, as long as nothing overlapped, `Alone` (at most one of a driver with its relay
  and an Unpair is in its tail), `DriverState` and `UnpairState` (what `state`, `paired`
  and `task` are at each location), `Owed` and `PendIsState` (a broadcast not yet made is of
  the current state), and, with no doubt at all, `Stored` (map and file
  at each location). It is needed because none of the invariants mentions
  the locations in between, where the promise is about to be broken or restored.
- **Scanners**: `ScannerAgrees` and `SignalsCatchUp`. The properties speak of the machine's `paired` and of
  what was signalled, and the supervisor's queue lies between the two, so `ScannersInv` begins with
  `TransitionsChain`: the machine's state is the last transition queued, or else the last one taken, and a Done
  is followed by its undoing only. `GoneIsGone` is what a removed object leaves behind. Outside an overlap,
  `UnpairRunsAlone` and `UnpairIsOrderly` say where an Unpair() is and what it has undone by then, and
  `ListenersArePaired` covers who is about to listen (the supervisor, a `Connect()` past its check) beside
  who does. `OriginFollows`, `ConnectedFollows` and `StoreFollows` are the properties with the steps in
  between: a Done not yet promoted, an Unpair() about to retire, a failed listener that has yet to say so.
- **Sightings**: type correctness, `OwnersNameObjects`, `ObjectsOwnAddresses`; the three together
  are inductive (`RegistryAgree`). The lemmas say what each registry method does to them, so
  that the part about `Discovery` cites them instead of proving them again.
- **Discovery**: the refinement of the registry's specification (`ImplementsRegistry`), type correctness,
  the invariants of its run (`SessionAgree`, `DaemonRegistryAgree`) and its action property (`FilterIsKept`).
  The strengthening is `Control` (what the task, the stop channel and the lock say of each other) and
  `Marks` (during a round, who reads as online).
- **Jobs**: `JobsAgree` (type correctness, `OneScanAtATime`, `JobsHaveScanner`) and the action property `NoPageIsLost`.
  Scans do not overlap because a scan whose listener was not aborted is the one that listener awaits
  (`ScansAreAwaited`), which `serving` says and the properties do not. No page is lost because at every step of a
  job the pages it counted are those processed, those in the channel and the one it is handing over (`PagesAddUp`),
  and because the join ends only on an ended processor; `AtRest`, `AtFetch`, `AtCapture` and `AtEnd` say what a
  job's channel, processor and object are at each of its locations.
- **JobWatch**: `ExitHasCause` (`VerdictIsEarned`) and the refinement `ImplementsFollow`. A value passes from the daemon
  over the wire, a task's stream and the channel to what is printed, a reply to a GetAll may overtake nothing but
  may repeat what a signal says, and a snapshot takes several at once. `Before` is the order in which a job goes
  through its views, and `WireInOrder`, `StreamInOrder`, `ViewInOrder`, `QueueInOrder` and `PrintedInOrder`
  say that it is kept within each place and from each place to the next. `AskedOnce` (a task has one reply under way) is
  what keeps a second snapshot from going back.
- **Panel**: `AssignmentsAlwaysAgree` and `LeasesAlwaysFollow`. The properties bound, in ticks, what is missing from the panel
  and what should have gone; that is no invariant of a step, so `LeftInTime` says what is left of each
  lease at each point of the refresh task, in the worst case (a renewal, a sleep, a failure, a shorter
  sleep, a retry), and `LapseInv` that the age of a wrong entry and what is left of it are within a lease. `WritesInPlace` and
  `ShownInv` say where a write is in the daemon's life, for a restart cuts it off anywhere.
- **PanelListener**: type correctness, `SocketAgree` and the action property `StreamsEndWithCause`. `SocketsAccounted` is needed for a
  bind to meet no socket of ours: each open one is in use, parked or awaited, and none is
  parked beside one in use. `JoinersServed` covers the subscriber between its bind and its entry into the table, and
  `CallsInPlace` what is known of a call at each await.
- **MobilePairing**: `PhoneAlwaysAgrees`. Three records of one pairing are written one after another by two programs, and a
  write may fail or be cut off between any two. The invariant says, for each phone, what the table holds at each location of the
  driver and of Unpair() (`TableOf`), what the file holds whenever the record says paired (`FileOf`: a write keeps an
  entry or puts the table's in its place, under the port it was given, `RewrittenKeeps`), that a pairing and an Unpair()
  exclude each other (`InTurn`), and that an answer on its way is what the phone remembers (`AnswerIsRemembered`).
- **MobileUploads**: `AlwaysHeard`, `UploadsAlwaysAgree` and the action property `RevokedStaysIdle`. `PagesOf` counts: the pages a
  phone has an ack for are those with the job and those in its channel, and one more may be there whose ack was
  lost. `TriggersInv` (a trigger is queued once, for an upload whose job has not started) and `PlaceOf` (where an upload, its
  entry in the table and its job are) make that count hold across the claim, and `RevokedInv` says that a revoked upload has neither
  a sender nor a trigger left. `AccountInv` is `HeardWhileListening` with the calls in between.
- **Options**: type correctness, `ProfilesStayValid`, `DialogStaysFitting`, `EditsAlwaysStand` and `OptionsAlwaysAgree`. `EditsStand` and
  `OptionsAgree` speak of a moment when nothing is under way, so each needs to be told of what is. `EditsArrive`: the
  newest map of the edited property is the last one queued, else the one a call carries, else the daemon's, and what
  was asked is in it and in the editor, which is where the next edit takes the other options from (`NewestQueued`, `NewestSent`,
  `NewestSet` follow that map into the daemon). `SignalsArrive`: unless `behind` has the property, at most one setter has read
  a value that is not the property's any more, and the last signal on the wire, or else the copy, says
  what the daemon has, or a setter is about to say it.
- **Mirror**: `ClientAlwaysAgrees` and `HoldIsAlwaysGivenBack`. Both speak of an empty stream. Before that, the last signal to
  come about a thing says what the tree says of it, or a new owner is to come and the tree is read again; with no
  such signal the mirror has it already (`AllKnown`, apart for the scanner's presence, its pairing, the job's presence
  and its state, because a signal of a state is dropped by a mirror without the object). It says nothing of where the mirror
  came from, which is why a reading between two signals keeps it. `Runs` is the same of a notification: a record, or a start that
  is still to come, is followed by what closes it, or the job is running; `Restarts` that a new owner comes after
  the old one's loss, so that no record outlives a session. `Holds`: a session the daemon counts is one the client
  has, for a path it holds, and the end of the pairing is yet to be reached, said or heard.
- **Walkup**: `FootprintIsKept` and the action property `ForeignStay`, for any number of hosts, URIs and late POSTs.
  `Footprint` does not see an installation half-way, so `WalkupInv` adds `SweepIsKnown` (what a sweep has deleted
  is gone, and what is left of this host's is what it has yet to delete), `UrisName` (a URI names one entry for
  good, which is why a DELETE by an old reading hits what was read), `HandlesAreOwn` and
  `StragglersAreOrphans`. That a refusal is the others' doing is a count: what was read less what was swept.
- **Hplip**: it implements `Walkup` (`ListenerImplementsWalkup`: each step is one of `WalkupNext` or leaves the
  device alone), so both results hold of the listener with its callers; and `OfferIsServed`.
  The strengthening `ListenerInv` says that an installation has a caller, that there is one stream, that
  an entry has a listener, a reason or is being handed over (`EntryHasReason`), and that an hpssd
  which left is noticed from each point of the start on (`ExitIsNoticed`).

Only model-checked: every liveness property, `PressesAreHeard` of `Hplip` among them (fairness and ENABLED are out of the
prover's reach). Nothing is proved by induction over data and no module declares a RECURSIVE operator: what a fold or a recursive
function would compute is stated as a relation instead (the last signal of a stream, the newest map of a queue).

## 6. What is not modelled, and why

Pure data work: address normalisation, parsing of scanimage's, hp-probe's and a device's
output, XML and SNMP encoding, encoding of images and PDFs, D-Bus conversions, selectors, TLS and the bytes of a
frame. They keep no state; where a control decision depends on one, the
decision is a free choice. Clocks: a timeout is an event that may happen. The description of a
scanner beyond its address and reachability. The orderly shutdown, which aborts everything and is covered by a
crash as far as persistence goes.

Of the profiles: the files a processor writes. `unique_path` looks for a name before it is taken, and two
processors may choose the same; beside the liveness of `Jobs` the model of it was too large to check, and it is
a listed hazard without a property. Of the Brother backend: presses (parsing, dispatch, the record
`fetch_pages` takes from), discovery, the dependency checks, the pairing probe and the acquisition. Of the HP
backend: discovery and the acquisition through scanimage. Of the mobile backend: mDNS advertising. Of the
clients: commands that make one call, the ctrl-c branch of `job watch`, jobs that were already running when the
desktop client starts (its notifier does not follow them), its widgets, its settings.

Assumed: a D-Bus signal reaches a connection that has subscribed, in order, and may be delayed
there; a property setter of the daemon runs, then reads the property again, then signals; a device or
hpssd answers, refuses or stays silent.

## 7. Plan

Built, in the order of importance: Pairing, Scanners, Sightings, Discovery, Jobs,
PanelListener, Panel; Walkup, Hplip, MobilePairing, MobileUploads, Follow, JobWatch, Mirror, Options. Next:

1. Proofs: lemmas shared by the modules on queues (`Taken`, `Said`), and the steps that the liveness arguments rest on.
2. `Presses`: dispatch and the press record on top of `PanelListener`, up to `fetch_pages`.
3. `Outputs`: two processors and one directory, without the listeners of `Jobs`.
4. `PairCommand`: the CLI's `pair` as a client of `Discovery` and `Pairing`.

## Running it

    tlasany Pairing.tla
    tlc -workers 2 -config MCPairing.cfg MCPairing
    tlapm PairingProofs.tla
