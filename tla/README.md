# ALLPOWERS BLE: a TLA+ verification project

TLA+ models of `custom_components/allpowers_ble`, the Home Assistant integration
for ALLPOWERS power stations, with TLC configurations that check them on small
instances and TLAPS proofs of their main invariants.  Line numbers refer to
`src/custom_components/allpowers_ble/` unless a path says otherwise.

## 1. Inventory

| Part | Source | State | Operations | What makes it correct |
|---|---|---|---|---|
| Client session and commands | `client.py` 142-1228 | `_client`, `_connected`, session generation, `_operation_lock`, disconnect and stop events, pending transactions, readings with versions and stamps, delayed refresh task | connection loop, `_connect_once`, `_disconnect_client`, `async_stop`, `async_reconnect`, commands, keepalive, status request, notification handler | lock excludes; nothing of a session survives it; one unresolved command per group; a stop leaves nothing |
| Reconnect scheduling | `client.py` 793-848, 1443-1493 | back-off delay, advertisement generation and event | `_wait_for_retry_trigger`, `_retry_delay_with_jitter`, `update_advertisement` | no lost advertisement, bounded back-off |
| Maintenance | `client.py` 1230-1441, 1522-1545 | time stamps, wake-up event, reported freshness, keepalive attempt | one loop: watchdogs, poll, keepalive, deadlines | staleness is reported, keepalives spaced, no busy loop |
| Model identity | `client.py` 676-763, 994-1003 | identity, conflict flag, pending candidate and its generation | advertisement and packet names, revision evidence, persistence | a name that contradicts the identity stops all writes, across restarts, until one session resolves it |
| Model support | `model_support.py` | none | `identify_model`, `resolve_runtime_model_support` | unknown or conflicted evidence never authorizes a write |
| Codec and stream decoder | `protocol/codec.py` | decoder buffer and counters | `feed`, encoders, decoders | resynchronises; bounded buffer; a command changes only what it was asked to |
| Semantics | `protocol/semantics.py` | none | write validation of a reading | implausible flags block writes |
| Options | `options.py`, `const.py` | none | validation, merge | cross-field bounds |
| Entry lifecycle | `__init__.py` | runtime data, listeners, unload latch | setup, update listener, unload, remove, migrate | a failed setup leaves nothing running; options changed during setup are applied |
| Repairs | `repairs.py` | streak, baseline, issues shown; unload latch | update, clear; observe, latch | issues are earned by repeated failures and vanish on recovery |
| Registry transition | `registry.py` | device and entity registries | conflicts, apply | an address change is complete or undone, and tells one station from another |
| Flows | `config_flow.py`, `client.py` 1552-1691 | flow data, the probe's link | user, bluetooth, reconfigure, options, probe | one entry per address; a probe returns its link |
| Coordinator, entities | `coordinator.py`, `entity.py`, platforms | last snapshot | update callback, commands | entities are available while their reading is fresh |
| Diagnostics, translations, `scripts/`, tests | | none | | not modelled: no state of the running program |

**How the parts interact.**  Everything runs on one asyncio loop.  The client owns
three kinds of tasks (connection, maintenance, delayed refresh); service calls of
entities and the maintenance task call the same public methods.  bleak calls the
disconnected callback and the notification handler from the loop; the former
queues `_request_disconnect` with `call_soon_threadsafe`.  The client reports every
change to the coordinator by one synchronous callback, and the coordinator to
entities and repairs.  The entry lifecycle creates and stops the client; the flows
probe a device over a link of their own, and reload the entry they change.

**What is hard.**  Every `await` under `_operation_lock` can be interrupted by a
cancellation, a timeout, a link loss or a notification; `_disconnect_client` is
called from four places and can wait behind the lock while the session changes; a
callback is checked when it is called and takes effect later; a write whose
outcome is unknown must block the next command until the device reports again;
`async_stop` cancels tasks that have clean-up of their own to await.  The complete
list, each with its line and the properties that cover it, is `hazards` in
`PROJECT.json`.

## 2. Modules

| Module | What it is |
|---|---|
| `AllpowersClient` | The client's session, lock and transactions, with its properties and, beside the definitions they change, the mutated forms |
| `CommandGate` | Abstract specification: what the client promises about control commands (ADR 0011) |
| `MCClient` | Constants of the TLC runs of `AllpowersClient`, and the state constraint of the run `commands` |
| `AllpowersClientProofs` | Theorems about `AllpowersClient`: types, the lock, the session of a write; facts about queues without repetition |
| `ClientGateProofs` | Theorems about what the client promises: evidence, links, transactions, a stop, and that it implements `CommandGate` |
| `StreamDecoder` | `NotificationStreamDecoder` over byte streams |
| `ControlFrames` | The bits of reports and commands, and what a command does to the fields it is not about |
| `DecoderProofs` | Theorems about both |
| `EntryLifecycle`, `MCEntry` | A config entry from setup to unload, who changes it meanwhile, and the faults of its TLC runs |
| `EntryLifecycleProofs` | Theorems about `EntryLifecycle` |
| `MaintenanceLoop`, `MCMaintenance` | The maintenance task over time, with the session, packets and options it works on and the users' calls it shares the operation lock with; the households of its TLC run |
| `MaintenanceLoopProofs` | Theorems about `MaintenanceLoop` |
| `Reconnect`, `MCReconnect` | How the client comes back: retries, back-off, advertisements, and the Repair issues derived from it; the homes of its TLC runs |
| `ReconnectProofs` | Theorems about `Reconnect` |
| `ModelIdentity` | Which model the client takes the device for and what it may write, across sessions, reloads and edits |
| `RegistryTransition` | What becomes of the registry records when an entry moves to another address |
| `SetupFlow` | The dialogs that make or move an entry, with the probe of each |
| `ModelIdentityProofs` | Theorems about the first |
| `DialogProofs` | Theorems about the other two |
| `MCStation` | What concerns one station, as five parts of one TLC run: `StreamDecoder`, and as instances `ControlFrames` (`F!`), `ModelIdentity` (`I!`), `RegistryTransition` (`R!`) and `SetupFlow` (`S!`); the theorems about them speak of these instances |

The models meet at interfaces each keeps abstract: `AllpowersClient` receives
whole packets (what `StreamDecoder` returns), `MaintenanceLoop` is one of its callers
with the time that `AllpowersClient` abstracts from, and `EntryLifecycle` starts and stops
a client as one awaited operation that can fail (`async_start`, `async_stop` of
`AllpowersClient`).  `ModelIdentity` decides whether a settings packet of
`AllpowersClient` authorizes writes; there that is a Boolean of the packet.
`Reconnect` takes the session of `AllpowersClient` as a whole and adds what that leaves
open: when the next attempt starts.  `SetupFlow` ends where `EntryLifecycle` begins,
and `RegistryTransition` is the transition that `EntryLifecycle` knows to be pending.

*Parts of a run.*  Where models share no state, one TLC run may hold several
(`MCStation`): a variable `part` says which one a behaviour is about, and the others
rest where they began, so the states add up and do not multiply.

### `AllpowersClient` and the code

*Tasks.*  `pc[p]` says where task `p` is suspended: `retry` (waiting for the retry
trigger), `estab` (`establish_connection`), `notify` (`start_notify`), `writing`
(`write_gatt_char`), `session` (waiting for the disconnect event), `disc`
(`client.disconnect()` inside `_disconnect_client`), `abort` (the same in the
`except` clause of `_connect_once`), `lock` (waiting for or holding
`_operation_lock`, with `op[p]` saying what for), `sleep` (the delayed refresh),
`gather` (`async_stop`).  An action is the code between two of these points.

*The loop.*  `runq` is the ready queue.  A task runs when it heads the queue;
`Completes` puts a task there when the I/O or timer it awaits ends.  Acquiring a
free `asyncio.Lock`, an `Event.wait()` whose event is set and an exception that
arrives before the first suspension do **not** yield to the loop: then `running`
names the task and no other step can happen first.  This is what makes the
difference between "stale callback is dropped" and "stale callback hits the next
session", so it is modelled exactly.  `asyncio.Lock` hands over to its oldest
waiter; a waiter that is cancelled, before or after it was woken, passes the turn on.

*Sessions.*  `gen`, `activeGen` and `client` are the generation counter, the active
generation and the installed client, the latter two named by the session they were
made for, 0 standing for `None`.  `links` are the sessions whose GATT link is up,
installed or not.

*Data.*  A reading is one value per group (outputs, settings) with its validation
outcome, freshness, version and, as history, its session.  Concrete frames are left
to the codec.  A settings packet also carries the revision that authorizes writes.

*Time.*  Readings grow stale at any moment.  A confirmation deadline passes at any
moment *after* the write has returned: the shortest confirmation window
(`MIN_STALE_TIMEOUT`, 15 s, `options.py`) is longer than a write can take
(`WRITE_TIMEOUT`, 10 s, `const.py`).

*Simplifications.*  The cancellation of the delayed refresh by
`_schedule_status_refresh` and `_disconnect_client` takes effect at once instead of
one loop turn later.  A disconnect that fails is one whose exception is caught
(timeouts and BLEAK errors).  The caller's error message, statistics, time stamps
for display and `_emit_update` are left out.

### The abstract specification

`CommandGate` keeps, per group, one gate: open, pending with a target, or
ambiguous.  A command may leave only through an open gate; a pending one is
resolved by a reading that shows its target; a failed write, a cancelled one or a
missed deadline makes the gate ambiguous, and only a *later* reading opens it; the
end of a session resets it.  `Gate` in `AllpowersClient` is the refinement mapping.

### `StreamDecoder` and the code

One step is one pass of a loop.  `Feed` begins a notification callback; `Extend`
appends the next piece of at most 1024 bytes and trims the buffer at 4096; the passes
of `_drain_buffer` are `NoHeader` (drop everything but a trailing first half of a
header), `Wait` (bytes are missing), `Refuse` (too long, or not accepted: give up one
byte) and `Emit` (return the frame).  `NewSession` is the decoder of the next
session.  `stream`, every byte fed, is history; `packets` keeps place and length of
what was returned; `discardedBytes` and `discardedFrames` are the counters the client
publishes.  Bytes, header, the places and limits of the layout and the acceptance of
a candidate (`Accepts`: checksum and what the payload's command demands) are
constants with assumptions; the run gives the layout in miniature with an exclusive-or
checksum.  The bits of payloads are in `ControlFrames`.

### `ControlFrames` and the code

A byte of flags is the set of its one bits.  `Decode` is `decode_notification` for one
group, outputs or settings, and keeps the raw flags beside the fields, as `raw` does in the
code; `Plausible` is `semantics.py`.  `EncodeOutput` and `UpdatedSettings` build a command
from the last report.  Around them `Report`, `Expire`, `Forget`, `Safe` and `Write` are the
gate of `AllpowersClient` in its shortest form, and `Press` is a person at the device.
`Obey`, what a device makes of a command, is the reading of the frame that the encoder is
written for: the same positions, except that the light's bit is 4 in a report and 5 in a
command.  `frame` remembers the report it was built from: the property speaks of a device
that is still as reported.  (It must: whoever presses the device's button after the report
is overruled by the next command, which carries the whole group.)

### `EntryLifecycle` and the code

`state` is Core's `entry.state`; `pc` says at which await a setup or unload is:
`waiting` (`async_wait_ready`), `forwarding` (`async_forward_entry_setups`),
`partial` (unloading what was forwarded), `stopping` (`coordinator.async_shutdown`
in the `finally` clause, with `after` saying what follows: the next round of the
`while True` loop, or the state Core will set), `unloading`, `releasing` (the two
awaits of `async_unload_entry`).  `data` is `entry.data` with the title, `base` the
`config_data`/`config_title` that the newest client and its callbacks share,
`applied` its options.  `clients` and `adverts` count what was started or subscribed
and not yet given up.  `latch` is the flag in `hass.data`, `issue` the persistent
repair.

`Learn` is `_persist_model_identity`, `SaveOptions` the options dialog; `Probe`,
`ProbeFails` and `Reconfigure` are the reconfigure step, cut at its awaits, with
`current_address` remembered in `flow` exactly as the code holds it in a local
variable.  `Update` is `async_update_entry` with the update listener inside, which
runs without suspending.  What Core does is modelled from how the code and its tests
against Core use it: one setup or unload at a time, callbacks of `async_on_unload`
run after every failed setup and every unload, `FAILED_UNLOAD` is not recoverable,
a scheduled reload waits for its turn and cancels the retry timer.

Not modelled here: migration and removal of the entry, the stop listener of Home
Assistant, the identity-conflict flag (in `ModelIdentity`) and the steps of the
registry transition (in `RegistryTransition`; here one is pending, and may fail).

### `MaintenanceLoop` and the code

*Time.*  `now` is `_loop_time()` in units of the loop's shortest wait, 0 as a stamp is
`None`, and every `..At` variable is one `_..._monotonic` attribute (`seenAt` two of
them).  `Tick` is refused while anything is ready to run: the loop of asyncio runs
ready tasks before it looks at its timers, and what they do takes no time of this
scale.  I/O under the operation lock ends within `IoTimeout`: writes are bounded by
`WRITE_TIMEOUT`, `start_notify` by an assumption (bleak's, not the code's).

*The maintenance task.*  `pc` is `run` at the top of its loop, `rest` before the wait at
its end, `wait` in it, with the timer it computed; `ask_...` waits for the operation
lock; `keeping`, `polling` and `recovering` are its writes.  A pass is cut exactly
where the task suspends, so what `Pass` decided may be old when the lock is free.
`Wake` lets a timer that expires together with the event leave the event set, as
`asyncio.wait` may.

*The lock.*  A user's call holds `_operation_lock` across its write, which lasts up to
`IoTimeout` like the loop's own: `ChangeSettings`, `ChangeOutput` and `Refresh` begin one
(`user` says which), `UserWritten` and `UserFails` end it, and packets, options, lost links
and the loop's decisions come between.  `userAt` is the `now` a settings command took
before its write and records after it (`client.py` 460, 470).  `asyncio.Lock` serves in the
order of asking: when the maintenance task asks (`Ask`), or the connection task for its
disconnect (`Close`), at most `Callers` calls are `ahead` of it, and `behind` says that the
maintenance task asked after the connection task.  A call that asks later comes later
(`GoesFirst`, `Gets`).

*What moves its deadlines.*  `Install`, `Notified`, `Greeted`, `Disconnect` and its `Reset`
are the connection task, `Receive` and `ReceiveSettings` notifications, users' writes and
`ApplyOptions` the rest.  `Writable` is `_safe_settings_snapshot` with the
keepalive capability; `verdict` is what the last settings packet says of both.

*Simplifications.*  The body of `_disconnect_client` and the callback of a lost link are
one step each (`AllpowersClient` interleaves them); calls that wait in the lock's queue are
counted, and what they want is chosen when their turn comes; the output transaction is
left open, so that an output command may leave whenever a status is fresh; a notification
has one packet; the stop event is left to `AllpowersClient`.

### `ModelIdentity` and the code

*Data.*  A name is the family that `canonical_model_identity` makes of it, and a
family is one of three kinds by what `identify_model` says: verified for known
revisions, experimental and read-only, or rejected.  Names of no family return at
the first test of `_observe_model_identity` and are left out.  A revision is known
or unknown to the map of verified revisions.

*State.*  `who` is `_device_identity`, `_identity_conflicted` and the pending
candidate with its generation; `stored` the two keys of `entry.data`; `edited` says
that the entry is no longer what the callbacks of this client were made with, so that
they store nothing.  `named`, `namedIn` and `reportedIn` are history: the last family
observed, the session it counts for (the next one, if none is active), and the session
that delivered the settings.

*Actions.*  `Observe` is `_observe_model_identity`, one alternative per branch; each
ends in `Settle`, the tests and assignments of `_persist_model_identity_if_validated`,
which `Connected` and `Settings` call too.  `Activate`, `Install`, `Connected`, `End`
and `Overtaken` are the points of a session where the evidence changes, in the order
that `AllpowersClient` shows in detail; `Overtaken` is a `_disconnect_client` of
another task during an attempt.  `Edit` is a reconfiguration or a new title, `Reload`
a reload or restart.

*Simplifications.*  An edit that is undone before its reload still counts as one.
`entry.data` survives every restart (Home Assistant writes it a moment later).

### `Reconnect` and the code

`pc` is where `_connection_loop` is: `top` of its loop, in an attempt (`establish`,
`notify`, `greet`), in a `session`, in the `_disconnect_client` that follows an attempt
(`closing`) or a session (`ending`), and in the wait after either (`waiting`, with the
back-off, and `resting`).  `generation` and
`event` are the advertisement's; `after` and `retryAfter` the two places that remember a
generation; `asked` is the disconnect event and `queued` a link loss that bleak has
reported and the loop has yet to hear of, so that it may arrive in any later step.
`dropping` is a `_disconnect_client` of a button or the watchdog, before or after the loop
has cleared the client itself.

Each `_emit_update` runs the coordinator's callback, and in it `evaluate` of the repairs
manager, at once: `Emit` is part of the action that calls it, `EmitTwice` stands where the
code emits in the middle of a step and again at its end.  `issues` survive `Crash`;
`manager` does not.  `heard`, `doubled`, `failures` and `silent` are history; `doubled` is the
delay that doubling alone would have reached, up to `MaxDoubled`.

*Simplifications.*  Durations are the back-off's only; `asyncio.wait` with a timeout ends
by the timeout at any moment.  Packets are `StatusArrives` and `StatusAges`.  Maxima and
the first delay are scaled to 20 units a second, so that the jitter is whole.

### `RegistryTransition` and the code

`address`, `registryId`, `previous`, `replace` and `prefix` are the five keys of
`entry.data`; `entities` and `devices` the entry's records, each with the `station` it was
made for as history.  `Reconfigure` is what the dialog decides; `Transition` is
`async_apply_registry_transition` with the setup around it, `TransitionFails` the same cut
after any of its updates; `Load` is the platforms adding their entities.  What Core keeps
of removed records, and gives back to whoever asks for the same id or address, is modelled
from the code's own comments and tests; it is the reason for the opaque ids.

### `SetupFlow` and the code

`flow[f]` is a dialog: what it is about, and `pc`, the await of `async_probe_device` at
which it is suspended (`connect`, `subscribe`, `request`, `await`; `unsubscribe` and
`disconnect` in its `finally` clause), or `form`, `decide` and `done` around it.  Each stage
succeeds, or fails or runs out of time, which are one outcome here: the `finally` clause
is the same.  Between the awaits of one dialog the others go on, entries are made, moved
and removed, and links drop.  What Core does about two dialogs for one new address is
external (`InProgress`).  The tests that a reconfiguration repeats after its probe
(`async_unload_block_reason`, the registry conflict) are an outcome of `Fails`.

## 3. Runs

| Run | Configuration | What it shows |
|---|---|---|
| `commands` | the maintenance task and a service call in two sessions, with drops, failed writes and cancelled calls; states satisfying `OneAtATime` are expanded: either an output is reported at most once per session, whoever runs, or the maintenance task rests in the first session and up to three reports with two values confirm, contradict and revert the service call, or grow old | the lock protocol survives cancelled waiters and hand-overs, and no wake-up is lost on the way; evidence and transactions are confined to their session; writers never lose their session under them; a stopped client is quiet; the client implements `CommandGate` |
| `live` | both callers, no packets, every I/O fault, under `Fairness` | no link is forgotten or doubled; lock waiters are served, a lost link is noticed, `async_stop` ends |
| `isolated` | as `live`, safety only | finding 1 |
| `stoplink` | one session, no faults | finding 2 |
| `entry_lifecycle` | two addresses, two option sets, one dialog, every fault, restarts | one client; a current runtime; no start on leftovers; restart-only states reported until a setup succeeds; identity belongs to the address; under `FairSpec`, every change of the configuration reaches a client unless a setup fails with an error |
| `entry_lost` | a registry transition that may fail | finding 3 |
| `entry_dialogs` | two dialogs | finding 4 |
| `maintenance_timing` | two households: one keeps its settings alive, with good and implausible answers; one polls and switches between two option sets; in both, output, settings and refresh calls hold the lock, one more call waiting ahead of the loop; a view that makes runs of every length finitely many states | no wake-up is lost; watchdogs fire, freshness is shown, settings are written or the session renewed within two turns at the lock; keepalives at a distance, polls not starved |
| `reconnect` | two homes: one where attempts fail at every step and the maximum changes between two values, one with the greatest maximum where telemetry stops and the watchdog acts; stops and crashes | no advertisement is slept through; the back-off keeps its pace; issues are earned; under `HomesFairSpec`, a lost session is followed by another attempt |
| `repairs_once` | as `reconnect`, safety only | finding 5 |
| `station` | five parts: every stream of up to eight bytes over four values, cut into callbacks and pieces in every way; two commands, with one change at the device between, from every state of five flag bits and three timeouts, two known and an unknown one; two verified families, a read-only and a rejected one, three sessions per client, reloads and edits without bound; three addresses, two entities, four opaque ids; two dialogs, two addresses, two entries | packets are the frames of the stream, none is lost, cuts do not show; a command changes what it was asked to; writes rest on this session's settings and on no contradicted name; a conflict is stored, and resolved only within one session; names never replace what is stored or edited; registry records are the station's own; two entries share an address only after an overtaken reconfiguration; probes return their link |
| `duplicate` | two dialogs, two addresses, two entries | finding 6 |

**Bounds.**  Two sessions are the least in which state of one can leak into the
next; every hazard of the list needs an old session and its successor, never three.
Two readings let a packet confirm or contradict a command, three versions let one
write window see a confirmation, a reversal and another confirmation.  Two callers,
the connection task, the refresh and the stop give up to four waiters of the lock.
`MaxSessions` stops retries (`Completes`), `MaxVersion` stops notifications.

The stream of eight bytes in `station` holds two frames and noise, or a frame that
hides in a refused candidate; its limits are scaled so that each of them is met.
In `maintenance_timing` a call is ahead of the loop and one holds the lock, which is the
least that makes a turn longer than one write (two calls ahead were checked once as well,
11 million states; the theorems are for any number).  The view keeps of each time stamp its
distance from `now`, and of one that nothing reads before it is set again nothing; the
states are finitely many then, at most 61 steps deep, and none needs a clock beyond
`Horizon`, so that the run covers runs of every length.  The options are small ones that
satisfy `Validated`, so that each deadline can be the next one, and a second set, longer or
shorter in every period.  Two addresses are a change and a change back; `MaxReloads` bounds the reloads
that wait for their turn, and one is enough for a change during a reload.  In
`station`, two verified families are a contradiction that would authorize writes to
the wrong model, and three sessions let a candidate meet the session it was heard in,
the next, and one that follows both.  Three addresses let an entry move away, be
replaced and be moved back while a transition is unfinished.  Two dialogs are the least
that overlap, and each can begin again, so that two entries are made, moved, deleted and
made again; dialogs, entries and addresses are symmetric.  One advertisement per runtime
races every step of the loop; three resets are what an issue takes; the back-off reaches
its maximum within two waits.

**What a pass takes.**  The timing properties allow `Slack`: a pass may ask for the lock
twice (a refused keepalive, then its recovery), each time behind its holder and the calls
ahead (`Turn`), and the shortest wait follows.  With no other call waiting a turn is ten
seconds behind the holder and the loop's own write another ten; every further call ahead
adds its own timeout.  No document of the repository promises less.
`FreshnessShown` allows what the code allows besides: a deadline that expires while the loop
awaits the lock or a write of its own pass is no longer among the next deadlines
(`_next_maintenance_deadline` drops those in the past), so that the change may show with
the next status request only.  The bound is the later of the two.  `KeepalivesSpaced` lets
the keepalive through that the loop had decided before a user's write was recorded: the
deadline is not read again under the lock (`client.py` 475), and a write that was confirmed
before it returned leaves nothing pending that would refuse it.

**Fairness.**  In `entry_lifecycle`, awaits of a setup or unload end, a scheduled reload
gets its turn, the retry timer fires, and a device that is looked for again and again
is found in the end (strong); nothing is assumed of users, the client or other faults.
`MaintenanceLoop` needs none: its deadlines are safety, since time itself waits for
whoever is ready.  In `live`, the running task continues (weak); the loop serves its queue,
delivers pending cancellations and, in the end, completes each awaited I/O or timer
(strong, since these steps are enabled only between the steps of tasks that do not
suspend).  The code justifies the last one by timeouts on writes and disconnects;
`establish_connection` is bounded by bleak; `start_notify` has no timeout of the
code's own (a hazard listed as such).  No fairness is assumed for callers, faults,
packets, staleness or a reconnect.  In `reconnect` each await of the connection task
ends, waits run out, a queued link loss is heard and a requested disconnection happens
(all weak); nobody has to advertise, ask or answer.  Deadlock is checked in every run.

**Findings.**
1. *Old sessions are not isolated completely.*  `_make_disconnected_callback` checks
   the generation when bleak calls it and queues `_request_disconnect`, which checks
   nothing when it runs.  If `start_notify` fails, the `except` clause of
   `_connect_once` disconnects the installed client; its callback queues the request;
   a newer advertisement makes the loop start the next attempt without suspending,
   clearing the event; then the queued request ends the new session.  ADR 0010
   promises "Old-session events cannot disconnect or mutate a newer session."
2. *A stop can leave the link up.*  `async_stop` cancels a task whose
   `client.disconnect()` is in flight, or which waits for the lock with a link just
   established.  `_client` is `None` by then, so nobody repeats the disconnect.  The
   docstring promises to "release the Bluetooth connection slot."
3. *A change can be lost at the end of a failed setup.*  The update listener ignores
   changes during a setup, which compares the entry with its snapshot itself, but
   not on its way out.  When the registry transition fails, a reconfiguration saved
   while the `finally` clause stops the client is ignored by the listener, and the
   flow schedules no reload since a listener is registered; the setup ends in
   `SETUP_ERROR`.  `docs/development.md` says "Data or title changes schedule one
   reload through `async_schedule_reload()`".
4. *Two reconfigure dialogs mix identities.*  `current_address` is read before the
   scan and the probe.  If another dialog stores a new address meanwhile, the older
   one restores the first address, takes it for unchanged and keeps the identity
   stored for the other device.  `implementation-architecture.md` says "a changed
   address never inherits the previous identity."

5. *One failed attempt can raise the no-route issue.*  What is counted are updates of
   the coordinator that carry the error, not attempts.  A changed advertisement and the
   update at the start of the next attempt, which may succeed, make two more.
   `docs/troubleshooting.md` says "created only after repeated no-route failures".
6. *Two entries for one device.*  The reconfigure dialog asks whether another entry has the
   address before its probe only (`config_flow.py` 243).  An address that becomes another
   entry's during the probe, which takes seconds, is stored a second time (368): `duplicate`
   finds it.  `README.md` says "Duplicate targets are rejected to preserve
   one-entry-per-device behavior", `docs/troubleshooting.md` "If the selected address is
   already owned by another entry, the change is rejected."  (What Core makes of a second
   entry with the same unique id is outside the repository; the dialog asks it to store one.)
   `OvertakenOnly` says that nothing else leads there: `moved` names the entries this
   happened to, and a new entry, whose dialog looks again (492), never takes an address in use.

**Observations** that contradict no statement of the repository, met while modelling:

* When `stop_notify` fails in the clean-up of a probe, `client.disconnect()` is not tried
  (`client.py` 1684-1688, one `try` for both).  `left` in `ProbeLinkReturned`.
* A crash leaves a no-route issue of which the next manager knows nothing, and which it
  dismisses only after it has raised it itself.
* While a replacement is pending, "same device" at a third address is still a replacement
  (`config_flow.py` 331-334).
* A keepalive that the loop decided while a user's settings command was being written is
  sent right after it if a packet confirms the command before its write returns
  (`KeepalivesSpaced`); the device gets the same settings twice.
* Core's stop reaches `coordinator.async_shutdown`, which clears the issues: they are
  gone after a clean restart until they are earned again.

## 4. Proofs

Each theorem holds for every value of the constants that the named assumption of its module
allows; the runs check the same properties on small instances.  An inductive invariant is
built of named parts, one lemma says that every step keeps each part, and the theorem puts
them together.

### The client (`AllpowersClientProofs`, `ClientGateProofs`)

For every set of callers, readings, packets, faults and every bound, under
`ClientAssumption` (task identifiers are distinct, packets are well formed) and
`TaskAssumption` (a task is no number, so that the ready queue tells tasks from requests):

* `TypeCorrect`: `Spec => []TypeOK`.  `TypeOK` is inductive; the interesting
  conjunct is that a transaction is complete or `NoTxn`.
* `LockExclusive`: `Spec => []LockDiscipline`.  `LockInv` adds two facts: the
  connection task has op `connect` only between asking for the lock in
  `_connect_once` and the end of that critical section, and the delayed refresh
  never wants more than a status request, so that it never cancels itself.  The
  lock operations have one lemma each (`ReleaseLock`, `AcquireLock`, `KeepLockLock`,
  `ReacquireLock`, `WithdrawLock`), which rest on facts about queues at the top of the module.
* `WriteKeepsSession`: `Spec => []WriteSessionStable`.  `SessionShape` adds where
  the session variables may change: between two sessions there is no client and
  `_connected` is false, so that no write can be under way when a generation is
  activated or a client installed; inside a session both belong to the lock's holder.
* `ReadingsOfSession` (`SessionEvidence`): `Numbered` says what each await of the
  connection task means for the session numbers, `Evidence` that what is fresh, or
  authorizes, came from the installed client or the active session.
* `LinksAreKept` (`LinksKept`): `LinkInv` names the one who accounts for each link, and says
  that a `disconnect()` under way is over before the next session is opened.
* `NothingStranded` (`NoStrandedTransaction`): `TxnInv` says who sends a command, that a
  pending one belongs to the active session and stands before no closed gate, and how far a
  closed gate waits.
* `GateImplemented` (`ImplementsCommandGate`): the refinement, from `TxnInv`.  Initial states
  map to initial states, and every step to a step of `CommandGate` or to a stutter: a write
  that begins to `Submit`, one that fails or times out to `Lose`, a packet to `Confirm` or
  `Observe`, the ends of a session to `OpenSession` and `CloseSession`.
* `StopLeavesNothing` (`StopQuiet`): `StopInv` follows `async_stop` await by await.  A
  cancelled task does not run before its cancellation reaches it; after `gather` nothing that
  it waited for runs again, and a write cannot succeed that would make a new refresh.
* `EverybodyIsWoken` (`NoLostWakeup`), the safety half of the liveness that `live` checks.
  `WakeInv` says that whoever wants the lock is in its queue, or owns it and in the ready
  queue; that a set event has put the connection task there; and that nobody is in the ready
  queue twice or where the loop could not resume it.  Most steps move a few tasks and leave
  the others alone: `Moves` and `Left` say so of the step and of the ready queue it leaves,
  and one lemma each treats a lock that stays, is given, acquired, released or asked for
  again.  `LossInv` follows a lost link: a session that counts as connected is the active
  one, so that the callback queues its request, or somebody is already ending it; only the
  loop takes a request off the queue, and then sets the event.
* `HolderGoesOn`: the holder of the lock runs, is about to run, or awaits an input or output
  of its own.  No cycle of waits goes through the lock; what could still hang under it is
  a `start_notify` that never returns.

### The decoder and control frames (`DecoderProofs`)

Of `StreamDecoder`, for every byte set, header, acceptance test and limits that satisfy
`DecoderAssumption`:

* `DecoderTypeCorrect`, `ReturnsFrames` (`PacketsAreFrames`), `LosesNoFrame`
  (`NoFrameLost`), `NeverTrims` (`RetainedBounded`) and `LoopEnds`: every pass of the
  loop shortens the buffer (`DrainShrinks`).  No run repeats the second, which
  `CutsDoNotShow` says as well, nor the last.
  The inductive invariant says that the buffer, followed by what the callback still
  has to append, is the end of the stream (`Held`), that the packets are frames in order and
  end before the buffer begins (`Returned`), and that a place before the buffer starts no
  frame or lies inside a returned one (`Gone`); the bound holds because a
  candidate that is neither refused nor complete is shorter than one frame.
* `CutsAreInvisible` (`CutsDoNotShow`), an induction over the stream.  `LeastNumber`, that a
  set of natural numbers has a least member, follows from the well-founded ordering of finite
  sets and stands in for the library's induction theorems, which take an operator.
  `ScanDefined` says with it that the reference, a function that looks ahead in itself, is
  defined, and `ScanFinds`, that frames in order which leave no other frame uncovered are
  what it finds.  `Settled` says that between callbacks the buffer begins with nothing the loop
  could still take (`AtRest`), and that the counter is the number of bytes which were
  dropped (`Counted`).

Of `ControlFrames`, for every set of bits and timeouts a device may report:

* `FramesTypeCorrect`, `CommandsPreserve` and, for the specification of the run,
  `PartsOnlyAsked` (`OnlyAsked`).  `FrameOK` says that a frame under
  way carries what its command asked of a plausible report and the rest as reported; two
  lemmas say that the encoders do so and that a device which obeys reads them back.

### The entry (`EntryLifecycleProofs`)

For every set of addresses, options, dialogs and faults:

* `EntryTypeCorrect`, `OneClient` (`ClientOwned`): `Owned` says, per await and per
  state, what is left of client, subscription, listener and runtime.  Types need it:
  a count is a natural number because whoever gives up owns.
* `StartsClean` (`CleanStart`), `AlwaysReported` (`RestartReported`), `ReportStays`
  (`ReportKept`): `Residue` says that, where a start may follow, platforms are
  unloaded or the latch is set, and that nothing is latched before its clean-up.
* `RuntimeUpToDate` (`RuntimeCurrent`), from `Owned`: a runtime that may be used has
  a listener, so every update of the entry is noticed.
* `IdentityFollowsAddress` (`IdentityOfDevice`), for a single dialog, as in its run: finding
  4 is what two of them do.  `Followed` says what a dialog that has looked at the entry
  still knows of it.
* `ChangesAreScheduled`: between setups, a change that no client has yet has a reload or a
  retry ahead of it (`Ahead`: a reload that takes the place of a retry is scheduled itself).

### The maintenance loop (`MaintenanceLoopProofs`)

For every set of validated options, every horizon and all bounds:

* `LoopTypeCorrect` (`TypeOK`): every stamp lies in the past.
* `NeverOversleeps` (`NoOversleep`): `Armed` says that a task at rest without a pending
  wake-up holds a timer not beyond its next deadline; every action that moves a
  deadline forward either wakes the loop or runs before its wait.  A user's write moves one
  only later, since its stamp is after every other (`Held`, which also says that a write
  keeps its session).
* `KeepalivesKeepDistance` (`KeepalivesSpaced`), for unchanging options: `Decided` says
  that a keepalive which was decided is still due, or initial, or overtaken by a write that
  was recorded since.
* `SilenceIsNoticed` (`WatchdogFires`), `EntitiesUpToDate` (`FreshnessShown`),
  `PollsKeepComing` (`PollNotStarved`), `SettingsKeptAlive` (`KeepaliveOrRenewal`): bounds on
  a delay, for every number of `Callers`.  `OnTime` says that the clock passes neither the
  timer of who waits nor the end of an I/O.  `Granted` is when the lock comes at the
  latest to the task that asks for it: after what is left of the holder's write and the
  timeouts of the calls ahead (`Wait`); whoever asks later makes it no longer (`GrantedStep`).
  Then each deadline `x` has two halves: a pass that found nothing to do was
  before `x` (`PassBy(x)`), and what follows it sleeps until `x` at most, or two turns at the
  lock later (`SleptBy(x)`).  `Watched` says so of the watchdogs, `Lapses` of what is shown
  as fresh (with `Told`, which says what has been reported of it), `Polled` of the poll,
  `Renewed` of the keepalive; `Waits` says that a keepalive which was decided gets the lock
  within a turn of its pass, `Attempted` what one that failed leaves behind.
  `PollsKeepComing` assumes `Steady` (the options stay, or none of them has keepalives): each
  saved option set can put another keepalive in place of the poll.  `SettingsKeptAlive`
  assumes unchanging options, like the household of the run that checks it, since a longer
  interval moves the deadline itself.

### Reconnect and Repair issues (`ReconnectProofs`)

For every set of maxima, every bound and all faults, under `ReconnectAssumption`:

* `ReconnectTypeCorrect` (`TypeOK`).
* `NoneSleptThrough` (`AdvertisementHeard`): `Newer` says that an advertisement which counts
  is newer than every generation the loop may still compare it with, the one a queued link
  loss carries included.
* `BackoffKeepsPace` (`BackoffPaced`): `Paced` says that the next delay is what doubling has
  made of it, or has reached some maximum.  The history is kept as the doubled delay, not as
  a count of waits, because the provers know no powers.
* `IssuesAreEarned` (`IssuesEarned`): lemmas say what one evaluation of the repairs manager
  can change, and from which state it is told (`Telling`, `StepTells`); `RouteEarned` says
  when the last error can be that of a missing route, `WatchdogEarned` that the manager
  counts no more resets than there were in silence.
* `LossIsNoticed`: a session whose link or client is gone has been asked to end, or the
  request is queued (`Requested`: whoever drops a client inside a session has asked first).

### The model's identity (`ModelIdentityProofs`)

For all sets of families and any number of sessions
(`IdentityAssumption`: a rejected family is of no other kind):

* `IdentityTypeCorrect` (`TypeOK`), `ConflictAlwaysStored` (`ConflictStored`),
  `WritesAlwaysVerified` (`WritesVerified`).  `Evidenced` says that the revision that
  counts was delivered by the running session; `Heard`, that only a conflict has a
  candidate, and that it is the last name heard; `Remembered`, that what is stored is
  what the client believes, or a rejected family that the client treats as a conflict.
  A lemma says what a settlement keeps, whoever triggers it.
* `ConflictResolvedInSession` (`ResolvedInSession`): `Binding` adds that a candidate
  belongs to the session its name counts for, and that a connection without an active
  session is ending.
* `StoredIdentityKept` (`IdentityKept`): lemmas say what a settlement and an observation may
  store; that nothing supported is replaced follows from `Remembered`.
* `PartsConflictStored`, `PartsWritesVerified`, `PartsResolvedInSession` and
  `PartsIdentityKept` restate the four for the specification of the run (`IdentityPart`).

### Dialogs and registry records (`DialogProofs`)

Of `SetupFlow`, for every number of dialogs, addresses and entries:

* `SetupTypeCorrect`, `OnlyTheOvertaken` (`OvertakenOnly`): `Unraced` says that a dialog
  which was not overtaken is about an address that no other entry has, and that a
  discovered device is about no entry.
* `LinksReturned` (`ProbeLinkReturned`), inductive by itself.

Of `RegistryTransition`, for all addresses, entities and any number of moves, under
`RegistryAssumption` (opaque ids are never addresses: `uuid4().hex`, `config_flow.py` 337):

* `OwnRecordsOnly` (`RecordsOfStation`) and `SameStationKeeps` (`SameDeviceKeeps`).  A
  loaded entry tells nothing of a transition that is half done, so the invariant speaks of
  every state: `Stationed`, that until a replacement is finished all records, and all that
  could be restored under the ids in use, are those of the station settled last;
  `Named`, that the id of a replacement is in no record; `Prefixed`, that a prefix stands for
  one station; `Single`, that there are no two records of one thing, also while they are
  being renamed, and that removed devices have given up their keys.  `Replacing`,
  `Migrating` and `Loaded` say what a transition, cut anywhere, and a setup do to the records.

`PartsOvertakenOnly`, `PartsLinksReturned`, `PartsOwnRecords` and `PartsSameStation` restate
the four for the specification of the run, whose properties they name: a behaviour of the
parts is one of each part (`SetupPart`, `RegistryPart`).

### What is only model-checked

Type invariants are theorems and not repeated in the runs.  All invariants and action
properties of the passing runs are theorems.  Liveness (`LockWaitersServed`,
`LinkLossHandled`, `StopCompletes`, `ChangeUsed`, `AlwaysReturns`) is not: it needs fairness
and `ENABLED`, which are out of the provers' reach.  What does not depend on time is
proved: `EverybodyIsWoken`, `HolderGoesOn`, `ChangesAreScheduled` and `LossIsNoticed` say that
whoever waits has something ahead that will wake it.  (The last three are stated in the
proof modules, and no run repeats them.)  The findings are no theorems either: a
counterexample is TLC's to give.

## 5. Not modelled

* *Options* (`options.py`): parsing, defaults and messages.  What a validated set
  satisfies is the assumption of `MaintenanceLoop`; the validation is one expression
  without state.
* *Migration and removal of an entry* (`__init__.py` 62-157, 409-449), and the issue of a
  failed migration: they run alone, before a setup, and consist of one test and one
  update each.
* *Measured values*: scaling, version texts, device names, diagnostics, translations,
  forms and labels.  No control depends on them.
* *The copying of snapshots* into coordinator data and entities, which has no await.
* *`scripts/`*: sequential validation of files, not part of the running integration.
* *The composition of `ModelIdentity` and `AllpowersClient`*: an identity that changes
  while a command is pending changes what validates its confirmation (`client.py` 1099).
  `AllpowersClient` covers both outcomes, since a packet's verdict is arbitrary there.
* *An `OSError` of `client.disconnect()` that bleak does not document* (`client.py` 829),
  which would end the connection task, and *a `start_notify` that never returns* (910):
  assumptions about bleak.
* *A contradiction heard between an edit and its reload* (`__init__.py` 224) is not stored;
  `ConflictStored` begins anew with an edited entry, and the next session names the model
  again.

## 6. Plan

Done: the client's session, lock and transactions with their abstract specification; the
stream decoder and the control frames; the entry lifecycle with the unload latch; the
maintenance loop over time; reconnect scheduling with the repairs manager; the model
identity, the registry transition and the setup dialogs.

All safety properties that the runs check are theorems.  What is left: the
composition of `ModelIdentity` with `AllpowersClient`, where an identity changes while a
command is pending; and migration and removal of an entry.  Eight modules hold theorems.
