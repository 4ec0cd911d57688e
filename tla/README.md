# mesh-client: TLA+ models, model checking and proofs

mesh-client (Electron, TypeScript) talks to Meshtastic and MeshCore radios and to a
Reticulum stack that runs as a separate process, the *sidecar*. This directory
holds TLA+ modules of the parts of the main process and of the renderer in which
several asynchronous activities meet, configurations that check them with TLC, and proofs checked by
TLAPS. Paths below are relative to the repository root.

## 1. The system

| part | state it keeps | operations | talks to |
|---|---|---|---|
| Sidecar process manager (`src/main/reticulum-sidecar-manager.ts`) | `proc`, `_status`, `startPromise`, `stopPromise`, `startAbortRequested`, `quitFastRequested`, attempt generation, drain controller | `start`, `stop`, `prepareStop`, the child's `exit` event, health poll | the child (spawn, signals, HTTP), the watchdog, the BLE coordinator |
| Hung watchdog (`src/main/reticulumSidecarWatchdog.ts`) | failure count, `stopped`, restart in flight | periodic poll, restart | calls `stop()` and `start()` of the manager |
| BLE coexistence coordinator (`src/main/ble-coexistence-coordinator.ts`) | `connections` (peripheral to owner), `scanOwner`, depth, acquire in flight, scan paused | `register`, `unregister`, `assertCanConnect`, `acquireScan`, `releaseScan`, suspend for Reticulum | pauses, resumes and disconnects Noble |
| Noble BLE manager (`src/main/noble-ble-manager.ts`) | a session each for Meshtastic and MeshCore, `connectQueue`, `knownPeripherals`, scan requesters and flags | `startScanning`, `stopScanning`, `connect`, `disconnect`, `writeToRadio`, events of the native library | the coordinator, the native library, the renderer (IPC) |
| Meshtastic MQTT (`src/main/mqtt-manager.ts`) | `client`, `status`, `currentSettings`, `subscribedWildcardTopic`, `retryCount`, the reconnect timer, the CONNACK watchdog | `connect`, `disconnect`, `updateTopicPrefix`, suspend and resume, the client's events | mqtt.js, the renderer |
| MeshCore MQTT (`src/main/meshcore-mqtt-adapter.ts`) | the same, `pendingReconnect`, `lastConnected`, a watchdog for silent sessions | the same, `updateToken`, the delayed subscribe | mqtt.js, the renderer, which fetches tokens |
| RF reconnect (`src/renderer/lib/rfReconnectController.ts`, `loraRfReconnectAttempt.ts`, `runtime/useMeshtasticRuntime.ts`) | the controller's and the runtime's generations and flags, budget, exhaust latch | losses from four sources, attempts, sleep and wake-up, the user's connect and disconnect | the connection driver and its lifecycle gate, the mutex of Noble connects |
| Chat outbox (`src/renderer/hooks/useChatOutbox.ts`, `chat:outbox:*` in `src/main/index.ts`) | the table `chat_outbox`, a `drainingRef` for each mounted panel | `queue`, `retry`, `cancel`, load on mount, `drainOnce` | SQLite over IPC, the radio, the pacing of Meshtastic sends |
| Renderer: yield watcher, transport manager, packet router, MeshCore request queues | per protocol | send, dedupe, logins | IPC to the main process, radios |
| TAK server, database, updater, IPC validation | sockets, tables | queries | SQLite |

The hard behaviour is the same everywhere: JavaScript never interrupts a piece of
code, but every `await` lets another call, timer or event in, and what was tested
before the `await` may not hold after it. Promises wait for each other (a start for
a stop, a duplicate connect for the first one's GATT setup), native libraries answer
late or never, processes ignore signals, and their exit events come when they come.

What makes each part correct, in a sentence: the manager never runs two sidecars,
never loses one and lets the last request win; the scan lease belongs to one stack
at a time and interrupted scans resume; connects set up one link at a time, a
peripheral has one holder, the registry tells the truth, every call is answered; a
broker connection has one session, always something that will move it on, and a
budget it keeps to; a reconnect cycle is worked on by one attempt, ends, and never
overrides the user; a queued message is sent once and never lost.

`PROJECT.json` lists every component with what is and is not modelled, every
hazard at its line with the property that covers it or the reason why none does,
and, for each definition of a module, the lines it stands for.

## 2. Modules

| module | models | `MC` module, configurations | proofs |
|---|---|---|---|
| `SidecarService` | abstract: what the process manager promises to those who call it | (as a property of `SidecarLifecycle`) | `SidecarLifecycleProofs` |
| `SidecarLifecycle` | process manager and watchdog; implements `SidecarService` | `MCSidecarLifecycle`, `SidecarLifecycle_*.cfg` | `SidecarLifecycleProofs` |
| `BleScanLease` | the scan lease and Noble's scanning | `MCBleScanLease`, `BleScanLease_*.cfg` | `BleScanLeaseProofs` |
| `NobleConnect` | `connect()`, `disconnect()`, peripheral registry, yield of the adapter | `MCNobleConnect`, `NobleConnect_*.cfg` | `NobleConnectProofs` |
| `ReconnectBudget` | abstract: what a broker connection promises about its reconnects | (as a property of `MqttSession`) | `MqttSessionProofs`, `MeshcoreMqttProofs` |
| `MqttSession` | the Meshtastic broker connection; implements `ReconnectBudget` | `MCMqttSession`, `MqttSession_*.cfg` | `MqttSessionProofs` |
| `MeshcoreMqtt` | the MeshCore broker connection; implements a weaker `ReconnectBudget` | `MCMeshcoreMqtt`, `MeshcoreMqtt_session.cfg` | `MeshcoreMqttProofs` |
| `RfReconnect` | controller, attempt, runtime handlers, driver gate and Noble mutex | `MCRfReconnect`, `RfReconnect_*.cfg` | `RfReconnectProofs`, `RfQueueProofs` |
| `ChatOutbox` | the outbox's table, hook and drains | (itself), `ChatOutbox_*.cfg` | `ChatOutboxProofs` |

Conventions. An action is the code between two awaits. A function with awaits
becomes a record with a `pc` that names the await it is at. Several small operators
that are not in `Next` are *mutants*: a definition changed as a plausible bug would
change it; for every property that holds, substituting one of them violates it, so
that the property is known to say something about the code.

### SidecarService and SidecarLifecycle

* `SidecarService` has a stage (off, held, being taken down), the processes that are alive,
  whether the status says running, and the last request. A process is launched on an empty
  stage and only while a start is wanted; what is taken down is gone before the stage is
  empty again.
* The refinement: `Stage` is held while `this.proc` is set, stopping while a `stopProc()`
  that has taken it waits for the exit, off otherwise; `Live` are the children that run,
  `running` is the status, `lastCall` the last `start()` or `stop()` that took effect.

* `run` is the `startOnce()` behind `startPromise`: awaiting the stop in flight
  (`awaitStop`), polling the sidecar it may reuse (`reusePoll`), its own `stopProc()`
  before a spawn (`preStop`), the build (`build`), the health poll (`health`), its own
  `stopProc()` after a failure (`failStop`).
* `stopping` are the `stopProc()` calls, one on behalf of `stop()`, one on behalf of
  `startOnce()`; each may drain, take `proc`, and kill (`term`) until the exit event
  or the SIGKILL timer.
* `caller` is where each `start()` is: renderer calls and, one for each child, the
  restart of that child's watchdog. `watchdog` is the closure of `startSidecarWatchdog`.
* Continuations of promises (`Jobs`) run before anything from outside (`Events`, all
  guarded by `~JobsPending`), as the event loop has it.
* `child` is the operating system's view. A killed child's exit event comes some time
  after its death; `LateExit` says whether it may come after the next spawn.
* Left out: the yield of the Bluetooth adapter, the WebSocket bridge, the HTTP proxy,
  status text. A drain's length is not modelled: it may end at any time.
* Bounds: `MaxCalls` calls of `start()`/`stop()`, one spawn for each member of `Children`.

### BleScanLease

* Coordinator: owner, depth, whose first acquire is in flight, whether Noble's scan was
  paused. `client` is one user of Reticulum's lease (the sidecar's yield, the RSSI poll).
* Noble: requesters, adapter state, `scanningActive`, `scanStartInFlight`; `start` is
  where each session's `startScanning()` is; `connect` is the one call that holds the
  connect queue, with only what it does to the scan.
* The native start may fail or time out; its abandoned callback may still come. A client
  may release what it does not hold, as the device picker does. `mishaps` remembers that
  one of the two has happened, after which the code promises less. The await of `pauseScanningForExternalScan()` is always a point of
  interleaving, although the code suspends there only for a microtask when there is
  nothing to pause: more interleavings than the code has.
* Left out: the owner `webbt` (Linux), links, `stopAllScanning()`, the adapter's native
  scan state.
* Bounds: `MaxStarts` calls of `startScanning()`, `MaxPowerCycles` adapter changes.

### NobleConnect

* `call` is each `connect()`; `slots` counts the promises chained in `connectQueue`. A
  call takes the next number and waits for the one before it, which is what awaiting
  the previous promise and installing one's own does. Numbers make the order of the
  chain a fact a proof can use.
* `sess` are the sessions, with `gattSetupInflight` as the call whose setup it is and
  `gattOpen` the setups that have not settled; `known` is `knownPeripherals`.
* `cuts` are the `disconnect()` calls under way, which clear the session at once and
  then unsubscribe, remove the listener they found, and cut the link for at most 5 s.
* `listening` are the calls whose `onDisconnected` is still registered at their
  peripheral: a drop clears the session of each, once.
* `link` is `peripheral.state`; a link drops at any moment (`Drops`), which is also how a
  `disconnectAsync()` succeeds. It comes up only while it is being opened: the native
  library rejects a connect to a peripheral that is connected.
* `registry` and `lease` are the coordinator's; the lease here is only what `connect()`
  sees of it, and the yield's disconnect of all sessions.
* `Addressed` are the peripherals whose address Noble knows; on macOS there are none,
  and `register()` with an empty address does nothing.
* Left out: the scan (BleScanLease has it), MTU, writes, the read pump, `writeQueue`,
  RSSI polls, Linux.
* Bounds: `Requests` says what each call may ask for; one `disconnect()` from the renderer
  per session and one yield at a time.

### ReconnectBudget and MqttSession

* `ReconnectBudget` has a phase (off, dialing, up, waiting, failed) and the tries spent.
  A lost connection costs one try, each try is dialled once, an empty budget fails. Two
  constants let a connection promise less: `Tokens` (a wake-up may wait before it dials) and
  `Forgiving` (a loss may be charged to a full budget). `MqttSession` has neither.
* `link` is what each mqtt.js client is doing: dialing, up, ended by `end(true)` with its
  `close` to come, closed. `client` is `this.client`; replaced clients still raise `error`
  and `close`, in handlers (`Event`) that ask whether they are current. A closed client
  stands for a new one.
* `requests` are a client's unanswered SUBSCRIBE and UNSUBSCRIBE packets, in order, and
  `broker` what the broker has it subscribed to: `subscribedWildcardTopic` (`wildcard`) is
  what the manager believes.
* The refinement: `Phase` reads the status, the reconnect timer and the client's link;
  `Spent` is `retryCount`, or 0 when the connection is off or failed.
* Left out: messages, keys, caches, pings, lengths of waits. mqtt.js is external.
* Bounds: `MaxCalls` calls of the user and the power monitor; `MaxRetries` is a setting.

### MeshcoreMqtt

* As above; `settings` also says whether the broker signs in with a token (`jwt`). After
  its delay such a reconnect waits for one: `pending`, `pendingTimer`, `UpdateToken`.
* `lastConnected` is never, recent or more than 30 s ago (`HalfMinute`), as the close
  handler asks. `delayed` are the subscribes that wait for their 500 ms.
* The CONNACK watchdog drops its client before it ends it, so that nothing reconnects;
  this state (`Stranded`) is an exception of `NoLimbo`.
* It implements `ReconnectBudget` with both relaxations: a wake-up fetches a token first,
  and `lastConnected` may forgive what failed dials have cost (`FailedDialIsPaid` below). A
  stranded connection counts as failed, and a client whose `close` is to come as still dialing.

### RfReconnect

* A step is the code between two awaits. The controller (`cgen`, `cycle`, `dirty`, `active`,
  `owed`) and the runtime (`rgen`, `reconnecting`, `deferred`, ...) keep twins of the same
  facts, which the code sets in different places; both are kept.
* `body` is where a `runLoraRfReconnectAttempt()` is, `work` where its `reconnectWork` is:
  after the deadline (`Deadline`) the body goes on and the work is still opening, in the
  mutex of Noble connects (`mutex`), then in the driver's lifecycle gate (`gate`). An open
  that comes late is undone (`Undo`), which waits in the same gate.
* What a handler disconnects it looks up: `known` is `meshtasticIdentityIdRef`, which every
  `cleanupSubscriptions()` clears, `pending` is `meshtasticPendingDriverIdentityRef`, which
  only the user's `connect()` sets. Without either (`~Named`) nothing is disconnected, and a
  handler goes on at once. An attempt disconnects an identity once: if that was before its
  open was over, the open is `abandoned`, and stays when it comes.
* `parting` are the losses whose stale device is being disconnected before the rest of
  `handleConnectionLost()` runs, by what is to come after. `slots` are the driver's open slots, by who opened them.
* Left out: serial, TCP and HTTP transports, the reboot timer, the MeshCore side of the
  mutex, a second `connect()` during one, the wait for a device that `disconnect()` takes
  down without the driver.
* Bounds: `MaxCalls` calls, losses, sleeps, wake-ups and yields; one member of `Attempts` for
  each attempt that overlaps others; `MaxTries` stands for the budget of the transport.

### ChatOutbox

* A *panel* is one mount of `ChatPanel`, which `App` keys by the protocol: a change of the
  protocol and back mounts another, and the first one's drain goes on. `drain[p]` is its
  `drainOnce()` (or its load on mount): the rows it found marked as being sent (`stuck`),
  those still to be sent (`todo`) and the one in hand.
* `db` is the table. Every write may be rejected (`Fault`), and what the hook does then is
  an action of its own; requests are answered in the order in which they are sent, so
  that a write and what follows its answer are one step. `Reload` takes everything but
  the table.
* `acked` and `ended` are history: rows known to be delivered, and rows delivered or
  cancelled. `Paced` is the chain of Meshtastic sends, as mutual exclusion.
* Left out: what the panel shows, payloads, the number of attempts (after a failure a row
  waits or not), the age limit (a drain may skip any row as too old), the composer's live
  sends, which share the pacing. Calls that are rejected and change nothing are no steps.
* Left out too: a write that comes when quitting has closed the database does nothing and
  is not rejected. Its renderer is about to go, so that the table is left as by a `Reload`
  just before the write; a row that could not be marked in this way may still go out once
  in between, its delivery unknown, and without the mark that `FlightIsMarked` speaks of.
* A receipt that does not come in time (Reticulum) is a failure, the message not known to
  be delivered: `acked` does not have it, and it is sent again.
* Bounds: `MaxRows` messages, `MaxFaults` rejected writes and reloads, `MaxRetries` retries.

## 3. Runs

Bounds are model values: interesting cases need two or three actors of a kind.

| run | question | instance | states | result |
|---|---|---|---|---|
| `sidecar` | two sidecars, a lost one, an undone stop, the abstract service implemented; every call answered? | 2 children, 2 users, 4 calls, failing polls | 196 000 | holds |
| `ble_lease` | lease counted, never stolen, do interrupted scans resume? | 2 clients, 2 sessions, 2 starts, 1 power change | 967 000 | holds |
| `connect_safety` | one setup but for timeouts, one holder, own registrations kept? | 3 calls, 2 sessions, 1 peripheral, symmetry | 951 106 | holds |
| `connect_live` | is every `connect()` answered? | 2 calls, 2 sessions, 2 peripherals, one without address | 216 436 | holds |
| `connect_yield` | no Noble link while Reticulum has the adapter? | 2 calls, 1 peripheral | | violated |
| `mqtt` | one session, no limbo, healthy sessions left alone, the budget kept, does it settle? | 3 clients, 2 prefixes, 2 retries, 3 calls | 48 000 | holds |
| `mqtt_resubscribe` | is a session that is up subscribed? | 3 clients, 1 prefix, 1 call | | violated |
| `meshcore_mqtt` | the same, subscribed, do waits end? | 3 clients, 2 topics, 2 retries, 3 calls | 482 000 | holds |
| `rf` | flags owned, both queues serve their waiters, latch and disconnect last, nothing superseded revived, do cycles end? | 6 attempts, budget of 2, 3 calls | 166 000 | holds |
| `rf_parallel` | one attempt of a generation at a time? | 6 attempts, budget of 2, 4 calls | | violated |
| `outbox` | sent once, never lost, do drains end? | 3 rows, one of an older version, 2 panels, 2 faults, 1 retry | 498 000 | holds |
| `outbox_remount` | are rows to be reset really interrupted? | 2 rows, 2 overlapping panels | | violated |

Why the bounds suffice. In `sidecar` one child is being killed while the next is started,
by two users and two watchdogs. In `ble_lease` two clients nest and race for the first
acquire, and two sessions are all there are. Three connects are a holder, a waiter and
one that arrives or gives up, on one peripheral, where takeover, coalescing and the
registry meet; two calls on two peripherals, one without address, were explored as well
(1.1 million states), and three calls on two peripherals to 9 million states without a
violation, which is too large for a regular run. Three mqtt.js clients are the current
one and two replaced ones that still raise events, and a budget of two has a try that is
not the last. In `rf` three calls are a loss, what supersedes its attempt, and one more
(the drop, the disconnect or the wake-up that finds both under way); with a budget of two
each may leave two attempts behind, so six never run out. An open that is skipped because
another is in flight (`SkipOverlap`) takes four calls: `rf_parallel` has it.
In `outbox` three rows are one in hand, one behind it and one of an older
version, and two faults are a rejected deletion and the rejected block after it, or a
reload after either. The theorems of section 5 have no bounds.

`CHECK_DEADLOCK FALSE` stands everywhere: the bounded program really stops when its
calls are used up.

### Fairness

Only what the platform guarantees: promise continuations run, timers fire (health poll,
SIGKILL timer, native start timeout, the 5 s of a disconnect), the operating system
kills on SIGKILL and reports exits. Nobody has to call, crash, drop a link or answer a
poll well. In `NobleConnect` each step of a call is weakly fair: connectAsync, discovery,
subscriptions and scans have timeouts in the code; `scanStop` and `unsubscribeAsync` have
none, and there fairness is an assumption about the native library (a hazard entry says
so). In `BleScanLease` the wait for `scanStop` is not fair, and `ScanResumes` excludes it.
`CallsAnswered` ends where a call gives up waiting in the queue: after that two calls of
one session may overwrite each other's `gattSetupInflight`.

In the two MQTT modules timers fire and a client that was ended closes; nothing is asked
of the broker, the renderer, or that half a minute passes. In `RfReconnect` microtasks and
timers run and the operation at the head of the driver's gate ends (`DriverEnds`), since the
transports' connects have timeouts; a configure may hang for ever, its attempt's deadline is fair. `CycleEnds` speaks
of a cycle somebody works on: `handleRfConnectFailure()` can leave one nobody owns (a
hazard entry says so). In `ChatOutbox` IPC calls are answered and sends end; over
Reticulum the receipt has a timeout, over the radios this is an assumption about
`sendFn()`.

## 4. What the violated runs show

* `connect_yield` — `disconnect()` does nothing while `connectAsync()` is pending, so the
  yield misses a link that is about to come up.
* `mqtt_resubscribe` — `subscribedWildcardTopic` outlives its session: a client that was
  reconnected with a clean session subscribes to nothing, although the log says "will
  retry on reconnect".
* `rf_parallel` — a superseded attempt sees at the end of a 500 ms slice that it is; if a
  newer one is in its own back-off by then and a reconnect is deferred,
  `flushDeferredOrEnd()` ends the newer one's turn and starts a second attempt beside it.
* `outbox_remount` — `drainingRef` belongs to one mount. A protocol change and back during
  a send mounts a hook that takes the row in flight for one left by a crash, sets it to
  `queued` and sends it again. `SentOnce` is violated too when panels overlap, which is
  why the run that checks it and the theorem exclude that.

Each finding in `PROJECT.json` quotes the line that promises otherwise. TLC also refuted
the following, which are no runs; the definitions are kept in the modules.

* `NoOrphan` with `LateExit = TRUE`: the exit handler nulls `this.proc` without asking
  whose exit it is, so a child spawned before an old exit event comes is lost.
* `WatchdogNeedsProc`: a poll in flight when `stop()` takes the child still restarts it.
* `NoIdleLease`: every `startScanning()` nests the lease, only the last `stopScanning()`
  gives one depth back, and Reticulum is refused with nobody scanning.
* `LeaseCounted` after a client released what it does not hold (`StrayRelease`).
* `RegistryHonest`: a drop clears `registeredMac` without `unregister()`, and other stacks
  are refused a peripheral nobody uses.
* `HandleIsLive`: `prepareRfConnect()` clears the identity before it reads it, so that a
  `connect()` over a session that an automatic reconnect has made leaves that session's slot
  in the driver (a loss, an attempt that succeeds, `connect()`: ten steps), and `getHandle()`
  returns it, the first of its identity, for the session just opened. Slots are left over
  too when an attempt's deadline passes while its open waits and an identity is known.
* `FailedDialIsPaid`: `lastConnected` is never reset, so that half a minute after a CONNACK
  every failed dial refills the budget: the MeshCore adapter redials for ever.

Seen while modelling, and not stated as properties:

* `drainOnce()` returns while another drain is on, and no timer waits for `nextRetryAt`:
  a row queued during a drain, or whose back-off is over, waits for the next trigger.
* After the last attempt `nextRetryAt` is null, so the row is eligible again, although the
  comment says "max 5 attempts then permanently failed"; the age limit also stops a manual
  retry, which its comment allows; a row cancelled while it is in a drain's list is sent.
* A `start()` that waits for an aborted attempt (manager, line 287) launches when that attempt
  has settled, although another `stop()` came while it waited: call `start()`, `stop()`,
  `start()`, `stop()` during a build, and the sidecar ends up running. The comment above the
  wait says as much ("wait for it to clear, then start fresh"), so `lastCall` counts a
  `start()` from when it launches, and so do `StopIsFinal` and `StopPrevails`.
* `updateTopicPrefix()` and the `connect` handler's closure may disagree on the prefix after
  two updates during a dial.

## 5. Proofs

All for any values of the constants that satisfy the named assumptions.

**SidecarLifecycleProofs.** `TypeCorrect`; then the invariant `Control` (who awaits whose
`stopProc()`, that a killing `stopProc()` has taken `proc`, that a stop leaves its abort
mark on the attempt it overtakes), inductive whenever exit events come, gives
`RunningOwned`, `SuccessUndisturbed` and `StopPrevailing` (until another `start()` launches or
joins, a `stop()` is followed by no spawn and no success). With `~LateExit`, `Ownership` (at most one live
child, each owned, none live beside a dead one whose exit is not handled) is inductive
relative to it, and gives `OneSidecar`, `NoneLost` and `StopFinal` (once all has settled after such a `stop()`,
nothing runs; a `start()` that still waits to launch is not covered). The assumption is
needed: TLC has the counterexample without it. `ServiceImplemented` is the refinement, under
the same assumption and for any number of children and calls: `Control` also says that an
attempt without an abort mark is wanted (`StartWanted`) and that one `stopProc()` at a time
waits for an exit (`KillsAlone`), and for each action a lemma shows which step of
`SidecarService` it is, or that it leaves the view of it alone.

**BleScanLeaseProofs.** `TypeCorrect`; `NotStolen` needs that while an acquire is in
flight nobody owns the lease (`InFlightIsPausing`); `Counted` adds the count itself, which
holds until a client releases what it does not hold (`mishaps`). The count uses finite-set
cardinality lemmas.

**NobleConnectProofs.** `TypeCorrect`, then in four layers:

1. *The queue.* `QueueNumbered` (slots are given out in order, one call each) and
   `FirstComeFirstServed` (a call past its turn has only finished calls in front of it, but
   for those it overtook because one in between gave up waiting) are inductive. Of two calls
   that hold the queue one has overtaken the other in this way (`HoldersApart`), and
   `SetupsSerialized` (`OneSetup`) follows, with timeouts; without any, two calls that hold
   the queue are the same (`OneAtATime`), on which layers 3 and 4 rest.
2. *The registry.* Nearly every step only *gives up* (`Releases`): a session keeps its
   peripheral and registration or loses both, and an entry leaves the registry only with
   its session. With the two steps that are not of this kind, `LinkUp` and `Established`,
   `ClaimHeld` is inductive by itself: `ClaimsHeld`, without any assumption on the queue.
3. *One holder.* `SessionIsCalls` (a call opens a link only with its session emptied),
   `NotAnothers` (no other session has the peripheral of an admitted call registered) and
   `HeldIsClaimed` (a held peripheral is registered or in GATT setup) are inductive on top
   of 1 and 2; `Advances` says what a call's step has to respect, and every handler is
   shown to. `HoldersAreOne` (`OneHolder`): of two holders both are registered, which the
   registry excludes, or one was admitted past the other's registration, which
   `NotAnothers` excludes, or both are in their setup, which the queue excludes.
4. *Who waits is attended to.* `SetupAttended` (the `gattSetupInflight` of a session belongs
   to a call that is at its setup and will settle it) is inductive on top of 1 and gives
   `WaitersAreAttended`: while nobody gave up waiting, a duplicate waits for a setup that
   somebody will settle, a queued call for an unfinished one in front of it, and the second
   look for a setup in flight, behind the queue, never finds one. It is the safety half of
   `CallsAnswered`: nobody waits for what no one is left to bring about.

**MqttSessionProofs.** `TypeCorrect` and `OneSessionCorrect`; `Control` (a client that
dials shows as connecting, a shown loss is of a closed client, and only such a loss has
armed the reconnect timer) is inductive with them and gives `NoLimboCorrect` and
`HealthyCorrect`. `BudgetImplemented` is the refinement: under these invariants every
handler is a step of `ReconnectBudget` or a stutter, one lemma for each.

**MeshcoreMqttProofs.** The same three with the token's waits in `Control` (a wait for a
timer or a token comes after its close, never both at once), and `SubscribedCorrect`.
`BudgetImplemented` is the refinement of the relaxed `ReconnectBudget`; it needs in `Control`
that an armed reconnect timer has a client behind it.

**RfReconnectProofs.** The queues come first: an open stands at most once in the gate and
has the mutex (`QueuesOK`), which `TypeCorrect` needs for the hand-over. `Generations` (no
attempt's generation is beyond the runtime's or the controller's, the two agree while a
cycle is on, and an explicit disconnect has superseded every attempt) is inductive over
three kinds of steps, those that begin no generation, begin one, or start an attempt; it
gives `NeverRevivedCorrect` and, with who is wired, `DisconnectCorrect`. `LatchCorrect` and
`BusyCorrect` are inductive by themselves.

**RfQueueProofs.** `QueuesCorrect`: whoever awaits an open stands in the mutex once, whoever
awaits an operation of the driver has it in the gate once, and nothing else stands there that
is awaited; so no hand-over is lost and none is made twice, however late an open comes. Each
step is described twice, by what leaves and joins the gate (`From`) and by who ends and begins
to wait (`To`); when the two agree, the property is kept. It needs one strengthening: an
attempt in its back-off has no work left over (`BackoffFresh`).

**ChatOutboxProofs.** `TypeCorrect`, which includes that no row of an older version is
taken in hand. `NothingLostCorrect` rests on `Delivered` (a row about to be deleted or
blocked has ended) and holds for overlapping panels too. `SentOnceCorrect` assumes
`~Overlap`: one panel at a time can drain (`Alone`), a row known to be delivered is
deleted, blocked or in the hands of the drain that is deleting it, and in no other's
(`Accounted`), with the shape of a drain (`Shape`) and that only queued rows are taken up
(`Known`). `DrainFrame` says once what every step of a drain respects. From the same invariant
come two theorems about what a crash leaves: `StuckInterrupted`, the reset of rows marked as
being sent hits none that is (what `outbox_remount` shows violated when panels overlap, so
that this is its exact condition), and `FlightMarked`, a row whose send is cut off is found
marked, unless the user cancelled or retried it.

TLC checked each inductive invariant before it was proved. Six of the theorems' properties
are not checked by a regular run, to keep the runs few: `RunningIsOwned`, `StopPrevails`, `WaitersAttended`,
`ImplementsBudget` of `MeshcoreMqtt`, `StuckIsInterrupted` without overlap and
`FlightIsMarked`; TLC found each to hold, with its inductive invariant, on the instances of the
table (`QueuesServeWaiters` on 4 calls too, 4.3 million states). Only model-checked are the
liveness properties (`StartsAnswered`, `StopsReturn`, `ScanResumes`, `CallsAnswered`, `Settles`,
`WaitEnds`, `CycleEnds`, `DrainEnds`), for the prover does not do liveness, and the violated runs.

## 6. Not modelled

The models cover a small part of a large program: most of its lines are user interface,
texts, tables, protocol decoding and tooling, sequential code whose correctness is that of
each function. Of the parts in which activities meet, the yield between sidecar and Noble
as a whole, Noble's writes and read pump, the sidecar's WebSocket bridge, the transport
manager, packet dedupe and the MeshCore login and repeater queues are left for later.
SQLite statements, IPC predicates, TAK sockets and the updater are pure I/O or
sequential. The Rust sidecar is a program of its own.

Within the modelled parts, known hazards that no property covers and that `PROJECT.json`
has no room for: a start after an abort (manager, line 287), a slow drain under quit
(572), a lease depth released by whoever stops (589); a native start's late callback
(noble-ble-manager 1022), an adapter that goes off during a scan (329), the name map
awaited on macOS (834), a poll of the watchdog that is in flight (watchdog, 66), a scan of
`connect()` that asks for no lease (954), the listener that is registered once (1373), an
undo that closes the user's new session because the driver closes by identity
(ConnectionDriver 282).

## 7. Plan

1. `SidecarBleYield`: manager and lease composed with the renderer's yield watcher (the
   yield after health, `nobleYieldDecisionPending`, `stopProc()` releasing a depth, the
   attempt generation); the hazards at lines 507 and 589 of the manager wait for it.
2. The MeshCore room login queue, with a radio that drops and delays answers and the reset
   that clears generations and chain under a job in flight; then the repeater requests.
3. An abstract specification of the connect queue that `NobleConnect` refines.
4. Noble's write queue and read pump; the sidecar's WebSocket bridge; the transport manager;
   packet dedupe as a function against its definition.
5. Proofs: in `NobleConnect` what remains true of holders and waiters after a queue timeout.
