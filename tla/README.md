# TLA+ verification of Starfield Advanced DualSense

The plugin drives a DualSense controller from a running Starfield: adaptive
triggers and light bar over HID, haptics and a controller speaker over USB audio
(WASAPI) or Bluetooth (Opus in HID reports). Its difficult core is not the
sound itself but the question *who may make the controller sound or vibrate
right now*, asked by many threads at once: the game's main thread, Wwise
callbacks, the input thread, a settings menu, a controller worker and two audio
workers. This project models that core, checks it with TLC and proves the most
important results with TLAPS.

## The system

| Component | State | Operations | What is hard |
|---|---|---|---|
| `WeaponSpeakerPlayback` | active profile, sustained authority, active and release-pending generation, pause, menu mask, ship/vehicle suppression | `observeGameEvent`, `observeWwise`, `observeRightTrigger`, `observeBackendInvalidation` | events, Wwise callbacks, trigger samples and invalidation reports in any order |
| `ControllerSpeakerManager` | `_started`, live settings | `start`, `stop`, `applyLiveSettings`, submissions, `set/clearPersistentCaptured` | settings change under a playing loop; the backend's `active()` is read once and used |
| `DualModeSpeakerBackend` | `_started`, `_transport` | `start`, `stop`, `clearPlayback`, `synchronizeTransport` in every submission | the link is polled: whoever calls first performs the change |
| `DualSenseAudioTransport` | two clients, worker, endpoint, persistent mailbox, mixers, haptic and music queues | client start/stop, enqueue and clear calls, `threadMain` | worker and callers share queues; endpoint comes and goes; the worker calls back |
| `BluetoothSpeakerBackend` | `running`, `available`, HID handle, mixer | `start`, `stop`, `clearPlayback`, submissions, `workerMain` | write failures and reconnects; a worker exception |
| Land-vehicle speaker (`Plugin.cpp`) | engine band, thrust kind, epoch | motion tick, thrust events, stop | shares the one persistent slot with weapons |
| Music haptics (`Plugin.cpp`, `WeaponAudioPipeline`, music queue and mixer of the transport) | authorised playing ids, menu mask, switch; request and result queues; control queue, voices | Selected and Ended callbacks, menu and settings changes, runtime tick, `enqueueMusicHaptic`, `stopMusicHapticsPlayingId`, `queueMusicClear`, `renderOneBlock` | five threads, only atomics and one queue mutex between them; a decode that finishes after its reason is gone |
| `ControllerManager` and the native HID backends | HID handle, connection and transport flags, effects output last applied, rumble requests, routing setting and generation, latest input, R2 observer, retry times, event queue | `start`, `stop`, `enqueue`, `pulseBluetoothRumble`, `setBluetoothContinuousRumble`, `setControllerSpeakerRoutingEnabled`, `run` | reconnection against stop, power-off, settings and rumble stored by other threads; any write can close the handle |
| `HapticsManager`, `HapticsEngine`, `DualModeHapticsBackend` | the context (on foot, ship, REV-8), what is authorised in it, leases and the watch of the beam; the continuous state of each transport | `handle`, `handleRightTriggerInput`, `setShipPropulsionState`, `setLandVehicleMotionState`, boost and thrust calls, `applyLiveSettings`, `tick`, `setContinuous` | every handler composes under a mutex and submits after unlocking; leases that must end; a link change under a continuous effect |
| `BoostpackFeedbackAuthority` | the lease of the boost pack, its eligible context | `observe`, `setContextEligible`, `tick` | decides under its mutex, acts after unlocking |
| `HapticCommandQueue`, `HapticMixer`, `MusicHapticsMixer` | bounded queues and voices | push, drain, add, render | overflow, staleness |
| `EffectsEngine` | what both triggers and the light bar play, the context, weapon phases, deadlines | `handle`, `handleRightTriggerInput`, `applyLiveSettings`, `tick` | five contexts share two triggers, and each handler gives back its own part |
| Five ship fire gates | atomics for seat, menu, R2, last shot, armed stream; the post that came first under a spin lock | `setPilotActive`, `setMenuBlocked`, `observeRightTrigger`, `authorizeWwiseFire` | three threads interleave atomic by atomic |
| `ShipPilotContext`, `ShipLaunchLandingReconProbe`, launch and landing feedback (`Plugin.cpp`) | the seat; the landing sequence and the last states; the phase of a transition and its flags | `observeMenu`, `observeShipState`, the permanent task, `start-` and `stopShipLaunchLandingHaptics` | menu events from the game against samples of the task |
| Land-vehicle gates | armed shots, cooldowns | observe, take | duplicates, expiry |
| `SettingsService` | committed and staged settings, file | load, apply, save | partial failure of a save |
| `NativeInputInjection`, `InputDiagnostics`, `Touchpad` | held synthetic inputs, gestures | press, release, tick | an input that stays held |
| `WeaponAudioPipeline`, prepared caches | jobs, published families | enqueue, worker, publish | shutdown against a running job |
| `GameStateAdapter`, hooks, probes, codecs | sampled game state | ticks, patches, parsing | mostly reads of game memory and file formats |

Calls go downwards: Wwise callbacks and game events reach
`WeaponSpeakerPlayback`, which calls the manager with its own mutex held; the
manager calls the backend with `_stateMutex` held; the backend starts, stops and
feeds one of the two transports. One callback goes upwards: the wired transport
reports an invalidation, on whichever thread notices it, into
`WeaponSpeakerPlayback::observeBackendInvalidation`.

## Modules

* **`SpeakerBackend`** - everything below the manager as functions on one record
  `be`: the wired client with its worker, endpoint, mailbox and mixer
  (`DualSenseAudioTransport.cpp`), the Bluetooth side
  (`BluetoothSpeakerBackend.cpp`) and the switch between them
  (`DualModeSpeakerBackend.cpp`). Every caller holds `_stateMutex`, so a call is
  a function; the workers' steps are functions too and interleave as actions.
  The audio is reduced to the owner of the persistent voice: a weapon
  generation, the rover, or none.
* **`SustainedVoice`** - the whole path of the looping voice. `pb` holds the
  members of `WeaponSpeakerPlayback`, `phase` and `live` those of the manager,
  `rover` and `driving` the land-vehicle globals, `lost` and `direct` the two
  invalidation callbacks that a thread has begun and that wait for
  `playback._mutex`. One action per handler: the game events, `WwiseStart` and
  `WwiseStop`, the trigger, the reports, `ManagerStart` ... `ChangePolicy`, the
  rover's calls, and the workers' `Render`, `OpenEndpoint`, `LoseEndpoint`,
  connection and failure steps.
* **`LoopAuthority`** - what the loop promises, in three variables and five
  actions: a generation is granted at most once, only a granted generation may
  begin to sound, a revoked one never sounds anew. `SustainedVoice` states the
  refinement (`Loop == INSTANCE LoopAuthority WITH ...`).
* **`SpeakerLocks`** - the mutexes. Each thread runs straight-line programs of
  lock, unlock, report, join and start, nested as the calls nest in the code;
  what the calls do to the voice is left to `SustainedVoice`.
* **`MusicHaptics`** - the music path from the Wwise callback to the mixer. The
  handlers hold no lock across their steps, so each is a sequence of actions, one
  per access that another handler can separate from the next (`SelectBegin`,
  `SelectCheck`, `SelectMark`, `SelectRequest`; `EndBegin`, `EndStop`;
  `MenuOpened` or `ApplySettings`, then `ClearSlots`, `ClearMusicHaptics`;
  `TickBegin`, `TickCheck`, `TickAdmit`, `TickPush`). The constant `Overlapping`
  says which handlers may be in progress together, so that a run can tell what
  holds of one handler at a time from what holds of any interleaving. The deque
  `musicCommands` is a set of commands with their positions, and `Due` is what
  sounds once the pending commands are applied. `sels` and `opened` are history.
* **`ControllerManager`** - the controller worker and everyone who talks to it. `pc`
  says where `ControllerManager::run` stands; a worker step is what no other
  thread can divide, so that reading the routing generation
  (`Connected`, `Online`) and applying the setting (`ApplyRouting`) are two
  steps, while the clean-up behind a lost link (`Lost`) is one. The native
  backends are called by the worker alone and are folded into its steps as
  `Open`, `Close`, `WriteArrives`, `WriteNotSent`, `WriteFails` and `SetRouting`.
  Outside the worker: `Start`, `StopRequest`, `StopEvents`, `StopJoin`; `Enqueue`;
  `RouterBegin` and `RouterEnd`, the two atomic steps of a routing change;
  `RumbleAdmit`, which looks at the flags, and the later `PulseStore` or
  `ContinuousStore`. `mode` is the runtime mode; presence-only is USB only,
  because the plugin then builds a `NativeUsbBackend`. `Clients` lists which
  callers and faults a behaviour has. Requests carry the connection that was
  open when they were stored, and `epoch`, `ended`, `shown` and `told` say what
  the controller itself has seen: they exist for the properties.
* **`HapticLeases`** - the continuous body haptics. `hm` is `HapticsManager` with
  its `HapticsEngine`, `jet` and `eligible` the boost pack's authority, `wired`
  and `bt` what each transport vibrates with. A handler changes `hm`, composes
  the set of sources that should vibrate and leaves the composition in
  `pending[t]`; `Look`, the look at the master switch and the link, and `Write`,
  the store, are later steps of the same thread. That is the shape of every
  handler in the code: compose under `_engineMutex`, unlock, submit. `crossed`
  remembers that an older composition was stored over a newer one. One action
  per branch of `handle` and per public call; a deadline is off, running or due.
* **`ShipGates`** - one of the five fire gates, atomic by atomic. A handler is a
  few looks followed by a list of stores (`todo`), each its own step (`Store`), on
  the game's thread (`LoadingMenu`, `SpaceshipHudMenu`, `BlockingMenu`), the
  controller worker (`Sample`, `ControllerGone`, `ObserveRightTrigger`,
  `Consume`) or the Wwise callback (`Post`, `LookAtR2` ... `Remember`). `Enter`
  and `StillNoMenu` are the spin lock with its second look at seat and menu.
  `family` tells the ballistic gate, whose catalogued posts need no pull of the
  moment, from the other four, which are copies of each other.
* **`TriggerEffects`** - `EffectsEngine`: what each trigger and the light bar play,
  by name of the effect. One action per event type, `HandleRightTriggerInput` for a
  sample of R2, `Tick` as the composition of the parts of `EffectsEngine::tick` in
  the code's order, `ApplyLiveSettings`. `owed` is history: a shot was confirmed
  whose recoil has not begun.
* **`ShipTransitions`** - a launch or a landing. `ctx` is `ShipPilotContext`, `probe`
  the reconnaissance probe, `flags` the atomics of `Plugin.cpp`, `felt` what body,
  triggers and light bar were last told. `sink` takes a menu event through its
  observers in the order of `runtimeEmit`, `tick` runs the permanent task; a
  transition is an exchange of the phase and then, as a step of its own, what
  the phase stands for. `thump` and `flew` are history.
* **`MCSustainedVoice`** - settings for TLC.
* **`SustainedVoiceProofs`** (with the refinement of `LoopAuthority`),
  **`SpeakerLocksProofs`**, **`MusicHapticsProofs`**, **`ControllerManagerProofs`**,
  **`ShipGatesProofs`**, **`HapticLeasesProofs`**, **`TriggerEffectsProofs`**,
  **`ShipTransitionsProofs`** - the theorems.

The four modules of the second half of the list meet the others as the code's
parts do: a shot that `ShipGates` authorises is `ShipWeapon` in `HapticLeases` and
a `...WeaponFired` action in `TriggerEffects`; the seat of `ShipTransitions` is the
pilot context of the other three; `LinkChange` in `HapticLeases` is what
`ControllerManager` finds. They are checked apart because they share no variable:
each part takes events in any order, which includes every order the others can
send.

Definitions called *mutants* in the modules are not part of the model: each is a
plausible bug, kept next to the operator it would replace, that makes one
property fail.

### What the model keeps and what it abstracts

* A weapon profile is `none`, `finite` or `sustained`. Finite voices end by
  themselves and are not kept; a finite cue still synchronizes the backend
  (`FiniteCue`), because that is how it can revoke a loop.
* `HapticsClient` is a constant: haptics start before the speaker and stop
  after it, so during a session the haptics client either keeps the WASAPI
  worker alive or does not exist.
* `policy` in the settings stands for output mode, comms and language, whose
  changes call `clearPlayback`.
* A link change reported by a thread that already holds `playback._mutex` locks
  a `std::mutex` twice, which is undefined. The model allows both outcomes a
  build can produce: the report takes effect, or the exception is swallowed by
  `reportPersistentInvalidation`.
* A started worker thread may fail to start (`StartResults`), and an exception
  may end a worker (`WorkerFaults`).
* In `ControllerManager` a deadline has passed or has not, by choice: pulse ends,
  reconnect times and the idle timeout are nondeterministic. What the events
  make of the output is any member of `Outputs`. Left out are gestures with
  their action queue, battery, live settings, the adaptive trigger's view of
  R2, the repeated writes of an unchanged output after a reconnect or a
  hand-over, and the light-bar start-up over Bluetooth. The speaker is asked for
  by the routing setting alone, because the plugin builds the backend with
  `requestControllerSpeaker = false`; a missing backend factory does not occur
  in the plugin.
* `HapticLeases` leaves out gains, levels, finite effects and process exit; one
  ship menu stands for the three that block it. `TriggerEffects` leaves out forces,
  frequencies and colours; the events of the game come in any order, more than
  the game would produce. `ShipTransitions` leaves out the reports of the probe and
  the stop at shutdown.
* In `ShipGates` a store to an atomic is one step, and the memory order of the code
  (acquire and release on every access) is taken for sequential consistency.

## Runs

| Run | Question | Configuration |
|---|---|---|
| `SustainedVoiceWired` | Is authority always heard, does the master switch silence, does a revoked loop end, is `LoopAuthority` implemented? | USB only, four settings, three generations, failing starts; invariants, refinement and liveness; 5 500 states |
| `SustainedVoiceAll` | Are blocked contexts without authority, does only the selected side hold a loop, and in which ways is a loop left playing without its authority? | everything on: both links, vehicle, boostpack, worker faults, three generations, any number of calls between two blocks; 1 390 000 states |
| `SpeakerLocks` | Which circles of waiting threads exist, and is the callback ever entered under a transport mutex? | link and settings change |
| `MusicHaptics` | Does every way of taking music away take all of it away, does an open menu silence the mixer, do the capacities hold? | two ids, three Selected callbacks, every capacity at its limit; menu, settings and client overlap; 700 000 states |
| `ControllerManager` | Does anything of one connection (rumble, input, a held trigger, flags, output, route) outlive it, is an intended power-off respected, does `stop` return? | two connections of either transport, queue of one, two routing changes, two outputs; both modes; 1 220 000 states |
| `HapticLeases` | Is what vibrates what the context still grants, does a context own its effects, does every lease end? | six scenarios (REV-8; weapons; boost pack with settings, with the ship, with a link change; launch and landing); 446 000 states |
| `ShipGates` | Do the gates follow the game, is the first post guarded, is the spin lock always left? | one object, two menus, three instants, both shapes of a gate; 6 600 000 states |
| `TriggerEffects` | Does what the triggers play belong to the moment, does every recoil belong to a shot, does what is overdue end? | seven scenarios of two parts each, all kinds of weapons; 55 000 states |
| `ShipTransitions` | Is a transition felt only while one is on, a takeoff only after lift-off, a touchdown once? | five menus in any order, events between two turns of the task; 11 200 000 states |
| `BluetoothReconnect`, `BeamUnwatched`, `FalseTakeoff` | Do three sentences of the documents hold? | the smallest instance that refutes each |

Bounds. `MaxGen` is two or three: the interesting cases need an old and a new
generation, a third one a late clear of the second. One blocking menu suffices
because the mask is only tested for being empty. Two outcomes of a thread start,
two links and the two thrust kinds are the whole range. In `SpeakerLocks` there
is one thread per role, because a circle needs two roles that nest the same
mutexes differently.

In `MusicHaptics` `QueueCap` exceeds the number of ids, so a stop is never
refused; the code has the same relation (256 commands, 128 authorised ids), and
`EndSilence` and `FewEndsSilence` say what rests on it. The
other capacities are one or two, so that each limit is reached with three
Selected callbacks. What the run leaves out, the tick and the callback
overlapping the others, the theorems `MusicBounded`, `MusicPending` and
`ClientSilence` cover.

In `ControllerManager` two connections are an old one and a new one, of the same
or of different transports; two routing changes are one and its reversal, so
that a setting can look unchanged while its generation is not; a full queue is
one event. TLC takes one kind of caller per behaviour (`Clients`), because the
callers share no variable with each other except through the worker; the
theorems hold for every set of callers together.

In `HapticLeases` a scenario names the parts that act in a behaviour, because
the whole at once is beyond TLC: each pairs the parts that share state. Two
authority epochs are the old and the new one; one boost stands for both, which
are copies. The theorems have no such limit. In `ShipGates` time is three
instants: a post can be a duplicate (`Duplicate = 1`), can come too late for the
press (`Before = 0`), and can be too old for the pull (`Forward = 0`); a second
object would only reach the refusal of `LookAtObject`, which ends the callback.
`TriggerEffects` and `ShipTransitions` have no bound but their menus and weapons.
`ShipTransitions` states with `Concurrent`, `Prompt` and `Unconfirmed` what its run
excludes; the next section says what happens otherwise.

Fairness. `EventuallySilent` excepts a loop whose clear was lost (`Orphan`; the run
that says how one comes about is `SustainedVoiceAll`) and assumes `WF_vars(Render)`: WASAPI signals the
render event every period while the endpoint is open, and `renderOneBlock` takes
only mutexes that are never held across a wait. `MenuSilences` assumes fairness of `Render` while a
command is queued, for the same reason, and
`WF_vars(Revoking)`, because a menu or settings handler that has begun runs to
its end without waiting for anybody. Nothing is assumed fair of the
game, the link or the Bluetooth connection.

`StopReturns` assumes that the worker and the stopping thread run
(`WF_vars(WorkerStep)`, `WF_vars(StopEvents \/ StopJoin)`). Nothing the worker
calls waits without end: report writes wait at most 100 ms before they are
cancelled, and the loop sleeps for milliseconds. The property is not a matter of
fairness alone: the worker drains the event queue until it is empty, which
producers could prevent for ever if `EventQueue::stop` did not refuse them.

`LeasesEnd` assumes that each thread goes on with the submission it has begun (no
wait in it is without end) and `SF_vars(Tick)`, `SF_vars(JetTick)`: the permanent
task of the game's thread recurs, and it is strong fairness because the actions
are disabled while the same thread is in the middle of another submission.
`EffectsEnd` assumes `WF_vars(Tick)`: the worker ticks the engine in every turn,
connected or not. Nothing is assumed of the game, R2 or the clock.

Deadlock is checked everywhere except in `SpeakerLocks`. There the program
itself really can stop: a change of output mode holds `_stateMutex` and
`_transportMutex` while its report waits for `playback._mutex`, and a Wwise
callback holds `playback._mutex` while it asks for `_stateMutex`. The same
happens between a link change noticed by the land-vehicle tick and a Wwise
callback, and between a join of the audio thread and that thread's own report.
Nothing in the documents rules this out, so it is listed as a hazard and not as
a finding; `CirclesOnlyInTeardown` says that these are all of them.

### Where the code differs from what it says

Each violation run has one entry under `findings` in `PROJECT.json`, with the
line of the code and the quoted sentence:

* `BluetoothReconnect`: a loop returns with a Bluetooth reconnect, because
  `closeController` keeps the mixer.
* `BeamUnwatched`: the watchdog of the Cutter is disarmed by a low R2 sample that
  lies between the start marker and its confirmation; the beam then vibrates
  with nothing to end it while R2 is held.
* `FalseTakeoff`: the propulsion poll answers with the default state, neither
  landed nor docked, when the player is not the pilot, and an armed takeoff takes
  that for lift-off.

The models show more, which have no run of their own. Sentences of the
repository that the code does not keep:

* A clear is lost in the one-place mailbox when another update comes before the
  next rendered block (`DualSenseAudioTransport.cpp:1216`; the sustained-audio
  design, line 33). `NoOrphanLoop` does not promise that a stop arrives; it says
  in which steps a loop loses its authority and goes on: this one
  (`ClearOverwritten`), a clear that Bluetooth cannot hear because no handle is
  open, and a report of the boostpack or of a lost endpoint about another loop.
  Leave any of them out of the property, and `SustainedVoiceAll` finds the trace.
* A thrust loop survives leaving the REV-8: the thrust sets the band to -1 and the
  stop believes nothing plays (`Plugin.cpp:1506`; plan
  `2026-09-11-v0.3.84`, line 29). This is `RoverSilentWhenOff`.
* A Wwise callback that notices a link change joins the audio thread
  (`DualSenseAudioTransport.cpp:795`; the sustained-audio design, line 367). This is
  `WwiseNeverWaitsOnAudioThread`.
* The tick looks at a voice and queues it later, so a voice starts after its
  playing id ended, and, by the same window, after the switch or the client went
  (`Plugin.cpp:5098`; the music design, line 50). This is `NoMusicAfterEnd` with the
  tick and the callback in `Overlapping`; the `MusicHaptics` run lets them take turns.
* A decode requested before a menu is felt after it if the game authorises the
  same playing id again (the music design, line 48). This is `NoStaleVoice`.
* A post that is past its look at R2 arms the automatic stream behind the release
  that ended it ("end the automatic stream immediately",
  `ShipBallisticFireGate.cpp:150`). This is `StreamEndsWithTrigger`: the stream
  stays armed until the next release, menu or seat, so the next pull may continue
  it.
* The boost pack's authority decides under its mutex and calls the manager after
  unlocking; a start may overtake the stop that follows it, and then thrust
  vibrates without a lease (`Plugin.cpp:2566` and `2650`). This is
  `ThrustIsLeased`; `OrderedIsGranted` holds because the manager itself still
  grants that thrust.

And these, of which no document speaks: a boostpack report revokes the loop of the
other transport (hence no boostpack in `SustainedVoiceWired`, and one of the
exceptions of `NoOrphanLoop`); stopping the
Bluetooth side revokes nothing, and the master switch misses a reconnecting
Bluetooth backend (hence that run is wired).

Of the ship's gates: R2 held across a menu is not sampled again, so the gate
thinks it released until the next change of bucket; a post and a pull that
consume at the same time may make two shots within the duplicate window.

Of the triggers and the light bar:

* `LandVehicleAuthorityReleased` blanks both triggers in any context and restores
  none; changing the adaptive setting while the Eon recoils leaves its wall off,
  and switching triggers off while R2 is held leaves the pull remembered.
* The neutral frame of the EM break can be overwritten by a settings change or a
  laser stop that comes in the same turn (`CHANGELOG.md:282` wants one frame).
* The recoil of the Eon stays until R2 is let go if a transition stops while it
  plays, because the stop clears its deadline; `EffectsAreOwned` and `EffectsEnd`
  name this exception.
* The light bar stays cinematic after a transition without a seat as long as the
  player's health was never reported; `EffectsEnd` names that too.
* `HapticsManager` keeps one menu mask for ship and REV-8 and does not reset it on
  `LandVehicleContextExited`; `EffectsEngine` keeps two and resets them.

Of a transition, in the conditions the run excludes:

* `Concurrent`: a stop on the sink between the exchange of the boundary and the
  start of the body (`Plugin.cpp:4774` against `5786`) leaves body and triggers on
  with no phase, where the 30-second cap does not reach them (the notes of v0.3.78:
  "A cancelled sequence must leave the continuous haptic state neutral.").
* `Prompt` false: a last state from before the seat was left starts a landing
  sequence and a second thump on the ground.
* A takeoff stops with the final close of the fader; the notes of v0.3.79 describe
  the next opening, with the loading screen as a fallback. A landing goes on when
  its sequence expires and another takes its place.

Of the controller worker, the model has these as behaviours of the code; no
document says otherwise, and the properties are stated so that they name them:

* An idle power-off that fails leaves the controller reset while `lastApplied`
  still holds the earlier output, which is not written again until it changes
  (`AppliedIsShown` allows `Neutral`).
* A rumble request that passed the flags and is stored after the clean-up vibrates
  on the next Bluetooth connection (stamp 0, allowed by `NoReplay`).
* An exception leaves the R2 observer believing the trigger held, and the pending
  requests in place (`ObserverReleased` excludes it).
* A route that could not be switched counts as applied and is not tried again
  before the setting changes or the link is lost; only that nothing plays
  *against* the setting is a property.
* `_events` is never restarted: after `stop` and a second `start` the worker takes
  no events. The plugin starts it once.
* `appliedBluetoothLeft` and `-Right` outlive a lost link; the first composition
  on the next one makes them true again.

## Proofs

All constants are arbitrary: any number of generations, any set of menus,
settings and links, with or without faults. Where a theorem assumes more than the
module does, the assumption is named with it. They were chosen with TLC, which finds
the property violated when one is dropped, with these exceptions: `OneThump` with
`Concurrent` is beyond TLC (15 million states without a violation), and `Solo`
excludes some overlaps that do no harm. Every safety invariant and every action property the runs
check is the subject of a theorem, and so is the refinement.

The weapon loop and its backends:

* `TypeCorrect`: `Spec => []TypeOK`.
* `Blocked`: `Spec => []NoAuthorityWhileBlocked`.
* `OneTransport`: `Spec => []OneTransportHoldsVoice`. Not inductive alone: the
  selected side is remembered in `transport`, but who may still hold a voice
  depends on which clients are registered and running. `Inv` in
  `SustainedVoiceProofs` adds the relation between `transport`, `client`,
  `btRunning`, the workers and the mixers.
* `Refinement`: `~BoostpackClears => (Spec => ImplementsLoopAuthority)`.
  The strengthening `LoopInv` says that what waits in the mailbox or sounds was
  issued before, and that a set in the mailbox of an open endpoint is still
  authorised or a report is on its way. The assumption is needed: the boostpack
  path clears the mailbox and reports later, outside of every mutex.
* `DisabledSilences`: `DisabledIsSilent` on the cable (`Wired`, one link), with
  everything else on: boostpack, vehicle, dying workers, calls that overtake a
  block. An open endpoint of a manager that is off has an empty mixer and no set in
  its mailbox (`SilentInv`, true for any links); that the Bluetooth side was
  never selected (`WiredInv`) does the rest.
* `NoPhantoms`: `NoPhantomAuthority` for `Wired`, `~RoverDriven`, `~WorkerFaults`,
  even when calls overtake a block. What the backend will play after the next
  block is the authorised generation, or a revocation is on its way (`Backed`). A
  vehicle takes the voice without asking the playback, and a worker that dies
  reports to nobody.
* `NoOrphans`: `Spec => NoOrphanLoop`, with no assumption on the constants: both
  links, boostpack, vehicle, dying workers and failing starts, and any number of
  calls between two blocks. The argument is `OrphanInv`: `SilentInv`, and an
  endpoint that waits to be reported is closed, so that its report is about the
  wired loop only if Bluetooth has taken over meanwhile. Then each step is one of
  three: it leaves a backend with nothing to play (`Quiet`), it tells the loop
  itself to stop (`TakenBack`, where `ClearSounds` finds the overwritten mailbox
  as the only way to fail), or it starts the loop it authorises (`SetSounds`).
* `OneBlockSilences`, with no assumption either: a weapon loop that is heard
  without its authority, and is not an orphan, sits on an open wired endpoint with
  an update pending, and the next rendered block plays no weapon loop. This is
  `EventuallySilent` without its fairness, which excepts the orphans too; by
  `NoOrphans` an orphan comes about in the named steps only.

The mutexes:

* `CallbackOutside` and `CirclesInTeardown`: `CallbackOutsideTransportLocks` and
  `CirclesOnlyInTeardown`, whatever the flags. Every program a thread can begin is
  annotated with the mutexes held before each of its steps (`Safe`), and each step
  keeps a discipline: mutexes are taken in the order playback, rover, state,
  transport, client, speaker; only who holds `state`, or nothing, reports; only who
  holds `state` joins. The invariant says that what remains of a
  program goes on from what its thread holds (`Continues`). Threads that wait in a
  circle without a report or a join under `state` would then wait for mutexes of
  ever higher rank.

For the loop, lemmas say what each function of `SpeakerBackend` does to the
parts of `be` the invariants name, one lemma per action group shows that a step
keeps them, and the last step combines them with PTL. The other modules are laid
out alike.

The music path:

* `MusicTypes`, `MusicBounded`: type correctness, and the five capacities in every
  interleaving (`Cardinality` of the queue, the mixer and the slots, lengths of
  the pipeline queues).
* `MusicPending`: `Spec => []PendingIsCurrent`. Needs that positions in the deque
  are unique and below `tail` (`Deque`), and what the control point of a handler
  says about its locals (`Locals`, `Labels`).
* `MenuSilence`, `SwitchSilence`: `NoMusicInMenu` and `NoMusicWhenDisabled` for
  every set of ids and menus, under the assumption that the clearing handler does
  not overlap another one (`"menu" \notin Overlapping`, `"settings" \notin
  Overlapping`); the others may overlap each other. Without the assumption both
  are false. The strengthening says what is left to clear at each control
  point of the clearing handler and that a voice the tick is about to queue was
  looked at with no menu open (`MenuInv`, `SettingsInv`).
* `SoloSilence`: both properties again under the other assumption, that the callback
  and the tick run by themselves (`Solo`): then menus, settings and client may come
  at any moment. `Working` says what a handler in progress has found. The runs'
  setting, in which menu, settings and client overlap, is an instance of `Solo`.
* `ClientSilence`: `NoMusicWithoutClient` unless tick and client overlap each other.
* `EndSilence`: with `Solo`, and as long as a full queue holds something other than
  stops (`StopsFit`), `NoMusicAfterEnd`. `FewEndsSilence` removes the
  condition for fewer ids than places in the queue: the pending stops are of distinct
  ids (`Stops`), so they never fill it.
* `NextBlockSilences`: with `Solo`, an open menu whose handler is done finds the
  mixer silent or the control queue not empty, and the next rendered block silences
  it: `MenuSilences` without its fairness.

The controller worker:

* `ControllerTypes`: `Spec => []TypeOK` for the controller worker.
* `NoStaleRumble`, `RouteSettles`, `InputStaysCurrent`, `ObserverIsReleased`,
  `FlagsAreTrue`, `RetryIsAsIntended`, `AppliedWasShown`: `NoReplay`,
  `RouteFollowsSetting`, `InputIsCurrent`, `ObserverReleased`,
  `FlagsNameTheLink`, `RetryPolicy` and `AppliedIsShown`, for every number of
  connections, routing changes and outputs, and for every combination of
  callers and faults. None of them is inductive: each speaks of the moment
  between two turns, and between the loss of the handle in the middle of a turn
  and the clean-up at its end almost nothing agrees. `Inv` in
  `ControllerManagerProofs` says at which control points the handle can be open
  or closed and in which mode (`Places`), and then, for each variable, where it
  may be stale (`RequestsCurrent`, `InputInv`, `ObserverInv`, `FlagsInv`,
  `RetryInv`, `RouteInv`, `AppliedInv`). The route needs the most: a
  generation that has been read and whose setting has not, a setter between its
  two steps, and what the USB backend remembers from before a reconnect.
* `StopCountsDown`: once the event queue refuses, the events still queued and the
  control points before the end of the loop (`Remaining`) decrease with every step of
  the worker and increase with nobody's. This is the variant behind `StopReturns`.

Gates, vibration, triggers and transitions:

* `GateFollows`: `Spec => []GateFollowsGame`, for any number of menus, objects and
  posts and any windows. The strengthening relates the seat to the stores the
  game's thread still has to make.
* `FirstPost`: `Spec => []FirstPostIsGuarded`. The heart of it is that whoever
  closes the gate or pulls the trigger stores first and takes the lock after, and
  that `Remember` looks again under the lock: the invariant says, for each
  control point inside the lock, which of the two will still see the other.
* `ContextsOwn` and the `Typing` of `HapticLeasesProofs`: every helper of the
  manager keeps `Owned`, so each handler, which is a composition of helpers, does.
* `OrderedGranted`: `OrderedIsGranted`. The composition in flight of the thread that
  decided last, or what vibrates when nothing is in flight, is granted by the state
  (`Told`). A composition of another thread may be stored meanwhile, which
  `crossed` remembers.
* `TickEndsLeases`: a lapsed lease of the laser or a boost opens a branch of the tick
  wherever it is found, and that one tick ends all of them, in the state and in what
  it submits. Two branches never compete, because the context owns its effects. With
  the composition that follows this is `LeasesEnd` without its fairness, except for
  the thrust, whose `JetTick` is one step by definition.
* `EffectsOwned`, `OwedKicks` and the `Typing` of `TriggerEffectsProofs` (whose `TypeOK`
  no run repeats):
  `EffectsAreOwned` and `OnlyShotsKick` for any weapons and any parts, in every
  order of events, samples and deadlines. Ownership is not inductive alone: that a
  recoil the Eon keeps is owned rests on who may hold a weapon (`Seated`) and on
  the deadline it no longer has (`Kept`). `restorePersistentTrigger` needs less
  than it gives (`Ready` and `Good`), which is why every handler may end in it.
  `OwedKicks` rests on `Seated` too: a pull with a confirmed shot and a neutral
  frame of the EM break never exist together, so a shot owed to one is never taken
  for the other's.
* `TickEndsEffects`: after one tick nothing is overdue, if no neutral frame of the EM
  break was queued before it; a queued frame needs one tick more. This is `EffectsEnd`
  without its fairness. Each of the seven parts of the tick ends its own effect, and no later part
  brings it back (`Spends`), although five of them restore the triggers. It needed a
  conjunct more in `Seated`: the recoil of the Eon never has the endless deadline of
  a beam.
* `TransitionsOwn`: `~Concurrent => (Spec => []FeltIsOwned)`, whether or not the HUD
  proves the seat and the ship is sampled in time. What follows an exchange of the
  phase must find the phase it left (`Follows`); a menu event between the two is
  what `Concurrent` would allow, and is why the assumption is needed: the code
  exchanges an atomic and acts on it later, with no lock.
* `TakeoffsFly`: `TakeoffLeavesGround` for `~Concurrent` and `~Unconfirmed`, however
  seldom the ship is sampled. `Seats` follows a change of seat through the atomics it
  is stored in, so that the pilot the task has read is the pilot of the ship it
  samples; `Flies` says that the phase and its boundary are of a ship that flew.
  `FalseTakeoff` shows what happens when the HUD is open without a pilot.
* `TouchdownsOnce`: `OneThump` for `Prompt`, `~Concurrent` and `~Unconfirmed`. `Probed`
  relates the probe to the seat, `Once` says that after a thump the ship is on
  the ground and no landing sequence is on that has not seen its touchdown.
* The `Typing` of `ShipTransitionsProofs` needs none of the three.

Only model-checked: the liveness properties `EventuallySilent`, `MenuSilences`,
`StopReturns`, `LeasesEnd` and `EffectsEnd`, because fairness and `ENABLED` are out of
the prover's reach. For each of them a theorem above states what its argument needs
besides fairness: one step, or a decreasing number of steps, does the work.

## Not modelled, and the plan

What is left, by what it would show:

1. The input bridge of `GameStateAdapter` and `NativeInputInjection`: every held
   input is released. Reading it showed that it does not: a disconnect removes the
   shadow before the reset, so L3, Circle, Square and Triangle are never released,
   and so does `shutdownRuntime`, whose comment asks for the opposite; the reset
   forgets what it holds even if the publication failed
   (`GameStateAdapter.cpp:3617`); a pulse whose publication fails leaves a press
   without its release. What such an event does is decided inside the game.
2. The queue of finite haptic commands and the finite voices: bounded queues whose
   music counterpart is in `MusicHaptics`.
3. `SettingsService`: load, staged changes, save, and a save that fails half way.
4. The weapon jobs of `WeaponAudioPipeline` and the prepared caches, remote voice and
   UI speaker: bounded queues and filters of finite cues.
5. The land-vehicle gates and probes: latches of one thread.
6. The shutdown order of the plugin, the light-bar start-up of the Bluetooth HID
   backend.

Of the music haptics, the envelopes and the ducking of the mixer are data that no
property reads, and the clean-up at shutdown is left out.

Worth proving next: what the exceptions cost, for instance that with `Concurrent` a
lost stop is the only way to a transition felt without one; that `crossed` ends with
the next composition; that `NoStaleVoice` fails only for an id authorised again.

Out of reach or out of interest: the Wwise and Vorbis decoders (formats, no
protocol), HID report layout, code patching inside the game, the discovery
probes that only log.
