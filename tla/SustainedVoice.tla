---------------------------- MODULE SustainedVoice ----------------------------
(***************************************************************************)
(* The looping controller-speaker voice from the game events that allow it *)
(* to the mixers that play it: WeaponSpeakerPlayback (which weapon loop is *)
(* authorised), the land-vehicle engine and thrust loop of Plugin.cpp, the *)
(* gates of ControllerSpeakerManager, and the backend of SpeakerBackend.   *)
(*                                                                         *)
(* One action is one call that holds playback._mutex, the rover mutex or   *)
(* the manager's _stateMutex from its first read to its last write; the    *)
(* render workers, the link and the two invalidation callbacks (lost and   *)
(* direct: reported by a thread, not yet past playback._mutex) come in     *)
(* between.  Threads that block each other are the subject of SpeakerLocks.*)
(***************************************************************************)
EXTENDS SpeakerBackend

CONSTANTS
  Menus,           \* blocking menus that open and close
  LiveSettings,    \* settings the menu thread may apply
  SessionLinks,    \* links the controller uses during the session
  RoverDriven,     \* TRUE when the player drives a land vehicle
  BoostpackClears, \* TRUE when boostpack feedback is configured
  StartResults,    \* outcomes of starting a worker thread
  WorkerFaults     \* TRUE: an exception may end a render worker

ASSUME MenusAssumption == "LoadingMenu" \in Menus
ASSUME LinksAssumption == SessionLinks \subseteq Links /\ SessionLinks # {}
ASSUME FlagsAssumption ==
  /\ {RoverDriven, BoostpackClears, WorkerFaults} \subseteq BOOLEAN
  /\ StartResults \subseteq BOOLEAN /\ StartResults # {}

\* The live settings that decide about a loop: the master switch, the two
\* categories, and policy, which stands for output mode, comms and language.
Settings == [speaker : BOOLEAN, weapons : BOOLEAN, vehicle : BOOLEAN, policy : {0, 1}]
ASSUME SettingsAssumption == LiveSettings \subseteq Settings /\ LiveSettings # {}

VARIABLES
  pb,       \* WeaponSpeakerPlayback's members
  be,       \* the backend record
  phase,    \* ControllerSpeakerManager: "loading", "started" or "quit"
  live,     \* ControllerSpeakerManager::_live
  link,     \* g_controller->bluetoothTransport(), as a link
  rover,    \* what the vehicle speaker believes it plays
  driving,  \* LandVehicleMotionState::authorityActive
  lost,     \* the WASAPI worker waits to report EndpointInvalidated
  direct    \* the boostpack path waits to report BackendStop

vars == <<pb, be, phase, live, link, rover, driving, lost, direct>>

Profiles == {"none", "finite", "sustained"}

Playbacks ==
  [ profile    : Profiles,                 \* _activeProfile
    auth       : BOOLEAN,                  \* _sustainedAuthorized
    activeGen  : Gens \cup {None},         \* _activeSustainedGeneration
    releaseGen : Gens \cup {None},         \* _releasePendingGeneration
    nextGen    : 1..(MaxGen + 1),          \* _nextSustainedGeneration
    pilot      : BOOLEAN,                  \* _shipPilotActive
    vehicle    : BOOLEAN,                  \* _landVehicleContextActive
    suppressed : BOOLEAN,                  \* _shipContextSuppressed
    paused     : BOOLEAN,                  \* _gamePaused
    menus      : SUBSET Menus ]            \* _blockingMenuMask

Init ==
  /\ pb = [ profile |-> "none", auth |-> FALSE, activeGen |-> None, releaseGen |-> None,
            nextGen |-> 1, pilot |-> FALSE, vehicle |-> FALSE, suppressed |-> FALSE,
            paused |-> FALSE, menus |-> {} ]
  /\ be = InitialBackend
  /\ phase = "loading"
  /\ live \in LiveSettings
  /\ link \in SessionLinks
  /\ rover = "off"
  /\ driving = FALSE
  /\ lost = FALSE
  /\ direct = FALSE

-------------------------------------------------------------------------------
(* Calls from the playback into the manager, made with playback._mutex     *)
(* held.                                                                   *)

\* Mutant: "no generation" written as the rover's sentinel.
RevokeToRover(p) == [p EXCEPT !.auth = FALSE, !.activeGen = Rover, !.releaseGen = None]

\* observeBackendInvalidation: everything is forgotten, the backend not told.
Revoke(p) == [p EXCEPT !.auth = FALSE, !.activeGen = None, !.releaseGen = None]

\* A switch off the wired side inside a playback call reports to the thread
\* that already holds playback._mutex.  Locking a std::mutex twice is
\* undefined: the report is seen, or the exception it throws swallows it.
SelfReport(p, b) == IF SwitchReports(b, link) THEN {p, Revoke(p)} ELSE {p}

\* A switch that joins the worker waits for the worker's callback to return.
MaySync(b) == lost /\ SwitchReports(b, link) => ~JoinsWorker(b)

\* setPersistentPreparedPcm on an active backend, the endpoint being lost or not
\* before the update is in the mailbox.
PostSet(b, owner) ==
  \E c \in Raced(b) : be' = SetPersistent(c, owner) /\ lost' = (lost \/ c # b)

\* ControllerSpeakerManager::active, and the gate of the calls below.
Synced(ok) == IF phase = "started" THEN Synchronize(be, link, ok) ELSE be
Open(b) == phase = "started" /\ Active(b)

\* Mutant: the generation is reset before it is handed to the backend.
AfterClearOfNone(b, owner, force) == IF Open(b) THEN ClearPersistent(b, None, force) ELSE b

\* clearPersistentCaptured: a backend that is not active is not told.
AfterClear(b, owner, force) == IF Open(b) THEN ClearPersistent(b, owner, force) ELSE b

\* clearSustained(reason, callBackend = true, force): next is what the handler
\* writes besides the revocation.
ClearSustained(next, force) ==
  /\ IF pb.activeGen # None
     THEN /\ MaySync(be)
          /\ \E ok \in StartResults :
               be' = AfterClear(Synced(ok), pb.activeGen, force)
     ELSE UNCHANGED be
  /\ pb' = Revoke(next)
  /\ UNCHANGED <<phase, live, link, rover, driving, lost, direct>>

\* A handler that only writes the playback's own members.
PlaybackOnly(next) ==
  /\ pb' = next
  /\ UNCHANGED <<be, phase, live, link, rover, driving, lost, direct>>

\* clearActiveProfileForContextChange
NewContext(p) == [p EXCEPT !.profile = "none", !.paused = FALSE, !.menus = {}]
-------------------------------------------------------------------------------
(* WeaponSpeakerPlayback::observeGameEvent.                                *)

\* ShipPilotEntered and ShipPilotResumed.
ShipPilotEntered ==
  ClearSustained([NewContext(pb) EXCEPT !.pilot = TRUE, !.vehicle = FALSE,
                                        !.suppressed = TRUE], TRUE)

ShipPilotInvalidated ==
  ClearSustained([NewContext(pb) EXCEPT !.pilot = FALSE, !.vehicle = FALSE,
                                        !.suppressed = TRUE], TRUE)

ShipPilotExited ==
  /\ pb.pilot
  /\ ClearSustained([NewContext(pb) EXCEPT !.pilot = FALSE, !.suppressed = pb.vehicle], TRUE)

LandVehicleContextEntered ==
  /\ ~pb.pilot
  /\ ClearSustained([NewContext(pb) EXCEPT !.vehicle = TRUE, !.suppressed = TRUE], TRUE)

LandVehicleContextExited ==
  /\ pb.vehicle
  /\ ClearSustained([NewContext(pb) EXCEPT !.vehicle = FALSE,
                       !.suppressed = IF pb.pilot THEN pb.suppressed ELSE FALSE], TRUE)

\* MenuClosed("LoadingMenu") after the context has gone ends the suppression.
SuppressionLifted ==
  /\ ~pb.pilot /\ ~pb.vehicle /\ pb.suppressed
  /\ PlaybackOnly([pb EXCEPT !.suppressed = FALSE])

WeaponEquipped(profile) ==
  /\ ~pb.suppressed
  /\ ClearSustained([pb EXCEPT !.profile = profile], FALSE)

\* Mutant: a pause that does not revoke the loop.
GamePausedKeepingLoop == ~pb.suppressed /\ PlaybackOnly([pb EXCEPT !.paused = TRUE])

GamePaused ==
  /\ ~pb.suppressed
  /\ ClearSustained([pb EXCEPT !.paused = TRUE], FALSE)

GameUnpaused ==
  /\ ~pb.suppressed /\ pb.paused
  /\ PlaybackOnly([pb EXCEPT !.paused = FALSE])

BlockingMenuOpened(menu) ==
  /\ ~pb.suppressed
  /\ ClearSustained([pb EXCEPT !.menus = pb.menus \cup {menu}], FALSE)

BlockingMenuClosed(menu) ==
  /\ ~pb.suppressed /\ menu \in pb.menus
  /\ PlaybackOnly([pb EXCEPT !.menus = pb.menus \ {menu}])

Shutdown ==
  ClearSustained([pb EXCEPT !.pilot = FALSE, !.vehicle = FALSE, !.suppressed = FALSE,
                            !.profile = "none"], TRUE)

-------------------------------------------------------------------------------
(* observeWwise, finite submissions and observeRightTrigger.               *)

\* startSustained: the generation is consumed even when the backend refuses;
\* a second start while authorised changes nothing.
WwiseStart ==
  /\ ~pb.suppressed /\ pb.profile = "sustained"
  /\ ~pb.paused /\ pb.menus = {}
  /\ ~(pb.auth /\ pb.activeGen # None)
  /\ pb.nextGen <= MaxGen
  /\ MaySync(be)
  /\ \E ok \in StartResults :
       LET b == Synced(ok)
           g == pb.nextGen
       IN  IF Open(b) /\ live.speaker /\ live.weapons
           THEN /\ PostSet(b, g)
                /\ pb' = [pb EXCEPT !.auth = TRUE, !.activeGen = g, !.releaseGen = g,
                                    !.nextGen = g + 1]
           ELSE /\ be' = b
                /\ \E p \in SelfReport(pb, be) : pb' = [p EXCEPT !.nextGen = g + 1]
                /\ UNCHANGED lost
  /\ UNCHANGED <<phase, live, link, rover, driving, direct>>

\* stopSustainedWwise: the loop is cleared and the release transient, which a
\* released trigger leaves pending, is used up.
WwiseStop ==
  /\ ~pb.suppressed /\ pb.profile = "sustained"
  /\ pb.auth \/ pb.releaseGen # None
  /\ MaySync(be)
  /\ \E ok \in StartResults :
       be' = IF pb.activeGen # None THEN AfterClear(Synced(ok), pb.activeGen, FALSE)
             ELSE Synced(ok)
  /\ pb' = Revoke(pb)
  /\ UNCHANGED <<phase, live, link, rover, driving, lost, direct>>

\* A finite cue submitted under playback._mutex: it synchronizes the backend.
FiniteCue ==
  /\ ~pb.suppressed /\ pb.profile # "none"
  /\ SwitchReports(be, link) /\ phase = "started" /\ MaySync(be)
  /\ \E ok \in StartResults : be' = Synced(ok)
  /\ pb' \in SelfReport(pb, be)
  /\ UNCHANGED <<phase, live, link, rover, driving, lost, direct>>

\* observeRightTrigger with r2 <= 12; _releasePendingGeneration stays.
RightTriggerReleased ==
  /\ ~pb.suppressed /\ pb.auth /\ pb.activeGen # None
  /\ MaySync(be)
  /\ \E ok \in StartResults : be' = AfterClear(Synced(ok), pb.activeGen, FALSE)
  /\ \E p \in SelfReport(pb, be) : pb' = [p EXCEPT !.auth = FALSE, !.activeGen = None]
  /\ UNCHANGED <<phase, live, link, rover, driving, lost, direct>>

(* observeBackendInvalidation, once the reporting thread gets the mutex.   *)

ReportEndpointInvalidated ==
  /\ lost
  /\ lost' = FALSE
  /\ pb' = Revoke(pb)
  /\ UNCHANGED <<be, phase, live, link, rover, driving, direct>>

ReportDirectStop ==
  /\ direct
  /\ direct' = FALSE
  /\ pb' = Revoke(pb)
  /\ UNCHANGED <<be, phase, live, link, rover, driving, lost>>
-------------------------------------------------------------------------------
(* ControllerSpeakerManager, called without playback._mutex: its reports   *)
(* take that mutex and return within the call.                             *)

Reported(reports) == pb' = IF reports THEN Revoke(pb) ELSE pb

ManagerStart ==
  /\ phase = "loading"
  /\ phase' = "started"
  /\ IF live.speaker
     THEN \E ok \in StartResults : be' = StartDual(be, link, ok)
     ELSE UNCHANGED be
  /\ UNCHANGED <<pb, live, link, rover, driving, lost, direct>>

\* Stopping is skipped when the backend is not active at that moment.
StopIfActive(b) == IF Active(b) THEN StopDual(b) ELSE b

\* stop(), from shutdownRuntime.
ManagerStop ==
  /\ phase = "started"
  /\ phase' = "quit"
  /\ MaySync(be)
  /\ \E ok \in StartResults :
       LET b == Synchronize(be, link, ok)
       IN  /\ be' = StopIfActive(b)
           /\ Reported(SwitchReports(be, link) \/ (Active(b) /\ StopReports(b)))
  /\ UNCHANGED <<live, link, rover, driving, lost, direct>>

\* applyLiveSettings before start() and for changes that touch no backend.
StoreSettings(next) ==
  /\ next # live
  /\ \/ phase # "started"
     \/ next.speaker = live.speaker /\ (next.policy = live.policy \/ ~live.speaker)
  /\ live' = next
  /\ UNCHANGED <<pb, be, phase, link, rover, driving, lost, direct>>

DisableSpeaker(next) ==
  /\ phase = "started" /\ live.speaker /\ ~next.speaker
  /\ live' = next
  /\ MaySync(be)
  /\ \E ok \in StartResults :
       LET b == Synchronize(be, link, ok)
       IN  /\ be' = StopIfActive(b)
           /\ Reported(SwitchReports(be, link) \/ (Active(b) /\ StopReports(b)))
  /\ UNCHANGED <<phase, link, rover, driving, lost, direct>>

EnableSpeaker(next) ==
  /\ phase = "started" /\ ~live.speaker /\ next.speaker
  /\ live' = next
  /\ \E ok \in StartResults : be' = StartDual(be, link, ok)
  /\ UNCHANGED <<pb, phase, link, rover, driving, lost, direct>>

\* A new output mode, comms or language setting clears what is playing.
ChangePolicy(next) ==
  /\ phase = "started" /\ live.speaker /\ next.speaker /\ next.policy # live.policy
  /\ live' = next
  /\ be' = ClearPlayback(be)
  /\ Reported(TRUE)
  /\ UNCHANGED <<phase, link, rover, driving, lost, direct>>

\* active() and the finite submissions of other threads.
Poll ==
  /\ phase = "started" /\ Switches(be, link) /\ MaySync(be)
  /\ \E ok \in StartResults : be' = Synchronize(be, link, ok)
  /\ Reported(SwitchReports(be, link))
  /\ UNCHANGED <<phase, live, link, rover, driving, lost, direct>>

\* setBoostpackProductionContextEligible(false) while feedback is active:
\* clearSpeakerPlayback on the transport itself, past the manager's mutex.
BoostpackClear ==
  /\ BoostpackClears /\ ~direct
  /\ be' = ClearSpeakerState(be)
  /\ direct' = TRUE
  /\ UNCHANGED <<pb, phase, live, link, rover, driving, lost>>
-------------------------------------------------------------------------------
(* The land-vehicle engine and thrust loops, under g_landVehicleSpeakerMutex. *)

Thrusts == {"forward", "vertical"}

VehicleOn == live.speaker /\ live.vehicle

\* A submission of the rover's loop: believed is what it writes on success.
RoverSet(believed) ==
  /\ MaySync(be)
  /\ \E ok \in StartResults :
       LET b == Synced(ok)
       IN  IF Open(b) /\ VehicleOn
           THEN PostSet(b, Rover) /\ rover' = believed
           ELSE be' = b /\ UNCHANGED <<rover, lost>>
  /\ Reported(phase = "started" /\ SwitchReports(be, link))
  /\ UNCHANGED <<phase, live, link, driving, direct>>

RoverClear ==
  /\ MaySync(be)
  /\ \E ok \in StartResults : be' = AfterClear(Synced(ok), Rover, FALSE)
  /\ rover' = "off"
  /\ Reported(phase = "started" /\ SwitchReports(be, link))
  /\ UNCHANGED <<phase, live, link, driving, lost, direct>>

\* updateLandVehicleEngineSpeaker: a new band; thrust has priority.
RoverEngine == driving /\ VehicleOn /\ rover \in {"off", "engine"} /\ RoverSet("engine")

\* observeLandVehicleThrustSpeaker, which the correlation arms and not the
\* authority; a stop of the other kind is not this loop's.
RoverThrustStart(kind) == RoverDriven /\ VehicleOn /\ rover # kind /\ RoverSet(kind)

RoverThrustStop(kind) == VehicleOn /\ rover = kind /\ RoverClear

\* stopLandVehicleEngineSpeaker, on a tick without authority, on the exit event
\* and at shutdown: only an engine band is cleared, because starting a thrust
\* has set the band to -1.
RoverStopEngine == rover = "engine" /\ RoverClear

RoverStopThrust ==
  /\ rover \in Thrusts
  /\ rover' = "off"
  /\ UNCHANGED <<pb, be, phase, live, link, driving, lost, direct>>

\* updateLandVehicleReconState acquires and releases the authority.
VehicleAuthority ==
  /\ RoverDriven
  /\ driving' = ~driving
  /\ UNCHANGED <<pb, be, phase, live, link, rover, lost, direct>>

-------------------------------------------------------------------------------
(* The render workers and the link.                                        *)

Render ==
  /\ be.endpoint /\ be.pending # NoUpdate
  /\ be' = RenderBlock(be)
  /\ UNCHANGED <<pb, phase, live, link, rover, driving, lost, direct>>

OpenEndpoint ==
  /\ be.worker /\ ~be.endpoint /\ ~lost
  /\ be' = EndpointOpen(be)
  /\ UNCHANGED <<pb, phase, live, link, rover, driving, lost, direct>>

LoseEndpoint ==
  /\ be.endpoint
  /\ be' = EndpointLost(be)
  /\ lost' = TRUE
  /\ UNCHANGED <<pb, phase, live, link, rover, driving, direct>>

\* threadMain's catch or a COM failure: no report, and the clients stay registered.
WiredWorkerFails ==
  /\ WorkerFaults /\ be.worker /\ ~lost
  /\ be' = [EndpointLost(be) EXCEPT !.worker = FALSE]
  /\ UNCHANGED <<pb, phase, live, link, rover, driving, lost, direct>>

BluetoothConnect ==
  /\ be.btWorker /\ ~be.btUp /\ link = "bluetooth"
  /\ be' = [be EXCEPT !.btUp = TRUE]
  /\ UNCHANGED <<pb, phase, live, link, rover, driving, lost, direct>>

\* A failed write closes the handle; the mixer keeps its voices.
BluetoothWriteFails ==
  /\ be.btUp
  /\ be' = [be EXCEPT !.btUp = FALSE]
  /\ UNCHANGED <<pb, phase, live, link, rover, driving, lost, direct>>

\* workerMain's catch: the thread ends, running stays set.
BluetoothWorkerFails ==
  /\ WorkerFaults /\ be.btWorker
  /\ be' = [be EXCEPT !.btUp = FALSE, !.btWorker = FALSE]
  /\ UNCHANGED <<pb, phase, live, link, rover, driving, lost, direct>>

ChangeLink ==
  /\ link' \in SessionLinks \ {link}
  /\ UNCHANGED <<pb, be, phase, live, rover, driving, lost, direct>>
-------------------------------------------------------------------------------
PlaybackStep ==
  \/ ShipPilotEntered \/ ShipPilotInvalidated \/ ShipPilotExited
  \/ LandVehicleContextEntered \/ LandVehicleContextExited \/ SuppressionLifted
  \/ \E profile \in Profiles : WeaponEquipped(profile)
  \/ GamePaused \/ GameUnpaused
  \/ \E menu \in Menus : BlockingMenuOpened(menu) \/ BlockingMenuClosed(menu)
  \/ Shutdown \/ WwiseStart \/ WwiseStop \/ FiniteCue \/ RightTriggerReleased
  \/ ReportEndpointInvalidated \/ ReportDirectStop

ManagerStep ==
  \/ ManagerStart \/ ManagerStop \/ Poll \/ BoostpackClear
  \/ \E next \in LiveSettings :
       StoreSettings(next) \/ DisableSpeaker(next) \/ EnableSpeaker(next) \/ ChangePolicy(next)

RoverStep ==
  \/ RoverEngine \/ RoverStopEngine \/ RoverStopThrust \/ VehicleAuthority
  \/ \E kind \in Thrusts : RoverThrustStart(kind) \/ RoverThrustStop(kind)

WorkerStep ==
  \/ Render \/ OpenEndpoint \/ LoseEndpoint \/ WiredWorkerFails
  \/ BluetoothConnect \/ BluetoothWriteFails \/ BluetoothWorkerFails \/ ChangeLink

Next == PlaybackStep \/ ManagerStep \/ RoverStep \/ WorkerStep

Spec == Init /\ [][Next]_vars

\* WASAPI signals the render event every period while the endpoint is open, and
\* renderOneBlock takes only mutexes that are never held across a wait.
LiveSpec == Spec /\ WF_vars(Render)
-------------------------------------------------------------------------------
TypeOK ==
  /\ pb \in Playbacks
  /\ be \in Backends
  /\ phase \in {"loading", "started", "quit"}
  /\ live \in LiveSettings
  /\ link \in SessionLinks
  /\ rover \in {"off", "engine"} \cup Thrusts
  /\ driving \in BOOLEAN
  /\ lost \in BOOLEAN
  /\ direct \in BOOLEAN

\* A pause, a blocking menu, a ship or a vehicle leaves no weapon loop
\* authorised, however the context was entered (observeGameEvent).
NoAuthorityWhileBlocked ==
  pb.suppressed \/ pb.paused \/ pb.menus # {} => ~pb.auth

\* The side the backend does not use holds no loop, in its mixer or waiting in
\* its mailbox, so a link change never leaves two loops (synchronizeTransport).
OneTransportHoldsVoice ==
  /\ be.transport # "bluetooth" => be.btMixer = None
  /\ be.transport # "wired" => be.mixer = None /\ be.pending.kind # "set"

\* The backend plays a weapon loop, or will with its next block, that the
\* playback does not authorise.
Orphan == Sounding(be) \in Gens /\ ~(pb.auth /\ pb.activeGen = Sounding(be))

\* The one-place mailbox is written over before a block took it, with a clear
\* that does not mean the loop in the mixer (clearPersistentPreparedPcm).
ClearOverwritten ==
  /\ be.transport = "wired" /\ be.pending # NoUpdate
  /\ be'.mixer = be.mixer
  /\ be'.pending.kind = "clear" /\ ~be'.pending.force /\ be'.pending.owner # be.mixer

\* A loop loses its authority without being told to stop in three ways only: the
\* mailbox is written over, Bluetooth has no open handle to hear the clear, or a
\* report that waited for playback._mutex is about another loop.
NoOrphanLoop ==
  [][ Orphan' /\ ~Orphan =>
        \/ ClearOverwritten
        \/ be.transport = "bluetooth" /\ ~Open(be)
        \/ direct /\ ~direct'
        \/ be.transport = "bluetooth" /\ lost /\ ~lost' ]_vars

\* While a loop is authorised the backend plays it or a report that revokes it
\* is on its way: an authority nobody plays would refuse the next Loop_Play.
NoPhantomAuthority ==
  pb.auth => \/ Sounding(be) = pb.activeGen
             \/ lost
             \/ direct

\* Seen from the wired mixer the voice implements LoopAuthority: a loop begins
\* only while it is authorised and never comes back after a menu, an equip or a
\* reconnect has revoked it.
Loop == INSTANCE LoopAuthority
          WITH wanted <- IF pb.auth THEN pb.activeGen ELSE None,
               heard  <- IF be.mixer \in Gens THEN be.mixer ELSE None,
               issued <- pb.nextGen - 1

ImplementsLoopAuthority == Loop!Spec

\* Once its authority is gone a weapon loop falls silent, unless the clear that
\* waits for the next block was written over and the loop is an orphan.
EventuallySilent == ~pb.auth ~> (Audible(be) \notin Gens \/ pb.auth \/ Orphan)

\* The rover believes it is silent only when its loop is out of the mixer.  Not
\* kept by the code after a thrust.
RoverSilentWhenOff == rover = "off" => Sounding(be) # Rover

\* The master switch silences every category.
DisabledIsSilent == phase = "started" /\ ~live.speaker => Audible(be) = None

\* A reconnected endpoint starts without a loop: what played before a lost link
\* must not come back with it (closeController, teardownTransport).
ReconnectStartsSilent ==
  [][/\ ~be.btUp /\ be'.btUp => be'.btMixer = None
     /\ ~be.endpoint /\ be'.endpoint => be'.mixer = None]_vars
=============================================================================
