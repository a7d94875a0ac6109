---------------------------- MODULE SpeakerBackend ----------------------------
(***************************************************************************)
(* The controller-speaker output stack below ControllerSpeakerManager, as  *)
(* functions on one record: DualModeSpeakerBackend chooses between the     *)
(* wired client of DualSenseAudioTransport (WASAPI) and                    *)
(* BluetoothSpeakerBackend (Opus over HID).  Only the persistent (looping) *)
(* voice is kept; finite voices end by themselves.                         *)
(*                                                                         *)
(* Every caller of these functions holds the manager's _stateMutex, so     *)
(* each is one step with respect to the other callers; the two render      *)
(* workers interleave through EndpointOpen ... Disconnect at the end.      *)
(***************************************************************************)
EXTENDS Integers

CONSTANTS
  MaxGen,          \* bound on the sustained generations a behaviour issues
  HapticsClient    \* TRUE when the haptics client also keeps the WASAPI worker

ASSUME MaxGenAssumption == MaxGen \in Nat \ {0}
ASSUME HapticsClientAssumption == HapticsClient \in BOOLEAN

None  == 0             \* owner 0 is "no voice" in SpeakerMixer
Rover == -1            \* kRoverEngineSpeakerOwner, equal to no generation
Gens  == 1..MaxGen     \* WeaponSpeakerPlayback's generations
Owners == Gens \cup {Rover}

Links == {"wired", "bluetooth"}

\* The one-place mailbox pendingPersistent of DualSenseAudioTransport::Impl.
NoUpdate == [kind |-> "none", owner |-> None, force |-> FALSE]
Updates  == {NoUpdate} \cup [kind : {"set", "clear"}, owner : Owners, force : BOOLEAN]

Backends ==
  [ started   : BOOLEAN,                  \* DualModeSpeakerBackend::_started
    transport : Links \cup {"none"},      \* DualModeSpeakerBackend::_transport
    client    : BOOLEAN,                  \* the wired speaker client is registered
    worker    : BOOLEAN,                  \* the WASAPI worker thread is alive
    endpoint  : BOOLEAN,                  \* transportActive
    pending   : Updates,                  \* pendingPersistent
    mixer     : Owners \cup {None},       \* wired SpeakerMixer::_persistent
    btRunning : BOOLEAN,                  \* BluetoothSpeakerBackend running flag
    btWorker  : BOOLEAN,                  \* its worker thread is alive
    btUp      : BOOLEAN,                  \* available: the HID handle is open
    btMixer   : Owners \cup {None} ]      \* Bluetooth SpeakerMixer::_persistent

InitialBackend ==
  [ started |-> FALSE, transport |-> "none", client |-> FALSE,
    worker |-> HapticsClient, endpoint |-> FALSE, pending |-> NoUpdate,
    mixer |-> None, btRunning |-> FALSE, btWorker |-> FALSE, btUp |-> FALSE,
    btMixer |-> None ]

-------------------------------------------------------------------------------
(* DualSenseAudioTransport: the wired side.                                *)

ClearSpeakerState(b) == [b EXCEPT !.pending = NoUpdate, !.mixer = None]

\* stopSpeakerClient; the last client to leave joins the worker, whose teardown
\* drops the endpoint.
StopWired(b) ==
  IF b.client
  THEN [b EXCEPT !.pending = NoUpdate, !.mixer = None, !.client = FALSE,
                 !.worker = b.worker /\ HapticsClient,
                 !.endpoint = b.endpoint /\ HapticsClient]
  ELSE b

\* startSpeakerClient; ok = FALSE is startWorker throwing, which only a
\* transport without clients can do and which takes the client back.
StartWired(b, ok) ==
  CASE b.client \/ HapticsClient -> [b EXCEPT !.client = TRUE, !.transport = "wired"]
    [] ~(b.client \/ HapticsClient) /\ ok ->
         [b EXCEPT !.client = TRUE, !.transport = "wired", !.worker = TRUE]
    [] OTHER -> [b EXCEPT !.transport = "none"]

(* BluetoothSpeakerBackend.                                                *)

ClearBluetooth(b) == [b EXCEPT !.btMixer = None]

StopBluetooth(b) ==
  IF b.btRunning
  THEN [b EXCEPT !.btRunning = FALSE, !.btWorker = FALSE, !.btUp = FALSE, !.btMixer = None]
  ELSE b

\* start(); ok = FALSE is std::thread throwing after running was set.
StartBluetooth(b, ok) ==
  IF b.btRunning
  THEN [b EXCEPT !.transport = "bluetooth"]
  ELSE [b EXCEPT !.btRunning = TRUE, !.btWorker = ok,
                 !.transport = IF ok THEN "bluetooth" ELSE "none"]

-------------------------------------------------------------------------------
(* DualModeSpeakerBackend.                                                 *)

LeaveTransport(b) ==
  CASE b.transport = "wired"     -> StopWired(ClearSpeakerState(b))
    [] b.transport = "bluetooth" -> StopBluetooth(ClearBluetooth(b))
    [] OTHER                     -> b

EnterTransport(b, link, ok) ==
  IF link = "wired" THEN StartWired(b, ok) ELSE StartBluetooth(b, ok)

Switches(b, link) == b.started /\ b.transport # link

\* synchronizeTransport, run by every call into the backend, active() included.
Synchronize(b, link, ok) ==
  IF Switches(b, link) THEN EnterTransport(LeaveTransport(b), link, ok) ELSE b

StartDual(b, link, ok) ==
  IF b.started THEN b
  ELSE Synchronize([b EXCEPT !.started = TRUE, !.transport = "none"], link, ok)

StopDual(b) ==
  IF b.started
  THEN [StopBluetooth(StopWired(b)) EXCEPT !.transport = "none", !.started = FALSE]
  ELSE b

ClearPlayback(b) == ClearBluetooth(ClearSpeakerState(b))

\* active() of the selected backend; call it on a synchronized record.
Active(b) ==
  \/ b.transport = "wired" /\ b.client /\ b.endpoint
  \/ b.transport = "bluetooth" /\ b.btRunning /\ b.btUp

\* setPersistentPreparedPcm and clearPersistentPreparedPcm on an active backend.
SetPersistent(b, owner) ==
  IF b.transport = "wired"
  THEN [b EXCEPT !.pending = [kind |-> "set", owner |-> owner, force |-> FALSE]]
  ELSE [b EXCEPT !.btMixer = owner]

ClearPersistent(b, owner, force) ==
  IF b.transport = "wired"
  THEN [b EXCEPT !.pending = [kind |-> "clear", owner |-> owner, force |-> force]]
  ELSE [b EXCEPT !.btMixer = IF force \/ b.btMixer = owner THEN None ELSE b.btMixer]

-------------------------------------------------------------------------------
(* The invalidation callback is registered on the wired transport only.    *)

\* clearSpeakerPlayback reports whether or not a client is registered, so
\* leaving the wired side always reports; leaving Bluetooth never does.
SwitchReports(b, link) == Switches(b, link) /\ b.transport = "wired"

\* Mutant: the Bluetooth side reports, the wired one does not.
StopReportsOnBluetooth(b) == b.started /\ b.btRunning

\* StopDual reports through stopSpeakerClient when a client was registered.
StopReports(b) == b.started /\ b.client

\* StopWired of the last client joins the worker thread.
JoinsWorker(b) == b.client /\ ~HapticsClient

-------------------------------------------------------------------------------
(* The render workers.                                                     *)

\* What the wired mixer holds once the worker has taken the mailbox.
AfterUpdate(b) ==
  CASE b.pending.kind = "set"   -> b.pending.owner
    [] b.pending.kind = "clear" ->
         IF b.pending.force \/ b.pending.owner = b.mixer THEN None ELSE b.mixer
    [] OTHER                    -> b.mixer

\* Mutant: the mailbox is read only when the voice before it has ended.
RenderIdleBlock(b) ==
  IF b.mixer = None THEN [b EXCEPT !.mixer = AfterUpdate(b), !.pending = NoUpdate] ELSE b

RenderBlock(b) == [b EXCEPT !.mixer = AfterUpdate(b), !.pending = NoUpdate]

\* Mutant: the endpoint opens with whatever the mailbox holds.
EndpointOpenAsIs(b) == [b EXCEPT !.endpoint = TRUE]

\* initializeSelected: its own teardown first, then transportActive.
EndpointOpen(b) == [ClearSpeakerState(b) EXCEPT !.endpoint = TRUE]

\* teardownTransport(true) after a render or device failure.
EndpointLost(b) == [ClearSpeakerState(b) EXCEPT !.endpoint = FALSE]

\* The worker may tear the endpoint down between the check of active() and the
\* write of the mailbox, which clientMutex and speakerQueueMutex do not span.
Raced(b) == IF b.transport = "wired" /\ b.endpoint THEN {b, EndpointLost(b)} ELSE {b}

\* The voice the selected side plays, or will play after its next block; what a
\* closed endpoint has in its mailbox is cleared before the endpoint opens.
Sounding(b) ==
  CASE b.transport = "bluetooth"                -> b.btMixer
    [] b.transport # "bluetooth" /\ b.endpoint -> AfterUpdate(b)
    [] OTHER                                    -> None

\* A loop leaves the speaker now: only an open endpoint renders.
Audible(b) ==
  CASE b.endpoint /\ b.mixer # None -> b.mixer
    [] b.btUp /\ b.btMixer # None   -> b.btMixer
    [] OTHER                        -> None
=============================================================================
