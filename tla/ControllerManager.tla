--------------------------- MODULE ControllerManager ---------------------------
(***************************************************************************)
(* The controller worker: ControllerManager::run owns the HID handle,      *)
(* connects over USB or Bluetooth, writes outputs and rumble, polls input, *)
(* powers an idle controller off and reconnects.  Around it, on threads of *)
(* their own: the haptics engine stores Bluetooth rumble, the settings menu*)
(* switches speaker routing, the game enqueues events, the plugin starts   *)
(* and stops the manager.  The native backends below the worker are called *)
(* by it alone, so each call is part of a worker step.                     *)
(*                                                                         *)
(* A worker step is what no other thread can divide: the callers look at   *)
(* the flags in one step and store under the mutex in a later one, so that *)
(* the worker's own adjoining stores need not be apart.  Times are choices:*)
(* a deadline has passed or it has not.  Left out are gestures, battery and*)
(* the adaptive trigger's view of R2, which nothing below depends on, and  *)
(* the repeated writes of an unchanged output after a reconnect.           *)
(***************************************************************************)
EXTENDS Integers

CONSTANTS
  Clients,         \* which callers and faults there are, one choice per behaviour
  Outputs,         \* what the effects engine may want the controller to show
  Neutral,         \* OutputState{}
  Unknown,         \* no such output
  Capacity,        \* of EventQueue
  MaxConnections,  \* bound on the connections of a behaviour
  MaxToggles       \* bound on the changes of the routing setting

ASSUME ClientsAssumption ==
  Clients \subseteq SUBSET {"pulse", "continuous", "speaker", "game", "observer", "fault"}
ASSUME OutputsAssumption == Neutral \in Outputs /\ Unknown \notin Outputs
ASSUME BoundsAssumption ==
  Capacity \in Nat \ {0} /\ MaxConnections \in Nat /\ MaxToggles \in Nat

None == "none"
\* A rumble request carries the connection that was open when it was stored, or
\* 0; two requests of one connection are not told apart.
Requests == {{}} \cup {{c} : c \in 0..MaxConnections}

VARIABLES
  mode, clients,                            \* fixed for a behaviour
  running, stopRequested, refusing, queue,  \* _running, _stopRequested, _events
  owner,                                    \* where stop() stands
  connected, bluetooth,                     \* _connected, _bluetoothTransport
  wantRouting, routingGen, router,          \* _desiredSpeakerRouting, its generation, the setter
  pulse, pulseNew, continuous, haptics,     \* rumble requests and their caller
  latest,                                   \* connection _latestInputState came from
  pc,                                       \* where the worker stands
  wanted, applied, changed,                 \* effects output, lastApplied, stateChanged
  routed, routedGen, seen,                  \* applySpeakerRouting
  vibrating, motors,                        \* bluetoothRumbleActive, appliedBluetoothLeft/Right
  observed, trigger,                        \* haveObservedR2, what the observer was told last
  retry, rapid, intentional,                \* nextConnectAttempt, rapidReconnectUntil
  open, epoch, ended,                       \* HID handle, connections so far, how the last ended
  shown, stored,                            \* output last written, Impl::output
  told, loaded,                             \* rumble last written, Impl::rumbleLeft/Right
  usbRequested, usbActive                   \* speakerRoutingRequested, speakerRoutingActive

fixed     == <<mode, clients>>
lifecycle == <<running, stopRequested, refusing, owner>>
flags     == <<connected, bluetooth>>
routing   == <<wantRouting, routingGen, router>>
requests  == <<pulse, pulseNew, continuous>>
output    == <<wanted, applied, changed>>
route     == <<routed, routedGen, seen>>
rumble    == <<vibrating, motors>>
observer  == <<observed, trigger>>
policy    == <<retry, rapid, intentional>>
link      == <<open, epoch, ended>>
written   == <<shown, stored, told, loaded>>
usb       == <<usbRequested, usbActive>>
worker    == <<pc, output, route, rumble, observer, policy>>
device    == <<link, written, usb>>
vars == <<fixed, lifecycle, queue, flags, routing, requests, haptics, latest, worker, device>>

\* A manager that was constructed and not started.  The plugin builds the
\* backend without asking for speaker routing.
Init ==
  /\ mode \in {"Full", "PresenceOnly"} /\ clients \in Clients
  /\ running = FALSE /\ stopRequested = FALSE /\ refusing = FALSE /\ queue = 0
  /\ owner = "idle"
  /\ connected = FALSE /\ bluetooth = FALSE
  /\ wantRouting \in BOOLEAN /\ routingGen = 0 /\ router = "idle"
  /\ pulse = {} /\ pulseNew = FALSE /\ continuous = {} /\ haptics = "idle"
  /\ latest = {}
  /\ pc = "none"
  /\ wanted = Neutral /\ applied = Unknown /\ changed = FALSE
  /\ routed = FALSE /\ routedGen = 0 /\ seen = 0
  /\ vibrating = FALSE /\ motors = {}
  /\ observed = FALSE /\ trigger = "released"
  /\ retry = "now" /\ rapid = FALSE /\ intentional = FALSE
  /\ open = None /\ epoch = 0 /\ ended = "none"
  /\ shown = Unknown /\ stored = Neutral /\ told = {} /\ loaded = {}
  /\ usbRequested = FALSE /\ usbActive = FALSE

-------------------------------------------------------------------------------
(* The native backends.                                                    *)

\* markDisconnected; speakerRoutingRequested survives it.
Close(how) ==
  /\ open' = None /\ ended' = how /\ UNCHANGED epoch
  /\ shown' = Unknown /\ stored' = Neutral /\ told' = {} /\ loaded' = {}
  /\ usbActive' = FALSE /\ UNCHANGED usbRequested

\* NativeDualSenseBackend::connect; USB asks for the speaker at once when it
\* was asked to before.
Open(transport) ==
  /\ epoch < MaxConnections
  /\ open' = transport /\ epoch' = epoch + 1 /\ ended' = "none"
  /\ shown' = Unknown /\ stored' = Neutral /\ told' = {} /\ loaded' = {}
  /\ usbActive' \in (IF transport = "usb" /\ usbRequested THEN BOOLEAN ELSE {FALSE})
  /\ UNCHANGED usbRequested

\* writeReport with everything the backend holds: it arrives, or it is never
\* sent because no event could be created, or it fails and closes the handle.
\* A report without rumble leaves the motors as they are, unless forced.  USB
\* stores an output only once its light-bar report is out.
WriteArrives(out, motorsOut, forced) ==
  /\ shown' = out /\ stored' = out /\ loaded' = motorsOut
  /\ told' = IF forced \/ motorsOut # {} THEN motorsOut ELSE told
  /\ UNCHANGED <<link, usb>>
WriteNotSent(out, motorsOut) ==
  /\ stored' \in (IF open = "usb" THEN {out, stored} ELSE {out})
  /\ loaded' = motorsOut
  /\ UNCHANGED <<link, usb, shown, told>>
WriteFails == Close("lost")

\* NativeUsbBackend::setControllerSpeakerRoutingEnabled; a failing route report
\* does not close the handle.  Bluetooth has no such route.
SetRouting(on) ==
  \/ open = "usb" /\ usbRequested = on /\ (on => usbActive) /\ UNCHANGED usb
  \/ /\ open = "usb" /\ ~(usbRequested = on /\ (on => usbActive))
     /\ usbRequested' = on /\ usbActive' \in {FALSE, on}
  \/ open # "usb" /\ UNCHANGED usb

-------------------------------------------------------------------------------
(* The callers.                                                            *)

Start ==
  /\ owner = "idle" /\ ~running /\ pc \in {"none", "done", "failed"}
  /\ running' = TRUE /\ stopRequested' = FALSE
  /\ pc' = IF mode = "Full" THEN "loop" ELSE "presence"
  /\ wanted' = Neutral /\ applied' = Unknown /\ changed' = FALSE
  /\ routed' = FALSE /\ routedGen' = 0 /\ seen' = 0
  /\ vibrating' = FALSE /\ motors' = {}
  /\ observed' = FALSE /\ UNCHANGED trigger
  /\ retry' = "now" /\ rapid' = FALSE /\ intentional' = FALSE
  /\ usbRequested' = FALSE /\ UNCHANGED usbActive
  /\ UNCHANGED <<fixed, refusing, owner, queue, flags, routing, requests, haptics, latest, link, written>>

StopRequest ==
  /\ owner = "idle" /\ running
  /\ stopRequested' = TRUE /\ owner' = "requested"
  /\ UNCHANGED <<fixed, running, refusing, queue, flags, routing, requests, haptics, latest, worker, device>>

\* Mutant: the queue goes on taking events.
StopEventsNot ==
  /\ owner = "requested"
  /\ owner' = "joining"
  /\ UNCHANGED <<fixed, running, stopRequested, refusing, queue, flags, routing, requests, haptics, latest, worker, device>>

\* EventQueue::stop
StopEvents ==
  /\ owner = "requested"
  /\ refusing' = TRUE /\ owner' = "joining"
  /\ UNCHANGED <<fixed, running, stopRequested, queue, flags, routing, requests, haptics, latest, worker, device>>

StopJoin ==
  /\ owner = "joining" /\ pc \in {"done", "failed"}
  /\ pulse' = {} /\ continuous' = {} /\ pulseNew' = TRUE
  /\ latest' = {} /\ connected' = FALSE /\ bluetooth' = FALSE
  /\ running' = FALSE /\ owner' = "idle"
  /\ UNCHANGED <<fixed, stopRequested, refusing, queue, routing, haptics, worker, device>>

\* Mutant: one event too many.
EnqueueFull ==
  /\ "game" \in clients
  /\ ~refusing /\ queue <= Capacity
  /\ queue' = queue + 1
  /\ UNCHANGED <<fixed, lifecycle, flags, routing, requests, haptics, latest, worker, device>>

\* EventQueue::push
Enqueue ==
  /\ "game" \in clients
  /\ ~refusing /\ queue < Capacity
  /\ queue' = queue + 1
  /\ UNCHANGED <<fixed, lifecycle, flags, routing, requests, haptics, latest, worker, device>>

\* setControllerSpeakerRoutingEnabled: exchange, then fetch_add.
RouterBegin ==
  /\ "speaker" \in clients /\ router = "idle" /\ routingGen < MaxToggles
  /\ wantRouting' = ~wantRouting /\ router' = "changed"
  /\ UNCHANGED <<routingGen, fixed, lifecycle, queue, flags, requests, haptics, latest, worker, device>>

RouterEnd ==
  /\ router = "changed"
  /\ routingGen' = routingGen + 1 /\ router' = "idle"
  /\ UNCHANGED <<wantRouting, fixed, lifecycle, queue, flags, requests, haptics, latest, worker, device>>

\* pulseBluetoothRumble and setBluetoothContinuousRumble look at the flags ...
RumbleAdmit(kind) ==
  /\ kind \in clients /\ haptics = "idle"
  /\ connected /\ bluetooth
  /\ haptics' = kind
  /\ UNCHANGED <<fixed, lifecycle, queue, flags, routing, requests, latest, worker, device>>

Stamp == {IF open = None THEN 0 ELSE epoch}

\* ... and store under _bluetoothRumbleMutex.
PulseStore ==
  /\ haptics = "pulse"
  /\ pulse' = Stamp /\ pulseNew' = TRUE /\ haptics' = "idle"
  /\ UNCHANGED <<continuous, fixed, lifecycle, queue, flags, routing, latest, worker, device>>

ContinuousStore ==
  /\ haptics = "continuous"
  /\ continuous' = Stamp /\ haptics' = "idle"
  /\ UNCHANGED <<pulse, pulseNew, fixed, lifecycle, queue, flags, routing, latest, worker, device>>

ContinuousClear ==
  /\ "continuous" \in clients /\ haptics = "idle"
  /\ continuous' = {}
  /\ UNCHANGED <<pulse, pulseNew, haptics, fixed, lifecycle, queue, flags, routing, latest, worker, device>>

-------------------------------------------------------------------------------
(* The worker.                                                             *)

\* Mutant: requests survive the connection they were made on.
ClearRumbleNot == UNCHANGED requests

\* clearBluetoothRumbleState
ClearRumble ==
  /\ pulse' = {} /\ continuous' = {}
  /\ pulseNew' = (pulseNew \/ pulse # {})

\* Mutant: the observer is not told.
ClearObservedQuietly == observed' = FALSE /\ UNCHANGED trigger

\* clearObservedR2
ClearObserved ==
  /\ observed' = FALSE
  /\ trigger' = IF observed THEN "released" ELSE trigger

SetFlags(isConnected, isBluetooth) == connected' = isConnected /\ bluetooth' = isBluetooth

\* The head of the loop.  The last look at stopRequested is here.
Loop ==
  /\ pc = "loop"
  /\ pc' = IF stopRequested THEN "ending" ELSE "events"
  /\ changed' = FALSE
  /\ UNCHANGED <<wanted, applied, fixed, lifecycle, queue, flags, routing, requests, haptics, latest,
                 route, rumble, observer, policy, device>>

PopEvent ==
  /\ pc = "events" /\ queue > 0
  /\ queue' = queue - 1 /\ changed' = TRUE
  /\ UNCHANGED <<wanted, applied, pc, fixed, lifecycle, flags, routing, requests, haptics, latest,
                 route, rumble, observer, policy, device>>

\* The queue is empty: what the events and the clock made of the output.
Tick ==
  /\ pc = "events" /\ queue = 0
  /\ wanted' \in (IF "game" \in clients THEN Outputs ELSE {wanted})
  /\ changed' = (changed \/ wanted' # wanted)
  /\ pc' = IF open = None THEN "offline" ELSE "online"
  /\ UNCHANGED <<applied, fixed, lifecycle, queue, flags, routing, requests, haptics, latest,
                 route, rumble, observer, policy, device>>

\* Mutant: routing counts as applied across connections.
OfflineKeepingRoute ==
  /\ pc = "offline"
  /\ ClearObserved /\ ClearRumble /\ latest' = {}
  /\ SetFlags(FALSE, FALSE)
  /\ applied' = Unknown /\ vibrating' = FALSE
  /\ pc' = "connect"
  /\ UNCHANGED <<wanted, changed, routed, routedGen, seen, motors, fixed, lifecycle, queue, routing,
                 haptics, policy, device>>

\* appliedBluetoothLeft and -Right are kept.
Offline ==
  /\ pc = "offline"
  /\ ClearObserved /\ ClearRumble /\ latest' = {}
  /\ SetFlags(FALSE, FALSE)
  /\ applied' = Unknown /\ routed' = FALSE /\ vibrating' = FALSE
  /\ pc' = "connect"
  /\ UNCHANGED <<wanted, changed, routedGen, seen, motors, fixed, lifecycle, queue, routing,
                 haptics, policy, device>>

\* Before nextConnectAttempt.
Wait ==
  /\ pc = "connect" /\ retry # "now"
  /\ pc' = "loop"
  /\ UNCHANGED <<fixed, lifecycle, queue, flags, routing, requests, haptics, latest,
                 output, route, rumble, observer, policy, device>>

\* No controller; the rapid window may have closed.
ConnectFails ==
  /\ pc = "connect"
  /\ rapid' \in {FALSE, rapid}
  /\ retry' = IF rapid' THEN "rapid" ELSE "normal"
  /\ pc' = "loop"
  /\ UNCHANGED <<intentional, fixed, lifecycle, queue, flags, routing, requests, haptics, latest,
                 output, route, rumble, observer, device>>

ConnectSucceeds(transport) ==
  /\ pc = "connect"
  /\ Open(transport)
  /\ SetFlags(TRUE, transport = "bluetooth")
  /\ latest' = IF transport = "bluetooth" THEN latest ELSE {}
  /\ intentional' = IF transport = "bluetooth" THEN FALSE ELSE intentional
  /\ rapid' = FALSE
  /\ changed' = TRUE
  /\ pc' = "connected"
  /\ UNCHANGED <<wanted, applied, retry, fixed, lifecycle, queue, routing, requests, haptics,
                 route, rumble, observer>>

\* applySpeakerRouting, first half: the generation is read before the setting.
ReadGeneration(next) ==
  IF routed /\ routingGen = routedGen
  THEN pc' = next.done /\ UNCHANGED seen
  ELSE pc' = next.todo /\ seen' = routingGen

AfterConnect == [done |-> "online", todo |-> "connectedSeen"]
AfterOnline == [done |-> "output", todo |-> "onlineSeen"]

Connected ==
  /\ pc = "connected"
  /\ ReadGeneration(AfterConnect)
  /\ UNCHANGED <<routed, routedGen, fixed, lifecycle, queue, flags, routing, requests, haptics, latest,
                 output, rumble, observer, policy, device>>

Online ==
  /\ pc = "online"
  /\ SetFlags(TRUE, open = "bluetooth")
  /\ ReadGeneration(AfterOnline)
  /\ UNCHANGED <<routed, routedGen, fixed, lifecycle, queue, routing, requests, haptics, latest,
                 output, rumble, observer, policy, device>>

\* applySpeakerRouting, second half.
ApplyRouting(from, to) ==
  /\ pc = from /\ pc' = to
  /\ SetRouting(wantRouting)
  /\ routed' = TRUE /\ routedGen' = seen
  /\ UNCHANGED <<seen, fixed, lifecycle, queue, flags, routing, requests, haptics, latest,
                 output, rumble, observer, policy, link, written>>

\* Mutant: an output that was not sent counts as applied.
WriteOutputUnchecked ==
  /\ pc = "output" /\ pc' = "rumble"
  /\ \/ /\ applied' = wanted /\ UNCHANGED connected
        /\ \/ WriteArrives(wanted, loaded, FALSE)
           \/ WriteNotSent(wanted, loaded)
     \/ WriteFails /\ applied' = Unknown /\ connected' = FALSE
  /\ UNCHANGED <<wanted, changed, bluetooth, fixed, lifecycle, queue, routing, requests, haptics, latest,
                 route, rumble, observer, policy>>

WriteOutput ==
  /\ pc = "output" /\ pc' = "rumble"
  /\ \/ WriteArrives(wanted, loaded, FALSE) /\ applied' = wanted /\ UNCHANGED connected
     \/ WriteNotSent(wanted, loaded) /\ applied' = Unknown /\ connected' = TRUE
     \/ WriteFails /\ applied' = Unknown /\ connected' = FALSE
  /\ UNCHANGED <<wanted, changed, bluetooth, fixed, lifecycle, queue, routing, requests, haptics, latest,
                 route, rumble, observer, policy>>

KeepOutput ==
  /\ pc = "output" /\ pc' = "rumble"
  /\ ~changed /\ applied = wanted
  /\ UNCHANGED <<fixed, lifecycle, queue, flags, routing, requests, haptics, latest,
                 output, route, rumble, observer, policy, device>>

\* One look at the requests under their mutex; a pulse may have run out.
ComposeRumble ==
  /\ pc = "rumble" /\ pc' = "poll" /\ open = "bluetooth"
  /\ pulseNew' = FALSE
  /\ \E on \in {IF pulseNew THEN pulse # {} ELSE vibrating, FALSE} :
       LET desired == (IF on THEN pulse ELSE {}) \cup continuous
       IN  /\ vibrating' = on
           /\ \/ desired = motors /\ UNCHANGED <<motors, device>>
              \/ /\ desired # motors \/ desired # {}
                 /\ \/ WriteArrives(stored, desired, TRUE) /\ motors' = desired
                    \/ WriteNotSent(stored, desired) /\ UNCHANGED motors
                    \/ WriteFails /\ UNCHANGED motors
  /\ UNCHANGED <<pulse, continuous, fixed, lifecycle, queue, flags, routing, haptics, latest,
                 output, route, observer, policy>>

NoRumble ==
  /\ pc = "rumble" /\ pc' = "poll" /\ open # "bluetooth"
  /\ vibrating' = FALSE /\ motors' = {}
  /\ UNCHANGED <<fixed, lifecycle, queue, flags, routing, requests, haptics, latest,
                 output, route, observer, policy, device>>

\* Mutant: input of either transport is kept for the Bluetooth bridge.
LatestOfAny == {epoch}

\* Only Bluetooth input goes to the bridge.
Latest == IF open = "bluetooth" THEN {epoch} ELSE latest

\* A sample that changes nothing is not passed on, which is the same.
Observe ==
  \/ "observer" \in clients /\ observed' = TRUE /\ trigger' \in {"held", "released"}
  \/ "observer" \notin clients /\ UNCHANGED observer

\* Input may come with a light-bar write of the Bluetooth backend, which can
\* close the handle under it.
Poll ==
  /\ pc = "poll" /\ pc' = "idle" /\ open # None
  /\ \/ UNCHANGED <<latest, observer, device>>
     \/ Close("lost") /\ UNCHANGED <<latest, observer>>
     \/ /\ latest' = Latest
        /\ Observe
        /\ \/ UNCHANGED device
           \/ open = "bluetooth" /\ WriteArrives(stored, loaded, FALSE)
           \/ open = "bluetooth" /\ WriteFails
  /\ UNCHANGED <<fixed, lifecycle, queue, flags, routing, requests, haptics,
                 output, route, rumble, policy>>

NoPoll ==
  /\ pc = "poll" /\ pc' = "idle" /\ open = None
  /\ UNCHANGED <<fixed, lifecycle, queue, flags, routing, requests, haptics, latest,
                 output, route, rumble, observer, policy, device>>

StayOn ==
  /\ pc = "idle" /\ pc' = "lost"
  /\ UNCHANGED <<fixed, lifecycle, queue, flags, routing, requests, haptics, latest,
                 output, route, rumble, observer, policy, device>>

\* Mutant: the power-off is not remembered as intended.
PowerOffForgotten ==
  /\ pc = "idle" /\ pc' = "lost" /\ open = "bluetooth"
  /\ ClearObserved /\ ClearRumble
  /\ Close("poweroff") /\ latest' = {} /\ SetFlags(FALSE, FALSE)
  /\ UNCHANGED <<policy, fixed, lifecycle, queue, routing, haptics, output, route, rumble>>

\* The idle timeout: outputs are reset, then the link is cut.  A failing
\* power-off leaves the reset controller connected and lastApplied as it was.
PowerOff ==
  /\ pc = "idle" /\ pc' = "lost" /\ open = "bluetooth"
  /\ ClearObserved /\ ClearRumble
  /\ \/ WriteFails /\ UNCHANGED <<intentional, latest, flags>>
     \/ WriteArrives(Neutral, {}, TRUE) /\ UNCHANGED <<intentional, latest, flags>>
     \/ WriteNotSent(Neutral, {}) /\ UNCHANGED <<intentional, latest, flags>>
     \/ Close("poweroff") /\ intentional' = TRUE /\ latest' = {} /\ SetFlags(FALSE, FALSE)
  /\ UNCHANGED <<retry, rapid, fixed, lifecycle, queue, routing, haptics, output, route, rumble>>

\* Mutant: the flags stay up until the next turn.
LostWithFlags ==
  /\ pc = "lost" /\ pc' = "loop" /\ open = None
  /\ ClearObserved /\ ClearRumble /\ latest' = {}
  /\ rapid' = ~intentional /\ retry' = (IF intentional THEN "normal" ELSE "now")
  /\ intentional' = FALSE
  /\ UNCHANGED <<flags, fixed, lifecycle, queue, routing, haptics, output, route, rumble, device>>

Lost ==
  /\ pc = "lost" /\ pc' = "loop" /\ open = None
  /\ ClearObserved /\ ClearRumble /\ latest' = {}
  /\ SetFlags(FALSE, FALSE)
  /\ rapid' = ~intentional /\ retry' = (IF intentional THEN "normal" ELSE "now")
  /\ intentional' = FALSE
  /\ UNCHANGED <<fixed, lifecycle, queue, routing, haptics, output, route, rumble, device>>

NotLost ==
  /\ pc = "lost" /\ pc' = "loop" /\ open # None
  /\ UNCHANGED <<fixed, lifecycle, queue, flags, routing, requests, haptics, latest,
                 output, route, rumble, observer, policy, device>>

\* After the loop; with or without a power-off the handle is closed.
End ==
  /\ pc = "ending" /\ pc' = "done"
  /\ ClearObserved /\ ClearRumble /\ latest' = {}
  /\ SetFlags(FALSE, FALSE)
  /\ Close("stopped")
  /\ UNCHANGED <<fixed, lifecycle, queue, routing, haptics, output, route, rumble, policy>>

\* An exception: the backend closes the handle on the way out, and the catch
\* clears the flags and nothing else.
WorkerFails ==
  /\ "fault" \in clients
  /\ pc \notin {"none", "done", "failed"} /\ pc' = "failed"
  /\ Close("stopped") /\ SetFlags(FALSE, FALSE)
  /\ UNCHANGED <<fixed, lifecycle, queue, routing, requests, haptics, latest,
                 output, route, rumble, observer, policy>>

\* ControllerRuntimeMode::PresenceOnly: USB only, and nothing is read or written.
Presence ==
  /\ pc = "presence" /\ ~stopRequested
  /\ \/ open = None /\ SetFlags(FALSE, FALSE) /\ UNCHANGED <<pc, device>>
     \/ open = None /\ Open("usb") /\ SetFlags(TRUE, FALSE) /\ UNCHANGED pc
     \/ open # None /\ SetFlags(TRUE, FALSE) /\ UNCHANGED <<pc, device>>
     \/ open # None /\ Close("lost") /\ SetFlags(FALSE, FALSE) /\ UNCHANGED pc
  /\ UNCHANGED <<fixed, lifecycle, queue, routing, requests, haptics, latest,
                 output, route, rumble, observer, policy>>

PresenceEnd ==
  /\ pc = "presence" /\ stopRequested /\ pc' = "done"
  /\ Close("stopped") /\ SetFlags(FALSE, FALSE)
  /\ UNCHANGED <<fixed, lifecycle, queue, routing, requests, haptics, latest,
                 output, route, rumble, observer, policy>>

-------------------------------------------------------------------------------
OwnerStep == Start \/ StopRequest \/ StopEvents \/ StopJoin

CallerStep ==
  \/ Enqueue
  \/ RouterBegin \/ RouterEnd
  \/ \E kind \in {"pulse", "continuous"} : RumbleAdmit(kind)
  \/ PulseStore \/ ContinuousStore \/ ContinuousClear

Transition ==
  \/ Loop \/ PopEvent \/ Tick
  \/ Offline \/ Wait \/ ConnectFails
  \/ \E transport \in {"usb", "bluetooth"} : ConnectSucceeds(transport)
  \/ Lost \/ NotLost \/ End \/ Presence \/ PresenceEnd

Serve ==
  \/ Connected \/ ApplyRouting("connectedSeen", "online")
  \/ Online \/ ApplyRouting("onlineSeen", "output")
  \/ WriteOutput \/ KeepOutput \/ ComposeRumble \/ NoRumble
  \/ Poll \/ NoPoll \/ StayOn \/ PowerOff

WorkerStep == Transition \/ Serve

Next == OwnerStep \/ CallerStep \/ WorkerStep \/ WorkerFails

Spec == Init /\ [][Next]_vars

\* The worker and the stopping thread run; nothing is promised of the callers,
\* the controller or the link.
FairSpec ==
  /\ Spec
  /\ WF_vars(WorkerStep)
  /\ WF_vars(StopEvents \/ StopJoin)

-------------------------------------------------------------------------------
Labels == {"none", "loop", "events", "offline", "connect", "connected", "connectedSeen",
           "online", "onlineSeen", "output", "rumble", "poll", "idle", "lost", "ending",
           "done", "failed", "presence"}

LifecycleTypes ==
  /\ mode \in {"Full", "PresenceOnly"} /\ clients \in Clients
  /\ running \in BOOLEAN /\ stopRequested \in BOOLEAN /\ refusing \in BOOLEAN
  /\ owner \in {"idle", "requested", "joining"}
  /\ queue \in 0..Capacity

SharedTypes ==
  /\ connected \in BOOLEAN /\ bluetooth \in BOOLEAN
  /\ wantRouting \in BOOLEAN /\ routingGen \in Nat /\ router \in {"idle", "changed"}
  /\ pulse \in Requests /\ pulseNew \in BOOLEAN /\ continuous \in Requests
  /\ haptics \in {"idle", "pulse", "continuous"}
  /\ latest \in Requests

OutputTypes ==
  /\ pc \in Labels
  /\ wanted \in Outputs /\ applied \in Outputs \cup {Unknown} /\ changed \in BOOLEAN
  /\ routed \in BOOLEAN /\ routedGen \in Nat /\ seen \in Nat

PolicyTypes ==
  /\ vibrating \in BOOLEAN /\ motors \subseteq 0..MaxConnections
  /\ observed \in BOOLEAN /\ trigger \in {"held", "released"}
  /\ retry \in {"now", "rapid", "normal"} /\ rapid \in BOOLEAN /\ intentional \in BOOLEAN

DeviceTypes ==
  /\ open \in {None, "usb", "bluetooth"} /\ epoch \in 0..MaxConnections
  /\ ended \in {"none", "lost", "poweroff", "stopped"}
  /\ shown \in Outputs \cup {Unknown} /\ stored \in Outputs
  /\ told \subseteq 0..MaxConnections /\ loaded \subseteq 0..MaxConnections
  /\ usbRequested \in BOOLEAN /\ usbActive \in BOOLEAN

\* Every variable keeps its type; the event queue keeps its capacity.
TypeOK == LifecycleTypes /\ SharedTypes /\ OutputTypes /\ PolicyTypes /\ DeviceTypes

\* Rumble that was stored while an earlier connection was open never reaches the
\* motors of a later one, neither directly nor with a later output report
\* (clearBluetoothRumbleState on every way out of a connection).
NoReplay == told \cup loaded \subseteq {0, epoch}

\* Between two turns of the worker, when no change of the setting is half done
\* and the last one has been seen, the USB backend has been asked for exactly
\* what the setting says and plays through the speaker only if it says so, also
\* after changes made on Bluetooth and across reconnects (applySpeakerRouting).
RouteFollowsSetting ==
  pc \in {"output", "rumble", "poll", "idle", "loop"} /\ open = "usb" /\ router = "idle" /\ routedGen = routingGen =>
    usbRequested = wantRouting /\ (usbActive => wantRouting)

\* Between two turns the input offered to the bridge was read on the Bluetooth
\* connection that is open now (clearLatestBluetoothInput).
InputIsCurrent ==
  pc \in {"loop", "done"} => latest = {} \/ (open = "bluetooth" /\ latest = {epoch})

\* Whoever observes R2 does not believe it held when no controller is there,
\* and neither after the worker has ended in order (clearObservedR2).
ObserverReleased ==
  "fault" \notin clients =>
    /\ trigger = "held" => observed
    /\ pc \in {"loop", "done"} /\ open = None => trigger = "released"

\* What the worker takes for applied has been written to this connection, or the
\* reset before a power-off that failed has replaced it.
AppliedIsShown == open # None /\ applied # Unknown => shown \in {applied, Neutral}

\* After an intended power-off the worker does not hurry to reconnect, and the
\* intention never reaches a later connection; after a loss it hurries until its
\* window closes.
RetryPolicy ==
  pc = "loop" =>
    /\ ~intentional
    /\ open = None /\ ended = "poweroff" => retry = "normal" /\ ~rapid
    /\ open = None /\ ended = "lost" => rapid \/ retry = "normal"

\* Between two turns and after the worker's end the flags that route haptics
\* and input name the transport that is open (DualModeHapticsBackend routes by them).
FlagsNameTheLink ==
  pc \in {"loop", "done", "failed"} =>
    connected = (open # None) /\ bluetooth = (open = "bluetooth")

\* stop() returns: the worker leaves its loop although the game goes on
\* producing events, because the queue refuses them.
StopReturns == owner # "idle" ~> owner = "idle"
===============================================================================
