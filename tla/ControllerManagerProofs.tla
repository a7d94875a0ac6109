------------------------ MODULE ControllerManagerProofs ------------------------
(***************************************************************************)
(* Proofs about ControllerManager, for any callers, outputs and bounds.    *)
(* Each of the properties depends on where the worker stands between the   *)
(* loss of a handle and the step that clears up after it, so the invariants*)
(* below say of each variable at which control points it may be stale.     *)
(***************************************************************************)
EXTENDS ControllerManager, TLAPS

USE DEF vars, fixed, lifecycle, flags, routing, requests, output, route, rumble,
        observer, policy, link, written, usb, worker, device

\* Where the worker can be once it has been without a handle for part of a turn.
Cleaning == {"rumble", "poll", "idle", "lost"}
Absent == {"none", "done", "failed"}

\* Control point, handle and lifecycle.
Places ==
  /\ mode = "PresenceOnly" => pc \in Absent \cup {"presence"}
  /\ mode = "Full" => pc # "presence"
  /\ pc \in Absent \cup {"offline", "connect"} => open = None
  /\ pc \in {"connected", "connectedSeen", "online", "onlineSeen", "output"} => open # None
  /\ ~running => pc \in Absent
  /\ pc = "failed" => "fault" \in clients

\* Requests are of this connection or of none, and of none when the next
\* connection is about to be made.
RequestsCurrent ==
  /\ pulse \cup continuous \subseteq {0, epoch}
  /\ pc = "connect" => pulse \cup continuous \subseteq {0}
  /\ mode = "PresenceOnly" =>
       ~bluetooth /\ haptics = "idle" /\ pulse = {} /\ continuous = {}

\* Input is of this connection; it outlives the handle only while the worker
\* has not cleaned up.
InputInv ==
  /\ latest = {} \/ latest = {epoch}
  /\ latest # {} => mode = "Full" /\ running
  /\ latest # {} => open = "bluetooth" \/ (open = None /\ pc \in Cleaning \cup {"failed"})

ObserverInv ==
  "fault" \notin clients =>
    /\ trigger = "held" => observed
    /\ observed => mode = "Full" /\ pc \notin Absent
    /\ observed /\ open = None => pc \in Cleaning

FlagsInv ==
  /\ open # None => connected /\ (bluetooth <=> open = "bluetooth")
  /\ open = None /\ pc \notin Cleaning => ~connected /\ ~bluetooth

RetryInv ==
  /\ intentional => pc = "failed" \/ (pc = "lost" /\ open = None /\ ended = "poweroff")
  /\ open = None /\ pc \in {"rumble", "poll", "idle"} => ended = "lost"
  /\ open = None /\ pc = "lost" => ended = "lost" \/ intentional
  /\ pc = "none" => ended = "none"
  /\ pc \in {"done", "failed"} => ended = "stopped"
  /\ open = None /\ pc \in {"loop", "events", "offline", "connect", "ending"} =>
       /\ ended = "poweroff" => retry = "normal" /\ ~rapid
       /\ ended = "lost" => rapid \/ retry = "normal"

\* A generation that is still current was read after the setting had its value.
RouteInv ==
  /\ routedGen <= routingGen /\ seen <= routingGen
  /\ routed /\ routedGen = routingGen /\ router = "idle" /\ open = "usb" =>
       usbRequested = wantRouting
  /\ usbActive => usbRequested /\ open = "usb"
  /\ pc = "connect" \/ mode = "PresenceOnly" => ~routed
  /\ open # None /\ mode = "Full" /\ pc \notin {"connected", "connectedSeen"} => routed

AppliedInv ==
  /\ open # None /\ applied # Unknown =>
       shown \in {applied, Neutral} /\ stored \in {applied, Neutral}
  /\ pc = "connect" \/ mode = "PresenceOnly" => applied = Unknown

Inv ==
  /\ TypeOK /\ Places
  /\ RequestsCurrent /\ NoReplay
  /\ InputInv /\ ObserverInv /\ FlagsInv /\ RetryInv /\ RouteInv /\ AppliedInv
-------------------------------------------------------------------------------
(* Types.                                                                  *)

LEMMA RequestFacts ==
  /\ {} \in Requests
  /\ \A c \in 0..MaxConnections : {c} \in Requests
  /\ \A r \in Requests : r \subseteq 0..MaxConnections
  BY DEF Requests

LEMMA OpenTypes ==
  ASSUME TypeOK, NEW transport \in {"usb", "bluetooth"}, Open(transport)
  PROVE  DeviceTypes'
<1>1. epoch' \in 0..MaxConnections
  BY BoundsAssumption DEF TypeOK, DeviceTypes, Open
<1>2. usbRequested' \in BOOLEAN /\ usbActive' \in BOOLEAN
  BY Zenon DEF TypeOK, DeviceTypes, Open
<1>3. open' \in {None, "usb", "bluetooth"} /\ ended' \in {"none", "lost", "poweroff", "stopped"}
  BY DEF Open
<1> QED BY <1>1, <1>2, <1>3, OutputsAssumption DEF DeviceTypes, Open

LEMMA LifecycleTypesStep ==
  ASSUME TypeOK, [Next]_vars
  PROVE  LifecycleTypes'
<1>1. CASE Enqueue
  BY <1>1, BoundsAssumption DEF TypeOK, LifecycleTypes, Enqueue
<1>2. CASE PopEvent
  BY <1>2, BoundsAssumption DEF TypeOK, LifecycleTypes, PopEvent
<1>3. CASE Start \/ StopRequest \/ StopEvents \/ StopJoin
  BY <1>3 DEF TypeOK, LifecycleTypes, Start, StopRequest, StopEvents, StopJoin
<1>4. CASE RouterBegin \/ RouterEnd
           \/ (\E kind \in {"pulse", "continuous"} : RumbleAdmit(kind)) \/ PulseStore
           \/ ContinuousStore \/ ContinuousClear \/ Loop \/ Tick
  BY <1>4
  DEF TypeOK, LifecycleTypes, RouterBegin, RouterEnd, RumbleAdmit, PulseStore, Stamp,
      ContinuousStore, ContinuousClear, Loop, Tick
<1>5. CASE Offline \/ Wait \/ ConnectFails
           \/ (\E transport \in {"usb", "bluetooth"} : ConnectSucceeds(transport)) \/ Lost
           \/ NotLost \/ End \/ Presence
  BY <1>5
  DEF TypeOK, LifecycleTypes, Offline, ClearRumble, ClearObserved, SetFlags, Wait, ConnectFails,
      ConnectSucceeds, Open, Lost, NotLost, End, Close, Presence
<1>6. CASE PresenceEnd \/ Connected \/ Online \/ ApplyRouting("connectedSeen", "online")
           \/ ApplyRouting("onlineSeen", "output") \/ WriteOutput \/ KeepOutput
           \/ ComposeRumble
  BY <1>6
  DEF TypeOK, LifecycleTypes, PresenceEnd, Close, SetFlags, Connected, ReadGeneration,
      AfterConnect, Online, AfterOnline, ApplyRouting, SetRouting, WriteOutput, WriteArrives,
      WriteNotSent, WriteFails, KeepOutput, ComposeRumble
<1>7. CASE NoRumble \/ Poll \/ NoPoll \/ StayOn \/ PowerOff \/ WorkerFails
  BY <1>7
  DEF TypeOK, LifecycleTypes, NoRumble, Poll, WriteArrives, WriteFails, Close, Observe, Latest,
      NoPoll, StayOn, PowerOff, WriteNotSent, ClearRumble, ClearObserved, SetFlags, WorkerFails
<1>8. CASE UNCHANGED vars
  BY <1>8 DEF TypeOK, LifecycleTypes
<1> QED BY <1>1, <1>2, <1>3, <1>4, <1>5, <1>6, <1>7, <1>8
  DEF Next, OwnerStep, CallerStep, WorkerStep, Transition, Serve

LEMMA SharedTypesStep ==
  ASSUME TypeOK, [Next]_vars
  PROVE  SharedTypes'
<1>1. CASE RouterBegin
  BY <1>1 DEF TypeOK, SharedTypes, RouterBegin
<1>2. CASE RouterEnd
  BY <1>2 DEF TypeOK, SharedTypes, RouterEnd
<1>3. CASE \E kind \in {"pulse", "continuous"} : RumbleAdmit(kind)
  BY <1>3 DEF TypeOK, SharedTypes, RumbleAdmit
<1>4. CASE PulseStore
  BY <1>4, RequestFacts, BoundsAssumption DEF TypeOK, SharedTypes, PulseStore, Stamp, DeviceTypes
<1>5. CASE ContinuousStore
  BY <1>5, RequestFacts, BoundsAssumption DEF TypeOK, SharedTypes, ContinuousStore, Stamp, DeviceTypes
<1>6. CASE Poll
  BY <1>6, RequestFacts
  DEF TypeOK, SharedTypes, Poll, WriteArrives, WriteFails, Close, Observe, Latest, DeviceTypes
<1>7. CASE StopJoin \/ ContinuousClear
  BY <1>7, RequestFacts DEF TypeOK, SharedTypes, StopJoin, ContinuousClear
<1>8. CASE Offline \/ (\E transport \in {"usb", "bluetooth"} : ConnectSucceeds(transport))
  BY <1>8, RequestFacts
  DEF TypeOK, SharedTypes, Offline, ClearRumble, ClearObserved, SetFlags, ConnectSucceeds, Open
<1>9. CASE Lost \/ End
  BY <1>9, RequestFacts
  DEF TypeOK, SharedTypes, Lost, ClearRumble, ClearObserved, SetFlags, End, Close
<1>10. CASE Presence \/ PresenceEnd
  BY <1>10 DEF TypeOK, SharedTypes, Presence, Open, Close, SetFlags, PresenceEnd
<1>11. CASE Online \/ WriteOutput
  BY <1>11
  DEF TypeOK, SharedTypes, Online, ReadGeneration, AfterOnline, SetFlags, WriteOutput,
      WriteArrives, WriteNotSent, WriteFails, Close
<1>12. CASE ComposeRumble \/ PowerOff
  BY <1>12, RequestFacts
  DEF TypeOK, SharedTypes, ComposeRumble, WriteArrives, WriteNotSent, WriteFails, Close,
      PowerOff, ClearRumble, ClearObserved, SetFlags
<1>13. CASE WorkerFails
  BY <1>13 DEF TypeOK, SharedTypes, WorkerFails, Close, SetFlags
<1>14. CASE Start \/ StopRequest \/ StopEvents \/ Enqueue \/ Loop \/ PopEvent \/ Tick \/ Wait
  BY <1>14
  DEF TypeOK, SharedTypes, Start, StopRequest, StopEvents, Enqueue, Loop, PopEvent, Tick, Wait
<1>15. CASE ConnectFails \/ NotLost \/ Connected \/ ApplyRouting("connectedSeen", "online")
            \/ ApplyRouting("onlineSeen", "output") \/ KeepOutput \/ NoRumble \/ NoPoll
  BY <1>15
  DEF TypeOK, SharedTypes, ConnectFails, NotLost, Connected, ReadGeneration, AfterConnect,
      ApplyRouting, SetRouting, KeepOutput, NoRumble, NoPoll
<1>16. CASE StayOn
  BY <1>16 DEF TypeOK, SharedTypes, StayOn
<1>17. CASE UNCHANGED vars
  BY <1>17 DEF TypeOK, SharedTypes
<1> QED BY <1>1, <1>2, <1>3, <1>4, <1>5, <1>6, <1>7, <1>8, <1>9, <1>10, <1>11, <1>12, <1>13, <1>14,
     <1>15, <1>16, <1>17 DEF Next, OwnerStep, CallerStep, WorkerStep, Transition, Serve

LEMMA OutputTypesStep ==
  ASSUME TypeOK, [Next]_vars
  PROVE  OutputTypes'
<1>1. CASE Start
  BY <1>1, OutputsAssumption DEF OutputTypes, Labels, Start
<1>2. CASE Connected
  BY <1>2 DEF TypeOK, OutputTypes, Labels, Connected, ReadGeneration, AfterConnect, SharedTypes
<1>3. CASE Online
  BY <1>3
  DEF TypeOK, OutputTypes, Labels, Online, ReadGeneration, AfterOnline, SetFlags, SharedTypes
<1>4. CASE Loop \/ PopEvent \/ Tick
  BY <1>4 DEF TypeOK, OutputTypes, Labels, Loop, PopEvent, Tick
<1>5. CASE Offline \/ (\E transport \in {"usb", "bluetooth"} : ConnectSucceeds(transport))
  BY <1>5
  DEF TypeOK, OutputTypes, Labels, Offline, ClearRumble, ClearObserved, SetFlags,
      ConnectSucceeds, Open
<1>6. CASE ApplyRouting("connectedSeen", "online") \/ ApplyRouting("onlineSeen", "output")
  BY <1>6 DEF TypeOK, OutputTypes, Labels, ApplyRouting, SetRouting
<1>7. CASE WriteOutput
  BY <1>7
  DEF TypeOK, OutputTypes, Labels, WriteOutput, WriteArrives, WriteNotSent, WriteFails, Close
<1>8. CASE StopRequest \/ StopEvents \/ StopJoin \/ Enqueue \/ RouterBegin
  BY <1>8 DEF TypeOK, OutputTypes, StopRequest, StopEvents, StopJoin, Enqueue, RouterBegin
<1>9. CASE RouterEnd \/ (\E kind \in {"pulse", "continuous"} : RumbleAdmit(kind))
           \/ PulseStore \/ ContinuousStore \/ ContinuousClear
  BY <1>9
  DEF TypeOK, OutputTypes, RouterEnd, RumbleAdmit, PulseStore, Stamp, ContinuousStore,
      ContinuousClear
<1>10. CASE Wait \/ ConnectFails \/ Lost \/ NotLost \/ End
  BY <1>10
  DEF TypeOK, OutputTypes, Labels, Wait, ConnectFails, Lost, ClearRumble, ClearObserved,
      SetFlags, NotLost, End, Close
<1>11. CASE Presence \/ PresenceEnd \/ KeepOutput \/ ComposeRumble \/ NoRumble
  BY <1>11
  DEF TypeOK, OutputTypes, Labels, Presence, Open, Close, SetFlags, PresenceEnd, KeepOutput,
      ComposeRumble, WriteArrives, WriteNotSent, WriteFails, NoRumble
<1>12. CASE Poll \/ NoPoll \/ StayOn \/ PowerOff \/ WorkerFails
  BY <1>12
  DEF TypeOK, OutputTypes, Labels, Poll, WriteArrives, WriteFails, Close, Observe, Latest,
      NoPoll, StayOn, PowerOff, WriteNotSent, ClearRumble, ClearObserved, SetFlags, WorkerFails
<1>13. CASE UNCHANGED vars
  BY <1>13 DEF TypeOK, OutputTypes
<1> QED BY <1>1, <1>2, <1>3, <1>4, <1>5, <1>6, <1>7, <1>8, <1>9, <1>10, <1>11, <1>12, <1>13
  DEF Next, OwnerStep, CallerStep, WorkerStep, Transition, Serve

LEMMA PolicyTypesStep ==
  ASSUME TypeOK, [Next]_vars
  PROVE  PolicyTypes'
<1>1. CASE ComposeRumble
  BY <1>1, RequestFacts
  DEF TypeOK, PolicyTypes, ComposeRumble, WriteArrives, WriteNotSent, WriteFails, Close,
      SharedTypes
<1>2. CASE Start \/ ConnectFails \/ NoRumble
  BY <1>2 DEF TypeOK, PolicyTypes, Start, ConnectFails, NoRumble
<1>3. CASE Offline \/ (\E transport \in {"usb", "bluetooth"} : ConnectSucceeds(transport))
  BY <1>3
  DEF TypeOK, PolicyTypes, Offline, ClearRumble, ClearObserved, SetFlags, ConnectSucceeds, Open
<1>4. CASE Lost \/ End
  BY <1>4 DEF TypeOK, PolicyTypes, Lost, ClearRumble, ClearObserved, SetFlags, End, Close
<1>5. CASE Poll \/ PowerOff
  BY <1>5
  DEF TypeOK, PolicyTypes, Poll, WriteArrives, WriteFails, Close, Observe, Latest, PowerOff,
      WriteNotSent, ClearRumble, ClearObserved, SetFlags
<1>6. CASE StopRequest \/ StopEvents \/ StopJoin \/ Enqueue \/ RouterBegin \/ RouterEnd
           \/ (\E kind \in {"pulse", "continuous"} : RumbleAdmit(kind)) \/ PulseStore
  BY <1>6
  DEF TypeOK, PolicyTypes, StopRequest, StopEvents, StopJoin, Enqueue, RouterBegin, RouterEnd,
      RumbleAdmit, PulseStore, Stamp
<1>7. CASE ContinuousStore \/ ContinuousClear \/ Loop \/ PopEvent \/ Tick \/ Wait \/ NotLost
           \/ Presence
  BY <1>7
  DEF TypeOK, PolicyTypes, ContinuousStore, Stamp, ContinuousClear, Loop, PopEvent, Tick, Wait,
      NotLost, Presence, Open, Close, SetFlags
<1>8. CASE PresenceEnd \/ Connected \/ Online \/ ApplyRouting("connectedSeen", "online")
           \/ ApplyRouting("onlineSeen", "output") \/ WriteOutput \/ KeepOutput \/ NoPoll
  BY <1>8
  DEF TypeOK, PolicyTypes, PresenceEnd, Close, SetFlags, Connected, ReadGeneration,
      AfterConnect, Online, AfterOnline, ApplyRouting, SetRouting, WriteOutput, WriteArrives,
      WriteNotSent, WriteFails, KeepOutput, NoPoll
<1>9. CASE StayOn \/ WorkerFails
  BY <1>9 DEF TypeOK, PolicyTypes, StayOn, WorkerFails, Close, SetFlags
<1>10. CASE UNCHANGED vars
  BY <1>10 DEF TypeOK, PolicyTypes
<1> QED BY <1>1, <1>2, <1>3, <1>4, <1>5, <1>6, <1>7, <1>8, <1>9, <1>10
  DEF Next, OwnerStep, CallerStep, WorkerStep, Transition, Serve

LEMMA DeviceTypesStep ==
  ASSUME TypeOK, [Next]_vars
  PROVE  DeviceTypes'
<1>1. CASE Start
  BY <1>1 DEF TypeOK, DeviceTypes, Start
<1>2. CASE \E transport \in {"usb", "bluetooth"} : ConnectSucceeds(transport)
  BY <1>2, OpenTypes DEF ConnectSucceeds, SetFlags
<1>3. CASE Presence
  <2>1. CASE Open("usb")
    BY <2>1, OpenTypes
  <2>2. CASE Close("lost")
    BY <2>2, OutputsAssumption DEF TypeOK, DeviceTypes, Close
  <2>3. CASE UNCHANGED device
    BY <2>3 DEF TypeOK, DeviceTypes
  <2> QED BY <1>3, <2>1, <2>2, <2>3 DEF Presence
<1>4. CASE ApplyRouting("connectedSeen", "online")
  BY <1>4 DEF TypeOK, DeviceTypes, ApplyRouting, SetRouting, SharedTypes
<1>5. CASE ApplyRouting("onlineSeen", "output")
  BY <1>5 DEF TypeOK, DeviceTypes, ApplyRouting, SetRouting, SharedTypes
<1>6. CASE WriteOutput
  BY <1>6, OutputsAssumption
  DEF TypeOK, DeviceTypes, WriteOutput, WriteArrives, WriteNotSent, WriteFails, Close,
      OutputTypes
<1>7. CASE ComposeRumble
  BY <1>7, OutputsAssumption, RequestFacts
  DEF TypeOK, DeviceTypes, ComposeRumble, WriteArrives, WriteNotSent, WriteFails, Close,
      SharedTypes
<1>8. CASE Poll
  BY <1>8, OutputsAssumption
  DEF TypeOK, DeviceTypes, Poll, WriteArrives, WriteFails, Close, Observe, Latest
<1>9. CASE PowerOff
  BY <1>9, OutputsAssumption
  DEF TypeOK, DeviceTypes, PowerOff, WriteArrives, WriteNotSent, WriteFails, Close, ClearRumble,
      ClearObserved, SetFlags
<1>10. CASE End \/ PresenceEnd
  BY <1>10, OutputsAssumption
  DEF TypeOK, DeviceTypes, End, ClearRumble, ClearObserved, SetFlags, Close, PresenceEnd
<1>11. CASE WorkerFails
  BY <1>11, OutputsAssumption DEF TypeOK, DeviceTypes, WorkerFails, Close, SetFlags
<1>12. CASE StopRequest \/ StopEvents \/ StopJoin \/ Enqueue \/ RouterBegin \/ RouterEnd
            \/ (\E kind \in {"pulse", "continuous"} : RumbleAdmit(kind)) \/ PulseStore
  BY <1>12
  DEF TypeOK, DeviceTypes, StopRequest, StopEvents, StopJoin, Enqueue, RouterBegin, RouterEnd,
      RumbleAdmit, PulseStore, Stamp
<1>13. CASE ContinuousStore \/ ContinuousClear \/ Loop \/ PopEvent \/ Tick \/ Offline \/ Wait
            \/ ConnectFails
  BY <1>13
  DEF TypeOK, DeviceTypes, ContinuousStore, Stamp, ContinuousClear, Loop, PopEvent, Tick,
      Offline, ClearRumble, ClearObserved, SetFlags, Wait, ConnectFails
<1>14. CASE Lost \/ NotLost \/ Connected \/ Online \/ KeepOutput \/ NoRumble \/ NoPoll
            \/ StayOn
  BY <1>14
  DEF TypeOK, DeviceTypes, Lost, ClearRumble, ClearObserved, SetFlags, NotLost, Connected,
      ReadGeneration, AfterConnect, Online, AfterOnline, KeepOutput, NoRumble, NoPoll, StayOn
<1>15. CASE UNCHANGED vars
  BY <1>15 DEF TypeOK, DeviceTypes
<1> QED BY <1>1, <1>2, <1>3, <1>4, <1>5, <1>6, <1>7, <1>8, <1>9, <1>10, <1>11, <1>12, <1>13, <1>14,
     <1>15 DEF Next, OwnerStep, CallerStep, WorkerStep, Transition, Serve

-------------------------------------------------------------------------------
(* The invariant.                                                          *)

LEMMA PlacesStep ==
  ASSUME Inv, [Next]_vars
  PROVE  Places'
<1>1. CASE Start \/ StopJoin \/ Loop \/ Tick
  BY <1>1 DEF Inv, Places, Absent, Start, StopJoin, Loop, Tick
<1>2. CASE Wait \/ ConnectFails \/ NotLost \/ KeepOutput
  BY <1>2 DEF Inv, Places, Absent, Wait, ConnectFails, NotLost, KeepOutput
<1>3. CASE NoRumble \/ NoPoll \/ StayOn
  BY <1>3 DEF Inv, Places, Absent, NoRumble, NoPoll, StayOn
<1>4. CASE Offline \/ (\E transport \in {"usb", "bluetooth"} : ConnectSucceeds(transport))
  BY <1>4
  DEF Inv, Places, Absent, None, Offline, ClearRumble, ClearObserved, SetFlags, ConnectSucceeds,
      Open
<1>5. CASE Lost \/ End
  BY <1>5 DEF Inv, Places, Absent, Lost, ClearRumble, ClearObserved, SetFlags, End, Close
<1>6. CASE Presence \/ PresenceEnd
  BY <1>6 DEF Inv, Places, Absent, Presence, Open, Close, SetFlags, PresenceEnd
<1>7. CASE Connected \/ Online
  BY <1>7
  DEF Inv, Places, Absent, Connected, ReadGeneration, AfterConnect, Online, AfterOnline,
      SetFlags
<1>8. CASE ApplyRouting("connectedSeen", "online") \/ ApplyRouting("onlineSeen", "output")
  BY <1>8 DEF Inv, Places, Absent, ApplyRouting, SetRouting
<1>9. CASE WriteOutput \/ ComposeRumble
  BY <1>9
  DEF Inv, Places, Absent, WriteOutput, WriteArrives, WriteNotSent, WriteFails, Close,
      ComposeRumble
<1>10. CASE Poll \/ PowerOff
  BY <1>10
  DEF Inv, Places, Absent, Poll, WriteArrives, WriteFails, Close, Observe, Latest, PowerOff,
      WriteNotSent, ClearRumble, ClearObserved, SetFlags
<1>11. CASE WorkerFails
  BY <1>11 DEF Inv, Places, Absent, WorkerFails, Close, SetFlags
<1>12. CASE StopRequest \/ StopEvents \/ Enqueue \/ RouterBegin \/ RouterEnd
            \/ (\E kind \in {"pulse", "continuous"} : RumbleAdmit(kind)) \/ PulseStore
            \/ ContinuousStore
  BY <1>12
  DEF Inv, Places, StopRequest, StopEvents, Enqueue, RouterBegin, RouterEnd, RumbleAdmit,
      PulseStore, Stamp, ContinuousStore
<1>13. CASE ContinuousClear \/ PopEvent
  BY <1>13 DEF Inv, Places, ContinuousClear, PopEvent
<1>14. CASE UNCHANGED vars
  BY <1>14 DEF Inv, Places
<1> QED BY <1>1, <1>2, <1>3, <1>4, <1>5, <1>6, <1>7, <1>8, <1>9, <1>10, <1>11, <1>12, <1>13, <1>14
  DEF Next, OwnerStep, CallerStep, WorkerStep, Transition, Serve

LEMMA RequestsCurrentStep ==
  ASSUME Inv, [Next]_vars
  PROVE  RequestsCurrent'
<1>1. CASE Presence
  BY <1>1
  DEF Inv, RequestsCurrent, Places, Presence, Open, Close, SetFlags, TypeOK, LifecycleTypes
<1>2. CASE Start \/ StopJoin \/ (\E kind \in {"pulse", "continuous"} : RumbleAdmit(kind))
           \/ ContinuousClear
  BY <1>2 DEF Inv, RequestsCurrent, Start, StopJoin, RumbleAdmit, ContinuousClear
<1>3. CASE Loop \/ Tick \/ Wait \/ ConnectFails
  BY <1>3 DEF Inv, RequestsCurrent, Places, Absent, Loop, Tick, Wait, ConnectFails
<1>4. CASE NotLost \/ KeepOutput \/ NoRumble \/ NoPoll
  BY <1>4 DEF Inv, RequestsCurrent, NotLost, KeepOutput, NoRumble, NoPoll
<1>5. CASE StayOn
  BY <1>5 DEF Inv, RequestsCurrent, StayOn
<1>6. CASE PulseStore \/ ContinuousStore
  BY <1>6 DEF Inv, RequestsCurrent, Places, PulseStore, Stamp, ContinuousStore
<1>7. CASE Offline \/ (\E transport \in {"usb", "bluetooth"} : ConnectSucceeds(transport))
  BY <1>7
  DEF Inv, RequestsCurrent, Places, Absent, Offline, ClearRumble, ClearObserved, SetFlags,
      ConnectSucceeds, Open
<1>8. CASE Lost \/ End
  BY <1>8 DEF Inv, RequestsCurrent, Lost, ClearRumble, ClearObserved, SetFlags, End, Close
<1>9. CASE PresenceEnd \/ Connected
  BY <1>9
  DEF Inv, RequestsCurrent, PresenceEnd, Close, SetFlags, Connected, ReadGeneration,
      AfterConnect
<1>10. CASE Online \/ ApplyRouting("connectedSeen", "online")
  BY <1>10
  DEF Inv, RequestsCurrent, Places, Online, ReadGeneration, AfterOnline, SetFlags, ApplyRouting,
      SetRouting
<1>11. CASE ApplyRouting("onlineSeen", "output") \/ WriteOutput
  BY <1>11
  DEF Inv, RequestsCurrent, Places, ApplyRouting, SetRouting, WriteOutput, WriteArrives,
      WriteNotSent, WriteFails, Close
<1>12. CASE ComposeRumble \/ Poll
  BY <1>12
  DEF Inv, RequestsCurrent, Places, None, ComposeRumble, WriteArrives, WriteNotSent, WriteFails,
      Close, Poll, Observe, Latest
<1>13. CASE PowerOff \/ WorkerFails
  BY <1>13
  DEF Inv, RequestsCurrent, PowerOff, WriteArrives, WriteNotSent, WriteFails, Close,
      ClearRumble, ClearObserved, SetFlags, WorkerFails
<1>14. CASE StopRequest \/ StopEvents \/ Enqueue \/ RouterBegin \/ RouterEnd \/ PopEvent
  BY <1>14
  DEF Inv, RequestsCurrent, StopRequest, StopEvents, Enqueue, RouterBegin, RouterEnd, PopEvent
<1>15. CASE UNCHANGED vars
  BY <1>15 DEF Inv, RequestsCurrent
<1> QED BY <1>1, <1>2, <1>3, <1>4, <1>5, <1>6, <1>7, <1>8, <1>9, <1>10, <1>11, <1>12, <1>13, <1>14,
     <1>15 DEF Next, OwnerStep, CallerStep, WorkerStep, Transition, Serve

LEMMA InputInvStep ==
  ASSUME Inv, [Next]_vars
  PROVE  InputInv'
<1>1. CASE Poll
  BY <1>1
  DEF Inv, InputInv, Places, Cleaning, Poll, WriteArrives, WriteFails, Close, Observe, Latest,
      TypeOK, LifecycleTypes
<1>2. CASE Start \/ StopJoin \/ Loop \/ Tick
  BY <1>2 DEF Inv, InputInv, Cleaning, Start, StopJoin, Loop, Tick
<1>3. CASE Wait \/ ConnectFails \/ NotLost \/ KeepOutput
  BY <1>3 DEF Inv, InputInv, Cleaning, Wait, ConnectFails, NotLost, KeepOutput
<1>4. CASE NoRumble \/ NoPoll \/ StayOn
  BY <1>4 DEF Inv, InputInv, Cleaning, NoRumble, NoPoll, StayOn
<1>5. CASE Offline \/ (\E transport \in {"usb", "bluetooth"} : ConnectSucceeds(transport))
  BY <1>5
  DEF Inv, InputInv, Places, Cleaning, None, Offline, ClearRumble, ClearObserved, SetFlags,
      ConnectSucceeds, Open
<1>6. CASE Lost \/ End
  BY <1>6 DEF Inv, InputInv, Lost, ClearRumble, ClearObserved, SetFlags, End, Close
<1>7. CASE Presence \/ PresenceEnd
  BY <1>7 DEF Inv, InputInv, Places, Presence, Open, Close, SetFlags, PresenceEnd
<1>8. CASE Connected \/ Online
  BY <1>8
  DEF Inv, InputInv, Places, Connected, ReadGeneration, AfterConnect, Online, AfterOnline,
      SetFlags
<1>9. CASE ApplyRouting("connectedSeen", "online") \/ ApplyRouting("onlineSeen", "output")
  BY <1>9 DEF Inv, InputInv, Places, ApplyRouting, SetRouting
<1>10. CASE WriteOutput \/ ComposeRumble
  BY <1>10
  DEF Inv, InputInv, Cleaning, WriteOutput, WriteArrives, WriteNotSent, WriteFails, Close,
      ComposeRumble
<1>11. CASE PowerOff \/ WorkerFails
  BY <1>11
  DEF Inv, InputInv, Cleaning, PowerOff, WriteArrives, WriteNotSent, WriteFails, Close,
      ClearRumble, ClearObserved, SetFlags, WorkerFails
<1>12. CASE StopRequest \/ StopEvents \/ Enqueue \/ RouterBegin \/ RouterEnd
            \/ (\E kind \in {"pulse", "continuous"} : RumbleAdmit(kind)) \/ PulseStore
            \/ ContinuousStore
  BY <1>12
  DEF Inv, InputInv, StopRequest, StopEvents, Enqueue, RouterBegin, RouterEnd, RumbleAdmit,
      PulseStore, Stamp, ContinuousStore
<1>13. CASE ContinuousClear \/ PopEvent
  BY <1>13 DEF Inv, InputInv, ContinuousClear, PopEvent
<1>14. CASE UNCHANGED vars
  BY <1>14 DEF Inv, InputInv
<1> QED BY <1>1, <1>2, <1>3, <1>4, <1>5, <1>6, <1>7, <1>8, <1>9, <1>10, <1>11, <1>12, <1>13, <1>14
  DEF Next, OwnerStep, CallerStep, WorkerStep, Transition, Serve

LEMMA ObserverInvStep ==
  ASSUME Inv, [Next]_vars
  PROVE  ObserverInv'
<1>1. CASE Poll
  BY <1>1
  DEF Inv, ObserverInv, Places, Absent, Cleaning, Poll, WriteArrives, WriteFails, Close,
      Observe, Latest, TypeOK, LifecycleTypes
<1>2. CASE Start \/ Loop \/ Tick \/ Wait
  BY <1>2 DEF Inv, ObserverInv, Absent, Cleaning, Start, Loop, Tick, Wait
<1>3. CASE ConnectFails \/ NotLost \/ KeepOutput \/ NoRumble
  BY <1>3 DEF Inv, ObserverInv, Absent, Cleaning, ConnectFails, NotLost, KeepOutput, NoRumble
<1>4. CASE NoPoll \/ StayOn
  BY <1>4 DEF Inv, ObserverInv, Absent, Cleaning, NoPoll, StayOn
<1>5. CASE Offline \/ (\E transport \in {"usb", "bluetooth"} : ConnectSucceeds(transport))
  BY <1>5
  DEF Inv, ObserverInv, Absent, None, Offline, ClearRumble, ClearObserved, SetFlags,
      ConnectSucceeds, Open
<1>6. CASE Lost \/ End
  BY <1>6 DEF Inv, ObserverInv, Lost, ClearRumble, ClearObserved, SetFlags, End, Close
<1>7. CASE Presence \/ PresenceEnd
  BY <1>7 DEF Inv, ObserverInv, Places, Presence, Open, Close, SetFlags, PresenceEnd
<1>8. CASE Connected \/ Online
  BY <1>8
  DEF Inv, ObserverInv, Places, Absent, Connected, ReadGeneration, AfterConnect, Online,
      AfterOnline, SetFlags
<1>9. CASE ApplyRouting("connectedSeen", "online") \/ ApplyRouting("onlineSeen", "output")
  BY <1>9 DEF Inv, ObserverInv, Places, Absent, ApplyRouting, SetRouting
<1>10. CASE WriteOutput \/ ComposeRumble
  BY <1>10
  DEF Inv, ObserverInv, Absent, Cleaning, WriteOutput, WriteArrives, WriteNotSent, WriteFails,
      Close, ComposeRumble
<1>11. CASE PowerOff \/ WorkerFails
  BY <1>11
  DEF Inv, ObserverInv, PowerOff, WriteArrives, WriteNotSent, WriteFails, Close, ClearRumble,
      ClearObserved, SetFlags, WorkerFails
<1>12. CASE StopRequest \/ StopEvents \/ StopJoin \/ Enqueue \/ RouterBegin \/ RouterEnd
            \/ (\E kind \in {"pulse", "continuous"} : RumbleAdmit(kind)) \/ PulseStore
  BY <1>12
  DEF Inv, ObserverInv, StopRequest, StopEvents, StopJoin, Enqueue, RouterBegin, RouterEnd,
      RumbleAdmit, PulseStore, Stamp
<1>13. CASE ContinuousStore \/ ContinuousClear \/ PopEvent
  BY <1>13 DEF Inv, ObserverInv, ContinuousStore, Stamp, ContinuousClear, PopEvent
<1>14. CASE UNCHANGED vars
  BY <1>14 DEF Inv, ObserverInv
<1> QED BY <1>1, <1>2, <1>3, <1>4, <1>5, <1>6, <1>7, <1>8, <1>9, <1>10, <1>11, <1>12, <1>13, <1>14
  DEF Next, OwnerStep, CallerStep, WorkerStep, Transition, Serve

LEMMA FlagsInvStep ==
  ASSUME Inv, [Next]_vars
  PROVE  FlagsInv'
<1>1. CASE Wait
  BY <1>1 DEF Inv, FlagsInv, Cleaning, Wait
<1>2. CASE ConnectFails
  BY <1>2 DEF Inv, FlagsInv, Cleaning, ConnectFails
<1>3. CASE NotLost
  BY <1>3 DEF Inv, FlagsInv, NotLost
<1>4. CASE Presence
  <2>1. CASE open = None /\ SetFlags(FALSE, FALSE) /\ UNCHANGED <<pc, device>>
    BY <2>1 DEF FlagsInv, SetFlags
  <2>2. CASE Open("usb") /\ SetFlags(TRUE, FALSE)
    BY <2>2 DEF FlagsInv, SetFlags, Open, None
  <2>3. CASE open # None /\ SetFlags(TRUE, FALSE) /\ UNCHANGED <<pc, device>>
    BY <1>4, <2>3
    DEF Inv, Places, FlagsInv, RequestsCurrent, SetFlags, Presence, TypeOK, LifecycleTypes
  <2>4. CASE Close("lost") /\ SetFlags(FALSE, FALSE)
    BY <2>4 DEF FlagsInv, SetFlags, Close
  <2> QED BY <1>4, <2>1, <2>2, <2>3, <2>4 DEF Presence
<1>5. CASE Online
  BY <1>5 DEF Inv, FlagsInv, Places, Online, ReadGeneration, AfterOnline, SetFlags
<1>6. CASE ApplyRouting("connectedSeen", "online")
  BY <1>6 DEF Inv, FlagsInv, Places, ApplyRouting, SetRouting
<1>7. CASE ApplyRouting("onlineSeen", "output")
  BY <1>7 DEF Inv, FlagsInv, Places, ApplyRouting, SetRouting
<1>8. CASE WriteOutput
  BY <1>8
  DEF Inv, FlagsInv, Cleaning, WriteOutput, WriteArrives, WriteNotSent, WriteFails, Close
<1>9. CASE KeepOutput
  BY <1>9 DEF Inv, FlagsInv, Places, KeepOutput
<1>10. CASE ComposeRumble
  BY <1>10
  DEF Inv, FlagsInv, Cleaning, ComposeRumble, WriteArrives, WriteNotSent, WriteFails, Close
<1>11. CASE Poll
  BY <1>11 DEF Inv, FlagsInv, Cleaning, Poll, WriteArrives, WriteFails, Close, Observe, Latest
<1>12. CASE Start \/ StopJoin \/ Loop \/ Tick
  BY <1>12 DEF Inv, FlagsInv, Places, Absent, Cleaning, Start, StopJoin, Loop, Tick
<1>13. CASE NoRumble \/ NoPoll \/ StayOn
  BY <1>13 DEF Inv, FlagsInv, Cleaning, NoRumble, NoPoll, StayOn
<1>14. CASE Offline \/ (\E transport \in {"usb", "bluetooth"} : ConnectSucceeds(transport))
  BY <1>14
  DEF Inv, FlagsInv, Places, None, Offline, ClearRumble, ClearObserved, SetFlags,
      ConnectSucceeds, Open
<1>15. CASE Lost \/ End
  BY <1>15 DEF Inv, FlagsInv, Lost, ClearRumble, ClearObserved, SetFlags, End, Close
<1>16. CASE PresenceEnd \/ Connected
  BY <1>16
  DEF Inv, FlagsInv, Places, PresenceEnd, Close, SetFlags, Connected, ReadGeneration,
      AfterConnect
<1>17. CASE PowerOff \/ WorkerFails
  BY <1>17
  DEF Inv, FlagsInv, Cleaning, PowerOff, WriteArrives, WriteNotSent, WriteFails, Close,
      ClearRumble, ClearObserved, SetFlags, WorkerFails
<1>18. CASE StopRequest \/ StopEvents \/ Enqueue \/ RouterBegin \/ RouterEnd
            \/ (\E kind \in {"pulse", "continuous"} : RumbleAdmit(kind)) \/ PulseStore
            \/ ContinuousStore
  BY <1>18
  DEF Inv, FlagsInv, StopRequest, StopEvents, Enqueue, RouterBegin, RouterEnd, RumbleAdmit,
      PulseStore, Stamp, ContinuousStore
<1>19. CASE ContinuousClear \/ PopEvent
  BY <1>19 DEF Inv, FlagsInv, ContinuousClear, PopEvent
<1>20. CASE UNCHANGED vars
  BY <1>20 DEF Inv, FlagsInv
<1> QED BY <1>1, <1>2, <1>3, <1>4, <1>5, <1>6, <1>7, <1>8, <1>9, <1>10, <1>11, <1>12, <1>13, <1>14,
     <1>15, <1>16, <1>17, <1>18, <1>19, <1>20
  DEF Next, OwnerStep, CallerStep, WorkerStep, Transition, Serve

LEMMA RetryInvStep ==
  ASSUME Inv, [Next]_vars
  PROVE  RetryInv'
<1>1. CASE Offline
  BY <1>1 DEF Inv, RetryInv, Offline, ClearRumble, ClearObserved, SetFlags
<1>2. CASE ConnectFails
  <2>1. rapid' => rapid
    BY <1>2, Zenon DEF ConnectFails
  <2>2. ~rapid' => retry' = "normal"
    BY <1>2, Zenon DEF ConnectFails
  <2>3. pc' = "loop" /\ UNCHANGED <<open, ended, intentional>>
    BY <1>2 DEF ConnectFails
  <2>4. pc = "connect" /\ open = None
    BY <1>2 DEF ConnectFails, Inv, Places
  <2> QED BY <2>1, <2>2, <2>3, <2>4 DEF Inv, RetryInv
<1>3. CASE \E transport \in {"usb", "bluetooth"} : ConnectSucceeds(transport)
  BY <1>3 DEF Inv, RetryInv, ConnectSucceeds, Open, SetFlags
<1>4. CASE Lost
  BY <1>4 DEF Inv, RetryInv, Lost, ClearRumble, ClearObserved, SetFlags
<1>5. CASE End
  BY <1>5 DEF Inv, RetryInv, End, ClearRumble, ClearObserved, SetFlags, Close
<1>6. CASE Presence
  BY <1>6 DEF Inv, RetryInv, Presence, Open, Close, SetFlags
<1>7. CASE PresenceEnd
  BY <1>7 DEF Inv, RetryInv, PresenceEnd, Close, SetFlags
<1>8. CASE ApplyRouting("connectedSeen", "online")
  BY <1>8 DEF Inv, RetryInv, ApplyRouting, SetRouting
<1>9. CASE ApplyRouting("onlineSeen", "output")
  BY <1>9 DEF Inv, RetryInv, ApplyRouting, SetRouting
<1>10. CASE WriteOutput
  BY <1>10 DEF Inv, RetryInv, Places, WriteOutput, WriteArrives, WriteNotSent, WriteFails, Close
<1>11. CASE ComposeRumble
  BY <1>11 DEF Inv, RetryInv, ComposeRumble, WriteArrives, WriteNotSent, WriteFails, Close
<1>12. CASE Start \/ Loop \/ Tick \/ Wait
  BY <1>12 DEF Inv, RetryInv, Start, Loop, Tick, Wait
<1>13. CASE NotLost \/ KeepOutput \/ NoRumble \/ NoPoll
  BY <1>13 DEF Inv, RetryInv, Places, NotLost, KeepOutput, NoRumble, NoPoll
<1>14. CASE StayOn
  BY <1>14 DEF Inv, RetryInv, StayOn
<1>15. CASE Connected \/ Online
  BY <1>15
  DEF Inv, RetryInv, Connected, ReadGeneration, AfterConnect, Online, AfterOnline, SetFlags
<1>16. CASE Poll \/ PowerOff
  BY <1>16
  DEF Inv, RetryInv, Poll, WriteArrives, WriteFails, Close, Observe, Latest, PowerOff,
      WriteNotSent, ClearRumble, ClearObserved, SetFlags
<1>17. CASE WorkerFails
  BY <1>17 DEF Inv, RetryInv, WorkerFails, Close, SetFlags
<1>18. CASE StopRequest \/ StopEvents \/ StopJoin \/ Enqueue \/ RouterBegin \/ RouterEnd
            \/ (\E kind \in {"pulse", "continuous"} : RumbleAdmit(kind)) \/ PulseStore
  BY <1>18
  DEF Inv, RetryInv, StopRequest, StopEvents, StopJoin, Enqueue, RouterBegin, RouterEnd,
      RumbleAdmit, PulseStore, Stamp
<1>19. CASE ContinuousStore \/ ContinuousClear \/ PopEvent
  BY <1>19 DEF Inv, RetryInv, ContinuousStore, Stamp, ContinuousClear, PopEvent
<1>20. CASE UNCHANGED vars
  BY <1>20 DEF Inv, RetryInv
<1> QED BY <1>1, <1>2, <1>3, <1>4, <1>5, <1>6, <1>7, <1>8, <1>9, <1>10, <1>11, <1>12, <1>13, <1>14,
     <1>15, <1>16, <1>17, <1>18, <1>19, <1>20
  DEF Next, OwnerStep, CallerStep, WorkerStep, Transition, Serve

LEMMA SetRoutingSets ==
  ASSUME NEW on \in BOOLEAN, usbActive \in BOOLEAN, SetRouting(on),
         usbActive => usbRequested /\ open = "usb"
  PROVE  /\ open = "usb" => usbRequested' = on
         /\ usbActive' => usbRequested' /\ open = "usb"
<1>1. CASE open = "usb" /\ usbRequested = on /\ UNCHANGED usb
  BY <1>1, Zenon
<1>2. CASE open = "usb" /\ usbRequested' = on /\ usbActive' \in {FALSE, on}
  <2>1. CASE usbActive' = FALSE
    BY <1>2, <2>1, Zenon
  <2>2. CASE usbActive' = on
    BY <1>2, <2>2, Zenon
  <2> QED BY <1>2, <2>1, <2>2
<1>3. CASE open # "usb" /\ UNCHANGED usb
  BY <1>3, Zenon
<1> QED BY <1>1, <1>2, <1>3, Zenon DEF SetRouting

LEMMA OpenRoutes ==
  ASSUME NEW transport, Open(transport)
  PROVE  usbActive' => usbRequested' /\ open' = "usb"
  BY Zenon DEF Open

LEMMA RouteInvStep ==
  ASSUME Inv, [Next]_vars
  PROVE  RouteInv'
<1>1. CASE Tick
  BY <1>1 DEF Inv, RouteInv, Tick
<1>2. CASE Wait
  BY <1>2 DEF Inv, RouteInv, Wait
<1>3. CASE ConnectFails
  BY <1>3 DEF Inv, RouteInv, ConnectFails
<1>4. CASE \E transport \in {"usb", "bluetooth"} : ConnectSucceeds(transport)
  <2>1. usbActive' => usbRequested' /\ open' = "usb"
    BY <1>4, OpenRoutes DEF ConnectSucceeds
  <2>2. /\ pc = "connect" /\ pc' = "connected"
        /\ UNCHANGED <<routed, routedGen, seen, routingGen, mode>>
    BY <1>4 DEF ConnectSucceeds
  <2> QED BY <2>1, <2>2 DEF Inv, RouteInv
<1>5. CASE NotLost
  BY <1>5 DEF Inv, RouteInv, NotLost
<1>6. CASE Presence
  <2>1. usbActive' => usbRequested' /\ open' = "usb"
    <3>1. CASE Open("usb")
      BY <3>1, OpenRoutes
    <3>2. CASE Close("lost")
      BY <3>2 DEF Close
    <3>3. CASE UNCHANGED device
      BY <3>3, Zenon DEF Inv, RouteInv
    <3> QED BY <1>6, <3>1, <3>2, <3>3 DEF Presence
  <2>2. pc' = "presence" /\ UNCHANGED <<routed, routedGen, seen, routingGen, mode>>
    BY <1>6 DEF Presence
  <2>3. mode = "PresenceOnly"
    BY <1>6 DEF Presence, Inv, Places, TypeOK, LifecycleTypes
  <2> QED BY <2>1, <2>2, <2>3 DEF Inv, RouteInv
<1>7. CASE ApplyRouting("connectedSeen", "online")
  <2>1. routed' /\ routedGen' = seen /\ UNCHANGED <<seen, routingGen, wantRouting, router, open, mode>>
    BY <1>7 DEF ApplyRouting
  <2>2. /\ open = "usb" => usbRequested' = wantRouting
        /\ usbActive' => usbRequested' /\ open = "usb"
    BY <1>7, SetRoutingSets DEF ApplyRouting, Inv, RouteInv, TypeOK, SharedTypes, DeviceTypes
  <2>3. pc' # "connect" /\ mode # "PresenceOnly"
    BY <1>7 DEF ApplyRouting, Inv, Places
  <2> QED BY <2>1, <2>2, <2>3 DEF Inv, RouteInv
<1>8. CASE ApplyRouting("onlineSeen", "output")
  <2>1. routed' /\ routedGen' = seen /\ UNCHANGED <<seen, routingGen, wantRouting, router, open, mode>>
    BY <1>8 DEF ApplyRouting
  <2>2. /\ open = "usb" => usbRequested' = wantRouting
        /\ usbActive' => usbRequested' /\ open = "usb"
    BY <1>8, SetRoutingSets DEF ApplyRouting, Inv, RouteInv, TypeOK, SharedTypes, DeviceTypes
  <2>3. pc' # "connect" /\ mode # "PresenceOnly"
    BY <1>8 DEF ApplyRouting, Inv, Places
  <2> QED BY <2>1, <2>2, <2>3 DEF Inv, RouteInv
<1>9. CASE WriteOutput
  BY <1>9 DEF Inv, RouteInv, None, WriteOutput, WriteArrives, WriteNotSent, WriteFails, Close
<1>10. CASE ComposeRumble
  BY <1>10 DEF Inv, RouteInv, None, ComposeRumble, WriteArrives, WriteNotSent, WriteFails, Close
<1>11. CASE Start \/ RouterBegin \/ RouterEnd \/ Loop
  BY <1>11
  DEF Inv, RouteInv, Places, None, Start, RouterBegin, RouterEnd, Loop, TypeOK, SharedTypes,
      OutputTypes
<1>12. CASE KeepOutput \/ NoRumble \/ NoPoll \/ StayOn
  BY <1>12 DEF Inv, RouteInv, KeepOutput, NoRumble, NoPoll, StayOn
<1>13. CASE Offline \/ Lost
  BY <1>13 DEF Inv, RouteInv, Places, Offline, ClearRumble, ClearObserved, SetFlags, Lost
<1>14. CASE End \/ PresenceEnd
  BY <1>14
  DEF Inv, RouteInv, None, End, ClearRumble, ClearObserved, SetFlags, Close, PresenceEnd
<1>15. CASE Connected \/ Online
  BY <1>15
  DEF Inv, RouteInv, Connected, ReadGeneration, AfterConnect, Online, AfterOnline, SetFlags,
      TypeOK, SharedTypes
<1>16. CASE Poll \/ PowerOff
  BY <1>16
  DEF Inv, RouteInv, None, Poll, WriteArrives, WriteFails, Close, Observe, Latest, PowerOff,
      WriteNotSent, ClearRumble, ClearObserved, SetFlags
<1>17. CASE WorkerFails
  BY <1>17 DEF Inv, RouteInv, None, WorkerFails, Close, SetFlags
<1>18. CASE StopRequest \/ StopEvents \/ StopJoin \/ Enqueue
            \/ (\E kind \in {"pulse", "continuous"} : RumbleAdmit(kind)) \/ PulseStore
            \/ ContinuousStore \/ ContinuousClear
  BY <1>18
  DEF Inv, RouteInv, StopRequest, StopEvents, StopJoin, Enqueue, RumbleAdmit, PulseStore, Stamp,
      ContinuousStore, ContinuousClear
<1>19. CASE PopEvent
  BY <1>19 DEF Inv, RouteInv, PopEvent
<1>20. CASE UNCHANGED vars
  BY <1>20 DEF Inv, RouteInv
<1> QED BY <1>1, <1>2, <1>3, <1>4, <1>5, <1>6, <1>7, <1>8, <1>9, <1>10, <1>11, <1>12, <1>13, <1>14,
     <1>15, <1>16, <1>17, <1>18, <1>19, <1>20
  DEF Next, OwnerStep, CallerStep, WorkerStep, Transition, Serve

LEMMA AppliedInvStep ==
  ASSUME Inv, [Next]_vars
  PROVE  AppliedInv'
<1>1. CASE Presence
  BY <1>1 DEF Inv, AppliedInv, Places, Presence, Open, Close, SetFlags, TypeOK, LifecycleTypes
<1>2. CASE Start \/ Loop \/ Tick \/ Wait
  BY <1>2 DEF Inv, AppliedInv, Start, Loop, Tick, Wait
<1>3. CASE ConnectFails \/ NotLost \/ KeepOutput \/ NoRumble
  BY <1>3 DEF Inv, AppliedInv, ConnectFails, NotLost, KeepOutput, NoRumble
<1>4. CASE NoPoll \/ StayOn
  BY <1>4 DEF Inv, AppliedInv, NoPoll, StayOn
<1>5. CASE Offline \/ (\E transport \in {"usb", "bluetooth"} : ConnectSucceeds(transport))
  BY <1>5
  DEF Inv, AppliedInv, Offline, ClearRumble, ClearObserved, SetFlags, ConnectSucceeds, Open
<1>6. CASE Lost \/ End
  BY <1>6 DEF Inv, AppliedInv, Lost, ClearRumble, ClearObserved, SetFlags, End, Close
<1>7. CASE PresenceEnd \/ Connected
  BY <1>7
  DEF Inv, AppliedInv, PresenceEnd, Close, SetFlags, Connected, ReadGeneration, AfterConnect
<1>8. CASE Online \/ ApplyRouting("connectedSeen", "online")
  BY <1>8
  DEF Inv, AppliedInv, Online, ReadGeneration, AfterOnline, SetFlags, ApplyRouting, SetRouting
<1>9. CASE ApplyRouting("onlineSeen", "output") \/ WriteOutput
  BY <1>9
  DEF Inv, AppliedInv, Places, ApplyRouting, SetRouting, WriteOutput, WriteArrives,
      WriteNotSent, WriteFails, Close
<1>10. CASE ComposeRumble \/ Poll
  BY <1>10
  DEF Inv, AppliedInv, ComposeRumble, WriteArrives, WriteNotSent, WriteFails, Close, Poll,
      Observe, Latest
<1>11. CASE PowerOff \/ WorkerFails
  BY <1>11
  DEF Inv, AppliedInv, PowerOff, WriteArrives, WriteNotSent, WriteFails, Close, ClearRumble,
      ClearObserved, SetFlags, WorkerFails
<1>12. CASE StopRequest \/ StopEvents \/ StopJoin \/ Enqueue \/ RouterBegin \/ RouterEnd
            \/ (\E kind \in {"pulse", "continuous"} : RumbleAdmit(kind)) \/ PulseStore
  BY <1>12
  DEF Inv, AppliedInv, StopRequest, StopEvents, StopJoin, Enqueue, RouterBegin, RouterEnd,
      RumbleAdmit, PulseStore, Stamp
<1>13. CASE ContinuousStore \/ ContinuousClear \/ PopEvent
  BY <1>13 DEF Inv, AppliedInv, ContinuousStore, Stamp, ContinuousClear, PopEvent
<1>14. CASE UNCHANGED vars
  BY <1>14 DEF Inv, AppliedInv
<1> QED BY <1>1, <1>2, <1>3, <1>4, <1>5, <1>6, <1>7, <1>8, <1>9, <1>10, <1>11, <1>12, <1>13, <1>14
  DEF Next, OwnerStep, CallerStep, WorkerStep, Transition, Serve

LEMMA NoReplayStep ==
  ASSUME Inv, [Next]_vars
  PROVE  NoReplay'
<1>1. CASE ComposeRumble
  BY <1>1
  DEF Inv, NoReplay, ComposeRumble, WriteArrives, WriteNotSent, WriteFails, Close,
      RequestsCurrent
<1>2. CASE (\E transport \in {"usb", "bluetooth"} : ConnectSucceeds(transport)) \/ End
  BY <1>2
  DEF Inv, NoReplay, ConnectSucceeds, Open, SetFlags, End, ClearRumble, ClearObserved, Close
<1>3. CASE Presence \/ PresenceEnd
  BY <1>3 DEF Inv, NoReplay, Presence, Open, Close, SetFlags, PresenceEnd
<1>4. CASE WriteOutput \/ Poll
  BY <1>4
  DEF Inv, NoReplay, WriteOutput, WriteArrives, WriteNotSent, WriteFails, Close, Poll, Observe,
      Latest
<1>5. CASE PowerOff \/ WorkerFails
  BY <1>5
  DEF Inv, NoReplay, PowerOff, WriteArrives, WriteNotSent, WriteFails, Close, ClearRumble,
      ClearObserved, SetFlags, WorkerFails
<1>6. CASE Start \/ StopRequest \/ StopEvents \/ StopJoin \/ Enqueue \/ RouterBegin
           \/ RouterEnd \/ (\E kind \in {"pulse", "continuous"} : RumbleAdmit(kind))
  BY <1>6
  DEF Inv, NoReplay, Start, StopRequest, StopEvents, StopJoin, Enqueue, RouterBegin, RouterEnd,
      RumbleAdmit
<1>7. CASE PulseStore \/ ContinuousStore \/ ContinuousClear \/ Loop \/ PopEvent \/ Tick
           \/ Offline \/ Wait
  BY <1>7
  DEF Inv, NoReplay, PulseStore, Stamp, ContinuousStore, ContinuousClear, Loop, PopEvent, Tick,
      Offline, ClearRumble, ClearObserved, SetFlags, Wait
<1>8. CASE ConnectFails \/ Lost \/ NotLost \/ Connected \/ Online
           \/ ApplyRouting("connectedSeen", "online") \/ ApplyRouting("onlineSeen", "output")
           \/ KeepOutput
  BY <1>8
  DEF Inv, NoReplay, ConnectFails, Lost, ClearRumble, ClearObserved, SetFlags, NotLost,
      Connected, ReadGeneration, AfterConnect, Online, AfterOnline, ApplyRouting, SetRouting,
      KeepOutput
<1>9. CASE NoRumble \/ NoPoll \/ StayOn
  BY <1>9 DEF Inv, NoReplay, NoRumble, NoPoll, StayOn
<1>10. CASE UNCHANGED vars
  BY <1>10 DEF Inv, NoReplay
<1> QED BY <1>1, <1>2, <1>3, <1>4, <1>5, <1>6, <1>7, <1>8, <1>9, <1>10
  DEF Next, OwnerStep, CallerStep, WorkerStep, Transition, Serve

LEMMA InitInv ==
  ASSUME Init
  PROVE  Inv
<1>0. 0 \in 0..Capacity /\ 0 \in 0..MaxConnections
  BY BoundsAssumption
<1>1. LifecycleTypes
  BY <1>0, Zenon DEF Init, LifecycleTypes
<1>2. SharedTypes
  BY RequestFacts DEF Init, SharedTypes
<1>3. OutputTypes
  BY OutputsAssumption DEF Init, OutputTypes, Labels
<1>4. PolicyTypes
  BY DEF Init, PolicyTypes
<1>5. DeviceTypes
  BY <1>0, OutputsAssumption, Zenon DEF Init, DeviceTypes
<1>6. Places /\ RequestsCurrent /\ NoReplay /\ InputInv
  BY DEF Init, Places, Absent, RequestsCurrent, NoReplay, InputInv
<1>7. ObserverInv /\ FlagsInv
  BY DEF Init, ObserverInv, FlagsInv
<1>8. RetryInv
  BY DEF Init, RetryInv
<1>9. RouteInv /\ AppliedInv
  BY DEF Init, RouteInv, AppliedInv
<1> QED BY <1>1, <1>2, <1>3, <1>4, <1>5, <1>6, <1>7, <1>8, <1>9 DEF Inv, TypeOK

LEMMA InvStep ==
  ASSUME Inv, [Next]_vars
  PROVE  Inv'
<1>1. TypeOK'
  BY LifecycleTypesStep, SharedTypesStep, OutputTypesStep, PolicyTypesStep, DeviceTypesStep
  DEF Inv, TypeOK
<1> QED
  BY <1>1, PlacesStep, RequestsCurrentStep, NoReplayStep, InputInvStep, ObserverInvStep,
     FlagsInvStep, RetryInvStep, RouteInvStep, AppliedInvStep DEF Inv

LEMMA Invariance == Spec => []Inv
  BY InitInv, InvStep, PTL DEF Spec

-------------------------------------------------------------------------------
\* Every variable keeps its type, for any callers, outputs and bounds.
THEOREM ControllerTypes == Spec => []TypeOK
<1>1. Inv => TypeOK
  BY DEF Inv
<1> QED BY <1>1, Invariance, PTL

\* Rumble stored while an earlier connection was open never reaches the motors
\* of a later one, neither directly nor with a later output report.
THEOREM NoStaleRumble == Spec => []NoReplay
<1>1. Inv => NoReplay
  BY DEF Inv
<1> QED BY <1>1, Invariance, PTL

\* The USB route follows the setting, whatever connections and generations come
\* between, and although setting and generation are written apart.
THEOREM RouteSettles == Spec => []RouteFollowsSetting
<1>1. Inv => RouteFollowsSetting
  BY DEF Inv, TypeOK, LifecycleTypes, Places, RouteInv, RouteFollowsSetting, None
<1> QED BY <1>1, Invariance, PTL

\* The bridge is offered input of the Bluetooth connection that is open, or none.
THEOREM InputStaysCurrent == Spec => []InputIsCurrent
<1>1. Inv => InputIsCurrent
  BY DEF Inv, InputInv, InputIsCurrent, Cleaning
<1> QED BY <1>1, Invariance, PTL

\* The observer of R2 is released on every way out but an exception.
THEOREM ObserverIsReleased == Spec => []ObserverReleased
<1>1. Inv => ObserverReleased
  BY DEF Inv, TypeOK, PolicyTypes, ObserverInv, ObserverReleased, Cleaning
<1> QED BY <1>1, Invariance, PTL

\* Between two turns the flags name the link that is open.
THEOREM FlagsAreTrue == Spec => []FlagsNameTheLink
<1>1. Inv => FlagsNameTheLink
  BY DEF Inv, TypeOK, SharedTypes, FlagsInv, FlagsNameTheLink, Cleaning, None
<1> QED BY <1>1, Invariance, PTL

\* After an intended power-off the worker takes its time; after a loss it hurries.
THEOREM RetryIsAsIntended == Spec => []RetryPolicy
<1>1. Inv => RetryPolicy
  BY DEF Inv, RetryInv, RetryPolicy
<1> QED BY <1>1, Invariance, PTL

\* The worker takes nothing for applied that this connection was not sent.
THEOREM AppliedWasShown == Spec => []AppliedIsShown
<1>1. Inv => AppliedIsShown
  BY DEF Inv, AppliedInv, AppliedIsShown
<1> QED BY <1>1, Invariance, PTL
-------------------------------------------------------------------------------
(* The way out of the worker's loop.                                       *)

\* How many control points a worker that was told to stop has before it, at most,
\* apart from the events it still drains.
Ahead ==
  [at \in Labels |->
     CASE at = "events" -> 15 [] at = "offline" -> 14 [] at = "connect" -> 13
       [] at = "connected" -> 12 [] at = "connectedSeen" -> 11 [] at = "online" -> 10
       [] at = "onlineSeen" -> 9 [] at = "output" -> 8 [] at = "rumble" -> 7 [] at = "poll" -> 6
       [] at = "idle" -> 5 [] at = "lost" -> 4 [] at = "loop" -> 3 [] at = "ending" -> 2
       [] at = "presence" -> 1 [] OTHER -> 0]

Remaining == queue + Ahead[pc]

\* Each step of the worker brings its end nearer, and nobody takes it further away.
CountsDown ==
  owner = "joining" => Remaining' <= Remaining /\ (WorkerStep => Remaining' < Remaining)

StopInv ==
  /\ owner # "idle" => stopRequested
  /\ owner = "joining" => refusing

LEMMA AheadFacts ==
  /\ \A at \in Labels : Ahead[at] \in 0..15
  /\ Ahead["events"] = 15 /\ Ahead["offline"] = 14 /\ Ahead["connect"] = 13
  /\ Ahead["connected"] = 12 /\ Ahead["connectedSeen"] = 11 /\ Ahead["online"] = 10
  /\ Ahead["onlineSeen"] = 9 /\ Ahead["output"] = 8 /\ Ahead["rumble"] = 7
  /\ Ahead["poll"] = 6 /\ Ahead["idle"] = 5 /\ Ahead["lost"] = 4 /\ Ahead["loop"] = 3
  /\ Ahead["ending"] = 2 /\ Ahead["presence"] = 1
  /\ Ahead["failed"] = 0 /\ Ahead["done"] = 0
  BY DEF Ahead, Labels

LEMMA OnlyOwnersStop ==
  ASSUME WorkerStep \/ CallerStep \/ WorkerFails
  PROVE  UNCHANGED <<stopRequested, refusing, owner>>
  BY DEF WorkerStep, Transition, Serve, CallerStep, WorkerFails, Enqueue, RouterBegin, RouterEnd,
     RumbleAdmit, PulseStore, ContinuousStore, ContinuousClear, Loop, PopEvent, Tick, Offline,
     Wait, ConnectFails, ConnectSucceeds, Lost, NotLost, End, Presence, PresenceEnd, Connected,
     Online, ApplyRouting, WriteOutput, KeepOutput, ComposeRumble, NoRumble, Poll, NoPoll, StayOn,
     PowerOff

LEMMA StopInvStep ==
  ASSUME StopInv, [Next]_vars
  PROVE  StopInv'
<1>1. CASE OwnerStep
  BY <1>1 DEF StopInv, OwnerStep, Start, StopRequest, StopEvents, StopJoin
<1>2. CASE ~OwnerStep
  BY <1>2, OnlyOwnersStop DEF StopInv, Next
<1> QED BY <1>1, <1>2

\* The queue is drained at the head of a turn; after it the turn runs to its end.
LEMMA TransitionNearer ==
  ASSUME TypeOK, StopInv, owner = "joining", Transition
  PROVE  Remaining' < Remaining
<1>0. queue \in Nat /\ Ahead[pc] \in Nat /\ stopRequested
  BY AheadFacts, BoundsAssumption DEF TypeOK, LifecycleTypes, OutputTypes, StopInv
<1>1. CASE PopEvent
  BY <1>0, <1>1 DEF PopEvent, Remaining
<1>2. CASE ~PopEvent
  <2>1. queue' = queue
    BY <1>2 DEF Transition, Loop, Tick, Offline, Wait, ConnectFails, ConnectSucceeds, Lost,
       NotLost, End, Presence, PresenceEnd
  <2>2. \/ pc = "loop" /\ pc' = "ending"
        \/ pc = "events" /\ pc' \in {"offline", "online"}
        \/ pc = "offline" /\ pc' = "connect"
        \/ pc = "connect" /\ pc' \in {"loop", "connected"}
        \/ pc = "lost" /\ pc' = "loop"
        \/ pc \in {"ending", "presence"} /\ pc' = "done"
    BY <1>0, <1>2 DEF Transition, Loop, Tick, Offline, Wait, ConnectFails, ConnectSucceeds, Lost,
       NotLost, End, Presence, PresenceEnd
  <2> QED BY <1>0, <2>1, <2>2, AheadFacts DEF Remaining
<1> QED BY <1>1, <1>2

LEMMA ServeNearer ==
  ASSUME TypeOK, Serve
  PROVE  Remaining' < Remaining
<1>0. queue \in Nat
  BY BoundsAssumption DEF TypeOK, LifecycleTypes
<1>1. queue' = queue
  BY DEF Serve, Connected, Online, ApplyRouting, WriteOutput, KeepOutput, ComposeRumble, NoRumble,
     Poll, NoPoll, StayOn, PowerOff
<1>2. \/ pc = "connected" /\ pc' \in {"connectedSeen", "online"}
      \/ pc = "connectedSeen" /\ pc' = "online"
      \/ pc = "online" /\ pc' \in {"onlineSeen", "output"}
      \/ pc = "onlineSeen" /\ pc' = "output"
      \/ pc = "output" /\ pc' = "rumble"
      \/ pc = "rumble" /\ pc' = "poll"
      \/ pc = "poll" /\ pc' = "idle"
      \/ pc = "idle" /\ pc' = "lost"
  BY DEF Serve, Connected, Online, ReadGeneration, AfterConnect, AfterOnline, ApplyRouting,
     WriteOutput, KeepOutput, ComposeRumble, NoRumble, Poll, NoPoll, StayOn, PowerOff
<1> QED BY <1>0, <1>1, <1>2, AheadFacts DEF Remaining

LEMMA OthersNoFurther ==
  ASSUME TypeOK, StopInv, owner = "joining",
         OwnerStep \/ CallerStep \/ WorkerFails \/ UNCHANGED vars
  PROVE  Remaining' <= Remaining
<1>0. queue \in Nat /\ Ahead[pc] \in Nat /\ refusing
  BY AheadFacts, BoundsAssumption DEF TypeOK, LifecycleTypes, OutputTypes, StopInv
<1>1. queue' = queue
  BY <1>0 DEF OwnerStep, Start, StopRequest, StopEvents, StopJoin, CallerStep, Enqueue,
     RouterBegin, RouterEnd, RumbleAdmit, PulseStore, ContinuousStore, ContinuousClear, WorkerFails
<1>2. pc' \in {pc, "failed"}
  BY DEF OwnerStep, Start, StopRequest, StopEvents, StopJoin, CallerStep, Enqueue,
     RouterBegin, RouterEnd, RumbleAdmit, PulseStore, ContinuousStore, ContinuousClear, WorkerFails
<1> QED BY <1>0, <1>1, <1>2, AheadFacts DEF Remaining

\* Once EventQueue::stop has returned, what the worker still has to do shrinks with
\* each of its steps and grows with nobody's: what StopReturns needs besides fairness.
THEOREM StopCountsDown == Spec => [][CountsDown]_vars
<1>1. Init => StopInv
  BY DEF Init, StopInv
<1>2. StopInv /\ [Next]_vars => StopInv'
  BY StopInvStep
<1>3. Inv /\ StopInv /\ [Next]_vars => [CountsDown]_vars
  <2> SUFFICES ASSUME Inv, StopInv, [Next]_vars, owner = "joining"
               PROVE  Remaining' <= Remaining /\ (WorkerStep => Remaining' < Remaining)
    BY DEF CountsDown
  <2>1. CASE WorkerStep
    <3>1. Remaining' < Remaining
      BY <2>1, TransitionNearer, ServeNearer DEF Inv, WorkerStep
    <3>2. Remaining \in Int /\ Remaining' \in Int
      BY AheadFacts, BoundsAssumption, InvStep DEF Inv, TypeOK, LifecycleTypes, OutputTypes, Remaining
    <3> QED BY <3>1, <3>2
  <2>2. CASE ~WorkerStep
    BY <2>2, OthersNoFurther DEF Inv, Next
  <2> QED BY <2>1, <2>2
<1> QED BY <1>1, <1>2, <1>3, Invariance, PTL DEF Spec
===============================================================================
