---------------------------- MODULE HapticLeases ----------------------------
(***************************************************************************)
(* The continuous body haptics.  HapticsManager keeps which context the    *)
(* player is in (on foot, ship seat, REV-8), what is authorised there and  *)
(* the leases of what only a heartbeat keeps alive.  Each handler updates  *)
(* that state and composes from it what should vibrate under _engineMutex, *)
(* and hands the composition to DualModeHapticsBackend after unlocking:    *)
(* a submission is a look at the master switch and the link, then a store. *)
(*                                                                         *)
(* The game's thread (events, menus, runtime tick), Wwise callbacks, the   *)
(* controller worker and the settings page all submit.  A composition is   *)
(* the set of sources that vibrate; gains, levels, finite effects and      *)
(* process exit are left out.                                              *)
(***************************************************************************)
EXTENDS Naturals, FiniteSets

CONSTANTS
  Epochs,    \* authority epochs a REV-8 motion state may carry
  Boosts,    \* boosts of the REV-8 in use
  Shooters,  \* threads the ship's fire gates dispatch from
  Parts,     \* parts of the program: the members of PartNames in use
  Scenarios  \* sets of parts; a behaviour exercises one of them

PartNames == {"ship", "rumble", "vehicle", "weapon", "jet", "settings", "link"}

ASSUME EpochsAssumption == Epochs \subseteq Nat \ {0}
ASSUME ScenariosAssumption == Parts \subseteq PartNames /\ Scenarios \subseteq SUBSET Parts

Threads == {"game", "wwise", "worker", "settings"}

ASSUME ShootersAssumption == Shooters \subseteq {"wwise", "worker"}
ASSUME BoostsAssumption == Boosts \subseteq {"forward", "vertical"}

ShipMenus == {"Data"}                 \* stands for PauseMenu and GalaxyStarMapMenu too
VehicleMenus == {"Data", "Loading"}
Weapons == {"none", "stress", "beam", "arc", "charge", "rivet"}
Sources == {"weapon", "thrust", "propulsion", "rumble", "laser", "chassis",
            "forward", "vertical"}
Leases == {"off", "running", "due"}
Links == {"none", "usb", "bluetooth"}

VARIABLES
  scenario,  \* the parts this behaviour exercises
  open,      \* blocking menus that are open in the game
  hm,        \* HapticsManager with its HapticsEngine, under _engineMutex
  enabled,   \* _advancedHapticsEnabled
  jet,       \* lease of BoostpackFeedbackAuthority
  eligible,  \* its _contextEligible
  pending,   \* what each thread has composed and not yet handed over
  wired,     \* continuousPacked of the audio transport
  bt,        \* continuous rumble of ControllerManager
  link,      \* connected() and bluetoothTransport()
  newest,    \* the thread whose composition is the newest
  crossed    \* an older composition was stored over a newer one, or the link
             \* changed under what was stored

shared == <<enabled, jet, eligible>>
backend == <<wired, bt, link, crossed>>
vars == <<scenario, open, hm, shared, pending, backend, newest>>

Quiet == [at |-> "idle", bed |-> {}, side |-> "none"]

\* R2 is 0 up to the release threshold of 12, 2 from the press threshold of 24.
Initial(on) ==
  [pilot |-> FALSE, vehicle |-> FALSE, suppressed |-> FALSE, mask |-> {},
   cruising |-> FALSE, rumble |-> FALSE, laser |-> "off",
   production |-> FALSE, epoch |-> 0, motion |-> FALSE, chassis |-> FALSE,
   forward |-> "off", vertical |-> "off",
   weapon |-> "none", firing |-> FALSE, paused |-> FALSE, menus |-> {}, family |-> on,
   watchable |-> FALSE, armed |-> "off", waiting |-> FALSE, r2 |-> 0,
   thrust |-> FALSE, boost |-> TRUE]

Init ==
  /\ scenario \in Scenarios
  /\ open = {}
  /\ \E on \in BOOLEAN :
       ("weapon" \in scenario \/ on) /\ hm = Initial(on)
  /\ enabled \in IF "settings" \in scenario THEN BOOLEAN ELSE {TRUE}
  /\ jet = "off" /\ eligible = TRUE
  /\ pending = [t \in Threads |-> Quiet]
  /\ wired = {} /\ bt = {}
  /\ link \in IF "link" \in scenario THEN Links ELSE {"usb"}
  /\ newest = "game" /\ crossed = FALSE

-----------------------------------------------------------------------------
(* HapticsEngine::handleRightTriggerInput.                                 *)

\* What is left of the weapon's authorisation after a look at R2.
FiringAfter(m, level) ==
  IF m.paused \/ m.weapon = "none" THEN m.firing
  ELSE /\ m.family
       /\ \/ m.weapon = "stress" /\ (level = 2 \/ (m.firing /\ level = 1))
          \/ m.weapon \in {"beam", "arc"} /\ m.firing /\ level > 0
          \/ m.weapon \in {"charge", "rivet"} /\ m.firing

Fed(m, level) == [m EXCEPT !.firing = FiringAfter(m, level)]

WeaponBed(m, level) ==
  IF /\ ~m.paused /\ m.weapon # "none" /\ FiringAfter(m, level)
     /\ m.weapon \in {"charge", "rivet"} => level = 2
     /\ m.weapon = "rivet" => m.menus = {}
  THEN {"weapon"} ELSE {}

-----------------------------------------------------------------------------
(* The three compositions of HapticsManager.                               *)

Thrusting(m) == m.thrust /\ m.boost

FootBed(m) == IF Thrusting(m) THEN {"thrust"} ELSE WeaponBed(m, m.r2)
AfterFoot(m) == IF Thrusting(m) THEN m ELSE Fed(m, m.r2)

ShipBed(m) ==
  IF m.mask # {} THEN {}
  ELSE IF m.rumble THEN {"rumble"}
  ELSE {s \in {"propulsion", "laser"} :
          /\ m.pilot
          /\ s = "propulsion" => m.cruising
          /\ s = "laser" => m.laser # "off"}

\* motion: a live motion state whose epoch is that of production.
VehicleLive(m) ==
  m.production /\ m.vehicle /\ ~m.pilot /\ m.mask = {} /\ m.motion

VehicleBed(m) ==
  {s \in {"chassis", "forward", "vertical"} :
     /\ VehicleLive(m)
     /\ s = "chassis" => m.chassis
     /\ s = "forward" => m.forward # "off"
     /\ s = "vertical" => m.vertical # "off"}

\* The choice applyLiveSettings and stopBoostpackThrust make.
OnShip(m) == m.pilot \/ m.rumble
OnVehicle(m) == m.production /\ m.vehicle /\ ~m.pilot
ContextBed(m) ==
  IF OnShip(m) THEN ShipBed(m) ELSE IF OnVehicle(m) THEN VehicleBed(m) ELSE FootBed(m)
AfterContext(m) == IF OnShip(m) \/ OnVehicle(m) THEN m ELSE AfterFoot(m)

\* The watch over the beam.
Unwatched(m) == [m EXCEPT !.watchable = FALSE, !.armed = "off", !.waiting = FALSE]

\* clearOnFootContextStateLocked
OffFoot(m) ==
  [Unwatched(m) EXCEPT !.weapon = "none", !.firing = FALSE, !.paused = FALSE,
                       !.menus = {}, !.r2 = 0, !.thrust = FALSE]

\* clearLandVehicleProductionLocked
NoDrive(m) ==
  [m EXCEPT !.production = FALSE, !.epoch = 0, !.motion = FALSE, !.chassis = FALSE,
            !.forward = "off", !.vertical = "off"]

-----------------------------------------------------------------------------
(* How a handler ends: with a composition to submit, or with none.         *)

Idle(t) == pending[t].at = "idle"
Hand(t, at, bed) ==
  /\ pending' = [pending EXCEPT ![t] = [at |-> at, bed |-> bed, side |-> "none"]]
  /\ newest' = t
Leave == UNCHANGED <<scenario, open, shared, backend>>

Submit(t, m, bed) ==
  Idle(t) /\ hm' = m /\ Hand(t, "look", bed) /\ Leave

Record(t, m) ==
  Idle(t) /\ hm' = m /\ Leave /\ UNCHANGED <<pending, newest>>

\* Mutant: which side plays is left for the store to find out.
ForcedUndecided(t) ==
  /\ pending[t].at = "forced"
  /\ pending' = [pending EXCEPT ![t].at = "write"]
  /\ UNCHANGED <<scenario, open, hm, shared, backend, newest>>

\* Mutant: the composition is taken for submitted although haptics went off.
LookUnchecked(t) ==
  /\ pending[t].at = "look"
  /\ pending' = [pending EXCEPT ![t].at = "write",
                   ![t].side = IF link = "bluetooth" THEN "bluetooth" ELSE "usb"]
  /\ UNCHANGED <<scenario, open, hm, shared, backend, newest>>

\* The master switch, then bluetoothActive of the dual-mode backend.
Look(t) ==
  /\ pending[t].at = "look"
  /\ pending' = [pending EXCEPT ![t] =
       IF enabled
       THEN [@ EXCEPT !.at = "write",
                      !.side = IF link = "bluetooth" THEN "bluetooth" ELSE "usb"]
       ELSE Quiet]
  /\ UNCHANGED <<scenario, open, hm, shared, backend, newest>>

\* applyLiveSettings submits without a look at the switch.
LookForced(t) ==
  /\ pending[t].at = "forced"
  /\ pending' = [pending EXCEPT ![t] =
       [@ EXCEPT !.at = "write",
                 !.side = IF link = "bluetooth" THEN "bluetooth" ELSE "usb"]]
  /\ UNCHANGED <<scenario, open, hm, shared, backend, newest>>

\* The USB side is stored after the rumble was cleared; the Bluetooth side
\* only takes a rumble while the controller is still there.
Write(t) ==
  LET bed == pending[t].bed
      side == pending[t].side
  IN  /\ pending[t].at = "write"
      /\ wired' = IF side = "usb" THEN bed ELSE wired
      /\ bt' = IF side = "usb" THEN {}
               ELSE IF bed = {} \/ link = "bluetooth" THEN bed ELSE bt
      /\ crossed' = \/ (side = "bluetooth") # (link = "bluetooth")
                    \/ newest # t /\ bed # {}
      /\ pending' = [pending EXCEPT ![t] = Quiet]
      /\ UNCHANGED <<scenario, open, hm, shared, link, newest>>

\* ControllerManager finds or loses the controller, and clears the rumble with it.
LinkChange(l) ==
  /\ "link" \in scenario
  /\ (l = "none") # (link = "none")
  /\ link' = l
  /\ bt' = IF l = "none" THEN {} ELSE bt
  /\ crossed' = (l # "none" /\ (crossed \/ (IF l = "usb" THEN wired ELSE bt) # {}))
  /\ UNCHANGED <<scenario, open, hm, shared, pending, wired, newest>>

-----------------------------------------------------------------------------
(* HapticsManager::handle: the context.                                    *)

Cockpit(m, pilot) ==
  OffFoot(NoDrive([m EXCEPT !.pilot = pilot, !.vehicle = FALSE, !.suppressed = TRUE,
                            !.mask = {}, !.cruising = FALSE, !.laser = "off"]))

Game == Idle("game")

\* ShipPilotEntered and ShipPilotResumed.
ShipPilotEntered ==
  /\ "ship" \in scenario
  /\ LET m == Cockpit(hm, TRUE)
     IN  Submit("game", m, IF m.rumble THEN ShipBed(m) ELSE {})

ShipPilotInvalidated ==
  "ship" \in scenario /\ Submit("game", Cockpit(hm, FALSE), {})

ShipPilotExited ==
  /\ "ship" \in scenario /\ hm.pilot
  /\ Submit("game", OffFoot([hm EXCEPT !.pilot = FALSE, !.mask = {}, !.cruising = FALSE,
                                       !.laser = "off", !.suppressed = hm.vehicle]), {})

LandVehicleContextEntered ==
  /\ "vehicle" \in scenario /\ ~hm.pilot
  /\ Submit("game", OffFoot([NoDrive(hm) EXCEPT !.vehicle = TRUE, !.suppressed = TRUE]), {})

\* The mask of blocking menus is not reset.
LandVehicleContextExited ==
  /\ hm.vehicle
  /\ Submit("game", OffFoot([NoDrive(hm) EXCEPT !.vehicle = FALSE,
                               !.suppressed = hm.pilot /\ hm.suppressed]), {})

LandVehicleAuthorityAcquired ==
  /\ hm.vehicle /\ ~hm.pilot
  /\ Submit("game", [hm EXCEPT !.production = TRUE, !.epoch = 0, !.motion = FALSE,
                               !.chassis = FALSE], {})

LandVehicleAuthorityReleased ==
  "vehicle" \in scenario /\ Submit("game", NoDrive(hm), {})

-----------------------------------------------------------------------------
(* HapticsManager::handle: menus, which open and close in the game.        *)

MenuEvent(x, opens) ==
  /\ Game /\ (x \in open) # opens
  /\ open' = IF opens THEN open \cup {x} ELSE open \ {x}
  /\ UNCHANGED <<scenario, shared, backend>>

Masked(m, x, opens) == [m EXCEPT !.mask = IF opens THEN @ \cup {x} ELSE @ \ {x}]

\* Mutant: a menu over the REV-8 leaves its production running.
VehicleMenuKeepingMotion(x, opens) ==
  /\ hm.vehicle
  /\ MenuEvent(x, opens)
  /\ hm' = Masked(hm, x, opens)
  /\ Hand("game", "look", {})

VehicleMenu(x, opens) ==
  LET m == Masked(hm, x, opens)
      blocked == [m EXCEPT !.motion = FALSE, !.chassis = FALSE]
  IN  /\ hm.vehicle
      /\ MenuEvent(x, opens)
      /\ hm' = IF ~opens THEN m ELSE IF x = "Loading" THEN NoDrive(blocked) ELSE blocked
      /\ Hand("game", "look", {})

OverShip(x) == ~hm.vehicle /\ OnShip(hm) /\ x \in ShipMenus

ShipMenu(x, opens) ==
  LET m == Masked(hm, x, opens)
  IN  /\ OverShip(x)
      /\ MenuEvent(x, opens)
      /\ hm' = IF opens THEN [m EXCEPT !.cruising = FALSE, !.laser = "off"] ELSE m
      /\ Hand("game", "look", ShipBed(hm'))

\* The load after a lost pilot context ends; any other menu of a suppressed
\* context changes nothing.
SuppressedMenu(x, opens) ==
  /\ hm.suppressed /\ ~hm.vehicle /\ ~OverShip(x)
  /\ MenuEvent(x, opens)
  /\ hm' = [hm EXCEPT !.suppressed = hm.pilot \/ x # "Loading" \/ opens]
  /\ UNCHANGED <<pending, newest>>

FootMenu(x, opens) ==
  LET m == [hm EXCEPT !.menus = IF opens THEN @ \cup {x} ELSE @ \ {x},
                      !.firing = @ /\ ~(opens /\ hm.weapon = "rivet")]
  IN  /\ ~hm.suppressed /\ ~hm.vehicle /\ ~OverShip(x)
      /\ MenuEvent(x, opens)
      /\ hm' = Fed(m, m.r2)
      /\ Hand("game", "look", WeaponBed(m, m.r2))

Menu == \E x \in VehicleMenus, opens \in BOOLEAN :
  VehicleMenu(x, opens) \/ ShipMenu(x, opens) \/ SuppressedMenu(x, opens) \/ FootMenu(x, opens)

-----------------------------------------------------------------------------
(* HapticsManager: the ship.                                               *)

Flying == hm.pilot /\ hm.suppressed /\ hm.mask = {}

\* Every shot ends the laser but the laser's own, which renews its lease.
\* Fire gates dispatch from the Wwise callback and from the R2 observer.
ShipWeapon(t, lease) ==
  /\ Flying /\ lease # "due"
  /\ LET m == [hm EXCEPT !.laser = lease] IN Submit(t, m, ShipBed(m))

ShipTouchdown ==
  /\ "rumble" \in scenario
  /\ LET m == [hm EXCEPT !.rumble = FALSE] IN Submit("game", m, ShipBed(m))

Propulsion(moving) ==
  /\ Flying
  /\ LET m == [hm EXCEPT !.cruising = moving] IN Submit("game", m, ShipBed(m))

LaunchLandingRumble(on) ==
  /\ "rumble" \in scenario /\ hm.rumble # on
  /\ LET m == [hm EXCEPT !.rumble = on] IN Submit("game", m, ShipBed(m))

-----------------------------------------------------------------------------
(* HapticsManager: the REV-8.                                              *)

Drivable(m) == m.production /\ m.vehicle /\ ~m.pilot /\ m.mask = {}

MotionBlocked(live) ==
  /\ "vehicle" \in scenario
  /\ ~(Drivable(hm) /\ live)
  /\ LET m == [hm EXCEPT !.motion = FALSE, !.chassis = FALSE, !.forward = "off",
                         !.vertical = "off"]
     IN  \/ hm.vehicle /\ Submit("game", m, {})
         \/ ~hm.vehicle /\ Record("game", m)

MotionOfOtherEpoch(e) ==
  /\ Drivable(hm) /\ hm.epoch \notin {0, e}
  /\ Submit("game", NoDrive(hm), {})

Motion(e, moving) ==
  /\ Drivable(hm) /\ hm.epoch \in {0, e}
  /\ LET m == [hm EXCEPT !.epoch = e, !.motion = TRUE, !.chassis = moving]
     IN  Submit("game", m, VehicleBed(m))

\* setLandVehicleBoostInput, from the Wwise lifecycle and the released button.
BoostRefused(t, b) ==
  /\ "vehicle" \in scenario
  /\ ~(VehicleLive(hm) /\ hm.epoch # 0)
  /\ Record(t, [hm EXCEPT ![b] = "off"])

BoostStart(t, b) ==
  /\ VehicleLive(hm) /\ hm.epoch # 0
  /\ LET m == [hm EXCEPT ![b] = "running"]
     IN  \/ hm[b] # "off" /\ Record(t, m)
         \/ hm[b] = "off" /\ Submit(t, m, VehicleBed(m))

BoostStop(t, b) ==
  /\ hm[b] # "off"
  /\ LET m == [hm EXCEPT ![b] = "off"] IN Submit(t, m, VehicleBed(m))

-----------------------------------------------------------------------------
(* HapticsManager: weapons on foot.                                        *)

OnFoot == "weapon" \in scenario /\ ~hm.suppressed

WeaponEquipped(w) ==
  /\ OnFoot
  /\ LET m == [Unwatched(hm) EXCEPT !.weapon = w, !.firing = FALSE,
                                    !.watchable = w \in {"beam", "arc"}]
     IN  Submit("game", Fed(m, m.r2), WeaponBed(m, m.r2))

\* The application lost the focus.
GamePaused ==
  /\ OnFoot
  /\ Submit("game", [Unwatched(hm) EXCEPT !.paused = TRUE, !.firing = FALSE], {})

GameUnpaused ==
  OnFoot /\ hm.paused /\ Record("game", [hm EXCEPT !.paused = FALSE])

\* The marker of a confirmed start.  R2 is high, or was sampled after the
\* marker, or the start waits for the next sample.
FireStart(sampledAfter) ==
  LET m == [hm EXCEPT !.firing = @ \/ hm.family,
                      !.armed = IF hm.watchable /\ hm.weapon = "beam" THEN "running" ELSE "off",
                      !.waiting = hm.r2 = 0 /\ ~sampledAfter]
  IN  /\ OnFoot /\ hm.weapon \in {"beam", "arc"}
      /\ \/ m.waiting /\ Record("game", m)
         \/ ~m.waiting /\ Submit("game", Fed(m, m.r2), WeaponBed(m, m.r2))

\* weaponFireEnd; only the Arc Welder takes it for the end of the arc.
FireEnd ==
  LET arc == hm.weapon = "arc"
      m == [hm EXCEPT !.firing = @ /\ ~(arc /\ hm.family),
                      !.waiting = @ /\ ~(arc /\ hm.watchable)]
  IN  /\ OnFoot /\ hm.weapon \in {"beam", "arc"}
      /\ Submit("game", Fed(m, m.r2), WeaponBed(m, m.r2))

\* The repeated WeaponFire marker: the heartbeat of the beam, and the shot of
\* a charged weapon.
WeaponFire ==
  LET m == [hm EXCEPT !.firing = @ /\ ~(hm.weapon \in {"charge", "rivet"} /\ hm.family)]
  IN  /\ OnFoot /\ hm.weapon # "none"
      /\ \/ hm.armed # "off" /\ Record("game", [m EXCEPT !.armed = "running"])
         \/ hm.armed = "off" /\ hm.waiting /\ Record("game", m)
         \/ /\ hm.armed = "off" /\ ~hm.waiting
            /\ Submit("game", Fed(m, m.r2), WeaponBed(m, m.r2))

Charge(on) ==
  LET may == hm.weapon = "charge" \/ (~hm.paused /\ hm.menus = {})
      m == [hm EXCEPT !.firing = IF ~hm.family THEN @ ELSE IF on THEN @ \/ may ELSE FALSE]
  IN  /\ OnFoot /\ hm.weapon \in {"charge", "rivet"}
      /\ Submit("game", Fed(m, m.r2), WeaponBed(m, m.r2))

\* HapticsManager::handleRightTriggerInput, on the controller worker.
\* Under suppression R2 only lets go of the laser.
R2Suppressed(level) ==
  LET m == [hm EXCEPT !.r2 = level]
      released == hm.pilot /\ hm.laser # "off" /\ level = 0 /\ hm.mask = {}
      quiet == [m EXCEPT !.laser = "off"]
  IN  /\ hm.suppressed
      /\ \/ released /\ Submit("worker", quiet, ShipBed(quiet))
         \/ ~released /\ hm.r2 # level /\ Record("worker", m)

Sampled(level) ==
  [hm EXCEPT !.r2 = level, !.armed = IF level = 0 THEN "off" ELSE @]

\* The sample was taken before the marker it waited behind.
R2Stale ==
  OnFoot /\ hm.waiting /\ Record("worker", Sampled(0))

\* The catch-up window is over.
R2Late(level) ==
  LET m == [Sampled(level) EXCEPT !.waiting = FALSE]
  IN  OnFoot /\ hm.waiting /\ Submit("worker", Fed(m, 0), WeaponBed(m, 0))

R2OnFoot(level) ==
  LET m == [Sampled(level) EXCEPT !.waiting = FALSE]
  IN  OnFoot /\ Submit("worker", AfterFoot(m), FootBed(m))

-----------------------------------------------------------------------------
(* The boost pack: BoostpackFeedbackAuthority decides under its own mutex, *)
(* Plugin.cpp calls the manager after unlocking.                           *)

Decide(t, next, call) ==
  /\ Idle(t)
  /\ jet' = next
  /\ pending' = [pending EXCEPT ![t].at = call]
  /\ UNCHANGED <<scenario, open, hm, enabled, eligible, backend, newest>>

JetThrust == "jet" \in scenario /\ eligible /\ Decide("wwise", "running", "start")

JetEnds(t) ==
  /\ jet # "off"
  /\ \/ t = "wwise" /\ eligible            \* depleted
     \/ t = "game"                         \* the jump button is released
  /\ Decide(t, "off", "stop")

\* setBoostpackProductionContextEligible
Eligible(on) ==
  /\ "jet" \in scenario /\ Game /\ eligible # on
  /\ eligible' = on
  /\ jet' = IF on THEN jet ELSE "off"
  /\ pending' = IF ~on /\ jet # "off" THEN [pending EXCEPT !["game"].at = "stop"] ELSE pending
  /\ UNCHANGED <<scenario, open, hm, enabled, backend, newest>>

\* startBoostpackThrust and refreshBoostpackThrust.
StartThrust(t) ==
  LET blocked == hm.suppressed \/ hm.pilot \/ hm.vehicle
      m == [hm EXCEPT !.thrust = ~blocked]
  IN  /\ pending[t].at = "start"
      /\ hm' = IF blocked THEN m ELSE AfterFoot(m)
      /\ IF blocked
         THEN pending' = [pending EXCEPT ![t] = Quiet] /\ UNCHANGED newest
         ELSE Hand(t, "look", FootBed(m))
      /\ Leave

\* stopBoostpackThrust
StopThrust(t) ==
  LET m == [hm EXCEPT !.thrust = FALSE]
  IN  /\ pending[t].at = "stop"
      /\ hm' = AfterContext(m)
      /\ Hand(t, "look", ContextBed(m))
      /\ Leave

-----------------------------------------------------------------------------
(* Settings: the switches first, the composition in a second hold of the   *)
(* mutex; a live disable submits silence at once.                          *)

ApplySettings(on, boost, family, changed) ==
  /\ "settings" \in scenario /\ Idle("settings")
  /\ "weapon" \in scenario \/ family
  /\ enabled' = on
  /\ hm' = [hm EXCEPT !.boost = boost, !.family = family,
                      !.firing = @ /\ (family \/ hm.weapon = "none")]
  /\ \/ on /\ (changed \/ ~enabled \/ boost # hm.boost \/ family # hm.family)
        /\ pending' = [pending EXCEPT !["settings"].at = "compose"] /\ UNCHANGED newest
     \/ on /\ enabled /\ ~changed /\ boost = hm.boost /\ family = hm.family
        /\ UNCHANGED <<pending, newest>>
     \/ ~on /\ enabled /\ Hand("settings", "forced", {})
     \/ ~on /\ ~enabled /\ UNCHANGED <<pending, newest>>
  /\ UNCHANGED <<scenario, open, jet, eligible, backend>>

ComposeSettings ==
  /\ pending["settings"].at = "compose"
  /\ hm' = AfterContext(hm)
  /\ Hand("settings", "forced", ContextBed(hm))
  /\ Leave

-----------------------------------------------------------------------------
(* Time and the runtime tick.                                              *)

ManagedLeases == {"laser", "forward", "vertical", "armed"}

\* A deadline passes.
Elapse(l) ==
  /\ hm[l] = "running"
  /\ hm' = [hm EXCEPT ![l] = "due"]
  /\ UNCHANGED <<scenario, open, shared, pending, backend, newest>>

JetElapses ==
  /\ jet = "running"
  /\ jet' = "due"
  /\ UNCHANGED <<scenario, open, hm, enabled, eligible, pending, backend, newest>>

LaserOver == hm.suppressed /\ hm.pilot /\ hm.laser = "due"
BeamOver == ~hm.suppressed /\ hm.armed = "due"
BoostOver == "due" \in {hm.forward, hm.vertical}

\* Mutant: the lease ends without a word to the backend.
TickSilent ==
  /\ BoostOver \/ LaserOver \/ BeamOver
  /\ Record("game", [hm EXCEPT !.laser = IF LaserOver THEN "off" ELSE @,
                               !.forward = IF @ = "due" THEN "off" ELSE @,
                               !.vertical = IF @ = "due" THEN "off" ELSE @])

\* HapticsManager::tick: what it composes last is what it submits.
Tick ==
  LET Over(l) == IF hm[l] = "due" THEN "off" ELSE hm[l]
      boosts == [hm EXCEPT !.forward = Over("forward"), !.vertical = Over("vertical")]
      laser == [boosts EXCEPT !.laser = "off"]
      beam == Fed([boosts EXCEPT !.armed = "off", !.waiting = FALSE], 0)
  IN  \/ LaserOver /\ Submit("game", laser, ShipBed(laser))
      \/ BeamOver /\ Submit("game", AfterFoot(beam), FootBed(beam))
      \/ BoostOver /\ ~LaserOver /\ ~BeamOver /\ Submit("game", boosts, VehicleBed(boosts))

\* tickBoostpackProduction
JetTick == jet = "due" /\ Decide("game", "off", "stop")

-----------------------------------------------------------------------------
Context ==
  \/ ShipPilotEntered \/ ShipPilotInvalidated \/ ShipPilotExited
  \/ LandVehicleContextEntered \/ LandVehicleContextExited
  \/ LandVehicleAuthorityAcquired \/ LandVehicleAuthorityReleased
  \/ Menu

Ship ==
  \/ \E t \in Shooters, lease \in Leases : ShipWeapon(t, lease)
  \/ ShipTouchdown
  \/ \E on \in BOOLEAN : Propulsion(on) \/ LaunchLandingRumble(on)

Rev8 ==
  \/ \E live \in BOOLEAN : MotionBlocked(live)
  \/ \E e \in Epochs : MotionOfOtherEpoch(e) \/ \E moving \in BOOLEAN : Motion(e, moving)
  \/ \E b \in Boosts : \/ BoostRefused("wwise", b)
                       \/ BoostStart("wwise", b)
                       \/ \E t \in {"wwise", "game"} : BoostStop(t, b)

Weapon ==
  \/ \E w \in Weapons : WeaponEquipped(w)
  \/ GamePaused \/ GameUnpaused
  \/ \E b \in BOOLEAN : FireStart(b) \/ Charge(b)
  \/ FireEnd \/ WeaponFire
  \/ \E level \in 0..2 : R2Suppressed(level) \/ R2Late(level) \/ R2OnFoot(level)
  \/ R2Stale

Jet ==
  \/ JetThrust
  \/ \E t \in {"wwise", "game"} : JetEnds(t)
  \/ \E on \in BOOLEAN : Eligible(on)

Delivery ==
  \/ \E t \in Threads : \/ StartThrust(t) \/ StopThrust(t)
                        \/ Look(t) \/ LookForced(t) \/ Write(t)
  \/ ComposeSettings

Time ==
  \/ \E l \in ManagedLeases : Elapse(l)
  \/ JetElapses \/ Tick \/ JetTick

Next ==
  \/ Context \/ Ship \/ Rev8 \/ Weapon \/ Jet \/ Delivery \/ Time
  \/ \E on, boost, family, changed \in BOOLEAN : ApplySettings(on, boost, family, changed)
  \/ \E l \in Links : LinkChange(l)

\* Every thread goes on with what it has begun, and the runtime tick recurs on
\* the game's thread whatever else runs there.
Fairness ==
  /\ \A t \in Threads :
       WF_vars(StartThrust(t) \/ StopThrust(t) \/ Look(t) \/ LookForced(t) \/ Write(t))
  /\ WF_vars(ComposeSettings)
  /\ SF_vars(Tick) /\ SF_vars(JetTick)

Spec == Init /\ [][Next]_vars /\ Fairness

-----------------------------------------------------------------------------
(* Properties.                                                             *)

Managers ==
  [pilot : BOOLEAN, vehicle : BOOLEAN, suppressed : BOOLEAN, mask : SUBSET VehicleMenus,
   cruising : BOOLEAN, rumble : BOOLEAN, laser : Leases,
   production : BOOLEAN, epoch : Epochs \cup {0}, motion : BOOLEAN, chassis : BOOLEAN,
   forward : Leases, vertical : Leases,
   weapon : Weapons, firing : BOOLEAN, paused : BOOLEAN, menus : SUBSET VehicleMenus,
   family : BOOLEAN, watchable : BOOLEAN, armed : Leases, waiting : BOOLEAN, r2 : 0..2,
   thrust : BOOLEAN, boost : BOOLEAN]

Steps == {"idle", "start", "stop", "compose", "look", "forced", "write"}

\* Every variable has its type, and what is being stored has its side.
TypeOK ==
  /\ scenario \in Scenarios
  /\ open \subseteq VehicleMenus
  /\ hm \in Managers
  /\ enabled \in BOOLEAN /\ eligible \in BOOLEAN /\ crossed \in BOOLEAN
  /\ jet \in Leases
  /\ pending \in [Threads -> [at : Steps, bed : SUBSET Sources,
                              side : {"none", "usb", "bluetooth"}]]
  /\ \A t \in Threads : pending[t].at = "write" => pending[t].side # "none"
  /\ wired \subseteq Sources /\ bt \subseteq Sources
  /\ link \in Links /\ newest \in Threads

\* What keeps an effect alive belongs to the context the player is in: nothing
\* of the weapons and the boost pack survives a change to a seat, nothing of
\* the ship survives leaving the seat or a menu over it, and nothing of the
\* REV-8 survives its authority (the long branches of HapticsManager::handle
\* each clear a part of this by hand).
ContextOwnsEffects ==
  /\ ~(hm.pilot /\ hm.vehicle)
  /\ hm.pilot \/ hm.vehicle => hm.suppressed
  /\ hm.suppressed => /\ hm.weapon = "none" /\ ~hm.firing /\ ~hm.thrust
                      /\ hm.armed = "off" /\ ~hm.waiting
  /\ hm.cruising \/ hm.laser # "off" => hm.pilot /\ hm.mask = {}
  /\ hm.production => hm.vehicle
  /\ hm.motion \/ hm.chassis => hm.production /\ hm.mask = {}
  /\ hm.motion => hm.epoch # 0
  /\ "off" # hm.forward \/ "off" # hm.vertical \/ hm.epoch # 0 => hm.production
  /\ hm.armed # "off" => hm.weapon = "beam"

Vibrates == CASE link = "bluetooth" -> bt [] link = "usb" -> wired [] OTHER -> {}
Settled == \A t \in Threads : Idle(t)

\* What a state of the manager allows at most.
Granted(m) ==
  {s \in Sources :
     \/ s = "weapon" /\ ~m.suppressed /\ WeaponBed(m, m.r2) # {}
     \/ s = "thrust" /\ ~m.suppressed /\ Thrusting(m)
     \/ s = "rumble" /\ m.rumble
     \/ s \in ShipBed([m EXCEPT !.rumble = FALSE])
     \/ s \in VehicleBed(m)}

\* Whatever takes an authorisation away also tells the backend: once nothing
\* is being handed over, only what the state still grants vibrates, and
\* nothing at all with haptics switched off, unless the newest composition
\* was overtaken or the link changed (every handler unlocks before it submits).
OrderedIsGranted ==
  Settled /\ ~crossed => /\ Vibrates \subseteq Granted(hm)
                         /\ Vibrates # {} => enabled

\* A leased effect whose lease has run out stops, is renewed, or was overtaken:
\* the runtime tick ends it and the silence reaches the backend.
LeasesEnd ==
  /\ (hm.laser = "due" /\ "laser" \in Vibrates) ~>
       (hm.laser = "running" \/ "laser" \notin Vibrates \/ crossed)
  /\ \A b \in Boosts : (hm[b] = "due" /\ b \in Vibrates) ~>
       (hm[b] = "running" \/ b \notin Vibrates \/ crossed)
  /\ (jet = "due" /\ "thrust" \in Vibrates) ~>
       (jet = "running" \/ "thrust" \notin Vibrates \/ crossed)

\* A vibrating Cutter beam is watched: without heartbeats it clears while R2 is
\* held (HapticsManager::tick).
BeamIsWatched ==
  Settled /\ hm.weapon = "beam" /\ "weapon" \in Vibrates => hm.armed # "off"

\* Thrust that vibrates is what the boost pack's authority keeps.  Not kept by
\* the code: a start decided before a stop may reach the manager after it.
ThrustIsLeased ==
  Settled /\ ~crossed /\ "thrust" \in Vibrates => jet # "off"
=============================================================================
