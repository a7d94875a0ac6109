--------------------------- MODULE TriggerEffects ---------------------------
(***************************************************************************)
(* EffectsEngine: the adaptive triggers and the light bar.  The controller *)
(* worker owns it: it drains the events of the game, ticks, applies the    *)
(* live settings, writes the output and feeds a sample of R2, for ever.    *)
(*                                                                         *)
(* An effect is named for what it tells the hand; forces, frequencies and  *)
(* colours are left out.  A deadline is off, running or due.  The menus    *)
(* and events come from the game in any order.  `scenario' selects which   *)
(* parts of the engine a behaviour exercises.                              *)
(***************************************************************************)
EXTENDS Naturals

CONSTANTS
  Weapons,   \* weapons that can be equipped: members of WeaponNames
  Scenarios  \* sets of parts

WeaponNames == {"rifle", "microgun", "eon", "charge", "cutter", "arc", "modded"}
Parts == {"foot", "ship", "rover", "launch", "light", "settings"}

ASSUME WeaponsAssumption == Weapons \subseteq WeaponNames
ASSUME ScenariosAssumption == Scenarios \subseteq SUBSET Parts

ShipMenus == {"Data"}                 \* stands for PauseMenu and GalaxyStarMapMenu too
RoverMenus == {"Data", "Loading"}
Menus == {"Data", "Loading", "Main"}

Beams == {"cutter", "arc"}
Deadlines == {"off", "running", "due"}

Kicks == {"recoil", "shot", "gun"}
FootEffects == {"wall", "pull", "recoil", "sustained"}
ShipEffects == {"cockpit", "cannon", "shot", "laser"}
RoverEffects == {"drive", "gun"}
RightEffects == {"off", "launch"} \cup FootEffects \cup ShipEffects \cup RoverEffects
LeftEffects == {"off", "launch", "aim"}
Cinematic == {"takeoff", "landing", "flash"}
Colours == {"off", "player", "ship"} \cup Cinematic

VARIABLES
  scenario,  \* the parts this behaviour exercises
  e,         \* EffectsEngine
  owed       \* a shot has been confirmed whose recoil waits for the finger or
             \* for a neutral frame, in the pull and context it belongs to

vars == <<scenario, e, owed>>

Has(part) == part \in scenario

\* R2: 0 is released (12), 2 pressed (24), 3 above the EM re-arm (48), 4 deep (160).
InitialEngine(adaptive, custom, lightbar) ==
  [adaptive |-> adaptive, custom |-> custom, lightbar |-> lightbar,
   pilot |-> FALSE, vehicle |-> FALSE, suppressed |-> FALSE, launch |-> FALSE,
   shipMenus |-> {}, roverMenus |-> {},
   cannon |-> FALSE, laser |-> "off", rearmed |-> TRUE, refresh |-> "none",
   production |-> FALSE, aim |-> FALSE, gun |-> "off",
   weapon |-> "none", r2 |-> 0, pressed |-> FALSE, sustained |-> FALSE, heartbeat |-> "off",
   eon |-> "normal", pullSeen |-> FALSE, pending |-> "off",
   left |-> "off", right |-> "off", transient |-> "off",
   seat |-> FALSE, playerKnown |-> FALSE, shipKnown |-> FALSE,
   phase |-> "none", flash |-> "off", bar |-> "off"]

Init ==
  /\ scenario \in Scenarios
  /\ \E adaptive, custom, lightbar \in BOOLEAN :
       /\ ~Has("settings") => adaptive /\ custom
       /\ lightbar = Has("light")
       /\ e = InitialEngine(adaptive, custom, lightbar)
  /\ owed = FALSE

-----------------------------------------------------------------------------
(* What the engine plays when no shot is being played.                     *)

FootEnabled(m) == m.adaptive /\ (m.weapon = "modded" => m.custom)

Adaptive(m, effect) == IF m.adaptive THEN effect ELSE "off"
OnFoot(m, effect) == IF FootEnabled(m) THEN effect ELSE "off"

Launching(m) == IF m.shipMenus = {} THEN Adaptive(m, "launch") ELSE "off"

Cockpit(m) ==
  IF m.shipMenus # {} THEN "off"
  ELSE Adaptive(m, IF m.laser # "off" THEN "laser"
                   ELSE IF m.cannon THEN "cannon" ELSE "cockpit")

Holding(m) == OnFoot(m, IF m.weapon = "charge" /\ m.pressed THEN "pull" ELSE "wall")

\* Mutant: leaving the aim to the next menu.
RestoreAimed(m) ==
  IF m.launch THEN [m EXCEPT !.left = Launching(m), !.right = Launching(m)]
  ELSE IF m.pilot THEN [m EXCEPT !.right = Cockpit(m)]
  ELSE [m EXCEPT !.right = IF m.suppressed \/ m.weapon = "none" THEN "off" ELSE Holding(m)]

\* restorePersistentTrigger.  The recoil of the Eon stays until its own end.
Restore(m) ==
  LET drives == m.production /\ m.vehicle
      clear == drives /\ m.roverMenus = {}
  IN  IF m.launch THEN [m EXCEPT !.left = Launching(m), !.right = Launching(m)]
      ELSE IF m.pilot THEN [m EXCEPT !.left = "off", !.right = Cockpit(m)]
      ELSE IF drives
      THEN [m EXCEPT !.left = IF clear /\ m.aim THEN Adaptive(m, "aim") ELSE "off",
                     !.right = IF clear THEN Adaptive(m, "drive") ELSE "off"]
      ELSE [m EXCEPT !.left = "off",
                     !.right = IF m.suppressed \/ m.weapon = "none" THEN "off"
                               ELSE IF m.weapon = "eon" /\ m.eon = "release" THEN @
                               ELSE Holding(m)]

Still(m) == [m EXCEPT !.left = "off", !.right = "off", !.transient = "off"]

\* clearOnFootPersistentState
OffFoot(m) ==
  [Still(m) EXCEPT !.weapon = "none", !.r2 = 0, !.pressed = FALSE,
                   !.sustained = FALSE, !.heartbeat = "off",
                   !.eon = "normal", !.pullSeen = FALSE, !.pending = "off", !.bar = "off"]

\* clearLandVehicleProductionState
NoDrive(m) == [Still(m) EXCEPT !.production = FALSE, !.aim = FALSE, !.gun = "off"]

\* Part of every change of seat.
Disarmed(m) ==
  [m EXCEPT !.cannon = FALSE, !.laser = "off", !.shipMenus = {}, !.rearmed = TRUE,
            !.refresh = "none"]

Kick(m, effect) == [m EXCEPT !.right = effect, !.transient = "running"]

\* How a handler ends.
Becomes(m, owes) == e' = m /\ owed' = owes /\ UNCHANGED scenario

-----------------------------------------------------------------------------
(* EffectsEngine::handle: the context.                                     *)

\* ShipPilotEntered and ShipPilotResumed.
ShipPilotEntered ==
  Becomes(Restore(OffFoot(Disarmed([NoDrive(e) EXCEPT
     !.pilot = TRUE, !.vehicle = FALSE, !.suppressed = TRUE, !.roverMenus = {},
     !.seat = TRUE, !.shipKnown = FALSE]))), FALSE)

ShipPilotExited ==
  /\ e.pilot
  /\ Becomes(OffFoot(Disarmed([e EXCEPT !.pilot = FALSE, !.suppressed = e.vehicle])), FALSE)

ShipPilotInvalidated ==
  Becomes(OffFoot(Disarmed([NoDrive(e) EXCEPT
     !.pilot = FALSE, !.vehicle = FALSE, !.suppressed = TRUE, !.roverMenus = {},
     !.launch = FALSE])), FALSE)

\* The light bar keeps the player's health through the REV-8.
Drives(on) ==
  LET m == OffFoot([NoDrive(e) EXCEPT !.vehicle = on, !.roverMenus = {},
                                      !.suppressed = on \/ e.pilot])
  IN  [m EXCEPT !.bar = IF e.lightbar THEN e.bar ELSE @]

LandVehicleContextEntered == ~e.pilot /\ Becomes(Drives(TRUE), FALSE)

LandVehicleContextExited == e.vehicle /\ Becomes(Drives(FALSE), FALSE)

Shutdown ==
  Becomes(OffFoot(Disarmed([NoDrive(e) EXCEPT
     !.pilot = FALSE, !.vehicle = FALSE, !.suppressed = FALSE, !.roverMenus = {},
     !.launch = FALSE])), FALSE)

-----------------------------------------------------------------------------
(* EffectsEngine::handle: menus.                                           *)

ToMainMenu(m) ==
  [m EXCEPT !.seat = FALSE, !.shipKnown = FALSE, !.phase = "none", !.flash = "off",
            !.bar = IF m.lightbar THEN "off" ELSE @]

OverShip(x) == (e.pilot \/ e.launch) /\ x \in ShipMenus
OverRover(x) == e.vehicle /\ ~e.pilot /\ x \in RoverMenus

ShipMenuOpened(m, x) ==
  [Still(m) EXCEPT !.shipMenus = @ \cup {x}, !.laser = "off", !.refresh = "none"]

RoverMenuOpened(m, x) ==
  [Still(m) EXCEPT !.roverMenus = @ \cup {x}, !.aim = FALSE, !.gun = "off",
                   !.production = @ /\ x # "Loading"]

MenuOpened(x) ==
  LET main == IF x = "Main" THEN ToMainMenu(e) ELSE e
      ship == IF OverShip(x) THEN ShipMenuOpened(main, x) ELSE main
  IN  Becomes(IF OverRover(x) THEN RoverMenuOpened(ship, x) ELSE ship,
              owed /\ (OverShip(x) => e.refresh = "none"))

MenuClosed(x) ==
  LET closed == [e EXCEPT !.shipMenus = @ \ {x}]
      ship == IF ~OverShip(x) THEN e
              ELSE IF closed.shipMenus = {} THEN Restore(closed) ELSE closed
      left == [ship EXCEPT !.roverMenus = @ \ {x}]
  IN  Becomes(IF OverRover(x)
              THEN IF left.production /\ left.roverMenus = {} THEN Restore(left) ELSE left
              ELSE [ship EXCEPT !.suppressed = @ /\ (e.pilot \/ e.vehicle \/ x # "Loading")],
              owed)

-----------------------------------------------------------------------------
(* EffectsEngine::handle: weapons on foot.                                 *)

WeaponEquipped(w) ==
  /\ Has("foot") /\ ~e.suppressed
  /\ Becomes(Restore([e EXCEPT !.weapon = w, !.sustained = FALSE, !.heartbeat = "off",
                               !.transient = "off", !.eon = "normal", !.pullSeen = FALSE,
                               !.pending = "off"]), FALSE)

MayFire == Has("foot") /\ e.weapon # "none" /\ FootEnabled(e)

\* weaponFireStart of a beam.
BeamStarts ==
  /\ MayFire /\ e.weapon \in Beams
  /\ Becomes([e EXCEPT !.right = "sustained", !.sustained = TRUE, !.transient = "endless",
                       !.heartbeat = IF e.weapon = "cutter" THEN "running" ELSE "off"], FALSE)

BeamBeats ==
  /\ MayFire /\ e.weapon = "cutter" /\ e.sustained
  /\ Becomes([e EXCEPT !.heartbeat = "running"], FALSE)

\* weaponFireEnd, which only the Arc Welder takes for the end.
ArcEnds ==
  /\ MayFire /\ e.weapon = "arc"
  /\ Becomes(Restore([e EXCEPT !.sustained = FALSE, !.heartbeat = "off",
                               !.transient = "off"]), FALSE)

\* WeaponFire.  A Microgun's kick is not extended; the Eon waits for a deep pull.
WeaponFired ==
  LET m == [e EXCEPT !.sustained = FALSE]
  IN  /\ MayFire /\ e.weapon \notin Beams
      /\ \/ /\ e.weapon = "microgun" /\ e.transient # "off"
            /\ Becomes(m, FALSE)
         \/ /\ e.weapon = "eon" /\ e.r2 = 4
            /\ Becomes([Kick(m, "recoil") EXCEPT !.eon = "release", !.pullSeen = TRUE,
                                                 !.pending = "off"], FALSE)
         \/ /\ e.weapon = "eon" /\ e.r2 < 4
            /\ Becomes(Restore([m EXCEPT !.transient = "off", !.eon = "deep",
                                         !.pullSeen = e.pressed, !.pending = "running"]), TRUE)
         \/ /\ e.weapon # "eon" /\ ~(e.weapon = "microgun" /\ e.transient # "off")
            /\ Becomes(Kick(m, "recoil"), FALSE)

-----------------------------------------------------------------------------
(* EffectsEngine::handle: the ship.                                        *)

ShipMayFire == Has("ship") /\ e.pilot /\ ~e.launch /\ e.shipMenus = {} /\ e.adaptive

ShipBallisticWeaponFired ==
  /\ ShipMayFire
  /\ Becomes(Kick([e EXCEPT !.refresh = "none", !.laser = "off", !.cannon = TRUE], "shot"), FALSE)

\* ShipParticleWeaponFired and ShipMissileWeaponFired.
ShipFiniteWeaponFired ==
  /\ ShipMayFire
  /\ Becomes(Kick([e EXCEPT !.refresh = "none", !.laser = "off", !.cannon = FALSE], "shot"), FALSE)

ShipLaserWeaponFired ==
  /\ ShipMayFire
  /\ Becomes([e EXCEPT !.refresh = "none", !.cannon = FALSE, !.laser = "running",
                       !.right = "laser", !.transient = "off"], FALSE)

ShipLaserWeaponStopped ==
  /\ Has("ship") /\ e.pilot
  /\ Becomes(Restore([e EXCEPT !.laser = "off"]), owed)

\* Within a pull that has not let go of the trigger the actuator needs one
\* neutral frame before it can break again.
ShipEMWeaponFired ==
  LET m == [e EXCEPT !.cannon = FALSE, !.laser = "off", !.rearmed = FALSE]
  IN  /\ ShipMayFire
      /\ \/ /\ e.rearmed
            /\ Becomes(Kick([m EXCEPT !.refresh = "none"], "shot"), FALSE)
         \/ /\ ~e.rearmed
            /\ Becomes([m EXCEPT !.right = "off", !.transient = "off", !.refresh = "queued"], TRUE)

ShipLaunchLandingHapticsStarted ==
  /\ Has("launch") /\ e.adaptive
  /\ Becomes(Restore([e EXCEPT !.launch = TRUE, !.refresh = "none", !.laser = "off",
                               !.transient = "off"]), owed /\ e.refresh = "none")

ShipLaunchLandingHapticsStopped ==
  /\ Has("launch")
  /\ Becomes(Restore([e EXCEPT !.launch = FALSE, !.left = "off", !.transient = "off"]), owed)

-----------------------------------------------------------------------------
(* EffectsEngine::handle: the REV-8.                                       *)

Driving == Has("rover") /\ e.production /\ e.vehicle /\ ~e.pilot

LandVehicleAuthorityAcquired ==
  /\ Has("rover") /\ e.vehicle /\ ~e.pilot
  /\ Becomes(Restore([e EXCEPT !.production = TRUE, !.aim = FALSE, !.gun = "off",
                               !.transient = "off"]), owed)

LandVehicleAuthorityReleased == Has("rover") /\ Becomes(NoDrive(e), owed)

LandVehicleAimStarted ==
  /\ Driving /\ e.roverMenus = {}
  /\ Becomes([e EXCEPT !.aim = TRUE, !.left = Adaptive(e, "aim")], owed)

LandVehicleAimStopped ==
  Driving /\ Becomes([e EXCEPT !.aim = FALSE, !.left = "off"], owed)

LandVehicleGunFired ==
  /\ Driving /\ e.roverMenus = {} /\ e.adaptive
  /\ Becomes([Kick(e, "gun") EXCEPT !.gun = "running"], owed)

-----------------------------------------------------------------------------
(* EffectsEngine::handle: the light bar.                                   *)

Grounded == e.suppressed /\ ~e.vehicle   \* neither on foot nor in the REV-8

PlayerHealthChanged ==
  /\ Has("light")
  /\ Becomes([e EXCEPT !.playerKnown = TRUE,
                       !.bar = IF e.seat \/ Grounded \/ ~e.lightbar THEN @ ELSE "player"], owed)

ShipHealthChanged ==
  /\ Has("light")
  /\ Becomes([e EXCEPT !.shipKnown = TRUE,
                       !.bar = IF e.lightbar /\ e.seat /\ e.phase = "none" /\ e.flash = "off"
                               THEN "ship" ELSE @], owed)

ShipLightbarSeatEntered ==
  Has("light") /\ Becomes([e EXCEPT !.seat = TRUE, !.shipKnown = FALSE], owed)

ShipLightbarSeatExited ==
  /\ Has("light")
  /\ Becomes([e EXCEPT !.seat = FALSE, !.shipKnown = FALSE, !.phase = "none", !.flash = "off",
                       !.bar = IF ~e.lightbar THEN @
                               ELSE IF Grounded THEN "off"
                               ELSE IF e.playerKnown THEN "player" ELSE @], owed)

ShipLaunchLandingLightbarStarted(phase) ==
  Has("light") /\ Becomes([e EXCEPT !.phase = phase, !.flash = "off"], owed)

ShipLaunchLandingLightbarStopped ==
  Has("light") /\ Becomes([e EXCEPT !.phase = "none"], owed)

ShipTouchdown ==
  Has("light") /\ Becomes([e EXCEPT !.phase = "none", !.flash = "running"], owed)

-----------------------------------------------------------------------------
(* EffectsEngine::applyLiveSettings: a change of something the triggers or *)
(* the bar depend on.                                                      *)

ApplyLiveSettings(adaptive, custom, lightbar, strength) ==
  LET bar == IF lightbar THEN e.bar ELSE "off"
      m == [e EXCEPT !.adaptive = adaptive, !.custom = custom, !.lightbar = lightbar, !.bar = bar]
      refused == e.weapon = "modded" /\ ~e.pilot /\ ~e.vehicle /\ ~custom
      changed == strength \/ adaptive # e.adaptive \/ custom # e.custom
  IN  /\ Has("settings") /\ (lightbar => Has("light"))
      /\ changed \/ lightbar # e.lightbar
      /\ IF ~adaptive \/ refused
         THEN Becomes([Still(m) EXCEPT !.refresh = "none"], owed /\ e.refresh = "none")
         ELSE Becomes(IF changed THEN Restore(m) ELSE m, owed)

-----------------------------------------------------------------------------
(* EffectsEngine::handleRightTriggerInput: a sample the worker passes on,  *)
(* which it does with adaptive triggers only.                              *)

Pressed(v) == v >= 2 \/ (e.pressed /\ v = 1)

Sampled(v) == [e EXCEPT !.r2 = v, !.pressed = Pressed(v)]

Lets(v) == e.pressed /\ ~Pressed(v)

\* In the seat R2 re-arms the EM break and lets go of the laser.
SampleInSeat(v) ==
  LET m == [Sampled(v) EXCEPT !.rearmed = @ \/ v <= 2]
  IN  IF Lets(v) /\ m.laser # "off" THEN Restore([m EXCEPT !.laser = "off"]) ELSE m

RetiredEon(m) == [m EXCEPT !.eon = "normal", !.pullSeen = FALSE, !.pending = "off"]

\* What is done with a sample that nothing above it took.
SampleRest(v) ==
  LET m == Sampled(v)
      again == \/ m.transient = "off" /\ m.weapon = "charge" /\ m.pressed
               \/ m.transient = "off" /\ Lets(v)
  IN  IF Lets(v) /\ m.sustained
      THEN Restore([m EXCEPT !.sustained = FALSE, !.heartbeat = "off", !.transient = "off"])
      ELSE IF again THEN Restore(m) ELSE m

\* Mutant: a pull that ends early leaves its marker to the next pull.
SampleWaitingEonKept(v) ==
  LET m == [Sampled(v) EXCEPT !.pullSeen = @ \/ Pressed(v)]
  IN  IF e.pending = "due" THEN Restore(RetiredEon(Sampled(v)))
      ELSE IF v = 4
      THEN [Kick(m, "recoil") EXCEPT !.eon = "release", !.pullSeen = TRUE, !.pending = "off"]
      ELSE m

\* The Eon's confirmed shot waits for deep travel, in the pull it came in.
SampleWaitingEon(v) ==
  LET m == [Sampled(v) EXCEPT !.pullSeen = @ \/ Pressed(v)]
  IN  IF e.pending = "due" THEN Restore(RetiredEon(Sampled(v)))
      ELSE IF v = 4
      THEN [Kick(m, "recoil") EXCEPT !.eon = "release", !.pullSeen = TRUE, !.pending = "off"]
      ELSE IF m.pullSeen /\ Lets(v)
      THEN Restore(RetiredEon([m EXCEPT !.transient = "off"]))
      ELSE m

SampleKickingEon(v) ==
  LET m == [Sampled(v) EXCEPT !.pullSeen = @ \/ Pressed(v)]
  IN  IF m.pullSeen /\ Lets(v) THEN Restore(RetiredEon([m EXCEPT !.transient = "off"])) ELSE m

HandleRightTriggerInput(v) ==
  LET takes == ~e.suppressed /\ e.weapon # "none" /\ FootEnabled(e)
      eon == e.weapon = "eon" /\ e.eon # "normal"
      m == IF e.pilot THEN SampleInSeat(v)
           ELSE IF e.vehicle \/ e.production \/ ~takes THEN Sampled(v)
           ELSE IF ~eon THEN SampleRest(v)
           ELSE IF e.eon = "deep" THEN SampleWaitingEon(v) ELSE SampleKickingEon(v)
  IN  /\ e.adaptive
      /\ Becomes(m, owed /\ m.transient # "running" /\ (Lets(v) => e.pilot))

-----------------------------------------------------------------------------
(* EffectsEngine::tick: what is over is given up, in the code's order.     *)

TickBar(m) ==
  LET flash == IF m.flash = "due" THEN "off" ELSE m.flash
  IN  IF ~m.lightbar THEN m
      ELSE [m EXCEPT !.flash = flash,
                     !.bar = IF flash # "off" THEN "flash"
                             ELSE IF m.phase # "none" THEN m.phase
                             ELSE IF m.seat THEN IF m.shipKnown THEN "ship" ELSE "off"
                             ELSE IF m.suppressed /\ ~m.vehicle THEN "off"
                             ELSE IF m.playerKnown THEN "player" ELSE @]

\* The neutral frame of the EM break lasts one turn of the worker.
TickRefresh(m) ==
  CASE m.refresh = "queued" -> [m EXCEPT !.refresh = "ready"]
    [] m.refresh = "ready" -> LET done == [m EXCEPT !.refresh = "none"]
                              IN  IF m.pilot /\ m.shipMenus = {} /\ m.adaptive
                                  THEN Kick(done, "shot") ELSE done
    [] OTHER -> m

TickLaser(m) == IF m.pilot /\ m.laser = "due" THEN Restore([m EXCEPT !.laser = "off"]) ELSE m

\* pullSeen stays when the shot waited in vain.
TickEon(m) ==
  IF m.weapon = "eon" /\ m.eon = "deep" /\ m.pending = "due"
  THEN Restore([m EXCEPT !.eon = "normal", !.pending = "off"])
  ELSE IF m.weapon = "eon" /\ m.eon = "release" /\ m.transient = "due"
  THEN RetiredEon(m)
  ELSE m

TickBeam(m) ==
  IF m.sustained /\ m.heartbeat = "due"
  THEN Restore([m EXCEPT !.sustained = FALSE, !.heartbeat = "off", !.transient = "off"]) ELSE m

TickGun(m) ==
  IF m.gun = "due" THEN Restore([m EXCEPT !.gun = "off", !.transient = "off"]) ELSE m

\* Mutant: the transient is forgotten and its effect stays.
TickTransientForgets(m) ==
  IF m.transient = "due" /\ ~m.sustained THEN [m EXCEPT !.transient = "off"] ELSE m

TickTransient(m) ==
  IF m.transient = "due" /\ ~m.sustained THEN Restore([m EXCEPT !.transient = "off"]) ELSE m

Ticked == TickTransient(TickGun(TickBeam(TickEon(TickLaser(TickRefresh(TickBar(e)))))))

Tick == Becomes(Ticked, owed /\ e.refresh # "ready" /\ Ticked.eon = e.eon)

Clocks == {"laser", "gun", "heartbeat", "pending", "transient", "flash"}

\* A deadline passes.
Elapse(c) == e[c] = "running" /\ Becomes([e EXCEPT ![c] = "due"], owed)

-----------------------------------------------------------------------------
Context ==
  \/ ShipPilotEntered \/ ShipPilotExited \/ ShipPilotInvalidated \/ Shutdown
  \/ LandVehicleContextEntered \/ LandVehicleContextExited
  \/ \E x \in Menus : MenuOpened(x) \/ MenuClosed(x)

Foot ==
  \/ \E w \in Weapons : WeaponEquipped(w)
  \/ BeamStarts \/ BeamBeats \/ ArcEnds \/ WeaponFired

Ship ==
  \/ ShipBallisticWeaponFired \/ ShipFiniteWeaponFired \/ ShipEMWeaponFired
  \/ ShipLaserWeaponFired \/ ShipLaserWeaponStopped
  \/ ShipLaunchLandingHapticsStarted \/ ShipLaunchLandingHapticsStopped

Rover ==
  \/ LandVehicleAuthorityAcquired \/ LandVehicleAuthorityReleased
  \/ LandVehicleAimStarted \/ LandVehicleAimStopped \/ LandVehicleGunFired

Light ==
  \/ PlayerHealthChanged \/ ShipHealthChanged
  \/ ShipLightbarSeatEntered \/ ShipLightbarSeatExited
  \/ \E phase \in {"takeoff", "landing"} : ShipLaunchLandingLightbarStarted(phase)
  \/ ShipLaunchLandingLightbarStopped \/ ShipTouchdown

Settings == \E adaptive, custom, lightbar, strength \in BOOLEAN :
  ApplyLiveSettings(adaptive, custom, lightbar, strength)

Next ==
  \/ Context \/ Foot \/ Ship \/ Rover \/ Light \/ Settings
  \/ \E v \in 0..4 : HandleRightTriggerInput(v)
  \/ Tick
  \/ \E c \in Clocks : Elapse(c)

\* The worker ticks in every turn, connected or not.
Spec == Init /\ [][Next]_vars /\ WF_vars(Tick)

-----------------------------------------------------------------------------
(* Properties.                                                             *)

Engines ==
  [adaptive : BOOLEAN, custom : BOOLEAN, lightbar : BOOLEAN,
   pilot : BOOLEAN, vehicle : BOOLEAN, suppressed : BOOLEAN, launch : BOOLEAN,
   shipMenus : SUBSET Menus, roverMenus : SUBSET Menus,
   cannon : BOOLEAN, laser : Deadlines, rearmed : BOOLEAN, refresh : {"none", "queued", "ready"},
   production : BOOLEAN, aim : BOOLEAN, gun : Deadlines,
   weapon : Weapons \cup {"none"}, r2 : 0..4, pressed : BOOLEAN, sustained : BOOLEAN,
   heartbeat : Deadlines,
   eon : {"normal", "deep", "release"}, pullSeen : BOOLEAN, pending : Deadlines,
   left : LeftEffects, right : RightEffects, transient : Deadlines \cup {"endless"},
   seat : BOOLEAN, playerKnown : BOOLEAN, shipKnown : BOOLEAN,
   phase : {"none", "takeoff", "landing"}, flash : Deadlines, bar : Colours]

\* Every variable has its type.
TypeOK == scenario \in Scenarios /\ e \in Engines /\ owed \in BOOLEAN

\* What the triggers play belongs to the seat, the weapon and the menus of the
\* moment, and whatever is finite has a deadline that ends it: no handler
\* leaves an effect behind that no later handler would take away.  The one
\* effect that may outlast its cause is what the Eon's recoil stands on until
\* R2 is let go (restorePersistentTrigger returns early).
EffectsAreOwned ==
  /\ ~e.adaptive => e.left = "off" /\ e.right = "off"
  /\ ~e.lightbar => e.bar = "off"
  /\ e.left = "launch" => e.launch
  /\ e.left = "aim" => e.aim /\ e.production /\ e.vehicle /\ e.roverMenus = {}
  /\ e.right = "launch" => e.launch \/ e.eon = "release"
  /\ e.right \in ShipEffects => e.pilot /\ e.shipMenus = {}
  /\ e.right = "laser" => e.laser # "off"
  /\ e.right \in RoverEffects => e.production /\ e.vehicle /\ ~e.pilot /\ e.roverMenus = {}
  /\ e.right \in FootEffects => ~e.suppressed /\ e.weapon # "none" /\ FootEnabled(e)
  /\ e.right = "sustained" => e.sustained /\ e.weapon \in Beams
  /\ e.right \in Kicks => \/ e.transient \in {"running", "due"} /\ ~e.sustained
                          \/ e.eon = "release"

\* Neither R2 nor the tick begins a recoil of its own: what they begin is owed
\* to a confirmed shot of this weapon and seat, at most once, and an Eon shot
\* whose pull was let go is not inherited by the next pull.
OnlyShotsKick ==
  [][(Tick \/ \E v \in 0..4 : HandleRightTriggerInput(v)) /\ e.transient # "running"
       /\ e'.transient = "running" => owed]_vars

\* An effect has outlived what gave it its time.  The recoil of the Eon may,
\* when the stop of a transition clears its deadline.
Overdue ==
  \/ e.right \in Kicks /\ e.transient # "running" /\ ~(e.eon = "release" /\ e.transient = "off")
  \/ e.right = "laser" /\ e.laser # "running"
  \/ e.right = "sustained" /\ e.heartbeat = "due"
  \/ e.refresh = "ready"
  \/ e.bar \in Cinematic /\ e.phase = "none" /\ e.flash # "running" /\ e.playerKnown

\* Whatever is overdue ends: the kicks, the laser and a beam whose heartbeat
\* stopped give the trigger back, a neutral frame is over in one turn, and the
\* light bar returns from a cinematic.
EffectsEnd == []<>~Overdue
=============================================================================
