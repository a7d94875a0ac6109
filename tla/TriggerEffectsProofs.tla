------------------------ MODULE TriggerEffectsProofs ------------------------
(***************************************************************************)
(* Proofs about the triggers: types, who owns an effect, and that the      *)
(* recoil a sample or a tick begins is owed to a shot.                     *)
(***************************************************************************)
EXTENDS TriggerEffects, TLAPS

\* EffectsAreOwned of an engine, by trigger.
LightOwned(m) == ~m.lightbar => m.bar = "off"

LeftOwned(m) ==
  /\ ~m.adaptive => m.left = "off"
  /\ m.left = "launch" => m.launch
  /\ m.left = "aim" => m.aim /\ m.production /\ m.vehicle /\ m.roverMenus = {}

RightOwned(m) ==
  /\ ~m.adaptive => m.right = "off"
  /\ m.right = "launch" => m.launch \/ m.eon = "release"
  /\ m.right \in ShipEffects => m.pilot /\ m.shipMenus = {}
  /\ m.right = "laser" => m.laser # "off"
  /\ m.right \in RoverEffects => m.production /\ m.vehicle /\ ~m.pilot /\ m.roverMenus = {}
  /\ m.right \in FootEffects => ~m.suppressed /\ m.weapon # "none" /\ FootEnabled(m)
  /\ m.right = "sustained" => m.sustained /\ m.weapon \in Beams
  /\ m.right \in Kicks => \/ m.transient \in {"running", "due"} /\ ~m.sustained
                          \/ m.eon = "release"

\* A recoil the Eon keeps through the stop of a transition has no deadline.
Kept(m) == m.eon = "release" /\ m.right = "launch" /\ m.transient # "off" => m.launch

\* What the ownership of effects rests on: a seat suppresses the weapon, and
\* the weapon carries the pull, the beam and the confirmed shot.
Seated(m) ==
  /\ ~(m.pilot /\ m.vehicle)
  /\ m.pilot \/ m.vehicle => m.suppressed
  /\ m.suppressed => m.weapon = "none"
  /\ m.production => m.vehicle
  /\ m.eon # "normal" => m.weapon = "eon"
  /\ m.sustained => m.weapon \in Beams
  /\ m.refresh # "none" => m.pilot /\ m.transient # "running"
  /\ m.eon = "deep" => m.transient = "off" /\ (m.pressed => m.pullSeen)
  /\ m.eon = "release" => m.transient # "endless"

Good(m) ==
  m \in Engines /\ Seated(m) /\ Kept(m) /\ LightOwned(m) /\ LeftOwned(m) /\ RightOwned(m)

\* An engine whose triggers are about to be restored.
Ready(m) ==
  /\ m \in Engines /\ Seated(m) /\ LightOwned(m)
  /\ m.eon = "release" => Kept(m) /\ RightOwned(m)

\* A shot whose recoil is still to come is owed.
Owes(m) == m.eon = "deep" \/ m.refresh # "none"

Sound == scenario \in Scenarios /\ owed \in BOOLEAN /\ Good(e) /\ (Owes(e) => owed)

LEMMA SoundParts == Sound => TypeOK /\ EffectsAreOwned
  BY DEF Sound, Good, LightOwned, LeftOwned, RightOwned, TypeOK, EffectsAreOwned

LEMMA GoodIsReady == ASSUME NEW m, Good(m) PROVE Ready(m)
  BY DEF Good, Ready

\* How the lemmas about actions end.
LEMMA BecomesSound ==
  ASSUME Sound, NEW m, NEW owes \in BOOLEAN, Becomes(m, owes), Good(m), Owes(m) => owes
  PROVE  Sound'
  <1>1. e' = m /\ owed' = owes /\ scenario' = scenario
    BY DEF Becomes
  <1>2. scenario' \in Scenarios /\ owed' \in BOOLEAN
    BY <1>1 DEF Sound
  <1>3. Good(e)' /\ (Owes(e)' => owed')
    BY <1>1 DEF Good, Owes, Seated, Kept, LightOwned, LeftOwned, RightOwned, FootEnabled
  <1>4. QED
    BY <1>2, <1>3 DEF Sound

-----------------------------------------------------------------------------
(* The helpers.                                                            *)

LEMMA InitialGood ==
  ASSUME NEW a \in BOOLEAN, NEW c \in BOOLEAN, NEW l \in BOOLEAN
  PROVE  Good(InitialEngine(a, c, l)) /\ ~Owes(InitialEngine(a, c, l))
  <1> DEFINE m == InitialEngine(a, c, l)
  <1>1. m \in Engines
    BY DEF InitialEngine, Engines, Deadlines, LeftEffects, RightEffects, Colours, Menus
  <1>2. /\ Seated(m) /\ Kept(m) /\ LightOwned(m) /\ LeftOwned(m) /\ RightOwned(m)
        /\ ~Owes(m)
    BY DEF InitialEngine, Seated, Kept, LightOwned, LeftOwned, RightOwned, Owes,
           Kicks, FootEffects, ShipEffects, RoverEffects
  <1>3. QED
    BY <1>1, <1>2 DEF Good

\* Nothing but the triggers changes, and each plays what its owner allows.
LEMMA PlayedGood ==
  ASSUME NEW m, Ready(m), NEW l \in LeftEffects, NEW r \in RightEffects,
         LeftOwned([m EXCEPT !.left = l]),
         RightOwned([m EXCEPT !.right = r]), Kept([m EXCEPT !.right = r])
  PROVE  LET p == [m EXCEPT !.left = l, !.right = r]
         IN  /\ Good(p) /\ (Owes(p) <=> Owes(m))
             /\ p.eon = m.eon /\ p.transient = m.transient /\ p.refresh = m.refresh
  <1> DEFINE p == [m EXCEPT !.left = l, !.right = r]
  <1>1. m \in Engines
    BY DEF Ready
  <1>2. p \in Engines
    BY <1>1 DEF Engines
  <1>3. Seated(p) /\ LightOwned(p) /\ p.eon = m.eon /\ p.transient = m.transient
        /\ p.refresh = m.refresh
    BY <1>1 DEF Engines, Ready, Seated, LightOwned
  <1>4. LeftOwned(p)
    BY <1>1 DEF Engines, LeftOwned
  <1>5. RightOwned(p) /\ Kept(p)
    BY <1>1 DEF Engines, RightOwned, Kept, FootEnabled
  <1>6. QED
    BY <1>2, <1>3, <1>4, <1>5 DEF Good, Owes

LEMMA RestoreGood ==
  ASSUME NEW m, Ready(m)
  PROVE  LET p == Restore(m)
         IN  /\ Good(p) /\ (Owes(p) <=> Owes(m))
             /\ p.eon = m.eon /\ p.transient = m.transient /\ p.refresh = m.refresh
  <1>0. m \in Engines /\ Seated(m)
    BY DEF Ready
  <1> DEFINE drives == m.production /\ m.vehicle
             clear == drives /\ m.roverMenus = {}
             rest == ~m.launch /\ ~m.pilot /\ ~drives
             keeps == rest /\ ~m.suppressed /\ m.weapon = "eon" /\ m.eon = "release"
             l == IF m.launch THEN Launching(m)
                  ELSE IF m.pilot THEN "off"
                  ELSE IF clear /\ m.aim THEN Adaptive(m, "aim") ELSE "off"
             r == IF m.launch THEN Launching(m)
                  ELSE IF m.pilot THEN Cockpit(m)
                  ELSE IF drives THEN IF clear THEN Adaptive(m, "drive") ELSE "off"
                  ELSE IF m.suppressed \/ m.weapon = "none" THEN "off"
                  ELSE IF keeps THEN m.right ELSE Holding(m)
  <1>1. Restore(m) = [m EXCEPT !.left = l, !.right = r]
    BY <1>0 DEF Restore, Engines
  <1>2. l \in LeftEffects /\ LeftOwned([m EXCEPT !.left = l])
    BY <1>0 DEF Engines, LeftOwned, LeftEffects, Launching, Adaptive
  <1>3. r \in RightEffects /\ RightOwned([m EXCEPT !.right = r]) /\ Kept([m EXCEPT !.right = r])
    <2>1. CASE keeps
      <3>1. r = m.right /\ [m EXCEPT !.right = r] = m
        BY <2>1, <1>0 DEF Engines
      <3>2. QED
        BY <3>1, <2>1, <1>0 DEF Ready, Engines
    <2>2. CASE rest /\ ~keeps
      BY <2>2, <1>0 DEF Engines, Seated, RightOwned, Kept, Holding, OnFoot, FootEnabled,
         RightEffects, FootEffects, ShipEffects, RoverEffects, Kicks
    <2>3. CASE ~rest
      BY <2>3, <1>0 DEF Engines, Seated, RightOwned, Kept, Launching, Cockpit, Adaptive,
         RightEffects, FootEffects, ShipEffects, RoverEffects, Kicks
    <2>4. QED
      BY <2>1, <2>2, <2>3
  <1> HIDE DEF l, r
  <1> DEFINE p == [m EXCEPT !.left = l, !.right = r]
  <1>4. /\ Good(p) /\ (Owes(p) <=> Owes(m))
        /\ p.eon = m.eon /\ p.transient = m.transient /\ p.refresh = m.refresh
    BY ONLY Ready(m), <1>2, <1>3, PlayedGood
  <1>5. QED
    BY <1>1, <1>4, Zenon

LEMMA RestoreKeeps ==
  ASSUME NEW m \in Engines
  PROVE  LET p == Restore(m)
         IN  /\ p.pilot = m.pilot /\ p.vehicle = m.vehicle /\ p.suppressed = m.suppressed
             /\ p.shipMenus = m.shipMenus /\ p.roverMenus = m.roverMenus
             /\ p.production = m.production /\ p.launch = m.launch
  BY DEF Restore, Engines

\* Triggers that play nothing are owned.
LEMMA SilentGood ==
  ASSUME NEW m \in Engines, Seated(m), LightOwned(m),
         m.left = "off", m.right = "off", m.transient = "off"
  PROVE  Good(m)
  BY DEF Good, Kept, LeftOwned, RightOwned, Kicks, FootEffects, ShipEffects, RoverEffects

\* What a handler clears, with the ranges kept out of the provers' way.
LEMMA Off ==
  /\ "off" \in LeftEffects /\ "off" \in RightEffects /\ "off" \in Colours
  /\ "off" \in Deadlines /\ "off" \in Deadlines \cup {"endless"}
  /\ {} \in SUBSET Menus /\ "none" \in Weapons \cup {"none"} /\ 0 \in 0..4
  BY DEF LeftEffects, RightEffects, Colours, Deadlines

\* What a handler starts.
LEMMA Running ==
  "running" \in Deadlines /\ "running" \in Deadlines \cup {"endless"}
  BY DEF Deadlines

LEMMA StillGood ==
  ASSUME NEW m \in Engines, Seated(m), LightOwned(m)
  PROVE  Good(Still(m)) /\ (Owes(Still(m)) <=> Owes(m))
  <1> DEFINE s == Still(m)
  <1>1. s \in Engines
    BY Off DEF Still, Engines
  <1>2. /\ Seated(s) /\ LightOwned(s) /\ (Owes(s) <=> Owes(m))
        /\ s.left = "off" /\ s.right = "off" /\ s.transient = "off"
    BY DEF Still, Engines, Seated, LightOwned, Owes
  <1> HIDE DEF s
  <1>3. Good(s)
    BY <1>1, <1>2, SilentGood
  <1>4. QED
    BY <1>2, <1>3 DEF s

LEMMA StillStops ==
  ASSUME NEW m \in Engines
  PROVE  LET s == Still(m)
         IN  /\ s.left = "off" /\ s.right = "off" /\ s.transient = "off"
             /\ s.eon = m.eon /\ s.refresh = m.refresh
  BY DEF Still, Engines

LEMMA OffFootTyped ==
  ASSUME NEW m \in Engines
  PROVE  OffFoot(m) \in Engines
  BY Off DEF OffFoot, Still, Engines

LEMMA OffFootClears ==
  ASSUME NEW m \in Engines
  PROVE  LET c == OffFoot(m)
         IN  /\ c.left = "off" /\ c.right = "off" /\ c.transient = "off"
             /\ c.weapon = "none" /\ ~c.sustained /\ c.eon = "normal" /\ c.bar = "off"
             /\ c.pilot = m.pilot /\ c.vehicle = m.vehicle /\ c.suppressed = m.suppressed
             /\ c.production = m.production /\ c.refresh = m.refresh
             /\ c.lightbar = m.lightbar
  BY DEF OffFoot, Still, Engines

LEMMA OffFootGood ==
  ASSUME NEW m \in Engines, ~(m.pilot /\ m.vehicle), m.pilot \/ m.vehicle => m.suppressed,
         m.production => m.vehicle, m.refresh # "none" => m.pilot
  PROVE  Good(OffFoot(m)) /\ OffFoot(m).refresh = m.refresh /\ OffFoot(m).eon = "normal"
  <1> DEFINE c == OffFoot(m)
  <1>1. /\ c.left = "off" /\ c.right = "off" /\ c.transient = "off"
        /\ c.weapon = "none" /\ ~c.sustained /\ c.eon = "normal" /\ c.bar = "off"
        /\ c.pilot = m.pilot /\ c.vehicle = m.vehicle /\ c.suppressed = m.suppressed
        /\ c.production = m.production /\ c.refresh = m.refresh
    BY OffFootClears
  <1>2. c \in Engines
    BY OffFootTyped
  <1> HIDE DEF c
  <1>3. Seated(c) /\ LightOwned(c)
    BY <1>1 DEF Seated, LightOwned
  <1>4. Good(c)
    BY <1>1, <1>2, <1>3, SilentGood
  <1>5. QED
    BY <1>1, <1>4 DEF c

LEMMA NoDriveTyped ==
  ASSUME NEW m \in Engines
  PROVE  /\ NoDrive(m) \in Engines /\ ~NoDrive(m).production
         /\ NoDrive(m).refresh = m.refresh /\ NoDrive(m).pilot = m.pilot
  BY Off DEF NoDrive, Still, Engines

LEMMA DisarmedTyped ==
  ASSUME NEW m \in Engines
  PROVE  LET d == Disarmed(m)
         IN  /\ d \in Engines /\ d.refresh = "none"
             /\ d.pilot = m.pilot /\ d.vehicle = m.vehicle /\ d.suppressed = m.suppressed
             /\ d.production = m.production
  <1>1. Disarmed(m) \in Engines
    BY Off DEF Disarmed, Engines
  <1>2. QED
    BY <1>1 DEF Disarmed, Engines

-----------------------------------------------------------------------------
(* The context.                                                            *)

LEMMA DisarmedOffFootGood ==
  ASSUME NEW m \in Engines, ~(m.pilot /\ m.vehicle), m.pilot \/ m.vehicle => m.suppressed,
         m.production => m.vehicle
  PROVE  Good(OffFoot(Disarmed(m))) /\ ~Owes(OffFoot(Disarmed(m)))
  <1> DEFINE d == Disarmed(m)
  <1>1. /\ d \in Engines /\ d.refresh = "none"
        /\ d.pilot = m.pilot /\ d.vehicle = m.vehicle /\ d.suppressed = m.suppressed
        /\ d.production = m.production
    BY DisarmedTyped
  <1> HIDE DEF d
  <1>2. Good(OffFoot(d)) /\ OffFoot(d).refresh = "none" /\ OffFoot(d).eon = "normal"
    BY <1>1, OffFootGood
  <1>3. QED
    BY <1>2 DEF d, Owes

LEMMA EnteredSound == Sound /\ ShipPilotEntered => Sound'
  <1> SUFFICES ASSUME Sound, ShipPilotEntered PROVE Sound'
    OBVIOUS
  <1> DEFINE n == NoDrive(e)
             m == [n EXCEPT !.pilot = TRUE, !.vehicle = FALSE, !.suppressed = TRUE,
                            !.roverMenus = {}, !.seat = TRUE, !.shipKnown = FALSE]
             c == OffFoot(Disarmed(m))
  <1>1. n \in Engines /\ ~n.production
    BY NoDriveTyped DEF Sound, Good
  <1> HIDE DEF n
  <1>2. m \in Engines /\ m.suppressed /\ ~m.production /\ ~m.vehicle
    BY <1>1 DEF Engines
  <1> HIDE DEF m
  <1>3. Good(c) /\ ~Owes(c)
    BY <1>2, DisarmedOffFootGood
  <1>4. Good(Restore(c)) /\ ~Owes(Restore(c))
    BY <1>3, GoodIsReady, RestoreGood
  <1>5. Becomes(Restore(c), FALSE)
    BY DEF ShipPilotEntered, m, n
  <1> HIDE DEF c
  <1>6. QED
    BY <1>4, <1>5, BecomesSound

LEMMA LeavesSound ==
  Sound /\ (ShipPilotExited \/ ShipPilotInvalidated \/ Shutdown) => Sound'
  <1> SUFFICES ASSUME Sound, ShipPilotExited \/ ShipPilotInvalidated \/ Shutdown
               PROVE  Sound'
    OBVIOUS
  <1> DEFINE n == NoDrive(e)
             x == [e EXCEPT !.pilot = FALSE, !.suppressed = e.vehicle]
             i == [n EXCEPT !.pilot = FALSE, !.vehicle = FALSE, !.suppressed = TRUE,
                            !.roverMenus = {}, !.launch = FALSE]
             s == [n EXCEPT !.pilot = FALSE, !.vehicle = FALSE, !.suppressed = FALSE,
                            !.roverMenus = {}, !.launch = FALSE]
  <1>1. e \in Engines /\ Seated(e)
    BY DEF Sound, Good
  <1>2. n \in Engines /\ ~n.production
    BY <1>1, NoDriveTyped
  <1>3. \A m : Good(m) /\ ~Owes(m) /\ Becomes(m, FALSE) => Sound'
    BY BecomesSound
  <1>4. CASE ShipPilotExited
    <2>1. x \in Engines /\ ~x.pilot /\ (x.pilot \/ x.vehicle => x.suppressed)
          /\ (x.production => x.vehicle)
      BY <1>1 DEF Engines, Seated
    <2>2. Becomes(OffFoot(Disarmed(x)), FALSE)
      BY <1>4 DEF ShipPilotExited
    <2> HIDE DEF x
    <2>3. QED
      BY <2>1, <2>2, <1>3, DisarmedOffFootGood
  <1>5. CASE ShipPilotInvalidated
    <2>1. Becomes(OffFoot(Disarmed(i)), FALSE)
      BY <1>5 DEF ShipPilotInvalidated
    <2> HIDE DEF n
    <2>2. i \in Engines /\ ~i.pilot /\ ~i.vehicle /\ ~i.production
      BY <1>2 DEF Engines
    <2> HIDE DEF i
    <2>3. QED
      BY <2>1, <2>2, <1>3, DisarmedOffFootGood
  <1>6. CASE Shutdown
    <2>1. Becomes(OffFoot(Disarmed(s)), FALSE)
      BY <1>6 DEF Shutdown
    <2> HIDE DEF n
    <2>2. s \in Engines /\ ~s.pilot /\ ~s.vehicle /\ ~s.production
      BY <1>2 DEF Engines
    <2> HIDE DEF s
    <2>3. QED
      BY <2>1, <2>2, <1>3, DisarmedOffFootGood
  <1>7. QED
    BY <1>4, <1>5, <1>6

LEMMA DrivesGood ==
  ASSUME Sound, NEW on \in BOOLEAN, ~e.pilot
  PROVE  Good(Drives(on)) /\ ~Owes(Drives(on))
  <1> DEFINE n == NoDrive(e)
             seated == on \/ e.pilot
             d == [n EXCEPT !.vehicle = on, !.roverMenus = {}, !.suppressed = seated]
             c == OffFoot(d)
             b == IF e.lightbar THEN e.bar ELSE c.bar
  <1>1. e \in Engines /\ Seated(e) /\ LightOwned(e)
    BY DEF Sound, Good
  <1>2. n \in Engines /\ ~n.production /\ n.pilot = e.pilot /\ n.refresh = e.refresh
        /\ n.lightbar = e.lightbar
    BY <1>1, Off DEF NoDrive, Still, Engines
  <1> HIDE DEF n
  <1>10. seated \in BOOLEAN
    BY <1>1 DEF Engines
  <1> HIDE DEF seated
  <1>3. d \in Engines /\ d.suppressed = seated /\ d.vehicle = on /\ ~d.production
        /\ d.pilot = e.pilot /\ d.refresh = e.refresh /\ d.lightbar = e.lightbar
    BY <1>10, <1>2, Off DEF Engines
  <1> HIDE DEF d
  <1>4. /\ c \in Engines /\ c.left = "off" /\ c.right = "off" /\ c.transient = "off"
        /\ c.weapon = "none" /\ ~c.sustained /\ c.eon = "normal" /\ c.bar = "off"
        /\ c.pilot = e.pilot /\ c.vehicle = on /\ c.suppressed = seated
        /\ ~c.production /\ c.refresh = e.refresh /\ c.lightbar = e.lightbar
    BY <1>3, OffFootClears, OffFootTyped
  <1>5. Drives(on) = [c EXCEPT !.bar = b]
    BY <1>4 DEF Drives, n, d, seated, Engines
  <1> HIDE DEF c
  <1> DEFINE g == [c EXCEPT !.bar = b]
  <1>6. g \in Engines /\ Seated(g) /\ LightOwned(g)
        /\ g.left = "off" /\ g.right = "off" /\ g.transient = "off"
    BY <1>1, <1>4 DEF Engines, Seated, LightOwned, seated
  <1> HIDE DEF b
  <1>7. Good(g)
    BY <1>6, SilentGood
  <1>8. ~Owes(g)
    BY <1>1, <1>4 DEF Engines, Seated, Owes
  <1>9. QED
    BY <1>5, <1>7, <1>8

LEMMA VehicleSound ==
  Sound /\ (LandVehicleContextEntered \/ LandVehicleContextExited) => Sound'
  <1> SUFFICES ASSUME Sound, LandVehicleContextEntered \/ LandVehicleContextExited
               PROVE  Sound'
    OBVIOUS
  <1>1. PICK on \in BOOLEAN : ~e.pilot /\ Becomes(Drives(on), FALSE)
    BY DEF LandVehicleContextEntered, LandVehicleContextExited, Sound, Good, Seated
  <1>2. QED
    BY <1>1, DrivesGood, BecomesSound

-----------------------------------------------------------------------------
(* Menus.                                                                  *)

\* Engines that differ in no more than the light bar and the clocks.
Alike(m, l) ==
  /\ l.adaptive = m.adaptive /\ l.custom = m.custom /\ l.pilot = m.pilot
  /\ l.vehicle = m.vehicle /\ l.suppressed = m.suppressed /\ l.launch = m.launch
  /\ l.shipMenus = m.shipMenus /\ l.roverMenus = m.roverMenus
  /\ l.refresh = m.refresh /\ l.production = m.production /\ l.aim = m.aim
  /\ l.weapon = m.weapon /\ l.pressed = m.pressed /\ l.sustained = m.sustained
  /\ l.eon = m.eon /\ l.pullSeen = m.pullSeen /\ l.left = m.left /\ l.right = m.right
  /\ (l.laser = "off" <=> m.laser = "off")
  /\ \/ l.transient = m.transient
     \/ l.transient \in {"running", "due"} /\ m.transient = "running"

LEMMA AlikeGood ==
  ASSUME NEW m, Good(m), NEW l \in Engines, Alike(m, l), LightOwned(l)
  PROVE  Good(l) /\ (Owes(l) <=> Owes(m))
  <1>1. m \in Engines
    BY DEF Good
  <1>2. Seated(l)
    BY <1>1 DEF Alike, Good, Seated
  <1>3. Kept(l) /\ LeftOwned(l)
    BY DEF Alike, Good, Kept, LeftOwned
  <1>4. RightOwned(l)
    BY DEF Alike, Good, RightOwned, FootEnabled
  <1>5. QED
    BY <1>2, <1>3, <1>4 DEF Good, Owes, Alike

LEMMA MainMenuGood ==
  ASSUME NEW m, Good(m)
  PROVE  LET l == ToMainMenu(m)
         IN  /\ Good(l) /\ (Owes(l) <=> Owes(m))
             /\ l.eon = m.eon /\ l.refresh = m.refresh
  <1> DEFINE l == ToMainMenu(m)
  <1>1. m \in Engines /\ LightOwned(m)
    BY DEF Good
  <1>2. l \in Engines
    <2> DEFINE bar == IF m.lightbar THEN "off" ELSE m.bar
    <2>1. bar \in Colours
      BY <1>1, Off DEF Engines
    <2>2. l = [m EXCEPT !.seat = FALSE, !.shipKnown = FALSE, !.phase = "none",
                        !.flash = "off", !.bar = bar]
      BY <1>1 DEF ToMainMenu, Engines
    <2> HIDE DEF bar, l
    <2>3. QED
      BY <1>1, <2>1, <2>2, Off DEF Engines
  <1>3. Alike(m, l) /\ LightOwned(l) /\ l.eon = m.eon /\ l.refresh = m.refresh
    BY <1>1 DEF ToMainMenu, Engines, Alike, LightOwned
  <1> HIDE DEF l
  <1>4. Good(l) /\ (Owes(l) <=> Owes(m))
    BY <1>2, <1>3, AlikeGood
  <1>5. QED
    BY <1>3, <1>4 DEF l

LEMMA ShipMenuOpenedGood ==
  ASSUME NEW m, Good(m), NEW x \in Menus
  PROVE  LET o == ShipMenuOpened(m, x)
         IN  Good(o) /\ o.refresh = "none" /\ o.eon = m.eon
  <1> DEFINE s == Still(m)
             menus == s.shipMenus \cup {x}
             o == [s EXCEPT !.shipMenus = menus, !.laser = "off", !.refresh = "none"]
  <1>1. s \in Engines /\ Seated(s) /\ LightOwned(s) /\ s.eon = m.eon /\ s.refresh = m.refresh
        /\ s.left = "off" /\ s.right = "off" /\ s.transient = "off"
    BY StillGood, StillStops DEF Good
  <1>2. ShipMenuOpened(m, x) = o
    BY DEF ShipMenuOpened
  <1> HIDE DEF s
  <1>3. menus \in SUBSET Menus
    BY <1>1 DEF Engines
  <1> HIDE DEF menus
  <1>4. o \in Engines /\ Seated(o) /\ LightOwned(o) /\ o.eon = m.eon
        /\ o.left = "off" /\ o.right = "off" /\ o.transient = "off" /\ o.refresh = "none"
    <2>1. o \in Engines
      BY <1>1, <1>3, Off DEF Engines
    <2>2. QED
      BY <1>1, <1>3, <2>1 DEF Engines, Seated, LightOwned
  <1> HIDE DEF o
  <1>5. Good(o)
    BY <1>4, SilentGood
  <1>6. QED
    BY <1>2, <1>4, <1>5

LEMMA RoverMenuOpenedGood ==
  ASSUME NEW m, Good(m), NEW x \in Menus
  PROVE  LET o == RoverMenuOpened(m, x)
         IN  Good(o) /\ o.refresh = m.refresh /\ o.eon = m.eon
  <1> DEFINE s == Still(m)
             menus == s.roverMenus \cup {x}
             drives == s.production /\ x # "Loading"
             o == [s EXCEPT !.roverMenus = menus, !.aim = FALSE, !.gun = "off",
                            !.production = drives]
  <1>1. s \in Engines /\ Seated(s) /\ LightOwned(s) /\ s.eon = m.eon /\ s.refresh = m.refresh
        /\ s.left = "off" /\ s.right = "off" /\ s.transient = "off"
    BY StillGood, StillStops DEF Good
  <1>2. RoverMenuOpened(m, x) = o
    BY DEF RoverMenuOpened
  <1> HIDE DEF s
  <1>3. menus \in SUBSET Menus /\ drives \in BOOLEAN /\ (drives => s.production)
    BY <1>1 DEF Engines
  <1> HIDE DEF menus, drives
  <1>4. o \in Engines /\ Seated(o) /\ LightOwned(o) /\ o.eon = m.eon /\ o.refresh = m.refresh
        /\ o.left = "off" /\ o.right = "off" /\ o.transient = "off"
    <2>1. o \in Engines
      BY <1>1, <1>3, Off DEF Engines
    <2>2. QED
      BY <1>1, <1>3, <2>1 DEF Engines, Seated, LightOwned
  <1> HIDE DEF o
  <1>5. Good(o)
    BY <1>4, SilentGood
  <1>6. QED
    BY <1>2, <1>4, <1>5

LEMMA MenuOpenedSound ==
  ASSUME Sound, NEW x \in Menus, MenuOpened(x)
  PROVE  Sound'
  <1> DEFINE main == IF x = "Main" THEN ToMainMenu(e) ELSE e
             ship == IF OverShip(x) THEN ShipMenuOpened(main, x) ELSE main
             m == IF OverRover(x) THEN RoverMenuOpened(ship, x) ELSE ship
             owes == owed /\ (OverShip(x) => e.refresh = "none")
  <1>1. Good(e) /\ owed \in BOOLEAN /\ (Owes(e) => owed)
    BY DEF Sound
  <1>2. Good(main) /\ main.eon = e.eon /\ main.refresh = e.refresh
    BY <1>1, MainMenuGood
  <1>3. Good(ship) /\ ship.eon = e.eon
        /\ ship.refresh = (IF OverShip(x) THEN "none" ELSE e.refresh)
    BY <1>2, ShipMenuOpenedGood
  <1>4. Good(m) /\ m.eon = e.eon
        /\ m.refresh = (IF OverShip(x) THEN "none" ELSE e.refresh)
    BY <1>3, RoverMenuOpenedGood
  <1>5. e.eon = "deep" => e.refresh = "none"
    BY <1>1 DEF Good, Seated
  <1>6. Becomes(m, owes)
    BY DEF MenuOpened
  <1>7. owes \in BOOLEAN /\ (Owes(m) => owes)
    BY <1>1, <1>4, <1>5 DEF Owes
  <1> HIDE DEF m, owes
  <1>8. QED
    BY <1>4, <1>6, <1>7, BecomesSound

LEMMA MenuClosedSound ==
  ASSUME Sound, NEW x \in Menus, MenuClosed(x)
  PROVE  Sound'
  <1> DEFINE menus == e.shipMenus \ {x}
             closed == [e EXCEPT !.shipMenus = menus]
             ship == IF ~OverShip(x) THEN e
                     ELSE IF menus = {} THEN Restore(closed) ELSE closed
             menus2 == ship.roverMenus \ {x}
             left == [ship EXCEPT !.roverMenus = menus2]
             driven == IF left.production /\ menus2 = {} THEN Restore(left) ELSE left
             still == ship.suppressed /\ (e.pilot \/ e.vehicle \/ x # "Loading")
             onFoot == [ship EXCEPT !.suppressed = still]
  <1>1. Good(e) /\ e \in Engines /\ (Owes(e) => owed) /\ owed \in BOOLEAN
    BY DEF Sound, Good
  <1>2. Good(closed) /\ (Owes(closed) <=> Owes(e))
        /\ closed.pilot = e.pilot /\ closed.vehicle = e.vehicle
        /\ closed.suppressed = e.suppressed
    <2>1. closed \in Engines
      BY <1>1 DEF Engines
    <2>2. Seated(closed) /\ Kept(closed) /\ LightOwned(closed) /\ LeftOwned(closed)
          /\ (Owes(closed) <=> Owes(e))
          /\ closed.pilot = e.pilot /\ closed.vehicle = e.vehicle
          /\ closed.suppressed = e.suppressed
      BY <1>1 DEF Engines, Good, Seated, Kept, LightOwned, LeftOwned, Owes
    <2>3. RightOwned(closed)
      BY <1>1 DEF Engines, Good, RightOwned, FootEnabled
    <2>4. QED
      BY <2>1, <2>2, <2>3 DEF Good
  <1>3. Good(ship) /\ (Owes(ship) <=> Owes(e))
    <2> HIDE DEF closed
    <2>1. QED
      BY <1>1, <1>2, GoodIsReady, RestoreGood
  <1>4. ship \in Engines /\ ship.pilot = e.pilot /\ ship.vehicle = e.vehicle
        /\ ship.suppressed = e.suppressed
    <2> HIDE DEF closed
    <2>1. QED
      BY <1>1, <1>2, <1>3, RestoreKeeps DEF Good
  <1> HIDE DEF ship
  <1>6. Good(left) /\ (Owes(left) <=> Owes(e))
    <2>1. left \in Engines
      BY <1>4 DEF Engines
    <2>2. Seated(left) /\ Kept(left) /\ LightOwned(left) /\ LeftOwned(left)
          /\ (Owes(left) <=> Owes(e))
      BY <1>3, <1>4 DEF Engines, Good, Seated, Kept, LightOwned, LeftOwned, Owes
    <2>3. RightOwned(left)
      BY <1>3, <1>4 DEF Engines, Good, RightOwned, FootEnabled
    <2>4. QED
      BY <2>1, <2>2, <2>3 DEF Good
  <1>7. left.roverMenus = menus2
    BY <1>4 DEF Engines
  <1>8. Good(driven) /\ (Owes(driven) <=> Owes(e))
    <2> HIDE DEF left
    <2>1. QED
      BY <1>6, GoodIsReady, RestoreGood
  <1>9. Good(onFoot) /\ (Owes(onFoot) <=> Owes(e))
    <2>1. still \in BOOLEAN /\ (still => ship.suppressed)
          /\ (ship.pilot \/ ship.vehicle => still)
      BY <1>1, <1>4 DEF Engines, Good, Seated
    <2> HIDE DEF still
    <2>2. onFoot \in Engines
      BY <1>4, <2>1 DEF Engines
    <2>3. Seated(onFoot) /\ Kept(onFoot) /\ LightOwned(onFoot) /\ LeftOwned(onFoot)
          /\ (Owes(onFoot) <=> Owes(e))
      BY <1>3, <1>4, <2>1 DEF Engines, Good, Seated, Kept, LightOwned, LeftOwned, Owes
    <2>4. RightOwned(onFoot)
      BY <1>3, <1>4, <2>1 DEF Engines, Good, RightOwned, FootEnabled
    <2>5. QED
      BY <2>2, <2>3, <2>4 DEF Good
  <1>10. Becomes(IF OverRover(x) THEN driven ELSE onFoot, owed)
    <2>1. closed.shipMenus = menus
      BY <1>1 DEF Engines
    <2>2. QED
      BY <1>7, <2>1, Zenon DEF MenuClosed, ship
  <1> HIDE DEF driven, onFoot
  <1>11. QED
    BY <1>1, <1>8, <1>9, <1>10, BecomesSound

-----------------------------------------------------------------------------
(* Shots.                                                                  *)

\* A kick is owned where its shot is.
MayKick(m, effect) ==
  /\ m \in Engines /\ Seated(m) /\ LightOwned(m) /\ LeftOwned(m)
  /\ m.adaptive /\ ~m.sustained /\ m.refresh = "none" /\ m.eon # "deep"
  /\ \/ effect = "shot" /\ m.pilot /\ m.shipMenus = {}
     \/ effect = "gun" /\ m.production /\ m.vehicle /\ ~m.pilot /\ m.roverMenus = {}
     \/ effect = "recoil" /\ ~m.suppressed /\ m.weapon # "none" /\ FootEnabled(m)

LEMMA KickGood ==
  ASSUME NEW m, NEW effect, MayKick(m, effect)
  PROVE  Good(Kick(m, effect)) /\ ~Owes(Kick(m, effect))
  <1> DEFINE k == Kick(m, effect)
  <1>1. m \in Engines
    BY DEF MayKick
  <1>2. effect \in RightEffects /\ effect \in Kicks
    BY DEF MayKick, RightEffects, FootEffects, ShipEffects, RoverEffects, Kicks
  <1>3. k \in Engines
    BY <1>1, <1>2, Running DEF Kick, Engines
  <1>4. Seated(k) /\ LightOwned(k) /\ LeftOwned(k) /\ ~Owes(k)
    BY <1>1 DEF MayKick, Kick, Engines, Seated, LightOwned, LeftOwned, Owes
  <1>5. Kept(k) /\ RightOwned(k)
    BY <1>1 DEF MayKick, Kick, Engines, Kept, RightOwned, FootEnabled, Kicks, FootEffects,
       ShipEffects, RoverEffects
  <1>6. QED
    BY <1>3, <1>4, <1>5 DEF Good

LEMMA WeaponEquippedSound ==
  ASSUME Sound, NEW w \in Weapons, WeaponEquipped(w)
  PROVE  Sound'
  <1> DEFINE m == [e EXCEPT !.weapon = w, !.sustained = FALSE, !.heartbeat = "off",
                            !.transient = "off", !.eon = "normal", !.pullSeen = FALSE,
                            !.pending = "off"]
  <1>1. e \in Engines /\ Seated(e) /\ LightOwned(e)
    BY DEF Sound, Good
  <1>2. ~e.suppressed /\ Becomes(Restore(m), FALSE)
    BY DEF WeaponEquipped
  <1>3. m \in Engines
    BY <1>1, Off DEF Engines
  <1>4. Seated(m) /\ LightOwned(m) /\ m.eon = "normal" /\ ~Owes(m)
    BY <1>1, <1>2 DEF Engines, Seated, LightOwned, Owes
  <1> HIDE DEF m
  <1>5. Good(Restore(m)) /\ ~Owes(Restore(m))
    BY <1>3, <1>4, RestoreGood DEF Ready
  <1>6. QED
    BY <1>2, <1>5, BecomesSound

\* Only a weapon on foot fires, and only a seat refreshes.
LEMMA MayFireOnFoot ==
  ASSUME Sound, MayFire
  PROVE  /\ e \in Engines /\ Seated(e) /\ LightOwned(e) /\ LeftOwned(e)
         /\ e.adaptive /\ ~e.suppressed /\ e.weapon # "none" /\ FootEnabled(e)
         /\ e.refresh = "none"
  BY DEF Sound, Good, Seated, MayFire, FootEnabled

LEMMA BeamSound == Sound /\ (BeamStarts \/ BeamBeats \/ ArcEnds) => Sound'
  <1> SUFFICES ASSUME Sound, BeamStarts \/ BeamBeats \/ ArcEnds PROVE Sound'
    OBVIOUS
  <1>1. CASE BeamStarts
    <2> DEFINE h == IF e.weapon = "cutter" THEN "running" ELSE "off"
               m == [e EXCEPT !.right = "sustained", !.sustained = TRUE,
                              !.transient = "endless", !.heartbeat = h]
    <2>1. /\ e \in Engines /\ Seated(e) /\ LightOwned(e) /\ LeftOwned(e)
          /\ e.adaptive /\ ~e.suppressed /\ FootEnabled(e) /\ e.refresh = "none"
          /\ e.weapon \in Beams /\ e.weapon # "none"
      BY <1>1, MayFireOnFoot DEF BeamStarts
    <2>2. h \in Deadlines /\ "sustained" \in RightEffects
          /\ "endless" \in Deadlines \cup {"endless"}
      BY DEF Deadlines, RightEffects, FootEffects
    <2>3. Becomes(m, FALSE)
      BY <1>1 DEF BeamStarts
    <2> HIDE DEF h
    <2>4. m \in Engines
      BY <2>1, <2>2 DEF Engines
    <2>5. Seated(m) /\ LightOwned(m) /\ LeftOwned(m) /\ Kept(m) /\ ~Owes(m)
      BY <2>1 DEF Engines, Seated, LightOwned, LeftOwned, Kept, Owes, Beams
    <2>6. RightOwned(m)
      BY <2>1 DEF Engines, RightOwned, FootEnabled, Kicks, ShipEffects, RoverEffects
    <2> HIDE DEF m
    <2>7. QED
      BY <2>3, <2>4, <2>5, <2>6, BecomesSound DEF Good
  <1>2. CASE BeamBeats
    <2> DEFINE m == [e EXCEPT !.heartbeat = "running"]
    <2>1. Good(e) /\ e \in Engines /\ ~Owes(e)
      BY <1>2, MayFireOnFoot DEF BeamBeats, Sound, Seated, Owes
    <2>2. m \in Engines /\ Alike(e, m) /\ LightOwned(m)
      BY <2>1 DEF Engines, Alike, Deadlines, Good, LightOwned
    <2>3. Becomes(m, FALSE)
      BY <1>2 DEF BeamBeats
    <2> HIDE DEF m
    <2>4. QED
      BY <2>1, <2>2, <2>3, AlikeGood, BecomesSound
  <1>3. CASE ArcEnds
    <2> DEFINE m == [e EXCEPT !.sustained = FALSE, !.heartbeat = "off", !.transient = "off"]
    <2>1. e \in Engines /\ Seated(e) /\ LightOwned(e) /\ e.weapon = "arc"
          /\ e.refresh = "none"
      BY <1>3, MayFireOnFoot DEF ArcEnds
    <2>2. m \in Engines
      BY <2>1, Off DEF Engines
    <2>3. Seated(m) /\ LightOwned(m) /\ m.eon = "normal" /\ ~Owes(m)
      BY <2>1 DEF Engines, Seated, LightOwned, Owes
    <2>4. Becomes(Restore(m), FALSE)
      BY <1>3 DEF ArcEnds
    <2> HIDE DEF m
    <2>5. Good(Restore(m)) /\ ~Owes(Restore(m))
      BY <2>2, <2>3, RestoreGood DEF Ready
    <2>6. QED
      BY <2>4, <2>5, BecomesSound
  <1>4. QED
    BY <1>1, <1>2, <1>3

\* The deep pull that lets the confirmed shot of the Eon go.
LEMMA EonKickGood ==
  ASSUME NEW m \in Engines, Seated(m), LightOwned(m), LeftOwned(m),
         m.weapon = "eon", ~m.suppressed, m.adaptive
  PROVE  LET k == [Kick(m, "recoil") EXCEPT !.eon = "release", !.pullSeen = TRUE,
                                            !.pending = "off"]
         IN  Good(k) /\ ~Owes(k)
  <1> DEFINE b == Kick(m, "recoil")
             k == [b EXCEPT !.eon = "release", !.pullSeen = TRUE, !.pending = "off"]
  <1>1. "recoil" \in RightEffects
    BY DEF RightEffects, FootEffects
  <1>2. b \in Engines
    BY <1>1 DEF Kick, Engines, Deadlines
  <1>3. /\ b.right = "recoil" /\ b.transient = "running" /\ b.weapon = "eon"
        /\ ~b.suppressed /\ ~b.pilot /\ ~b.vehicle /\ ~b.production /\ ~b.sustained
        /\ b.refresh = "none" /\ b.adaptive /\ LightOwned(b) /\ LeftOwned(b)
    BY DEF Kick, Engines, Seated, LightOwned, LeftOwned, Beams
  <1> HIDE DEF b
  <1>4. k \in Engines
    BY <1>2, Off DEF Engines
  <1>5. /\ Seated(k) /\ Kept(k) /\ LightOwned(k) /\ LeftOwned(k) /\ ~Owes(k)
        /\ k.right = "recoil" /\ k.eon = "release" /\ k.weapon = "eon" /\ k.adaptive
        /\ ~k.suppressed
    BY <1>2, <1>3 DEF Engines, Seated, Kept, LightOwned, LeftOwned, Owes
  <1> HIDE DEF k
  <1>6. RightOwned(k)
    BY <1>5 DEF RightOwned, FootEnabled, ShipEffects, RoverEffects
  <1>7. Good(k) /\ ~Owes(k)
    BY <1>4, <1>5, <1>6 DEF Good
  <1>8. QED
    BY <1>7 DEF k, b

LEMMA WeaponFiredSound == Sound /\ WeaponFired => Sound'
  <1> SUFFICES ASSUME Sound, WeaponFired PROVE Sound'
    OBVIOUS
  <1> DEFINE m == [e EXCEPT !.sustained = FALSE]
             k == [Kick(m, "recoil") EXCEPT !.eon = "release", !.pullSeen = TRUE,
                                            !.pending = "off"]
             seen == e.pressed
             deep == [m EXCEPT !.transient = "off", !.eon = "deep", !.pullSeen = seen,
                               !.pending = "running"]
  <1>1. /\ e \in Engines /\ Seated(e) /\ LightOwned(e) /\ LeftOwned(e) /\ Good(e)
        /\ e.adaptive /\ ~e.suppressed /\ e.weapon # "none" /\ FootEnabled(e)
        /\ e.refresh = "none" /\ e.weapon \notin Beams /\ ~e.sustained
    BY MayFireOnFoot DEF WeaponFired, Sound, Seated
  <1>2. m = e
    BY <1>1 DEF Engines
  <1>3. \/ e.weapon # "eon" /\ Becomes(m, FALSE)
        \/ e.weapon = "eon" /\ Becomes(k, FALSE)
        \/ e.weapon = "eon" /\ Becomes(Restore(deep), TRUE)
        \/ e.weapon # "eon" /\ Becomes(Kick(m, "recoil"), FALSE)
    BY DEF WeaponFired
  <1> HIDE DEF m
  <1>4. CASE e.weapon # "eon" /\ Becomes(m, FALSE)
    BY <1>1, <1>2, <1>4, BecomesSound DEF Seated, Owes
  <1>5. CASE e.weapon = "eon" /\ Becomes(k, FALSE)
    BY <1>1, <1>2, <1>5, EonKickGood, BecomesSound
  <1>6. CASE e.weapon = "eon" /\ Becomes(Restore(deep), TRUE)
    <2>1. seen \in BOOLEAN /\ (e.pressed => seen)
      BY <1>1 DEF Engines
    <2> HIDE DEF seen
    <2>2. deep \in Engines
      BY <1>1, <1>2, <2>1, Off, Running DEF Engines
    <2>3. Seated(deep) /\ LightOwned(deep) /\ deep.eon = "deep"
      BY <1>1, <1>2, <1>6, <2>1 DEF Engines, Seated, LightOwned
    <2> HIDE DEF deep
    <2>4. Good(Restore(deep))
      BY <2>2, <2>3, RestoreGood DEF Ready
    <2>5. QED
      BY <1>6, <2>4, BecomesSound
  <1>7. CASE e.weapon # "eon" /\ Becomes(Kick(m, "recoil"), FALSE)
    <2>1. MayKick(m, "recoil")
      BY <1>1, <1>2, <1>7 DEF MayKick, Seated
    <2>2. QED
      BY <1>7, <2>1, KickGood, BecomesSound
  <1>8. QED
    BY <1>3, <1>4, <1>5, <1>6, <1>7

LEMMA ShipMayFireInSeat ==
  ASSUME Sound, ShipMayFire
  PROVE  /\ e \in Engines /\ Seated(e) /\ LightOwned(e) /\ LeftOwned(e) /\ e.pilot
         /\ e.adaptive /\ e.shipMenus = {} /\ e.weapon = "none" /\ ~e.sustained
         /\ e.eon = "normal"
  BY DEF Sound, Good, Seated, ShipMayFire, Beams

\* A shot of the ship forgets what the previous group left.
LEMMA ShipShotGood ==
  ASSUME Sound, ShipMayFire, NEW cannon \in BOOLEAN
  PROVE  LET k == Kick([e EXCEPT !.refresh = "none", !.laser = "off", !.cannon = cannon], "shot")
         IN  Good(k) /\ ~Owes(k)
  <1> DEFINE m == [e EXCEPT !.refresh = "none", !.laser = "off", !.cannon = cannon]
  <1>1. m \in Engines
    BY ShipMayFireInSeat, Off DEF Engines
  <1>2. MayKick(m, "shot")
    BY <1>1, ShipMayFireInSeat DEF MayKick, Engines, Seated, LightOwned, LeftOwned
  <1>3. QED
    BY <1>2, KickGood

LEMMA ShipEMSound == Sound /\ ShipEMWeaponFired => Sound'
  <1> SUFFICES ASSUME Sound, ShipEMWeaponFired PROVE Sound'
    OBVIOUS
  <1> DEFINE m == [e EXCEPT !.cannon = FALSE, !.laser = "off", !.rearmed = FALSE]
             f == [m EXCEPT !.refresh = "none"]
             q == [m EXCEPT !.right = "off", !.transient = "off", !.refresh = "queued"]
  <1>1. /\ e \in Engines /\ Seated(e) /\ LightOwned(e) /\ LeftOwned(e) /\ e.pilot
        /\ e.adaptive /\ e.shipMenus = {} /\ e.weapon = "none" /\ ~e.sustained
        /\ e.eon = "normal"
    BY ShipMayFireInSeat DEF ShipEMWeaponFired
  <1>2. Becomes(Kick(f, "shot"), FALSE) \/ Becomes(q, TRUE)
    BY DEF ShipEMWeaponFired
  <1>3. /\ m \in Engines /\ Seated(m) /\ LightOwned(m) /\ LeftOwned(m) /\ m.pilot
        /\ m.adaptive /\ m.shipMenus = {} /\ ~m.sustained /\ m.eon = "normal"
    <2>1. m \in Engines
      BY <1>1, Off DEF Engines
    <2>2. QED
      BY <1>1, <2>1 DEF Engines, Seated, LightOwned, LeftOwned
  <1> HIDE DEF m
  <1>4. CASE Becomes(Kick(f, "shot"), FALSE)
    <2>1. f \in Engines
      BY <1>3 DEF Engines
    <2>2. MayKick(f, "shot")
      BY <1>3, <2>1 DEF MayKick, Engines, Seated, LightOwned, LeftOwned
    <2>3. QED
      BY <1>4, <2>2, KickGood, BecomesSound
  <1>5. CASE Becomes(q, TRUE)
    <2>1. q \in Engines
      BY <1>3, Off DEF Engines
    <2>2. Seated(q) /\ Kept(q) /\ LightOwned(q) /\ LeftOwned(q)
      BY <1>3 DEF Engines, Seated, Kept, LightOwned, LeftOwned
    <2>3. RightOwned(q)
      BY <1>3 DEF Engines, RightOwned, FootEffects, ShipEffects, RoverEffects, Kicks
    <2> HIDE DEF q
    <2>4. QED
      BY <1>5, <2>1, <2>2, <2>3, BecomesSound DEF Good
  <1>6. QED
    BY <1>2, <1>4, <1>5

LEMMA ShipLaserSound == Sound /\ (ShipLaserWeaponFired \/ ShipLaserWeaponStopped) => Sound'
  <1> SUFFICES ASSUME Sound, ShipLaserWeaponFired \/ ShipLaserWeaponStopped PROVE Sound'
    OBVIOUS
  <1>1. CASE ShipLaserWeaponFired
    <2> DEFINE m == [e EXCEPT !.refresh = "none", !.cannon = FALSE, !.laser = "running",
                              !.right = "laser", !.transient = "off"]
    <2>1. /\ e \in Engines /\ Seated(e) /\ LightOwned(e) /\ LeftOwned(e) /\ e.pilot
          /\ e.adaptive /\ e.shipMenus = {} /\ e.weapon = "none" /\ ~e.sustained
          /\ e.eon = "normal"
      BY <1>1, ShipMayFireInSeat DEF ShipLaserWeaponFired
    <2>2. "laser" \in RightEffects
      BY DEF RightEffects, ShipEffects
    <2>3. m \in Engines
      BY <2>1, <2>2, Off, Running DEF Engines
    <2>4. Seated(m) /\ Kept(m) /\ LightOwned(m) /\ LeftOwned(m) /\ ~Owes(m)
      BY <2>1 DEF Engines, Seated, Kept, LightOwned, LeftOwned, Owes
    <2>5. RightOwned(m)
      BY <2>1 DEF Engines, RightOwned, FootEffects, RoverEffects, Kicks
    <2>6. Becomes(m, FALSE)
      BY <1>1 DEF ShipLaserWeaponFired
    <2> HIDE DEF m
    <2>7. QED
      BY <2>3, <2>4, <2>5, <2>6, BecomesSound DEF Good
  <1>2. CASE ShipLaserWeaponStopped
    <2> DEFINE m == [e EXCEPT !.laser = "off"]
    <2>1. e \in Engines /\ Seated(e) /\ LightOwned(e) /\ e.eon = "normal"
          /\ (Owes(e) => owed) /\ owed \in BOOLEAN
      BY <1>2 DEF ShipLaserWeaponStopped, Sound, Good, Seated
    <2>2. m \in Engines
      BY <2>1, Off DEF Engines
    <2>3. Seated(m) /\ LightOwned(m) /\ m.eon = "normal" /\ (Owes(m) <=> Owes(e))
      BY <2>1 DEF Engines, Seated, LightOwned, Owes
    <2>4. Becomes(Restore(m), owed)
      BY <1>2 DEF ShipLaserWeaponStopped
    <2> HIDE DEF m
    <2>5. Good(Restore(m)) /\ (Owes(Restore(m)) <=> Owes(e))
      BY <2>2, <2>3, RestoreGood DEF Ready
    <2>6. QED
      BY <2>1, <2>4, <2>5, BecomesSound
  <1>3. QED
    BY <1>1, <1>2

LEMMA LaunchStartedSound == Sound /\ ShipLaunchLandingHapticsStarted => Sound'
  <1> SUFFICES ASSUME Sound, ShipLaunchLandingHapticsStarted PROVE Sound'
    OBVIOUS
  <1> DEFINE m == [e EXCEPT !.launch = TRUE, !.refresh = "none", !.laser = "off",
                            !.transient = "off"]
             owes == owed /\ e.refresh = "none"
  <1>1. Good(e) /\ e \in Engines /\ (Owes(e) => owed) /\ owed \in BOOLEAN
    BY DEF Sound, Good
  <1>2. m \in Engines
    BY <1>1, Off DEF Engines
  <1>3. /\ Seated(m) /\ LightOwned(m) /\ Kept(m) /\ m.eon = e.eon /\ m.refresh = "none"
        /\ (m.eon = "release" => RightOwned(m))
    <2>1. Seated(m) /\ LightOwned(m) /\ Kept(m) /\ m.eon = e.eon /\ m.refresh = "none"
      BY <1>1 DEF Engines, Good, Seated, LightOwned, Kept
    <2>2. ASSUME m.eon = "release" PROVE RightOwned(m)
      BY <1>1, <2>1, <2>2 DEF Engines, Good, Seated, RightOwned, FootEnabled, ShipEffects
    <2>3. QED
      BY <2>1, <2>2
  <1>4. owes \in BOOLEAN /\ (Owes(m) => owes)
    BY <1>1, <1>3 DEF Owes, Good, Seated
  <1>5. Becomes(Restore(m), owes)
    BY DEF ShipLaunchLandingHapticsStarted
  <1> HIDE DEF m, owes
  <1>6. Good(Restore(m)) /\ (Owes(Restore(m)) <=> Owes(m))
    BY <1>2, <1>3, RestoreGood DEF Ready
  <1>7. QED
    BY <1>4, <1>5, <1>6, BecomesSound

LEMMA LaunchStoppedSound == Sound /\ ShipLaunchLandingHapticsStopped => Sound'
  <1> SUFFICES ASSUME Sound, ShipLaunchLandingHapticsStopped PROVE Sound'
    OBVIOUS
  <1> DEFINE m == [e EXCEPT !.launch = FALSE, !.left = "off", !.transient = "off"]
  <1>1. Good(e) /\ e \in Engines /\ (Owes(e) => owed) /\ owed \in BOOLEAN
    BY DEF Sound, Good
  <1>2. m \in Engines
    BY <1>1, Off DEF Engines
  <1>3. /\ Seated(m) /\ LightOwned(m) /\ Kept(m) /\ (Owes(m) <=> Owes(e))
        /\ (m.eon = "release" => RightOwned(m))
    <2>1. Seated(m) /\ LightOwned(m) /\ Kept(m) /\ m.eon = e.eon /\ m.refresh = e.refresh
      BY <1>1 DEF Engines, Good, Seated, LightOwned, Kept
    <2>2. ASSUME m.eon = "release" PROVE RightOwned(m)
      BY <1>1, <2>1, <2>2 DEF Engines, Good, Seated, RightOwned, FootEnabled
    <2>3. QED
      BY <2>1, <2>2 DEF Owes
  <1>4. Becomes(Restore(m), owed)
    BY DEF ShipLaunchLandingHapticsStopped
  <1> HIDE DEF m
  <1>5. Good(Restore(m)) /\ (Owes(Restore(m)) <=> Owes(e))
    BY <1>2, <1>3, RestoreGood DEF Ready
  <1>6. QED
    BY <1>1, <1>4, <1>5, BecomesSound

LEMMA ShipSound == Sound /\ Ship => Sound'
  <1> SUFFICES ASSUME Sound, Ship PROVE Sound'
    OBVIOUS
  <1>1. CASE ShipBallisticWeaponFired
    BY <1>1, ShipShotGood, BecomesSound DEF ShipBallisticWeaponFired
  <1>2. CASE ShipFiniteWeaponFired
    BY <1>2, ShipShotGood, BecomesSound DEF ShipFiniteWeaponFired
  <1>3. QED
    BY <1>1, <1>2, ShipEMSound, ShipLaserSound, LaunchStartedSound, LaunchStoppedSound DEF Ship

LEMMA AuthorityAcquiredSound == Sound /\ LandVehicleAuthorityAcquired => Sound'
  <1> SUFFICES ASSUME Sound, LandVehicleAuthorityAcquired PROVE Sound'
    OBVIOUS
  <1> DEFINE m == [e EXCEPT !.production = TRUE, !.aim = FALSE, !.gun = "off",
                            !.transient = "off"]
  <1>1. e \in Engines /\ Seated(e) /\ LightOwned(e) /\ e.vehicle
        /\ (Owes(e) => owed) /\ owed \in BOOLEAN
    BY DEF LandVehicleAuthorityAcquired, Sound, Good
  <1>2. m \in Engines
    BY <1>1, Off DEF Engines
  <1>3. Seated(m) /\ LightOwned(m) /\ m.eon = "normal" /\ (Owes(m) <=> Owes(e))
    BY <1>1 DEF Engines, Seated, LightOwned, Owes
  <1>4. Becomes(Restore(m), owed)
    BY DEF LandVehicleAuthorityAcquired
  <1> HIDE DEF m
  <1>5. Good(Restore(m)) /\ (Owes(Restore(m)) <=> Owes(e))
    BY <1>2, <1>3, RestoreGood DEF Ready
  <1>6. QED
    BY <1>1, <1>4, <1>5, BecomesSound

LEMMA AuthorityReleasedSound == Sound /\ LandVehicleAuthorityReleased => Sound'
  <1> SUFFICES ASSUME Sound, LandVehicleAuthorityReleased PROVE Sound'
    OBVIOUS
  <1> DEFINE m == NoDrive(e)
  <1>1. e \in Engines /\ Seated(e) /\ LightOwned(e) /\ (Owes(e) => owed) /\ owed \in BOOLEAN
    BY DEF Sound, Good
  <1>2. m \in Engines
    BY <1>1, NoDriveTyped
  <1>3. /\ Seated(m) /\ LightOwned(m) /\ (Owes(m) <=> Owes(e))
        /\ m.left = "off" /\ m.right = "off" /\ m.transient = "off"
    BY <1>1 DEF NoDrive, Still, Engines, Seated, LightOwned, Owes
  <1>4. Becomes(m, owed)
    BY DEF LandVehicleAuthorityReleased
  <1> HIDE DEF m
  <1>5. QED
    BY <1>1, <1>2, <1>3, <1>4, SilentGood, BecomesSound

LEMMA AimSound == Sound /\ (LandVehicleAimStarted \/ LandVehicleAimStopped) => Sound'
  <1> SUFFICES ASSUME Sound, LandVehicleAimStarted \/ LandVehicleAimStopped PROVE Sound'
    OBVIOUS
  <1>1. Good(e) /\ e \in Engines /\ (Owes(e) => owed) /\ owed \in BOOLEAN
    BY DEF Sound, Good
  <1>2. PICK aim \in BOOLEAN, left \in LeftEffects :
          /\ Becomes([e EXCEPT !.aim = aim, !.left = left], owed)
          /\ left \in {"off", "aim"}
          /\ left = "aim" => aim /\ e.adaptive /\ Driving /\ e.roverMenus = {}
    <2>1. CASE LandVehicleAimStarted
      <3>1. Adaptive(e, "aim") \in {"off", "aim"}
            /\ (Adaptive(e, "aim") = "aim" => e.adaptive)
        BY DEF Adaptive
      <3>2. QED
        BY <2>1, <3>1 DEF LandVehicleAimStarted, LeftEffects
    <2>2. CASE LandVehicleAimStopped
      BY <2>2 DEF LandVehicleAimStopped, LeftEffects
    <2>3. QED
      BY <2>1, <2>2
  <1> DEFINE m == [e EXCEPT !.aim = aim, !.left = left]
  <1>3. m \in Engines
    BY <1>1 DEF Engines
  <1>4. Seated(m) /\ Kept(m) /\ LightOwned(m) /\ (Owes(m) <=> Owes(e))
    BY <1>1 DEF Engines, Good, Seated, Kept, LightOwned, Owes
  <1>5. LeftOwned(m)
    BY <1>1, <1>2 DEF Engines, LeftOwned, Driving
  <1>6. RightOwned(m)
    BY <1>1 DEF Engines, Good, RightOwned, FootEnabled
  <1>7. Becomes(m, owed)
    BY <1>2
  <1> HIDE DEF m
  <1>8. QED
    BY <1>1, <1>3, <1>4, <1>5, <1>6, <1>7, BecomesSound DEF Good

LEMMA GunSound == Sound /\ LandVehicleGunFired => Sound'
  <1> SUFFICES ASSUME Sound, LandVehicleGunFired PROVE Sound'
    OBVIOUS
  <1> DEFINE k == Kick(e, "gun")
             m == [k EXCEPT !.gun = "running"]
  <1>1. /\ e \in Engines /\ Seated(e) /\ LightOwned(e) /\ LeftOwned(e) /\ owed \in BOOLEAN
        /\ Driving /\ e.roverMenus = {} /\ e.adaptive
    BY DEF Sound, Good, LandVehicleGunFired
  <1>2. MayKick(e, "gun")
    BY <1>1 DEF MayKick, Seated, Driving, Beams
  <1>3. Good(k) /\ ~Owes(k)
    BY <1>2, KickGood
  <1>4. Becomes(m, owed)
    BY DEF LandVehicleGunFired
  <1> HIDE DEF k
  <1>5. m \in Engines /\ Alike(k, m) /\ LightOwned(m)
    BY <1>3, Running DEF Engines, Alike, Good, LightOwned
  <1> HIDE DEF m
  <1>6. QED
    BY <1>1, <1>3, <1>4, <1>5, AlikeGood, BecomesSound

LEMMA RoverSound == Sound /\ Rover => Sound'
  BY AuthorityAcquiredSound, AuthorityReleasedSound, AimSound, GunSound DEF Rover

-----------------------------------------------------------------------------
(* The light bar and the settings.                                         *)

LEMMA LightSound == Sound /\ Light => Sound'
  <1> SUFFICES ASSUME Sound, Light PROVE Sound'
    OBVIOUS
  <1>1. Good(e) /\ e \in Engines /\ LightOwned(e) /\ (Owes(e) => owed) /\ owed \in BOOLEAN
    BY DEF Sound, Good
  <1>2. \A m \in Engines : Alike(e, m) /\ LightOwned(m) /\ Becomes(m, owed) => Sound'
    BY <1>1, AlikeGood, BecomesSound
  <1>3. CASE PlayerHealthChanged
    <2> DEFINE bar == IF e.seat \/ Grounded \/ ~e.lightbar THEN e.bar ELSE "player"
               m == [e EXCEPT !.playerKnown = TRUE, !.bar = bar]
    <2>1. bar \in Colours /\ (~e.lightbar => bar = "off")
      BY <1>1, Off DEF Engines, LightOwned, Colours, Cinematic
    <2>2. Becomes(m, owed)
      BY <1>3 DEF PlayerHealthChanged
    <2> HIDE DEF bar
    <2>3. m \in Engines
      BY <1>1, <2>1, Off, Running DEF Engines
    <2>4. Alike(e, m) /\ LightOwned(m)
      BY <1>1, <2>1 DEF Engines, Alike, LightOwned
    <2> HIDE DEF m
    <2>5. QED
      BY <2>2, <2>3, <2>4, <1>2
  <1>4. CASE ShipHealthChanged
    <2> DEFINE bar == IF e.lightbar /\ e.seat /\ e.phase = "none" /\ e.flash = "off"
                      THEN "ship" ELSE e.bar
               m == [e EXCEPT !.shipKnown = TRUE, !.bar = bar]
    <2>1. bar \in Colours /\ (~e.lightbar => bar = "off")
      BY <1>1, Off DEF Engines, LightOwned, Colours, Cinematic
    <2>2. Becomes(m, owed)
      BY <1>4 DEF ShipHealthChanged
    <2> HIDE DEF bar
    <2>3. m \in Engines
      BY <1>1, <2>1, Off, Running DEF Engines
    <2>4. Alike(e, m) /\ LightOwned(m)
      BY <1>1, <2>1 DEF Engines, Alike, LightOwned
    <2> HIDE DEF m
    <2>5. QED
      BY <2>2, <2>3, <2>4, <1>2
  <1>5. CASE ShipLightbarSeatEntered
    <2> DEFINE m == [e EXCEPT !.seat = TRUE, !.shipKnown = FALSE]
    <2>1. Becomes(m, owed)
      BY <1>5 DEF ShipLightbarSeatEntered
    <2>2. m \in Engines
      BY <1>1, Off, Running DEF Engines
    <2>3. Alike(e, m) /\ LightOwned(m)
      BY <1>1 DEF Engines, Alike, LightOwned
    <2> HIDE DEF m
    <2>4. QED
      BY <2>1, <2>2, <2>3, <1>2
  <1>6. CASE ShipLightbarSeatExited
    <2> DEFINE bar == IF ~e.lightbar THEN e.bar
                      ELSE IF Grounded THEN "off"
                      ELSE IF e.playerKnown THEN "player" ELSE e.bar
               m == [e EXCEPT !.seat = FALSE, !.shipKnown = FALSE, !.phase = "none",
                              !.flash = "off", !.bar = bar]
    <2>1. bar \in Colours /\ (~e.lightbar => bar = "off")
      BY <1>1, Off DEF Engines, LightOwned, Colours, Cinematic
    <2>2. Becomes(m, owed)
      BY <1>6 DEF ShipLightbarSeatExited
    <2> HIDE DEF bar
    <2>3. m \in Engines
      BY <1>1, <2>1, Off, Running DEF Engines
    <2>4. Alike(e, m) /\ LightOwned(m)
      BY <1>1, <2>1 DEF Engines, Alike, LightOwned
    <2> HIDE DEF m
    <2>5. QED
      BY <2>2, <2>3, <2>4, <1>2
  <1>7. CASE ShipLaunchLandingLightbarStopped
    <2> DEFINE m == [e EXCEPT !.phase = "none"]
    <2>1. Becomes(m, owed)
      BY <1>7 DEF ShipLaunchLandingLightbarStopped
    <2>2. m \in Engines
      BY <1>1, Off, Running DEF Engines
    <2>3. Alike(e, m) /\ LightOwned(m)
      BY <1>1 DEF Engines, Alike, LightOwned
    <2> HIDE DEF m
    <2>4. QED
      BY <2>1, <2>2, <2>3, <1>2
  <1>8. CASE ShipTouchdown
    <2> DEFINE m == [e EXCEPT !.phase = "none", !.flash = "running"]
    <2>1. Becomes(m, owed)
      BY <1>8 DEF ShipTouchdown
    <2>2. m \in Engines
      BY <1>1, Off, Running DEF Engines
    <2>3. Alike(e, m) /\ LightOwned(m)
      BY <1>1 DEF Engines, Alike, LightOwned
    <2> HIDE DEF m
    <2>4. QED
      BY <2>1, <2>2, <2>3, <1>2
  <1>9. ASSUME NEW phase \in {"takeoff", "landing"}, ShipLaunchLandingLightbarStarted(phase)
        PROVE  Sound'
    <2> DEFINE m == [e EXCEPT !.phase = phase, !.flash = "off"]
    <2>1. Becomes(m, owed)
      BY <1>9 DEF ShipLaunchLandingLightbarStarted
    <2>2. m \in Engines
      BY <1>1, Off DEF Engines
    <2>3. Alike(e, m) /\ LightOwned(m)
      BY <1>1 DEF Engines, Alike, LightOwned
    <2> HIDE DEF m
    <2>4. QED
      BY <2>1, <2>2, <2>3, <1>2
  <1>10. QED
    BY <1>3, <1>4, <1>5, <1>6, <1>7, <1>8, <1>9 DEF Light

LEMMA SettingsSound == Sound /\ Settings => Sound'
  <1> SUFFICES ASSUME Sound,
                      NEW adaptive \in BOOLEAN, NEW custom \in BOOLEAN,
                      NEW lightbar \in BOOLEAN, NEW strength \in BOOLEAN,
                      ApplyLiveSettings(adaptive, custom, lightbar, strength)
               PROVE  Sound'
    BY DEF Settings
  <1> DEFINE bar == IF lightbar THEN e.bar ELSE "off"
             m == [e EXCEPT !.adaptive = adaptive, !.custom = custom,
                            !.lightbar = lightbar, !.bar = bar]
             refused == e.weapon = "modded" /\ ~e.pilot /\ ~e.vehicle /\ ~custom
             changed == strength \/ adaptive # e.adaptive \/ custom # e.custom
             stopped == [Still(m) EXCEPT !.refresh = "none"]
             owes == owed /\ e.refresh = "none"
  <1>1. Good(e) /\ e \in Engines /\ (Owes(e) => owed) /\ owed \in BOOLEAN
    BY DEF Sound, Good
  <1>2. bar \in Colours /\ (~lightbar => bar = "off")
    BY <1>1, Off DEF Engines
  <1>3. IF ~adaptive \/ refused THEN Becomes(stopped, owes)
        ELSE Becomes(IF changed THEN Restore(m) ELSE m, owed)
    BY DEF ApplyLiveSettings
  <1> HIDE DEF bar
  <1>4. m \in Engines
    BY <1>1, <1>2 DEF Engines
  <1>5. /\ Seated(m) /\ LightOwned(m) /\ Kept(m) /\ (Owes(m) <=> Owes(e))
        /\ m.eon = e.eon /\ m.refresh = e.refresh
    BY <1>1, <1>2 DEF Engines, Good, Seated, LightOwned, Kept, Owes
  <1>6. CASE ~adaptive \/ refused
    <2>1. stopped \in Engines
      BY <1>4, Off DEF Still, Engines
    <2>2. /\ Seated(stopped) /\ LightOwned(stopped)
          /\ stopped.left = "off" /\ stopped.right = "off" /\ stopped.transient = "off"
          /\ stopped.refresh = "none" /\ stopped.eon = e.eon
      BY <1>4, <1>5 DEF Still, Engines, Seated, LightOwned
    <2>3. owes \in BOOLEAN /\ (Owes(stopped) => owes)
      BY <1>1, <2>2 DEF Owes, Good, Seated
    <2>4. Becomes(stopped, owes)
      BY <1>3, <1>6
    <2> HIDE DEF stopped, owes
    <2>5. QED
      BY <2>1, <2>2, <2>3, <2>4, SilentGood, BecomesSound
  <1>7. CASE adaptive /\ ~refused
    <2>1. LeftOwned(m)
      BY <1>1, <1>7 DEF Engines, Good, LeftOwned
    <2>2. CASE changed
      <3>1. m.eon = "release" => RightOwned(m)
        BY <1>1, <1>7 DEF Engines, Good, Seated, RightOwned, FootEnabled
      <3>2. Becomes(Restore(m), owed)
        BY <1>3, <1>7, <2>2
      <3> HIDE DEF m
      <3>3. Good(Restore(m)) /\ (Owes(Restore(m)) <=> Owes(e))
        BY <1>4, <1>5, <3>1, RestoreGood DEF Ready
      <3>4. QED
        BY <1>1, <3>2, <3>3, BecomesSound
    <2>3. CASE ~changed
      <3>1. RightOwned(m)
        BY <1>1, <2>3 DEF Engines, Good, RightOwned, FootEnabled
      <3>2. Becomes(m, owed)
        BY <1>3, <1>7, <2>3
      <3> HIDE DEF m
      <3>3. QED
        BY <1>1, <1>4, <1>5, <2>1, <3>1, <3>2, BecomesSound DEF Good
    <2>4. QED
      BY <2>2, <2>3
  <1>8. QED
    BY <1>6, <1>7

-----------------------------------------------------------------------------
(* Samples of R2.                                                          *)

LEMMA NormalReady ==
  ASSUME NEW m \in Engines, Seated(m), LightOwned(m), m.eon # "release"
  PROVE  Ready(m)
  BY DEF Ready

\* A sample, with the marker of the Eon's pull.
LEMMA SampledGood ==
  ASSUME Good(e), NEW v \in 0..4, NEW seen \in BOOLEAN,
         e.eon = "deep" /\ Pressed(v) => seen
  PROVE  LET m == [Sampled(v) EXCEPT !.pullSeen = seen]
         IN  /\ Good(m) /\ m.eon = e.eon /\ m.refresh = e.refresh
             /\ m.transient = e.transient /\ m.pilot = e.pilot /\ m.weapon = e.weapon
             /\ m.suppressed = e.suppressed /\ m.adaptive = e.adaptive
             /\ m.pullSeen = seen /\ m.laser = e.laser /\ m.sustained = e.sustained
  <1> DEFINE pressed == Pressed(v)
             m == [e EXCEPT !.r2 = v, !.pressed = pressed, !.pullSeen = seen]
  <1>1. e \in Engines
    BY DEF Good
  <1>2. pressed \in BOOLEAN
    BY <1>1 DEF Pressed
  <1>3. [Sampled(v) EXCEPT !.pullSeen = seen] = m
    BY <1>1 DEF Sampled, Engines
  <1> HIDE DEF pressed
  <1>4. m \in Engines
    BY <1>1, <1>2 DEF Engines
  <1>5. /\ Seated(m) /\ Kept(m) /\ LightOwned(m) /\ LeftOwned(m)
        /\ m.eon = e.eon /\ m.refresh = e.refresh
        /\ m.transient = e.transient /\ m.pilot = e.pilot /\ m.weapon = e.weapon
        /\ m.suppressed = e.suppressed /\ m.adaptive = e.adaptive
        /\ m.pullSeen = seen /\ m.laser = e.laser /\ m.sustained = e.sustained
    BY <1>1, <1>2 DEF Engines, Good, Seated, Kept, LightOwned, LeftOwned, pressed
  <1>6. RightOwned(m)
    BY <1>1 DEF Engines, Good, RightOwned, FootEnabled
  <1> HIDE DEF m
  <1>7. Good(m)
    BY <1>4, <1>5, <1>6 DEF Good
  <1>8. QED
    BY <1>3, <1>5, <1>7

LEMMA PlainSampleGood ==
  ASSUME Good(e), NEW v \in 0..4, e.eon # "deep"
  PROVE  LET m == Sampled(v)
         IN  /\ Good(m) /\ m.eon = e.eon /\ m.refresh = e.refresh
             /\ m.transient = e.transient /\ m.pilot = e.pilot /\ m.weapon = e.weapon
             /\ m.sustained = e.sustained
  <1> DEFINE seen == e.pullSeen
  <1>1. e \in Engines
    BY DEF Good
  <1>2. seen \in BOOLEAN
    BY <1>1 DEF Engines
  <1>3. [Sampled(v) EXCEPT !.pullSeen = seen] = Sampled(v)
    BY <1>1 DEF Sampled, Engines
  <1> HIDE DEF seen
  <1>4. QED
    BY <1>2, <1>3, SampledGood

\* What a sample makes of the engine, and what it begins.
Follows(m, v) ==
  /\ Good(m) /\ m.refresh = e.refresh
  /\ m.eon = "deep" => e.eon = "deep" /\ ~Lets(v)
  /\ m.transient = "running" => e.transient = "running" \/ e.eon = "deep"

LEMMA InSeatFollows ==
  ASSUME Good(e), NEW v \in 0..4, e.pilot
  PROVE  Follows(SampleInSeat(v), v)
  <1> DEFINE s == Sampled(v)
             rearmed == s.rearmed \/ v <= 2
             m == [s EXCEPT !.rearmed = rearmed]
             n == [m EXCEPT !.laser = "off"]
  <1>1. e \in Engines /\ e.eon = "normal"
    BY DEF Good, Seated
  <1>2. Good(s) /\ s.eon = "normal" /\ s.refresh = e.refresh /\ s.transient = e.transient
    BY <1>1, PlainSampleGood
  <1>3. SampleInSeat(v) = IF Lets(v) /\ m.laser # "off" THEN Restore(n) ELSE m
    BY Zenon DEF SampleInSeat
  <1> HIDE DEF s
  <1>4. rearmed \in BOOLEAN
    BY <1>2 DEF Good, Engines
  <1> HIDE DEF rearmed
  <1>5. m \in Engines
    BY <1>2, <1>4 DEF Good, Engines
  <1>6. Alike(s, m) /\ LightOwned(m) /\ m.eon = "normal" /\ m.refresh = e.refresh
        /\ m.transient = e.transient
    BY <1>2 DEF Good, Engines, Alike, LightOwned
  <1> HIDE DEF m
  <1>7. Good(m)
    BY <1>2, <1>5, <1>6, AlikeGood
  <1>8. n \in Engines
    BY <1>5, Off DEF Engines
  <1>9. Seated(n) /\ LightOwned(n) /\ n.eon = "normal" /\ n.refresh = e.refresh
        /\ n.transient = e.transient
    BY <1>5, <1>6, <1>7 DEF Good, Engines, Seated, LightOwned
  <1> HIDE DEF n
  <1>10. Good(Restore(n)) /\ Restore(n).eon = "normal" /\ Restore(n).refresh = e.refresh
         /\ Restore(n).transient = e.transient
    BY <1>8, <1>9, NormalReady, RestoreGood
  <1>11. Follows(m, v) /\ Follows(Restore(n), v)
    BY <1>6, <1>7, <1>10 DEF Follows
  <1>12. QED
    BY <1>3, <1>11

LEMMA RestFollows ==
  ASSUME Good(e), NEW v \in 0..4, e.eon = "normal"
  PROVE  Follows(SampleRest(v), v)
  <1> DEFINE m == Sampled(v)
             n == [m EXCEPT !.sustained = FALSE, !.heartbeat = "off", !.transient = "off"]
  <1>1. Good(m) /\ m.eon = "normal" /\ m.refresh = e.refresh /\ m.transient = e.transient
    BY PlainSampleGood
  <1>2. SampleRest(v) \in {Restore(n), Restore(m), m}
    BY DEF SampleRest
  <1> HIDE DEF m
  <1>3. m \in Engines /\ n \in Engines
    <2>1. m \in Engines
      BY <1>1 DEF Good
    <2>2. QED
      BY <2>1, Off DEF Engines
  <1>4. Seated(n) /\ LightOwned(n) /\ n.eon = "normal" /\ n.refresh = e.refresh
        /\ n.transient = "off"
    BY <1>1, <1>3 DEF Good, Engines, Seated, LightOwned
  <1> HIDE DEF n
  <1>5. Follows(Restore(n), v)
    BY <1>3, <1>4, NormalReady, RestoreGood DEF Follows
  <1>6. Follows(Restore(m), v)
    BY <1>1, GoodIsReady, RestoreGood DEF Follows
  <1>7. Follows(m, v)
    BY <1>1 DEF Follows
  <1>8. QED
    BY <1>2, <1>5, <1>6, <1>7

\* A pull that is over takes its shot with it.
LEMMA RetiredGood ==
  ASSUME NEW m, Good(m)
  PROVE  LET r == Restore(RetiredEon(m))
         IN  Good(r) /\ r.eon = "normal" /\ r.refresh = m.refresh /\ r.transient = m.transient
  <1> DEFINE n == RetiredEon(m)
  <1>1. m \in Engines
    BY DEF Good
  <1>2. n \in Engines
    BY <1>1, Off DEF RetiredEon, Engines
  <1>3. Seated(n) /\ LightOwned(n) /\ n.eon = "normal" /\ n.refresh = m.refresh
        /\ n.transient = m.transient
    BY <1>1 DEF RetiredEon, Engines, Good, Seated, LightOwned
  <1> HIDE DEF n
  <1>4. Good(Restore(n)) /\ Restore(n).eon = "normal" /\ Restore(n).refresh = m.refresh
        /\ Restore(n).transient = m.transient
    BY <1>2, <1>3, NormalReady, RestoreGood
  <1>5. QED
    BY <1>4 DEF n

LEMMA LetGoGood ==
  ASSUME NEW m, Good(m)
  PROVE  LET r == Restore(RetiredEon([m EXCEPT !.transient = "off"]))
         IN  Good(r) /\ r.eon = "normal" /\ r.refresh = m.refresh /\ r.transient = "off"
  <1> DEFINE o == [m EXCEPT !.transient = "off"]
             n == RetiredEon(o)
  <1>1. m \in Engines
    BY DEF Good
  <1>2. o \in Engines /\ Seated(o) /\ LightOwned(o) /\ o.refresh = m.refresh
        /\ o.transient = "off"
    BY <1>1, Off DEF Engines, Good, Seated, LightOwned
  <1> HIDE DEF o
  <1>3. n \in Engines
    BY <1>2, Off DEF RetiredEon, Engines
  <1>4. Seated(n) /\ LightOwned(n) /\ n.eon = "normal" /\ n.refresh = m.refresh
        /\ n.transient = "off"
    BY <1>2 DEF RetiredEon, Engines, Seated, LightOwned
  <1> HIDE DEF n
  <1>5. Good(Restore(n)) /\ Restore(n).eon = "normal" /\ Restore(n).refresh = m.refresh
        /\ Restore(n).transient = "off"
    BY <1>3, <1>4, NormalReady, RestoreGood
  <1>6. QED
    BY <1>5 DEF n, o

\* The sample with the marker a pull leaves.
LEMMA MarkedGood ==
  ASSUME Good(e), NEW v \in 0..4
  PROVE  LET m == [Sampled(v) EXCEPT !.pullSeen = @ \/ Pressed(v)]
         IN  /\ Good(m) /\ m.eon = e.eon /\ m.refresh = e.refresh
             /\ m.transient = e.transient /\ m.weapon = e.weapon
             /\ m.suppressed = e.suppressed /\ m.adaptive = e.adaptive
             /\ (e.pullSeen => m.pullSeen)
             /\ RetiredEon(Sampled(v)) = RetiredEon(m)
  <1> DEFINE seen == e.pullSeen \/ Pressed(v)
             m == [Sampled(v) EXCEPT !.pullSeen = seen]
  <1>1. e \in Engines
    BY DEF Good
  <1>2. seen \in BOOLEAN /\ (Pressed(v) => seen) /\ (e.pullSeen => seen)
    BY <1>1 DEF Engines, Pressed
  <1>3. [Sampled(v) EXCEPT !.pullSeen = @ \/ Pressed(v)] = m
    <2>1. Sampled(v).pullSeen = e.pullSeen
      BY <1>1 DEF Sampled, Engines
    <2>2. QED
      BY <2>1, Zenon
  <1> HIDE DEF seen
  <1>4. RetiredEon(Sampled(v)) = RetiredEon(m)
    BY <1>1 DEF RetiredEon, Sampled, Engines
  <1>5. /\ Good(m) /\ m.eon = e.eon /\ m.refresh = e.refresh
        /\ m.transient = e.transient /\ m.weapon = e.weapon
        /\ m.suppressed = e.suppressed /\ m.adaptive = e.adaptive /\ m.pullSeen = seen
    BY <1>2, SampledGood
  <1> HIDE DEF m
  <1>6. QED
    BY <1>2, <1>3, <1>4, <1>5

LEMMA WaitingFollows ==
  ASSUME Good(e), NEW v \in 0..4, e.eon = "deep", e.adaptive, ~e.suppressed
  PROVE  Follows(SampleWaitingEon(v), v)
  <1> DEFINE s == Sampled(v)
             m == [s EXCEPT !.pullSeen = @ \/ Pressed(v)]
             kicked == [Kick(m, "recoil") EXCEPT !.eon = "release", !.pullSeen = TRUE,
                                                 !.pending = "off"]
             over == Restore(RetiredEon(m))
             gone == Restore(RetiredEon([m EXCEPT !.transient = "off"]))
  <1>1. /\ Good(m) /\ m.eon = "deep" /\ m.refresh = e.refresh
        /\ m.transient = e.transient /\ m.weapon = "eon" /\ ~m.suppressed /\ m.adaptive
        /\ (e.pullSeen => m.pullSeen) /\ RetiredEon(s) = RetiredEon(m)
    BY MarkedGood DEF Good, Seated
  <1>2. Lets(v) => m.pullSeen
    BY <1>1 DEF Lets, Good, Seated
  <1>3. SampleWaitingEon(v) =
          IF e.pending = "due" THEN Restore(RetiredEon(s))
          ELSE IF v = 4 THEN kicked
          ELSE IF m.pullSeen /\ Lets(v) THEN gone ELSE m
    BY Zenon DEF SampleWaitingEon
  <1> HIDE DEF s, m
  <1>4. Follows(kicked, v)
    <2>1. Good(kicked) /\ ~Owes(kicked)
      BY <1>1, EonKickGood DEF Good
    <2>2. m.refresh = "none"
      BY <1>1 DEF Good, Seated
    <2> HIDE DEF kicked
    <2>3. QED
      BY <1>1, <2>1, <2>2 DEF Follows, Owes
  <1>5. Follows(over, v)
    BY <1>1, RetiredGood DEF Follows
  <1>6. Follows(gone, v)
    BY <1>1, LetGoGood DEF Follows
  <1>7. ~Lets(v) => Follows(m, v)
    BY <1>1 DEF Follows
  <1> HIDE DEF kicked, over, gone
  <1>8. QED
    BY <1>1, <1>2, <1>3, <1>4, <1>5, <1>6, <1>7 DEF over

LEMMA KickingFollows ==
  ASSUME Good(e), NEW v \in 0..4, e.eon = "release"
  PROVE  Follows(SampleKickingEon(v), v)
  <1> DEFINE m == [Sampled(v) EXCEPT !.pullSeen = @ \/ Pressed(v)]
             gone == Restore(RetiredEon([m EXCEPT !.transient = "off"]))
  <1>1. Good(m) /\ m.eon = "release" /\ m.refresh = e.refresh /\ m.transient = e.transient
    BY MarkedGood
  <1>2. SampleKickingEon(v) = IF m.pullSeen /\ Lets(v) THEN gone ELSE m
    BY Zenon DEF SampleKickingEon
  <1> HIDE DEF m
  <1>3. Follows(gone, v)
    BY <1>1, LetGoGood DEF Follows
  <1>4. Follows(m, v)
    BY <1>1 DEF Follows
  <1>5. QED
    BY <1>2, <1>3, <1>4

LEMMA SampleFollows ==
  ASSUME Sound, NEW v \in 0..4, HandleRightTriggerInput(v)
  PROVE  /\ Follows(e', v)
         /\ owed' = (owed /\ e'.transient # "running" /\ (Lets(v) => e.pilot))
         /\ scenario' = scenario
  <1> DEFINE takes == ~e.suppressed /\ e.weapon # "none" /\ FootEnabled(e)
             eon == e.weapon = "eon" /\ e.eon # "normal"
             m == IF e.pilot THEN SampleInSeat(v)
                  ELSE IF e.vehicle \/ e.production \/ ~takes THEN Sampled(v)
                  ELSE IF ~eon THEN SampleRest(v)
                  ELSE IF e.eon = "deep" THEN SampleWaitingEon(v) ELSE SampleKickingEon(v)
  <1>1. Good(e) /\ e.eon \in {"normal", "deep", "release"} /\ e.adaptive
    BY DEF Sound, Good, Engines, HandleRightTriggerInput
  <1>2. e' = m /\ owed' = (owed /\ m.transient # "running" /\ (Lets(v) => e.pilot))
        /\ scenario' = scenario
    BY Zenon DEF HandleRightTriggerInput, Becomes
  <1>3. e.eon # "normal" => /\ e.weapon = "eon" /\ ~e.suppressed
                            /\ ~e.vehicle /\ ~e.production /\ ~e.pilot /\ takes
    BY <1>1 DEF Good, Seated, FootEnabled
  <1>4. CASE e.pilot
    BY <1>1, <1>2, <1>4, InSeatFollows
  <1>5. CASE ~e.pilot /\ (e.vehicle \/ e.production \/ ~takes)
    <2>1. e.eon = "normal"
      BY <1>1, <1>3, <1>5
    <2>2. Follows(Sampled(v), v)
      BY <1>1, <2>1, PlainSampleGood DEF Follows
    <2>3. QED
      BY <1>2, <1>5, <2>2
  <1>6. CASE ~e.pilot /\ ~(e.vehicle \/ e.production \/ ~takes)
    <2>1. CASE e.eon = "normal"
      BY <1>1, <1>2, <1>6, <2>1, RestFollows
    <2>2. CASE e.eon = "deep"
      BY <1>1, <1>2, <1>3, <1>6, <2>2, WaitingFollows
    <2>3. CASE e.eon = "release"
      BY <1>1, <1>2, <1>3, <1>6, <2>3, KickingFollows
    <2>4. QED
      BY <1>1, <2>1, <2>2, <2>3
  <1>7. QED
    BY <1>4, <1>5, <1>6

LEMMA SampleSound ==
  ASSUME Sound, NEW v \in 0..4, HandleRightTriggerInput(v)
  PROVE  Sound' /\ (e'.transient = "running" /\ e.transient # "running" => owed)
  <1>0. PICK m : e' = m
    OBVIOUS
  <1> DEFINE owes == owed /\ m.transient # "running" /\ (Lets(v) => e.pilot)
  <1>1. Follows(m, v) /\ owed' = owes /\ scenario' = scenario
    BY <1>0, SampleFollows
  <1>2. Good(e) /\ (Owes(e) => owed) /\ owed \in BOOLEAN
    BY DEF Sound
  <1>3. Owes(m) => owes
    <2>1. CASE m.eon = "deep"
      BY <1>1, <1>2, <2>1 DEF Follows, Owes, Good, Seated
    <2>2. CASE m.refresh # "none"
      BY <1>1, <1>2, <2>2 DEF Follows, Owes, Good, Seated
    <2>3. QED
      BY <2>1, <2>2 DEF Owes
  <1>4. Becomes(m, owes)
    BY <1>0, <1>1 DEF Becomes
  <1>5. owes \in BOOLEAN /\ Good(m)
    BY <1>1, <1>2 DEF Follows
  <1>6. m.transient = "running" /\ e.transient # "running" => owed
    BY <1>1, <1>2 DEF Follows, Owes
  <1> HIDE DEF owes
  <1>7. Sound'
    BY <1>3, <1>4, <1>5, BecomesSound
  <1>8. QED
    BY <1>0, <1>6, <1>7

-----------------------------------------------------------------------------
(* The tick.                                                               *)

\* A part of the tick begins nothing.
Tame(m, n) ==
  /\ Good(n) /\ n.refresh = m.refresh
  /\ n.eon \in {m.eon, "normal"}
  /\ n.transient = "running" => m.transient = "running"

LEMMA TickBarTame == ASSUME NEW m, Good(m) PROVE Tame(m, TickBar(m))
  <1> DEFINE flash == IF m.flash = "due" THEN "off" ELSE m.flash
             bar == IF flash # "off" THEN "flash"
                    ELSE IF m.phase # "none" THEN m.phase
                    ELSE IF m.seat THEN IF m.shipKnown THEN "ship" ELSE "off"
                    ELSE IF m.suppressed /\ ~m.vehicle THEN "off"
                    ELSE IF m.playerKnown THEN "player" ELSE m.bar
             n == [m EXCEPT !.flash = flash, !.bar = bar]
  <1>1. m \in Engines
    BY DEF Good
  <1>2. TickBar(m) = IF ~m.lightbar THEN m ELSE n
    BY <1>1 DEF TickBar, Engines
  <1>3. flash \in Deadlines
    BY <1>1, Off DEF Engines
  <1>4. bar \in Colours
    <2> HIDE DEF flash
    <2>1. m.phase \in {"none", "takeoff", "landing"} /\ m.bar \in Colours
      BY <1>1 DEF Engines
    <2>2. QED
      BY <2>1 DEF Colours, Cinematic
  <1> HIDE DEF flash, bar
  <1>5. n \in Engines
    BY <1>1, <1>3, <1>4 DEF Engines
  <1>6. Alike(m, n) /\ n.lightbar = m.lightbar
    BY <1>1 DEF Engines, Alike
  <1> HIDE DEF n
  <1>7. m.lightbar => Good(n)
    BY <1>5, <1>6, AlikeGood DEF LightOwned
  <1>8. QED
    BY <1>2, <1>6, <1>7 DEF Tame, Alike

LEMMA TickLaserTame == ASSUME NEW m, Good(m) PROVE Tame(m, TickLaser(m))
  <1> DEFINE n == [m EXCEPT !.laser = "off"]
  <1>1. m \in Engines
    BY DEF Good
  <1>2. TickLaser(m) = IF m.pilot /\ m.laser = "due" THEN Restore(n) ELSE m
    BY DEF TickLaser
  <1>3. n \in Engines
    BY <1>1, Off DEF Engines
  <1>4. /\ Seated(n) /\ LightOwned(n) /\ n.refresh = m.refresh /\ n.eon = m.eon
        /\ n.transient = m.transient
    BY <1>1 DEF Engines, Good, Seated, LightOwned
  <1>5. m.pilot => m.eon = "normal"
    BY DEF Good, Seated
  <1> HIDE DEF n
  <1>6. m.pilot => Tame(m, Restore(n))
    BY <1>3, <1>4, <1>5, NormalReady, RestoreGood DEF Tame
  <1>7. QED
    BY <1>2, <1>6 DEF Tame

LEMMA TickEonTame == ASSUME NEW m, Good(m) PROVE Tame(m, TickEon(m))
  <1> DEFINE vain == [m EXCEPT !.eon = "normal", !.pending = "off"]
             done == RetiredEon(m)
             waits == m.weapon = "eon" /\ m.eon = "deep" /\ m.pending = "due"
             kicks == m.weapon = "eon" /\ m.eon = "release" /\ m.transient = "due"
  <1>1. m \in Engines
    BY DEF Good
  <1>2. TickEon(m) = IF waits THEN Restore(vain) ELSE IF kicks THEN done ELSE m
    BY DEF TickEon
  <1>3. vain \in Engines /\ done \in Engines
    <2>1. vain \in Engines
      BY <1>1, Off DEF Engines
    <2>2. done \in Engines
      BY <1>1, Off DEF Engines, RetiredEon
    <2>3. QED
      BY <2>1, <2>2
  <1>4. /\ Seated(vain) /\ LightOwned(vain) /\ vain.eon = "normal"
        /\ vain.refresh = m.refresh /\ vain.transient = m.transient
    BY <1>1 DEF Engines, Good, Seated, LightOwned
  <1>5. /\ Seated(done) /\ Kept(done) /\ LightOwned(done) /\ LeftOwned(done)
        /\ done.eon = "normal" /\ done.refresh = m.refresh /\ done.transient = m.transient
    BY <1>1 DEF Engines, Good, Seated, Kept, LightOwned, LeftOwned, RetiredEon
  <1>6. kicks => RightOwned(done)
    BY <1>1 DEF Engines, Good, Seated, Kept, RightOwned, RetiredEon, FootEnabled, Beams
  <1> HIDE DEF vain, done
  <1>7. Tame(m, Restore(vain))
    BY <1>3, <1>4, NormalReady, RestoreGood DEF Tame
  <1>8. kicks => Tame(m, done)
    BY <1>3, <1>5, <1>6 DEF Tame, Good
  <1>9. Tame(m, m)
    BY DEF Tame
  <1> HIDE DEF waits, kicks
  <1>10. QED
    BY <1>2, <1>7, <1>8, <1>9

LEMMA TickBeamTame == ASSUME NEW m, Good(m) PROVE Tame(m, TickBeam(m))
  <1> DEFINE n == [m EXCEPT !.sustained = FALSE, !.heartbeat = "off", !.transient = "off"]
  <1>1. m \in Engines
    BY DEF Good
  <1>2. TickBeam(m) = IF m.sustained /\ m.heartbeat = "due" THEN Restore(n) ELSE m
    BY DEF TickBeam
  <1>3. n \in Engines
    BY <1>1, Off DEF Engines
  <1>4. /\ Seated(n) /\ LightOwned(n) /\ n.refresh = m.refresh /\ n.eon = m.eon
        /\ n.transient = "off"
    BY <1>1 DEF Engines, Good, Seated, LightOwned
  <1>5. m.sustained => m.eon = "normal"
    BY DEF Good, Seated, Beams
  <1> HIDE DEF n
  <1>6. m.sustained => Tame(m, Restore(n))
    BY <1>3, <1>4, <1>5, NormalReady, RestoreGood DEF Tame
  <1>7. QED
    BY <1>2, <1>6 DEF Tame

\* The recoil of the Eon outlives a deadline that is cleared.
LEMMA UntimedTame ==
  ASSUME NEW m, Good(m), NEW gun \in Deadlines
  PROVE  Tame(m, Restore([m EXCEPT !.gun = gun, !.transient = "off"]))
  <1> DEFINE n == [m EXCEPT !.gun = gun, !.transient = "off"]
  <1>1. m \in Engines
    BY DEF Good
  <1>2. n \in Engines
    BY <1>1, Off DEF Engines
  <1>3. /\ Seated(n) /\ LightOwned(n) /\ Kept(n) /\ n.refresh = m.refresh /\ n.eon = m.eon
        /\ n.transient = "off"
    BY <1>1 DEF Engines, Good, Seated, LightOwned, Kept
  <1>4. n.eon = "release" => RightOwned(n)
    BY <1>1 DEF Engines, Good, RightOwned, FootEnabled
  <1> HIDE DEF n
  <1>5. Tame(m, Restore(n))
    BY <1>2, <1>3, <1>4, RestoreGood DEF Tame, Ready
  <1>6. QED
    BY <1>5 DEF n

LEMMA TickGunTame == ASSUME NEW m, Good(m) PROVE Tame(m, TickGun(m))
  <1>1. Tame(m, Restore([m EXCEPT !.gun = "off", !.transient = "off"]))
    BY Off, UntimedTame
  <1>2. QED
    BY <1>1 DEF TickGun, Tame

LEMMA TickTransientTame == ASSUME NEW m, Good(m) PROVE Tame(m, TickTransient(m))
  <1> DEFINE gun == m.gun
  <1>1. m \in Engines
    BY DEF Good
  <1>2. gun \in Deadlines /\ [m EXCEPT !.transient = "off"]
                             = [m EXCEPT !.gun = gun, !.transient = "off"]
    BY <1>1 DEF Engines
  <1> HIDE DEF gun
  <1>3. Tame(m, Restore([m EXCEPT !.transient = "off"]))
    BY <1>2, UntimedTame
  <1>4. QED
    BY <1>3 DEF TickTransient, Tame

LEMMA TickRefreshGood ==
  ASSUME NEW m, Good(m)
  PROVE  LET n == TickRefresh(m)
         IN  /\ Good(n) /\ n.eon = m.eon
             /\ n.refresh # "none" => m.refresh = "queued"
             /\ n.transient = "running" => m.transient = "running" \/ m.refresh = "ready"
  <1> DEFINE ready == [m EXCEPT !.refresh = "ready"]
             done == [m EXCEPT !.refresh = "none"]
             fires == m.pilot /\ m.shipMenus = {} /\ m.adaptive
  <1>1. m \in Engines /\ m.refresh \in {"none", "queued", "ready"}
    BY DEF Good, Engines
  <1>2. CASE m.refresh = "queued"
    <2>1. TickRefresh(m) = ready
      BY <1>2 DEF TickRefresh
    <2>2. ready \in Engines
      BY <1>1 DEF Engines
    <2>3. /\ Seated(ready) /\ Kept(ready) /\ LightOwned(ready) /\ LeftOwned(ready)
          /\ ready.eon = m.eon /\ ready.transient = m.transient
      BY <1>1, <1>2 DEF Engines, Good, Seated, Kept, LightOwned, LeftOwned
    <2>4. RightOwned(ready)
      BY <1>1 DEF Engines, Good, RightOwned, FootEnabled
    <2> HIDE DEF ready
    <2>5. QED
      BY <1>2, <2>1, <2>2, <2>3, <2>4 DEF Good
  <1>3. CASE m.refresh = "ready"
    <2>1. TickRefresh(m) = IF fires THEN Kick(done, "shot") ELSE done
      BY <1>3 DEF TickRefresh
    <2>2. done \in Engines
      BY <1>1 DEF Engines
    <2>3. /\ Seated(done) /\ Kept(done) /\ LightOwned(done) /\ LeftOwned(done)
          /\ done.eon = m.eon /\ done.transient = m.transient /\ done.refresh = "none"
          /\ done.pilot = m.pilot /\ done.shipMenus = m.shipMenus /\ done.adaptive = m.adaptive
      BY <1>1, <1>3 DEF Engines, Good, Seated, Kept, LightOwned, LeftOwned
    <2>4. RightOwned(done)
      BY <1>1 DEF Engines, Good, RightOwned, FootEnabled
    <2> HIDE DEF done
    <2>5. fires => MayKick(done, "shot")
      BY <2>2, <2>3 DEF MayKick, Seated, Beams
    <2>6. Kick(done, "shot").eon = done.eon /\ Kick(done, "shot").refresh = done.refresh
      BY <2>2 DEF Kick, Engines
    <2>7. QED
      BY <1>3, <2>1, <2>2, <2>3, <2>4, <2>5, <2>6, KickGood DEF Good
  <1>4. CASE m.refresh = "none"
    BY <1>4 DEF TickRefresh
  <1>5. QED
    BY <1>1, <1>2, <1>3, <1>4

LEMMA TickSound ==
  ASSUME Sound, Tick
  PROVE  Sound' /\ (e'.transient = "running" /\ e.transient # "running" => owed)
  <1>1. PICK a : a = TickBar(e)
    OBVIOUS
  <1>2. PICK b : b = TickRefresh(a)
    OBVIOUS
  <1>3. PICK c : c = TickLaser(b)
    OBVIOUS
  <1>4. PICK d : d = TickEon(c)
    OBVIOUS
  <1>5. PICK f : f = TickBeam(d)
    OBVIOUS
  <1>6. PICK g : g = TickGun(f)
    OBVIOUS
  <1>7. PICK h : h = TickTransient(g)
    OBVIOUS
  <1> DEFINE owes == owed /\ e.refresh # "ready" /\ h.eon = e.eon
  <1>8. Becomes(h, owes)
    BY <1>1, <1>2, <1>3, <1>4, <1>5, <1>6, <1>7 DEF Tick, Ticked
  <1>9. Good(e) /\ (Owes(e) => owed) /\ owed \in BOOLEAN
    BY DEF Sound
  <1>10. Tame(e, a)
    BY <1>1, <1>9, TickBarTame
  <1>11. /\ Good(b) /\ b.eon = a.eon
         /\ b.refresh # "none" => a.refresh = "queued"
         /\ b.transient = "running" => a.transient = "running" \/ a.refresh = "ready"
    BY <1>2, <1>10, TickRefreshGood DEF Tame
  <1>12. Tame(b, c)
    BY <1>3, <1>11, TickLaserTame
  <1>13. Tame(c, d)
    BY <1>4, <1>12, TickEonTame DEF Tame
  <1>14. Tame(d, f)
    BY <1>5, <1>13, TickBeamTame DEF Tame
  <1>15. Tame(f, g)
    BY <1>6, <1>14, TickGunTame DEF Tame
  <1>16. Tame(g, h)
    BY <1>7, <1>15, TickTransientTame DEF Tame
  <1>17. /\ Good(h) /\ h.eon \in {e.eon, "normal"}
         /\ h.refresh # "none" => e.refresh = "queued"
         /\ h.transient = "running" => e.transient = "running" \/ e.refresh = "ready"
    BY <1>10, <1>11, <1>12, <1>13, <1>14, <1>15, <1>16 DEF Tame
  <1>18. Owes(h) => owes
    <2>1. CASE h.eon = "deep"
      BY <1>9, <1>17, <2>1 DEF Owes, Good, Seated
    <2>2. CASE h.refresh # "none"
      BY <1>9, <1>17, <2>2 DEF Owes, Good, Seated
    <2>3. QED
      BY <2>1, <2>2 DEF Owes
  <1>19. e' = h
    BY <1>8 DEF Becomes
  <1>20. owes \in BOOLEAN
    BY <1>9
  <1> HIDE DEF owes
  <1>21. Sound'
    BY <1>8, <1>17, <1>18, <1>20, BecomesSound
  <1>22. QED
    BY <1>9, <1>17, <1>19, <1>21 DEF Owes

LEMMA ElapseSound ==
  ASSUME Sound, NEW c \in Clocks, Elapse(c)
  PROVE  Sound'
  <1> DEFINE m == [e EXCEPT ![c] = "due"]
  <1>1. Good(e) /\ e \in Engines /\ LightOwned(e) /\ (Owes(e) => owed) /\ owed \in BOOLEAN
    BY DEF Sound, Good
  <1>2. e[c] = "running" /\ Becomes(m, owed)
    BY DEF Elapse
  <1>3. m \in Engines /\ Alike(e, m) /\ LightOwned(m)
    <2>1. "due" \in Deadlines /\ "due" \in Deadlines \cup {"endless"}
      BY DEF Deadlines
    <2>2. CASE c = "laser"
      BY <1>1, <1>2, <2>1, <2>2 DEF Engines, Alike, LightOwned
    <2>3. CASE c = "gun"
      BY <1>1, <1>2, <2>1, <2>3 DEF Engines, Alike, LightOwned
    <2>4. CASE c = "heartbeat"
      BY <1>1, <1>2, <2>1, <2>4 DEF Engines, Alike, LightOwned
    <2>5. CASE c = "pending"
      BY <1>1, <1>2, <2>1, <2>5 DEF Engines, Alike, LightOwned
    <2>6. CASE c = "transient"
      BY <1>1, <1>2, <2>1, <2>6 DEF Engines, Alike, LightOwned
    <2>7. CASE c = "flash"
      BY <1>1, <1>2, <2>1, <2>7 DEF Engines, Alike, LightOwned
    <2>8. QED
      BY <2>2, <2>3, <2>4, <2>5, <2>6, <2>7 DEF Clocks
  <1> HIDE DEF m
  <1>4. QED
    BY <1>1, <1>2, <1>3, AlikeGood, BecomesSound

-----------------------------------------------------------------------------
(* The theorems.                                                           *)

LEMMA InitSound == Init => Sound
  <1> SUFFICES ASSUME Init PROVE Sound
    OBVIOUS
  <1>1. PICK a \in BOOLEAN, c \in BOOLEAN, l \in BOOLEAN : e = InitialEngine(a, c, l)
    BY DEF Init
  <1>2. QED
    BY <1>1, InitialGood DEF Init, Sound

LEMMA ContextSound == Sound /\ Context => Sound'
  BY EnteredSound, LeavesSound, VehicleSound, MenuOpenedSound, MenuClosedSound DEF Context

LEMMA FootSound == Sound /\ Foot => Sound'
  BY WeaponEquippedSound, BeamSound, WeaponFiredSound DEF Foot

LEMMA NextSound == Sound /\ [Next]_vars => Sound'
  <1> SUFFICES ASSUME Sound, [Next]_vars PROVE Sound'
    OBVIOUS
  <1>1. CASE UNCHANGED vars
    BY <1>1 DEF vars, Sound, Good, Owes, Seated, Kept, LightOwned, LeftOwned, RightOwned,
       FootEnabled
  <1>2. CASE Next
    BY <1>2, ContextSound, FootSound, ShipSound, RoverSound, LightSound, SettingsSound,
       SampleSound, TickSound, ElapseSound DEF Next
  <1>3. QED
    BY <1>1, <1>2

\* Types hold in every instance.
THEOREM Typing == Spec => []TypeOK
  <1>1. QED
    BY InitSound, NextSound, SoundParts, PTL DEF Spec

\* What the triggers play belongs to the seat, the weapon and the menus of the
\* moment, whatever the order of the game's events, the samples and the clocks.
THEOREM EffectsOwned == Spec => []EffectsAreOwned
  <1>1. QED
    BY InitSound, NextSound, SoundParts, PTL DEF Spec

\* No recoil begins in a sample or a tick that no confirmed shot is owed.
THEOREM OwedKicks == Spec => OnlyShotsKick
  <1> DEFINE OwedStep == (Tick \/ \E v \in 0..4 : HandleRightTriggerInput(v))
                        /\ e.transient # "running" /\ e'.transient = "running" => owed
  <1>1. Sound /\ [Next]_vars => [OwedStep]_vars
    BY SampleSound, TickSound
  <1>2. QED
    BY <1>1, InitSound, NextSound, PTL DEF Spec, OnlyShotsKick
-----------------------------------------------------------------------------
(* What one tick leaves.                                                   *)

\* A part of the tick after the light bar touches neither its colour nor what that
\* follows, and begins no laser and no beam.
Spends(m, n) ==
  /\ n.bar = m.bar /\ n.phase = m.phase /\ n.flash = m.flash /\ n.playerKnown = m.playerKnown
  /\ n.pilot = m.pilot /\ n.laser \in {m.laser, "off"}
  /\ n.heartbeat \in {m.heartbeat, "off"} /\ (n.sustained => m.sustained)

ColourOver(m) ==
  m.bar \in Cinematic /\ m.phase = "none" /\ m.playerKnown => m.flash = "running"

\* EffectsEngine::tick leaves nothing overdue, but for the neutral frame the engine
\* queued before it, which the next tick finds ready.
TickEnds == Tick /\ e.refresh # "queued" => ~Overdue'

LEMMA SpendsOn ==
  ASSUME NEW m, NEW n, NEW p, Spends(m, n), Spends(n, p) PROVE Spends(m, p)
  BY DEF Spends

LEMMA RestoreSpends ==
  ASSUME NEW m \in Engines
  PROVE  Spends(m, Restore(m)) /\ Restore(m).transient = m.transient
  BY DEF Restore, Engines, Spends

LEMMA BarSettles == ASSUME NEW m, Good(m) PROVE ColourOver(TickBar(m))
  <1> DEFINE flash == IF m.flash = "due" THEN "off" ELSE m.flash
             bar == IF flash # "off" THEN "flash"
                    ELSE IF m.phase # "none" THEN m.phase
                    ELSE IF m.seat THEN IF m.shipKnown THEN "ship" ELSE "off"
                    ELSE IF m.suppressed /\ ~m.vehicle THEN "off"
                    ELSE IF m.playerKnown THEN "player" ELSE m.bar
             n == [m EXCEPT !.flash = flash, !.bar = bar]
  <1>1. m \in Engines /\ (~m.lightbar => m.bar = "off")
    BY DEF Good, LightOwned
  <1>2. TickBar(m) = IF ~m.lightbar THEN m ELSE n
    BY <1>1 DEF TickBar, Engines
  <1>3. flash \in {"off", "running"}
    BY <1>1 DEF Engines, Deadlines
  <1>4. flash = "off" /\ m.phase = "none" /\ m.playerKnown => bar \notin Cinematic
    <2> HIDE DEF flash
    <2> QED BY DEF Cinematic
  <1> HIDE DEF flash, bar
  <1>5. n.flash = flash /\ n.bar = bar /\ n.phase = m.phase /\ n.playerKnown = m.playerKnown
    BY <1>1 DEF Engines
  <1> HIDE DEF n
  <1>6. ColourOver(n)
    BY <1>3, <1>4, <1>5 DEF ColourOver
  <1>7. ~m.lightbar => ColourOver(m)
    BY <1>1 DEF ColourOver, Cinematic
  <1>8. QED
    BY <1>2, <1>6, <1>7

LEMMA RefreshSpends == ASSUME NEW m \in Engines PROVE Spends(m, TickRefresh(m))
  BY DEF TickRefresh, Kick, Engines, Spends

LEMMA LaserSpends ==
  ASSUME NEW m \in Engines
  PROVE  LET n == TickLaser(m) IN Spends(m, n) /\ (n.pilot => n.laser # "due")
  <1> DEFINE off == [m EXCEPT !.laser = "off"]
  <1>1. off \in Engines /\ Spends(m, off) /\ off.laser = "off"
    BY Off DEF Engines, Spends
  <1>2. Spends(off, Restore(off))
    BY <1>1, RestoreSpends
  <1>3. TickLaser(m) = IF m.pilot /\ m.laser = "due" THEN Restore(off) ELSE m
    BY DEF TickLaser
  <1> HIDE DEF off
  <1>4. Spends(m, Restore(off)) /\ Restore(off).laser = "off"
    BY <1>1, <1>2 DEF Spends
  <1>5. Spends(m, m)
    BY DEF Spends
  <1>6. QED
    BY <1>3, <1>4, <1>5

LEMMA EonSpends == ASSUME NEW m \in Engines PROVE Spends(m, TickEon(m))
  <1> DEFINE vain == [m EXCEPT !.eon = "normal", !.pending = "off"]
  <1>1. vain \in Engines /\ Spends(m, vain)
    BY Off DEF Engines, Spends
  <1>2. Spends(m, RetiredEon(m)) /\ Spends(m, m)
    BY DEF RetiredEon, Engines, Spends
  <1>3. \/ TickEon(m) = Restore(vain) \/ TickEon(m) = RetiredEon(m) \/ TickEon(m) = m
    BY DEF TickEon
  <1> HIDE DEF vain
  <1>4. Spends(m, Restore(vain))
    BY <1>1, RestoreSpends, SpendsOn
  <1>5. QED
    BY <1>2, <1>3, <1>4

LEMMA BeamSpends ==
  ASSUME NEW m \in Engines
  PROVE  LET n == TickBeam(m) IN Spends(m, n) /\ (n.sustained => n.heartbeat # "due")
  <1> DEFINE off == [m EXCEPT !.sustained = FALSE, !.heartbeat = "off", !.transient = "off"]
  <1>1. off \in Engines /\ Spends(m, off) /\ off.heartbeat = "off"
    BY Off DEF Engines, Spends
  <1>2. TickBeam(m) = IF m.sustained /\ m.heartbeat = "due" THEN Restore(off) ELSE m
    BY DEF TickBeam
  <1> HIDE DEF off
  <1>3. Spends(m, Restore(off)) /\ Restore(off).heartbeat = "off"
    BY <1>1, RestoreSpends DEF Spends
  <1>4. Spends(m, m)
    BY DEF Spends
  <1>5. QED
    BY <1>2, <1>3, <1>4

LEMMA UntimedSpends ==
  ASSUME NEW m \in Engines
  PROVE  /\ Spends(m, TickGun(m)) /\ Spends(m, TickTransient(m))
         /\ TickTransient(m).transient = "due" => TickTransient(m).sustained
  <1> DEFINE gun == [m EXCEPT !.gun = "off", !.transient = "off"]
             off == [m EXCEPT !.transient = "off"]
  <1>1. gun \in Engines /\ Spends(m, gun)
    BY Off DEF Engines, Spends
  <1>2. off \in Engines /\ Spends(m, off) /\ off.transient = "off"
    BY Off DEF Engines, Spends
  <1>3. /\ TickGun(m) = IF m.gun = "due" THEN Restore(gun) ELSE m
        /\ TickTransient(m) = IF m.transient = "due" /\ ~m.sustained THEN Restore(off) ELSE m
    BY DEF TickGun, TickTransient
  <1> HIDE DEF gun, off
  <1>4. Spends(m, Restore(gun)) /\ Spends(m, Restore(off)) /\ Restore(off).transient = "off"
    BY <1>1, <1>2, RestoreSpends, SpendsOn
  <1>5. Spends(m, m)
    BY DEF Spends
  <1>6. QED
    BY <1>3, <1>4, <1>5

LEMMA TickLeaves ==
  ASSUME Sound
  PROVE  TickEnds
  <1> SUFFICES ASSUME Tick, e.refresh # "queued" PROVE ~Overdue'
    BY DEF TickEnds
  <1>1. PICK a : a = TickBar(e)
    OBVIOUS
  <1>2. PICK b : b = TickRefresh(a)
    OBVIOUS
  <1>3. PICK c : c = TickLaser(b)
    OBVIOUS
  <1>4. PICK d : d = TickEon(c)
    OBVIOUS
  <1>5. PICK f : f = TickBeam(d)
    OBVIOUS
  <1>6. PICK g : g = TickGun(f)
    OBVIOUS
  <1>7. PICK h : h = TickTransient(g)
    OBVIOUS
  <1>8. e' = h
    BY <1>1, <1>2, <1>3, <1>4, <1>5, <1>6, <1>7 DEF Tick, Ticked, Becomes
  <1>9. Good(a) /\ a.refresh = e.refresh
    BY <1>1, TickBarTame DEF Sound, Tame
  <1>10. Good(b) /\ b.refresh = "none"
    BY <1>2, <1>9, TickRefreshGood DEF Good, Engines
  <1>11. Good(c) /\ c.refresh = "none"
    BY <1>3, <1>10, TickLaserTame DEF Tame
  <1>12. Good(d) /\ d.refresh = "none"
    BY <1>4, <1>11, TickEonTame DEF Tame
  <1>13. Good(f) /\ f.refresh = "none"
    BY <1>5, <1>12, TickBeamTame DEF Tame
  <1>14. Good(g) /\ g.refresh = "none"
    BY <1>6, <1>13, TickGunTame DEF Tame
  <1>15. Good(h) /\ h.refresh = "none"
    BY <1>7, <1>14, TickTransientTame DEF Tame
  <1>16. a \in Engines /\ b \in Engines /\ c \in Engines /\ d \in Engines /\ f \in Engines
         /\ g \in Engines
    BY <1>9, <1>10, <1>11, <1>12, <1>13, <1>14 DEF Good
  <1>17. ColourOver(h)
    <2>1. ColourOver(a)
      BY <1>1, BarSettles DEF Sound
    <2>2. Spends(a, b) /\ Spends(b, c) /\ Spends(c, d) /\ Spends(d, f) /\ Spends(f, g)
          /\ Spends(g, h)
      BY <1>2, <1>3, <1>4, <1>5, <1>6, <1>7, <1>16, RefreshSpends, LaserSpends, EonSpends,
         BeamSpends, UntimedSpends
    <2>3. QED
      BY <2>1, <2>2 DEF Spends, ColourOver
  <1>18. h.pilot => h.laser # "due"
    <2>1. c.pilot => c.laser # "due"
      BY <1>3, <1>16, LaserSpends
    <2>2. Spends(c, d) /\ Spends(d, f) /\ Spends(f, g) /\ Spends(g, h)
      BY <1>4, <1>5, <1>6, <1>7, <1>16, EonSpends, BeamSpends, UntimedSpends
    <2>3. QED
      BY <2>1, <2>2 DEF Spends
  <1>19. h.sustained => h.heartbeat # "due"
    <2>1. f.sustained => f.heartbeat # "due"
      BY <1>5, <1>16, BeamSpends
    <2>2. Spends(f, g) /\ Spends(g, h)
      BY <1>6, <1>7, <1>16, UntimedSpends
    <2>3. QED
      BY <2>1, <2>2 DEF Spends
  <1>20. h.transient = "due" => h.sustained
    BY <1>7, <1>16, UntimedSpends
  <1>21. h.right \in Kicks => h.transient = "running" \/ (h.eon = "release" /\ h.transient = "off")
    <2>1. h.sustained => h.eon = "normal"
      BY <1>15 DEF Good, Seated, Beams
    <2>2. /\ h.transient \in Deadlines \cup {"endless"}
          /\ h.eon = "release" => h.transient # "endless"
      BY <1>15 DEF Good, Engines, Seated
    <2>3. h.right \in Kicks => \/ h.transient \in {"running", "due"} /\ ~h.sustained
                               \/ h.eon = "release"
      BY <1>15 DEF Good, RightOwned
    <2>4. QED
      BY <2>1, <2>2, <2>3, <1>20 DEF Deadlines
  <1>22. h.right = "laser" => h.laser = "running"
    BY <1>15, <1>18 DEF Good, RightOwned, ShipEffects, Engines, Deadlines
  <1>23. h.right = "sustained" => h.heartbeat # "due"
    BY <1>15, <1>19 DEF Good, RightOwned
  <1>24. QED
    BY <1>8, <1>15, <1>17, <1>21, <1>22, <1>23 DEF Overdue, ColourOver

\* Kicks, lasers, beams and cinematic colours that are over end with the next tick, in
\* any seat, menu and setting, and a neutral frame with the one after it: what
\* EffectsEnd needs besides fairness.
THEOREM TickEndsEffects == Spec => [][TickEnds]_vars
  <1>1. Sound => [TickEnds]_vars
    BY TickLeaves
  <1>2. QED
    BY <1>1, InitSound, NextSound, PTL DEF Spec
=============================================================================
