------------------------- MODULE HapticLeasesProofs -------------------------
(***************************************************************************)
(* Proofs about the continuous body haptics: types, what each context      *)
(* owns, and that what vibrates is what the manager's state grants unless  *)
(* an older composition overtook the newest one or the link changed.       *)
(***************************************************************************)
EXTENDS HapticLeases, TLAPS

\* The manager's state has its type, effects belong to their context, and only
\* a beam or an arc waits for R2, which is up.
Owned(m) ==
  /\ ~(m.pilot /\ m.vehicle)
  /\ m.pilot \/ m.vehicle => m.suppressed
  /\ m.suppressed => /\ m.weapon = "none" /\ ~m.firing /\ ~m.thrust
                     /\ m.armed = "off" /\ ~m.waiting
  /\ m.cruising \/ m.laser # "off" => m.pilot /\ m.mask = {}
  /\ m.production => m.vehicle
  /\ m.motion \/ m.chassis => m.production /\ m.mask = {}
  /\ m.motion => m.epoch # 0
  /\ "off" # m.forward \/ "off" # m.vertical \/ m.epoch # 0 => m.production
  /\ m.armed # "off" => m.weapon = "beam"
  /\ m.waiting => m.weapon \in {"beam", "arc"} /\ m.r2 = 0

Good(m) == m \in Managers /\ Owned(m)

LEMMA OwnedIsContext == Owned(hm) => ContextOwnsEffects
  BY DEF Owned, ContextOwnsEffects

-----------------------------------------------------------------------------
(* The helpers.                                                            *)

LEMMA InitialGood == \A on \in BOOLEAN : Good(Initial(on))
  <1> SUFFICES ASSUME NEW on \in BOOLEAN PROVE Good(Initial(on))
    OBVIOUS
  <1>1. Initial(on) \in Managers
    BY DEF Managers, Initial, Weapons, Leases
  <1>2. Owned(Initial(on))
    BY DEF Owned, Initial
  <1>3. QED
    BY <1>1, <1>2 DEF Good

LEMMA FiringIsBoolean ==
  ASSUME NEW m \in Managers, NEW level
  PROVE  FiringAfter(m, level) \in BOOLEAN
  BY DEF Managers, FiringAfter

LEMMA FedGood ==
  ASSUME NEW m, Good(m), NEW level
  PROVE  Good(Fed(m, level))
  <1>1. m.weapon = "none" => FiringAfter(m, level) = m.firing
    BY DEF FiringAfter, Good, Managers
  <1>2. FiringAfter(m, level) \in BOOLEAN
    BY FiringIsBoolean DEF Good
  <1> DEFINE f == FiringAfter(m, level)
  <1> HIDE DEF f
  <1>3. Good([m EXCEPT !.firing = f])
    BY <1>1, <1>2 DEF f, Good, Owned, Managers
  <1>4. QED
    BY <1>3 DEF f, Fed

LEMMA OffFootTyped ==
  ASSUME NEW m, m \in Managers
  PROVE  OffFoot(m) \in Managers
  <1>1. Unwatched(m) \in Managers
    BY DEF Unwatched, Managers, Leases
  <1>2. ASSUME NEW u \in Managers, NEW released \in 0..2, NEW closed \in SUBSET VehicleMenus
        PROVE  [u EXCEPT !.weapon = "none", !.firing = FALSE, !.paused = FALSE,
                         !.menus = closed, !.r2 = released, !.thrust = FALSE] \in Managers
    BY DEF Managers, Weapons
  <1>3. 0 \in 0..2 /\ {} \in SUBSET VehicleMenus
    OBVIOUS
  <1>4. QED
    BY <1>1, <1>2, <1>3 DEF OffFoot

LEMMA OffFootClears ==
  ASSUME NEW m, m \in Managers
  PROVE  LET c == OffFoot(m)
         IN  /\ c.weapon = "none" /\ ~c.firing /\ ~c.thrust /\ c.armed = "off" /\ ~c.waiting
             /\ c.pilot = m.pilot /\ c.vehicle = m.vehicle /\ c.suppressed = m.suppressed
             /\ c.mask = m.mask /\ c.rumble = m.rumble
             /\ c.cruising = m.cruising /\ c.laser = m.laser /\ c.production = m.production
             /\ c.motion = m.motion /\ c.chassis = m.chassis /\ c.forward = m.forward
             /\ c.vertical = m.vertical /\ c.epoch = m.epoch /\ c.r2 = 0
  BY DEF OffFoot, Unwatched, Managers

LEMMA NoDriveTyped ==
  ASSUME NEW m, m \in Managers
  PROVE  NoDrive(m) \in Managers
  BY DEF NoDrive, Managers, Leases

LEMMA NoDriveClears ==
  ASSUME NEW m, m \in Managers
  PROVE  LET c == NoDrive(m)
         IN  /\ ~c.production /\ c.epoch = 0 /\ ~c.motion /\ ~c.chassis
             /\ c.forward = "off" /\ c.vertical = "off"
             /\ c.pilot = m.pilot /\ c.vehicle = m.vehicle /\ c.suppressed = m.suppressed
             /\ c.mask = m.mask /\ c.rumble = m.rumble /\ c.cruising = m.cruising
             /\ c.laser = m.laser /\ c.weapon = m.weapon /\ c.firing = m.firing
             /\ c.thrust = m.thrust /\ c.armed = m.armed /\ c.waiting = m.waiting
             /\ c.r2 = m.r2 /\ c.boost = m.boost
  BY DEF NoDrive, Managers

LEMMA NoDriveGood ==
  ASSUME NEW m, Good(m)
  PROVE  Good(NoDrive(m))
  BY NoDriveTyped, NoDriveClears DEF Good, Owned

-----------------------------------------------------------------------------
(* What a composition holds is granted by the state it is made from.       *)

LEMMA GrantedAreSources ==
  ASSUME NEW m
  PROVE  Granted(m) \subseteq Sources /\ {} \in SUBSET Granted(m)
  BY DEF Granted

\* The parts of what a state grants.
LEMMA GrantsKept ==
  ASSUME NEW m, NEW n,
         m.rumble => n.rumble,
         ShipBed([m EXCEPT !.rumble = FALSE]) \subseteq ShipBed([n EXCEPT !.rumble = FALSE]),
         VehicleBed(m) \subseteq VehicleBed(n),
         ~m.suppressed /\ Thrusting(m) => ~n.suppressed /\ Thrusting(n),
         ~m.suppressed /\ WeaponBed(m, m.r2) # {} => ~n.suppressed /\ WeaponBed(n, n.r2) # {}
  PROVE  Granted(m) \subseteq Granted(n)
  BY DEF Granted

LEMMA ShipBedGranted ==
  ASSUME NEW m, Good(m)
  PROVE  ShipBed(m) \in SUBSET Granted(m)
  <1>1. m.rumble => "rumble" \in Granted(m)
    BY DEF Granted, Sources
  <1>2. ~m.rumble => ShipBed(m) \subseteq ShipBed([m EXCEPT !.rumble = FALSE])
    BY DEF ShipBed, Good, Managers
  <1>3. ShipBed([m EXCEPT !.rumble = FALSE]) \subseteq Granted(m)
    BY DEF Granted, ShipBed, Sources
  <1>4. m.rumble => ShipBed(m) \subseteq {"rumble"}
    BY DEF ShipBed
  <1>5. QED
    BY <1>1, <1>2, <1>3, <1>4

LEMMA VehicleBedGranted ==
  ASSUME NEW m
  PROVE  VehicleBed(m) \in SUBSET Granted(m)
  BY DEF Granted, VehicleBed, Sources

LEMMA FiringSettles ==
  ASSUME NEW m \in Managers, NEW level
  PROVE  /\ FiringAfter(Fed(m, level), level) = FiringAfter(m, level)
         /\ WeaponBed(Fed(m, level), level) = WeaponBed(m, level)
         /\ Fed(m, level).r2 = m.r2 /\ Fed(m, level).suppressed = m.suppressed
         /\ Thrusting(Fed(m, level)) = Thrusting(m)
  <1> DEFINE f == FiringAfter(m, level)
             n == [m EXCEPT !.firing = f]
  <1>1. f \in BOOLEAN
    BY FiringIsBoolean
  <1>2. Fed(m, level) = n
    BY DEF Fed
  <1>3. /\ n.paused = m.paused /\ n.weapon = m.weapon /\ n.family = m.family
        /\ n.menus = m.menus /\ n.firing = f /\ n.r2 = m.r2 /\ n.suppressed = m.suppressed
        /\ n.thrust = m.thrust /\ n.boost = m.boost
    BY DEF Managers
  <1> HIDE DEF n
  <1>4. FiringAfter(n, level) = f
    BY <1>1, <1>3 DEF FiringAfter, Managers
  <1>5. WeaponBed(n, level) = WeaponBed(m, level)
    BY <1>3, <1>4 DEF WeaponBed
  <1>6. QED
    BY <1>2, <1>3, <1>4, <1>5 DEF Thrusting

LEMMA ReleasedIsQuiet ==
  ASSUME NEW m \in Managers
  PROVE  /\ WeaponBed(m, 0) = {}
         /\ \A level : m.weapon = "none" => WeaponBed(m, level) = {}
  BY DEF WeaponBed, FiringAfter, Managers, Weapons

\* A weapon or a thrust means that the context is not suppressed.
LEMMA FootBedGranted ==
  ASSUME NEW m, Good(m)
  PROVE  /\ WeaponBed(m, m.r2) \in SUBSET Granted(Fed(m, m.r2))
         /\ FootBed(m) \in SUBSET Granted(AfterFoot(m))
         /\ ContextBed(m) \in SUBSET Granted(AfterContext(m))
  <1>1. m \in Managers /\ (m.suppressed => m.weapon = "none" /\ ~Thrusting(m))
    BY DEF Good, Owned, Thrusting
  <1>2. WeaponBed(m, m.r2) \subseteq {"weapon"}
        /\ (WeaponBed(m, m.r2) # {} => ~m.suppressed)
    BY <1>1, ReleasedIsQuiet DEF WeaponBed
  <1>3. WeaponBed(m, m.r2) # {} => "weapon" \in Granted(Fed(m, m.r2))
    BY <1>1, <1>2, FiringSettles DEF Granted, Sources
  <1>4. WeaponBed(m, m.r2) \in SUBSET Granted(Fed(m, m.r2))
    BY <1>2, <1>3
  <1>5. Thrusting(m) => "thrust" \in Granted(m)
    BY <1>1 DEF Granted, Sources
  <1>6. FootBed(m) \in SUBSET Granted(AfterFoot(m))
    BY <1>4, <1>5 DEF FootBed, AfterFoot
  <1>7. QED
    BY <1>4, <1>6, ShipBedGranted, VehicleBedGranted DEF ContextBed, AfterContext

-----------------------------------------------------------------------------
(* The ends of a handler.                                                  *)

Handover == [at : Steps, bed : SUBSET Sources, side : {"none", "usb", "bluetooth"}]

\* Everything but the manager's state.
RestTyped ==
  /\ scenario \in Scenarios
  /\ open \subseteq VehicleMenus
  /\ enabled \in BOOLEAN /\ eligible \in BOOLEAN /\ crossed \in BOOLEAN
  /\ jet \in Leases
  /\ pending \in [Threads -> Handover]
  /\ \A t \in Threads : pending[t].at = "write" => pending[t].side # "none"
  /\ wired \subseteq Sources /\ bt \subseteq Sources
  /\ link \in Links /\ newest \in Threads

InFlight(t) == pending[t].at \in {"look", "forced", "write"}
Composing == pending["settings"].at = "compose"
Silencing ==
  pending["settings"].at \in {"forced", "write"} /\ pending["settings"].bed = {}

\* What the backend has been told.  The newest composition is granted while it
\* is in flight, and once it has arrived what vibrates is granted.  While
\* haptics are off silence is in flight or has arrived.  Excepted are a settings
\* page that has yet to compose and what crossed.
Told ==
  /\ \A t \in Threads : pending[t].at \in {"forced", "compose"} => t = "settings"
  /\ enabled /\ ~Composing /\ InFlight(newest) => pending[newest].bed \subseteq Granted(hm)
  /\ enabled => crossed \/ Composing \/ InFlight(newest) \/ Vibrates \subseteq Granted(hm)
  /\ ~enabled => /\ ~Composing
                 /\ crossed \/ Vibrates = {} \/ Silencing
                 /\ pending[newest].at = "write" => pending[newest].bed = {}
                 /\ pending["settings"].at \in {"forced", "write"} =>
                      pending["settings"].bed = {}

Sound == RestTyped /\ Good(hm) /\ Told

LEMMA SoundParts == Sound => TypeOK /\ ContextOwnsEffects /\ OrderedIsGranted
  <1> SUFFICES ASSUME Sound PROVE TypeOK /\ ContextOwnsEffects /\ OrderedIsGranted
    OBVIOUS
  <1>1. TypeOK /\ ContextOwnsEffects
    BY OwnedIsContext DEF Sound, RestTyped, Good, TypeOK, Handover
  <1>2. OrderedIsGranted
    <2> SUFFICES ASSUME Settled, ~crossed
                 PROVE  Vibrates \subseteq Granted(hm) /\ (Vibrates # {} => enabled)
      BY DEF OrderedIsGranted
    <2>1. "settings" \in Threads /\ newest \in Threads
      BY DEF Threads, Sound, RestTyped
    <2>2. ~Composing /\ ~InFlight(newest) /\ ~Silencing
      BY <2>1 DEF Settled, Idle, Composing, InFlight, Silencing
    <2>3. CASE enabled
      BY <2>2, <2>3 DEF Sound, Told
    <2>4. CASE ~enabled
      BY <2>2, <2>4 DEF Sound, Told
    <2>5. QED
      BY <2>3, <2>4
  <1>3. QED
    BY <1>1, <1>2

LEMMA QuietTyped == Quiet \in Handover
  BY DEF Quiet, Handover, Steps

LEMMA HandTyped ==
  ASSUME RestTyped, NEW t \in Threads, NEW step \in Steps \ {"write"},
         NEW bed \in SUBSET Sources, Hand(t, step, bed)
  PROVE  /\ pending' \in [Threads -> Handover] /\ newest' \in Threads
         /\ \A u \in Threads : pending'[u].at = "write" => pending'[u].side # "none"
  BY DEF Hand, RestTyped, Handover

LEMMA HandedOver ==
  ASSUME RestTyped, NEW t \in Threads, NEW step, NEW bed, Hand(t, step, bed)
  PROVE  /\ pending'[t].at = step /\ pending'[t].bed = bed /\ newest' = t
         /\ \A u \in Threads \ {t} : pending'[u] = pending[u]
  BY DEF Hand, RestTyped

\* The newest composition is granted by the state it leaves.
LEMMA HandTold ==
  ASSUME RestTyped, Told, NEW t \in Threads, ~InFlight(t),
         NEW step \in {"look", "forced"}, step = "look" \/ (t = "settings" /\ enabled),
         NEW bed, bed \subseteq Granted(hm'), Hand(t, step, bed), UNCHANGED <<enabled, backend>>
  PROVE  Told'
  <1>1. "settings" \in Threads
    BY DEF Threads
  <1>2. /\ pending'[t].at = step /\ pending'[t].bed = bed /\ newest' = t
        /\ \A u \in Threads \ {t} : pending'[u] = pending[u]
    BY HandedOver
  <1>3. Vibrates' = Vibrates /\ crossed' = crossed /\ enabled' = enabled
    BY DEF Vibrates, backend
  <1>4. \A u \in Threads : pending'[u].at \in {"forced", "compose"} => u = "settings"
    BY <1>2 DEF Told
  <1>5. InFlight(newest)' /\ pending'[newest'].bed \subseteq Granted(hm')
    BY <1>2 DEF InFlight
  <1>6. ASSUME ~enabled
        PROVE  /\ ~Composing' /\ (Silencing => Silencing')
               /\ pending'[newest'].at # "write"
               /\ pending'["settings"].at \in {"forced", "write"} =>
                    pending'["settings"].bed = {}
    <2>1. CASE t = "settings"
      BY <1>2, <1>6, <2>1 DEF Told, InFlight, Composing, Silencing
    <2>2. CASE t # "settings"
      BY <1>1, <1>2, <1>6, <2>2 DEF Told, InFlight, Composing, Silencing
    <2>3. QED
      BY <2>1, <2>2
  <1>7. QED
    BY <1>3, <1>4, <1>5, <1>6 DEF Told

\* A step that takes nothing away and tells nothing.
LEMMA KeptTold ==
  ASSUME Told, Granted(hm) \subseteq Granted(hm'), UNCHANGED <<enabled, pending, newest, backend>>
  PROVE  Told'
  <1>1. /\ Vibrates' = Vibrates /\ crossed' = crossed /\ enabled' = enabled
        /\ pending' = pending /\ newest' = newest
    BY DEF Vibrates, backend
  <1>2. QED
    BY <1>1 DEF Told, InFlight, Composing, Silencing

LEMMA SubmitSound ==
  ASSUME Sound, NEW t \in Threads, NEW m, Good(m), NEW bed \in SUBSET Granted(m),
         Submit(t, m, bed)
  PROVE  Sound'
  <1>1. "look" \in Steps \ {"write"} /\ Hand(t, "look", bed) /\ hm' = m /\ Leave
        /\ bed \in SUBSET Sources /\ Sound
    BY GrantedAreSources DEF Steps, Submit
  <1>2. RestTyped'
    BY <1>1, HandTyped DEF Leave, Sound, RestTyped, shared, backend
  <1>3. Good(hm)'
    BY <1>1 DEF Good, Owned, Managers
  <1>4. ~InFlight(t)
    BY DEF Submit, Idle, InFlight
  <1>5. Told'
    BY <1>1, <1>4, HandTold DEF Leave, Sound, shared
  <1>6. QED
    BY <1>2, <1>3, <1>5 DEF Sound

LEMMA RecordSound ==
  ASSUME Sound, NEW t \in Threads, NEW m, Good(m), Granted(hm) \subseteq Granted(m),
         Record(t, m)
  PROVE  Sound'
  <1>1. RestTyped'
    BY DEF Record, Leave, Sound, RestTyped, shared, backend
  <1>2. Good(hm)'
    BY DEF Record, Good, Owned, Managers
  <1>3. Told'
    BY KeptTold DEF Record, Leave, Sound, shared
  <1>4. QED
    BY <1>1, <1>2, <1>3 DEF Sound

LEMMA RestKept ==
  ASSUME Sound, UNCHANGED <<scenario, open, shared, pending, backend, newest>>, Good(hm'),
         Granted(hm) \subseteq Granted(hm')
  PROVE  Sound'
  <1>1. RestTyped'
    BY DEF Sound, RestTyped, shared, backend
  <1>2. Told'
    BY KeptTold DEF Sound, shared
  <1>3. QED
    BY <1>1, <1>2 DEF Sound, Good, Owned, Managers

LEMMA GameThread == "game" \in Threads /\ "wwise" \in Threads /\ "worker" \in Threads
                    /\ "settings" \in Threads /\ \A m : {} \in SUBSET Granted(m)
  BY GrantedAreSources DEF Threads

-----------------------------------------------------------------------------
(* The context.                                                            *)

LEMMA CockpitGood ==
  ASSUME Good(hm), NEW pilot \in BOOLEAN
  PROVE  Good(Cockpit(hm, pilot))
  <1> DEFINE a == [hm EXCEPT !.pilot = pilot, !.vehicle = FALSE, !.suppressed = TRUE,
                             !.mask = {}, !.cruising = FALSE, !.laser = "off"]
  <1>1. a \in Managers
    BY DEF Good, Managers, Leases
  <1>2. /\ a.pilot = pilot /\ ~a.vehicle /\ a.suppressed /\ ~a.cruising /\ a.laser = "off"
        /\ a.mask = {}
    BY DEF Good, Managers
  <1>3. Cockpit(hm, pilot) = OffFoot(NoDrive(a))
    BY DEF Cockpit
  <1> HIDE DEF a
  <1>4. NoDrive(a) \in Managers
    BY <1>1, NoDriveTyped
  <1>5. QED
    BY <1>1, <1>2, <1>3, <1>4, NoDriveClears, OffFootTyped, OffFootClears DEF Good, Owned

LEMMA ContextSound ==
  ASSUME Sound,
         \/ ShipPilotEntered \/ ShipPilotInvalidated \/ ShipPilotExited
         \/ LandVehicleContextEntered \/ LandVehicleContextExited
         \/ LandVehicleAuthorityAcquired \/ LandVehicleAuthorityReleased
  PROVE  Sound'
  <1>1. Good(hm) /\ RestTyped
    BY DEF Sound
  <1>2. CASE ShipPilotEntered
    <2> DEFINE m == Cockpit(hm, TRUE)
               bed == IF m.rumble THEN ShipBed(m) ELSE {}
    <2>1. Good(m) /\ bed \in SUBSET Granted(m)
      BY <1>1, CockpitGood, ShipBedGranted, GameThread
    <2>2. Submit("game", m, bed)
      BY <1>2 DEF ShipPilotEntered
    <2> HIDE DEF m, bed
    <2>3. QED
      BY <1>1, <2>1, <2>2, SubmitSound, GameThread
  <1>3. CASE ShipPilotInvalidated
    BY <1>1, <1>3, CockpitGood, SubmitSound, GameThread DEF ShipPilotInvalidated
  <1>4. CASE ShipPilotExited
    <2> DEFINE a == [hm EXCEPT !.pilot = FALSE, !.mask = {}, !.cruising = FALSE,
                               !.laser = "off", !.suppressed = hm.vehicle]
    <2>1. a \in Managers /\ Submit("game", OffFoot(a), {}) /\ hm.pilot
      <3>1. Submit("game", OffFoot(a), {}) /\ hm.pilot
        BY <1>4 DEF ShipPilotExited
      <3>2. hm.vehicle \in BOOLEAN
        BY <1>1 DEF Good, Managers
      <3>3. a \in Managers
        BY <1>1, <3>2 DEF Good, Managers, Leases
      <3>4. QED
        BY <3>1, <3>3
    <2>2. /\ ~a.pilot /\ ~a.vehicle /\ ~a.suppressed /\ a.mask = {} /\ ~a.cruising
          /\ a.laser = "off" /\ ~a.production /\ ~a.motion /\ ~a.chassis
          /\ a.forward = "off" /\ a.vertical = "off" /\ a.epoch = 0
      BY <1>1, <2>1 DEF Good, Owned, Managers
    <2> HIDE DEF a
    <2>3. Good(OffFoot(a))
      BY <2>1, <2>2, OffFootTyped, OffFootClears DEF Good, Owned
    <2>4. QED
      BY <1>1, <2>1, <2>3, SubmitSound, GameThread
  <1>5. CASE LandVehicleContextEntered
    <2> DEFINE n == NoDrive(hm)
               a == [n EXCEPT !.vehicle = TRUE, !.suppressed = TRUE]
    <2>1. n \in Managers /\ Good(n) /\ ~n.pilot /\ ~n.production
      BY <1>1, <1>5, NoDriveGood, NoDriveTyped, NoDriveClears DEF LandVehicleContextEntered, Good
    <2>2. Submit("game", OffFoot(a), {})
      BY <1>5 DEF LandVehicleContextEntered
    <2> HIDE DEF n
    <2>3. a \in Managers
      BY <2>1 DEF Managers
    <2>4. /\ ~a.pilot /\ a.vehicle /\ a.suppressed /\ ~a.cruising
          /\ a.laser = "off" /\ ~a.production /\ ~a.motion /\ ~a.chassis
          /\ a.forward = "off" /\ a.vertical = "off" /\ a.epoch = 0
      BY <2>1 DEF Good, Owned, Managers
    <2> HIDE DEF a
    <2>5. Good(OffFoot(a))
      BY <2>3, <2>4, OffFootTyped, OffFootClears DEF Good, Owned
    <2>6. QED
      BY <1>1, <2>2, <2>5, SubmitSound, GameThread
  <1>6. CASE LandVehicleContextExited
    <2> DEFINE n == NoDrive(hm)
               a == [n EXCEPT !.vehicle = FALSE, !.suppressed = hm.pilot /\ hm.suppressed]
    <2>1. n \in Managers /\ Good(n) /\ ~n.pilot /\ ~n.production /\ ~hm.pilot
      BY <1>1, <1>6, NoDriveGood, NoDriveTyped, NoDriveClears
         DEF LandVehicleContextExited, Good, Owned
    <2>2. Submit("game", OffFoot(a), {})
      BY <1>6 DEF LandVehicleContextExited
    <2>3. (hm.pilot /\ hm.suppressed) \in BOOLEAN
      OBVIOUS
    <2> HIDE DEF n
    <2>4. a \in Managers
      BY <2>1, <2>3 DEF Managers
    <2>5. /\ ~a.pilot /\ ~a.vehicle /\ ~a.suppressed /\ ~a.cruising
          /\ a.laser = "off" /\ ~a.production /\ ~a.motion /\ ~a.chassis
          /\ a.forward = "off" /\ a.vertical = "off" /\ a.epoch = 0
      BY <2>1 DEF Good, Owned, Managers
    <2> HIDE DEF a
    <2>6. Good(OffFoot(a))
      BY <2>4, <2>5, OffFootTyped, OffFootClears DEF Good, Owned
    <2>7. QED
      BY <1>1, <2>2, <2>6, SubmitSound, GameThread
  <1>7. CASE LandVehicleAuthorityAcquired
    <2> DEFINE a == [hm EXCEPT !.production = TRUE, !.epoch = 0, !.motion = FALSE,
                               !.chassis = FALSE]
    <2>1. Submit("game", a, {}) /\ hm.vehicle /\ ~hm.pilot
      BY <1>7 DEF LandVehicleAuthorityAcquired
    <2>2. Good(a)
      BY <1>1, <2>1 DEF Good, Owned, Managers
    <2> HIDE DEF a
    <2>3. QED
      BY <1>1, <2>1, <2>2, SubmitSound, GameThread
  <1>8. CASE LandVehicleAuthorityReleased
    BY <1>1, <1>8, NoDriveGood, SubmitSound, GameThread DEF LandVehicleAuthorityReleased
  <1>9. QED
    BY <1>2, <1>3, <1>4, <1>5, <1>6, <1>7, <1>8

-----------------------------------------------------------------------------
(* Menus.                                                                  *)

\* A menu leaves a composition to submit.
LEMMA MenuHanded ==
  ASSUME Sound, NEW x \in VehicleMenus, NEW opens \in BOOLEAN, MenuEvent(x, opens),
         Good(hm'), NEW bed \in SUBSET Granted(hm'), Hand("game", "look", bed)
  PROVE  Sound'
  <1>1. open' \subseteq VehicleMenus
    BY DEF MenuEvent, Sound, RestTyped
  <1>2. "look" \in Steps \ {"write"} /\ bed \in SUBSET Sources /\ ~InFlight("game")
    BY GrantedAreSources DEF Steps, MenuEvent, Game, Idle, InFlight
  <1>3. RestTyped'
    BY <1>1, <1>2, HandTyped, GameThread DEF MenuEvent, Sound, RestTyped, shared, backend
  <1>4. Told'
    BY <1>2, HandTold, GameThread DEF MenuEvent, Sound, shared
  <1>5. QED
    BY <1>3, <1>4 DEF Sound, Good, Owned, Managers

LEMMA MaskedTyped ==
  ASSUME NEW m, m \in Managers, NEW x \in VehicleMenus, NEW opens \in BOOLEAN
  PROVE  /\ Masked(m, x, opens) \in Managers
         /\ ~opens /\ m.mask = {} => Masked(m, x, opens).mask = {}
         /\ Masked(m, x, opens) = [m EXCEPT !.mask = Masked(m, x, opens).mask]
  <1> DEFINE s == IF opens THEN m.mask \cup {x} ELSE m.mask \ {x}
  <1>1. s \in SUBSET VehicleMenus /\ (~opens /\ m.mask = {} => s = {})
    BY DEF Managers
  <1>2. Masked(m, x, opens) = [m EXCEPT !.mask = s]
    BY DEF Masked, Managers
  <1> HIDE DEF s
  <1>3. QED
    BY <1>1, <1>2 DEF Managers

LEMMA VehicleMenuSound ==
  ASSUME Sound, NEW x \in VehicleMenus, NEW opens \in BOOLEAN, VehicleMenu(x, opens)
  PROVE  Sound'
  <1> DEFINE m == Masked(hm, x, opens)
             blocked == [m EXCEPT !.motion = FALSE, !.chassis = FALSE]
  <1>1. Good(hm) /\ hm.vehicle /\ MenuEvent(x, opens) /\ Hand("game", "look", {})
    BY DEF Sound, VehicleMenu
  <1>2. hm' = IF ~opens THEN m ELSE IF x = "Loading" THEN NoDrive(blocked) ELSE blocked
    BY DEF VehicleMenu
  <1>3. /\ m \in Managers /\ (~opens /\ hm.mask = {} => m.mask = {})
        /\ m = [hm EXCEPT !.mask = m.mask]
    BY <1>1, MaskedTyped DEF Good
  <1> HIDE DEF m
  <1>4. CASE ~opens
    <2>1. Good(m)
      BY <1>1, <1>3, <1>4 DEF Good, Owned, Managers
    <2>2. QED
      BY <1>1, <1>2, <1>4, <2>1, MenuHanded, GameThread
  <1>5. CASE opens
    <2>1. Good(blocked)
      BY <1>1, <1>3 DEF Good, Owned, Managers
    <2> HIDE DEF blocked
    <2>2. Good(hm')
      BY <1>2, <1>5, <2>1, NoDriveGood
    <2>3. QED
      BY <1>1, <2>2, MenuHanded, GameThread
  <1>6. QED
    BY <1>4, <1>5

LEMMA ShipMenuSound ==
  ASSUME Sound, NEW x \in VehicleMenus, NEW opens \in BOOLEAN, ShipMenu(x, opens)
  PROVE  Sound'
  <1> DEFINE m == Masked(hm, x, opens)
  <1>1. Good(hm) /\ ~hm.vehicle /\ MenuEvent(x, opens) /\ Hand("game", "look", ShipBed(hm'))
    BY DEF Sound, ShipMenu, OverShip
  <1>2. hm' = IF opens THEN [m EXCEPT !.cruising = FALSE, !.laser = "off"] ELSE m
    BY DEF ShipMenu
  <1>3. /\ m \in Managers /\ (~opens /\ hm.mask = {} => m.mask = {})
        /\ m = [hm EXCEPT !.mask = m.mask]
    BY <1>1, MaskedTyped DEF Good
  <1> HIDE DEF m
  <1>4. Good(hm')
    <2>1. CASE opens
      BY <1>1, <1>2, <1>3, <2>1 DEF Good, Owned, Managers, Leases
    <2>2. CASE ~opens
      BY <1>1, <1>2, <1>3, <2>2 DEF Good, Owned, Managers
    <2>3. QED
      BY <2>1, <2>2
  <1>5. ShipBed(hm') \in SUBSET Granted(hm')
    BY <1>4, ShipBedGranted
  <1>6. QED
    BY <1>1, <1>4, <1>5, MenuHanded

LEMMA SuppressedMenuSound ==
  ASSUME Sound, NEW x \in VehicleMenus, NEW opens \in BOOLEAN, SuppressedMenu(x, opens)
  PROVE  Sound'
  <1> DEFINE s == hm.pilot \/ x # "Loading" \/ opens
  <1>1. Good(hm) /\ hm.suppressed /\ ~hm.vehicle /\ hm' = [hm EXCEPT !.suppressed = s]
    BY DEF Sound, SuppressedMenu
  <1>2. s \in BOOLEAN /\ (hm.pilot => s)
    BY <1>1 DEF Good, Managers
  <1> HIDE DEF s
  <1>3. Good(hm')
    BY <1>1, <1>2 DEF Good, Owned, Managers
  <1>4. open' \subseteq VehicleMenus
    BY DEF SuppressedMenu, MenuEvent, Sound, RestTyped
  <1>5. RestTyped'
    BY <1>4 DEF SuppressedMenu, MenuEvent, Sound, RestTyped, shared, backend
  <1>6. Granted(hm) \subseteq Granted(hm')
    <2> DEFINE n == [hm EXCEPT !.suppressed = s]
    <2>1. /\ n.mask = hm.mask /\ n.pilot = hm.pilot /\ n.cruising = hm.cruising
          /\ n.laser = hm.laser /\ n.rumble = hm.rumble /\ n.production = hm.production
          /\ n.vehicle = hm.vehicle
      BY <1>1 DEF Good, Managers
    <2>2. ShipBed([hm EXCEPT !.rumble = FALSE]) = ShipBed([n EXCEPT !.rumble = FALSE])
      BY <1>1 DEF ShipBed, Good, Managers
    <2>3. VehicleBed(hm) = {}
      BY <1>1 DEF VehicleBed, VehicleLive
    <2> HIDE DEF n
    <2>4. QED
      BY <1>1, <2>1, <2>2, <2>3, GrantsKept DEF n
  <1>7. Told'
    BY <1>6, KeptTold DEF SuppressedMenu, MenuEvent, Sound, shared
  <1>8. QED
    BY <1>3, <1>5, <1>7 DEF Sound, Good, Owned, Managers

LEMMA FootMenuSound ==
  ASSUME Sound, NEW x \in VehicleMenus, NEW opens \in BOOLEAN, FootMenu(x, opens)
  PROVE  Sound'
  <1> DEFINE s == IF opens THEN hm.menus \cup {x} ELSE hm.menus \ {x}
             f == hm.firing /\ ~(opens /\ hm.weapon = "rivet")
             m == [hm EXCEPT !.menus = s, !.firing = f]
  <1>1. Good(hm) /\ ~hm.suppressed /\ s \in SUBSET VehicleMenus /\ f \in BOOLEAN
    BY DEF Sound, FootMenu, Good, Managers
  <1>2. MenuEvent(x, opens) /\ hm' = Fed(m, m.r2) /\ Hand("game", "look", WeaponBed(m, m.r2))
    BY <1>1 DEF FootMenu, Good, Managers
  <1> HIDE DEF s, f
  <1>3. Good(m)
    BY <1>1 DEF Good, Owned, Managers
  <1> HIDE DEF m
  <1>4. Good(hm') /\ WeaponBed(m, m.r2) \in SUBSET Granted(hm')
    BY <1>2, <1>3, FedGood, FootBedGranted
  <1>5. QED
    BY <1>2, <1>4, MenuHanded

-----------------------------------------------------------------------------
(* The ship, the REV-8 and its boosts.                                     *)

LEMMA ShipSound ==
  ASSUME Sound, Ship
  PROVE  Sound'
  <1>1. Good(hm)
    BY DEF Sound
  <1>2. ASSUME NEW t \in Shooters, NEW lease \in Leases, ShipWeapon(t, lease)
        PROVE  Sound'
    <2> DEFINE m == [hm EXCEPT !.laser = lease]
    <2>1. Good(m) /\ t \in Threads
      BY <1>1, <1>2, ShootersAssumption DEF ShipWeapon, Flying, Good, Owned, Managers, Threads
    <2>2. Submit(t, m, ShipBed(m))
      BY <1>2 DEF ShipWeapon
    <2> HIDE DEF m
    <2>3. QED
      BY <2>1, <2>2, ShipBedGranted, SubmitSound
  <1>3. ASSUME NEW on \in BOOLEAN, Submit("game", [hm EXCEPT !.rumble = on],
                                          ShipBed([hm EXCEPT !.rumble = on]))
        PROVE  Sound'
    <2> DEFINE m == [hm EXCEPT !.rumble = on]
    <2>1. Good(m) /\ Submit("game", m, ShipBed(m))
      BY <1>1, <1>3 DEF Good, Owned, Managers
    <2> HIDE DEF m
    <2>2. QED
      BY <2>1, ShipBedGranted, SubmitSound, GameThread
  <1>4. ASSUME NEW moving \in BOOLEAN, Propulsion(moving)
        PROVE  Sound'
    <2> DEFINE m == [hm EXCEPT !.cruising = moving]
    <2>1. Good(m) /\ Submit("game", m, ShipBed(m))
      BY <1>1, <1>4 DEF Propulsion, Flying, Good, Owned, Managers
    <2> HIDE DEF m
    <2>2. QED
      BY <2>1, ShipBedGranted, SubmitSound, GameThread
  <1>5. QED
    BY <1>2, <1>3, <1>4 DEF Ship, ShipTouchdown, LaunchLandingRumble

LEMMA BoostTyped ==
  ASSUME NEW b \in Boosts, NEW lease \in Leases, Good(hm), hm.production \/ lease = "off"
  PROVE  Good([hm EXCEPT ![b] = lease])
  <1>1. CASE b = "forward"
    BY <1>1 DEF Good, Owned, Managers
  <1>2. CASE b = "vertical"
    BY <1>2 DEF Good, Owned, Managers
  <1>3. QED
    BY <1>1, <1>2, BoostsAssumption

\* What the REV-8 loses while nothing of it is live.
LEMMA NoVehicleGrants ==
  ASSUME Good(hm), ~hm.vehicle
  PROVE  Granted(hm) \subseteq Granted([hm EXCEPT !.motion = FALSE, !.chassis = FALSE,
                                                !.forward = "off", !.vertical = "off"])
  <1> DEFINE m == [hm EXCEPT !.motion = FALSE, !.chassis = FALSE, !.forward = "off",
                             !.vertical = "off"]
  <1>1. m.rumble = hm.rumble
    BY DEF Good, Managers
  <1>2. ShipBed([hm EXCEPT !.rumble = FALSE]) = ShipBed([m EXCEPT !.rumble = FALSE])
    BY DEF ShipBed, Good, Managers
  <1>3. VehicleBed(hm) = {}
    BY DEF VehicleBed, VehicleLive
  <1>4. Thrusting(hm) = Thrusting(m) /\ hm.suppressed = m.suppressed
    BY DEF Thrusting, Good, Managers
  <1>5. WeaponBed(hm, hm.r2) = WeaponBed(m, m.r2)
    BY DEF WeaponBed, FiringAfter, Good, Managers
  <1>6. QED
    BY <1>1, <1>2, <1>3, <1>4, <1>5, GrantsKept

LEMMA BoostGrants ==
  ASSUME Good(hm), NEW b \in Boosts, NEW lease \in {"off", "running"},
         lease = "running" \/ ~VehicleLive(hm)
  PROVE  Granted(hm) \subseteq Granted([hm EXCEPT ![b] = lease])
  <1> DEFINE m == [hm EXCEPT ![b] = lease]
  <1>1. b \in {"forward", "vertical"}
    BY BoostsAssumption
  <1>2. m.rumble = hm.rumble
    BY <1>1 DEF Good, Managers
  <1>3. ShipBed([hm EXCEPT !.rumble = FALSE]) = ShipBed([m EXCEPT !.rumble = FALSE])
    BY <1>1 DEF ShipBed, Good, Managers
  <1>4. VehicleBed(hm) \subseteq VehicleBed(m)
    BY <1>1 DEF VehicleBed, VehicleLive, Good, Managers
  <1>5. Thrusting(hm) = Thrusting(m) /\ hm.suppressed = m.suppressed
    BY <1>1 DEF Thrusting, Good, Managers
  <1>6. WeaponBed(hm, hm.r2) = WeaponBed(m, m.r2)
    BY <1>1 DEF WeaponBed, FiringAfter, Good, Managers
  <1>7. QED
    BY <1>2, <1>3, <1>4, <1>5, <1>6, GrantsKept

LEMMA Rev8Sound ==
  ASSUME Sound, Rev8
  PROVE  Sound'
  <1>1. Good(hm)
    BY DEF Sound
  <1>2. ASSUME NEW live \in BOOLEAN, MotionBlocked(live)
        PROVE  Sound'
    <2> DEFINE m == [hm EXCEPT !.motion = FALSE, !.chassis = FALSE, !.forward = "off",
                               !.vertical = "off"]
    <2>1. Good(m)
      BY <1>1 DEF Good, Owned, Managers, Leases
    <2>2. Submit("game", m, {}) \/ (~hm.vehicle /\ Record("game", m))
      BY <1>2 DEF MotionBlocked
    <2>3. ~hm.vehicle => Granted(hm) \subseteq Granted(m)
      BY <1>1, NoVehicleGrants
    <2> HIDE DEF m
    <2>4. QED
      BY <1>1, <2>1, <2>2, <2>3, SubmitSound, RecordSound, GameThread
  <1>3. ASSUME NEW e \in Epochs, MotionOfOtherEpoch(e)
        PROVE  Sound'
    BY <1>1, <1>3, NoDriveGood, SubmitSound, GameThread DEF MotionOfOtherEpoch
  <1>4. ASSUME NEW e \in Epochs, NEW moving \in BOOLEAN, Motion(e, moving)
        PROVE  Sound'
    <2> DEFINE m == [hm EXCEPT !.epoch = e, !.motion = TRUE, !.chassis = moving]
    <2>1. e # 0 /\ hm.production /\ hm.mask = {} /\ Submit("game", m, VehicleBed(m))
      BY <1>4, EpochsAssumption DEF Motion, Drivable
    <2>2. Good(m)
      BY <1>1, <2>1 DEF Good, Owned, Managers
    <2> HIDE DEF m
    <2>3. QED
      BY <1>1, <2>1, <2>2, VehicleBedGranted, SubmitSound, GameThread
  <1>5. ASSUME NEW b \in Boosts, NEW t \in {"wwise", "game"},
               BoostRefused(t, b) \/ BoostStart(t, b) \/ BoostStop(t, b)
        PROVE  Sound'
    <2>1. PICK lease \in {"off", "running"} :
             /\ hm.production \/ lease = "off"
             /\ \/ /\ lease = "running" \/ ~(VehicleLive(hm) /\ hm.epoch # 0)
                   /\ Record(t, [hm EXCEPT ![b] = lease])
                \/ Submit(t, [hm EXCEPT ![b] = lease], VehicleBed([hm EXCEPT ![b] = lease]))
      <3>1. CASE BoostRefused(t, b)
        BY <3>1 DEF BoostRefused
      <3>2. CASE BoostStart(t, b)
        BY <3>2 DEF BoostStart, VehicleLive
      <3>3. CASE BoostStop(t, b)
        BY <3>3 DEF BoostStop
      <3>4. QED
        BY <1>5, <3>1, <3>2, <3>3
    <2> DEFINE m == [hm EXCEPT ![b] = lease]
    <2>2. Good(m)
      BY <1>1, <2>1, BoostTyped DEF Leases
    <2>3. \/ (lease = "running" \/ ~VehicleLive(hm)) /\ Record(t, m)
          \/ Submit(t, m, VehicleBed(m))
      BY <1>1, <2>1 DEF VehicleLive, Good, Owned
    <2>4. lease = "running" \/ ~VehicleLive(hm) => Granted(hm) \subseteq Granted(m)
      BY <1>1, BoostGrants
    <2> HIDE DEF m
    <2>5. QED
      BY <2>2, <2>3, <2>4, VehicleBedGranted, SubmitSound, RecordSound, GameThread
  <1>6. QED
    BY <1>2, <1>3, <1>4, <1>5 DEF Rev8

-----------------------------------------------------------------------------
(* Weapons on foot.                                                        *)

LEMMA UnwatchedGood ==
  ASSUME NEW m, Good(m)
  PROVE  /\ Good(Unwatched(m))
         /\ LET u == Unwatched(m)
            IN  /\ u.suppressed = m.suppressed /\ u.armed = "off" /\ ~u.waiting
                /\ u.weapon = m.weapon
  BY DEF Unwatched, Good, Owned, Managers, Leases

\* On foot with a weapon: the handlers end with Fed or with the state itself.
LEMMA FootSubmit ==
  ASSUME Sound, NEW t \in Threads, NEW m, Good(m), NEW level, NEW l2,
         l2 = 0 \/ (level = m.r2 /\ l2 = m.r2),
         Submit(t, Fed(m, level), WeaponBed(m, l2))
  PROVE  Sound'
  <1>1. WeaponBed(m, l2) \in SUBSET Granted(Fed(m, level))
    BY FootBedGranted, ReleasedIsQuiet, GameThread DEF Good
  <1>2. QED
    BY <1>1, FedGood, SubmitSound

LEMMA EquipSound ==
  ASSUME Sound, NEW w \in Weapons, WeaponEquipped(w)
  PROVE  Sound'
  <1> DEFINE u == Unwatched(hm)
             on == w \in {"beam", "arc"}
             m == [u EXCEPT !.weapon = w, !.firing = FALSE, !.watchable = on]
  <1>1. Good(u) /\ ~u.suppressed /\ u.armed = "off" /\ ~u.waiting
    BY UnwatchedGood DEF WeaponEquipped, OnFoot, Sound
  <1>2. Submit("game", Fed(m, m.r2), WeaponBed(m, m.r2)) /\ on \in BOOLEAN
    BY DEF WeaponEquipped
  <1> HIDE DEF u, on
  <1>3. Good(m)
    BY <1>1, <1>2 DEF Good, Owned, Managers
  <1> HIDE DEF m
  <1>4. QED
    BY <1>2, <1>3, FootSubmit, GameThread

SameButWeapon(m) ==
  \E f, a, w, r, p :
     m = [hm EXCEPT !.firing = f, !.armed = a, !.waiting = w, !.r2 = r, !.paused = p]

\* Nothing but the weapon's part of what is granted depends on these.
LEMMA WeaponGrants ==
  ASSUME hm \in Managers, NEW m \in Managers, SameButWeapon(m),
         hm.suppressed \/ WeaponBed(hm, hm.r2) = {} \/ WeaponBed(m, m.r2) # {}
  PROVE  Granted(hm) \subseteq Granted(m)
  <1>1. hm.rumble => m.rumble
    BY DEF SameButWeapon, Managers
  <1>2. ShipBed([hm EXCEPT !.rumble = FALSE]) \subseteq ShipBed([m EXCEPT !.rumble = FALSE])
    BY DEF SameButWeapon, ShipBed, Managers
  <1>3. VehicleBed(hm) \subseteq VehicleBed(m)
    BY DEF VehicleBed, VehicleLive, SameButWeapon, Managers
  <1>4. ~hm.suppressed /\ Thrusting(hm) => ~m.suppressed /\ Thrusting(m)
    BY DEF Thrusting, SameButWeapon, Managers
  <1>5. ~hm.suppressed /\ WeaponBed(hm, hm.r2) # {} => ~m.suppressed /\ WeaponBed(m, m.r2) # {}
    <2>1. m.suppressed = hm.suppressed
      BY DEF SameButWeapon, Managers
    <2>2. QED
      BY <2>1
  <1>6. QED
    BY <1>1, <1>2, <1>3, <1>4, <1>5, GrantsKept

LEMMA PauseSound ==
  ASSUME Sound, GamePaused \/ GameUnpaused
  PROVE  Sound'
  <1>1. Good(hm) /\ RestTyped /\ Good(Unwatched(hm)) /\ Unwatched(hm).suppressed = hm.suppressed
    BY UnwatchedGood DEF Sound
  <1>2. CASE GamePaused
    <2> DEFINE u == Unwatched(hm)
               m == [u EXCEPT !.paused = TRUE, !.firing = FALSE]
    <2>1. Submit("game", m, {})
      BY <1>2 DEF GamePaused
    <2> HIDE DEF u
    <2>2. Good(m)
      BY <1>1 DEF u, Good, Owned, Managers
    <2> HIDE DEF m
    <2>3. QED
      BY <1>1, <2>1, <2>2, SubmitSound, GameThread
  <1>3. CASE GameUnpaused
    <2> DEFINE m == [hm EXCEPT !.paused = FALSE]
    <2>1. Record("game", m) /\ Good(m)
      BY <1>1, <1>3 DEF GameUnpaused, Good, Owned, Managers
    <2>2. hm.paused
      BY <1>3 DEF GameUnpaused
    <2>3. m \in Managers /\ m = [hm EXCEPT !.firing = hm.firing, !.armed = hm.armed,
                                            !.waiting = hm.waiting, !.r2 = hm.r2,
                                            !.paused = FALSE]
      BY <1>1, <2>1 DEF Good, Managers
    <2>4. WeaponBed(hm, hm.r2) = {}
      BY <2>2 DEF WeaponBed
    <2>5. Granted(hm) \subseteq Granted(m)
      BY <1>1, <2>3, <2>4, WeaponGrants DEF Good, SameButWeapon
    <2> HIDE DEF m
    <2>6. QED
      BY <2>1, <2>5, RecordSound, GameThread
  <1>4. QED
    BY <1>2, <1>3

\* Firing, the watch and the wait may take any value on foot.
LEMMA FireGood ==
  ASSUME Good(hm), ~hm.suppressed, NEW f \in BOOLEAN, NEW a \in Leases, NEW w \in BOOLEAN,
         a = "off" \/ hm.weapon = "beam", w => hm.weapon \in {"beam", "arc"} /\ hm.r2 = 0
  PROVE  /\ Good([hm EXCEPT !.firing = f, !.armed = a, !.waiting = w])
         /\ Good([hm EXCEPT !.firing = f, !.waiting = w])
         /\ Good([hm EXCEPT !.firing = f])
         /\ Good([[hm EXCEPT !.firing = f] EXCEPT !.armed = a])
  BY DEF Good, Owned, Managers

LEMMA FireSound ==
  ASSUME Sound, \/ \E b \in BOOLEAN : FireStart(b) \/ Charge(b)
                \/ FireEnd \/ WeaponFire
  PROVE  Sound'
  <1>1. Good(hm) /\ RestTyped /\ hm \in Managers
    BY DEF Sound, Good
  <1>2. ASSUME NEW b \in BOOLEAN, FireStart(b)
        PROVE  Sound'
    <2> DEFINE f == hm.firing \/ hm.family
               a == IF hm.watchable /\ hm.weapon = "beam" THEN "running" ELSE "off"
               w == hm.r2 = 0 /\ ~b
               m == [hm EXCEPT !.firing = f, !.armed = a, !.waiting = w]
    <2>1. f \in BOOLEAN /\ a \in Leases /\ w \in BOOLEAN /\ (a = "off" \/ hm.weapon = "beam")
          /\ (w => hm.weapon \in {"beam", "arc"} /\ hm.r2 = 0)
      BY <1>1, <1>2 DEF Managers, Leases, FireStart
    <2>2. /\ ~hm.suppressed
          /\ \/ w /\ Record("game", m)
             \/ Submit("game", Fed(m, m.r2), WeaponBed(m, m.r2))
      BY <1>1, <1>2 DEF FireStart, OnFoot, Managers
    <2> HIDE DEF f, a, w
    <2>3. Good(m)
      BY <1>1, <2>1, <2>2, FireGood
    <2>4. w => Granted(hm) \subseteq Granted(m)
      <3>1. w => WeaponBed(hm, hm.r2) = {}
        BY <1>1, <2>1, ReleasedIsQuiet
      <3>2. m = [hm EXCEPT !.firing = f, !.armed = a, !.waiting = w, !.r2 = hm.r2,
                           !.paused = hm.paused]
        BY <1>1 DEF Managers
      <3>3. m \in Managers
        BY <2>3 DEF Good
      <3> HIDE DEF m
      <3>4. QED
        BY <1>1, <3>1, <3>2, <3>3, WeaponGrants DEF SameButWeapon
    <2> HIDE DEF m
    <2>5. QED
      BY <2>2, <2>3, <2>4, FootSubmit, RecordSound, GameThread
  <1>3. ASSUME NEW b \in BOOLEAN, Charge(b)
        PROVE  Sound'
    <2>1. PICK f \in BOOLEAN :
             LET m == [hm EXCEPT !.firing = f]
             IN  Submit("game", Fed(m, m.r2), WeaponBed(m, m.r2))
      <3> DEFINE may == hm.weapon = "charge" \/ (~hm.paused /\ hm.menus = {})
                 f == IF ~hm.family THEN hm.firing ELSE IF b THEN hm.firing \/ may ELSE FALSE
                 m == [hm EXCEPT !.firing = f]
      <3>1. f \in BOOLEAN
        BY <1>1 DEF Managers
      <3>2. Submit("game", Fed(m, m.r2), WeaponBed(m, m.r2))
        BY <1>3 DEF Charge
      <3> HIDE DEF f
      <3>3. QED
        BY <3>1, <3>2
    <2> DEFINE m == [hm EXCEPT !.firing = f]
    <2>2. Good(m)
      BY <1>1, <1>3, FireGood DEF Charge, OnFoot, Leases
    <2>3. Submit("game", Fed(m, m.r2), WeaponBed(m, m.r2))
      BY <2>1
    <2> HIDE DEF m
    <2>4. QED
      BY <2>2, <2>3, FootSubmit, GameThread
  <1>4. CASE FireEnd
    <2> DEFINE arc == hm.weapon = "arc"
               f == hm.firing /\ ~(arc /\ hm.family)
               w == hm.waiting /\ ~(arc /\ hm.watchable)
               m == [hm EXCEPT !.firing = f, !.waiting = w]
    <2>1. f \in BOOLEAN /\ w \in BOOLEAN /\ (w => hm.weapon \in {"beam", "arc"} /\ hm.r2 = 0)
      BY <1>1 DEF Managers, Good, Owned
    <2>2. ~hm.suppressed /\ Submit("game", Fed(m, m.r2), WeaponBed(m, m.r2))
      BY <1>1, <1>4 DEF FireEnd, OnFoot, Managers
    <2> HIDE DEF f, w
    <2>3. Good(m)
      BY <1>1, <2>1, <2>2, FireGood DEF Leases
    <2> HIDE DEF m
    <2>4. QED
      BY <2>2, <2>3, FootSubmit, GameThread
  <1>5. CASE WeaponFire
    <2> DEFINE f == hm.firing /\ ~(hm.weapon \in {"charge", "rivet"} /\ hm.family)
               m == [hm EXCEPT !.firing = f]
               n == [m EXCEPT !.armed = "running"]
    <2>1. f \in BOOLEAN /\ ~hm.suppressed
      BY <1>1, <1>5 DEF Managers, WeaponFire, OnFoot
    <2>2. \/ hm.armed # "off" /\ Record("game", n)
          \/ hm.waiting /\ Record("game", m)
          \/ Submit("game", Fed(m, m.r2), WeaponBed(m, m.r2))
      BY <1>1, <1>5 DEF WeaponFire, Managers
    <2>3. hm.armed # "off" \/ hm.waiting => f = hm.firing
      BY <1>1 DEF Good, Owned, Managers
    <2> HIDE DEF f
    <2>4. Good(m) /\ (hm.armed # "off" => Good(n))
      <3>1. /\ "off" \in Leases /\ "running" \in Leases
            /\ hm.armed # "off" => hm.weapon = "beam"
            /\ hm.waiting => hm.weapon \in {"beam", "arc"} /\ hm.r2 = 0
            /\ hm.waiting \in BOOLEAN
        BY <1>1 DEF Leases, Good, Owned, Managers
      <3>2. Good(m)
        BY <1>1, <2>1, <3>1, FireGood
      <3>3. hm.armed # "off" => Good(n)
        BY <1>1, <2>1, <3>1, FireGood
      <3>4. QED
        BY <3>2, <3>3
    <2>5. /\ hm.waiting => Granted(hm) \subseteq Granted(m)
          /\ hm.armed # "off" => Granted(hm) \subseteq Granted(n)
      <3>1. hm.waiting => m = hm
        BY <1>1, <2>3 DEF Managers
      <3>2. hm.armed # "off" => n = [hm EXCEPT !.firing = hm.firing, !.armed = "running",
                                       !.waiting = hm.waiting, !.r2 = hm.r2, !.paused = hm.paused]
        BY <1>1, <2>3 DEF Managers
      <3>3. WeaponBed(hm, hm.r2) = WeaponBed([hm EXCEPT !.firing = hm.firing,
              !.armed = "running", !.waiting = hm.waiting, !.r2 = hm.r2, !.paused = hm.paused], hm.r2)
        BY <1>1 DEF WeaponBed, FiringAfter, Managers
      <3>4. /\ hm.armed # "off" => n \in Managers
            /\ hm.armed # "off" => n.r2 = hm.r2
        BY <1>1, <2>4 DEF Good, Managers
      <3> HIDE DEF m, n
      <3>5. CASE hm.armed # "off"
        <4>1. n \in Managers /\ n = [hm EXCEPT !.firing = hm.firing, !.armed = "running",
                                       !.waiting = hm.waiting, !.r2 = hm.r2, !.paused = hm.paused]
          BY <3>2, <3>4, <3>5
        <4>2. WeaponBed(hm, hm.r2) = WeaponBed(n, n.r2)
          BY <3>3, <3>4, <3>5, <4>1
        <4>3. QED
          BY <1>1, <3>1, <4>1, <4>2, WeaponGrants DEF SameButWeapon
      <3>6. QED
        BY <3>1, <3>5
    <2> HIDE DEF m, n
    <2>6. QED
      BY <2>2, <2>4, <2>5, FootSubmit, RecordSound, GameThread
  <1>6. QED
    BY <1>2, <1>3, <1>4, <1>5

-----------------------------------------------------------------------------
(* R2.                                                                     *)

LEMMA ReleasedIsSame ==
  ASSUME Good(hm)
  PROVE  SameButWeapon(Sampled(0))
  <1>1. Sampled(0) = [hm EXCEPT !.firing = hm.firing, !.armed = "off", !.waiting = hm.waiting,
                                !.r2 = 0, !.paused = hm.paused]
    BY DEF Sampled, Good, Managers
  <1> DEFINE n == Sampled(0)
             released == 0
  <1> HIDE DEF n, released
  <1>2. n = [hm EXCEPT !.firing = hm.firing, !.armed = "off", !.waiting = hm.waiting,
                       !.r2 = released, !.paused = hm.paused]
    BY <1>1 DEF n, released
  <1>3. SameButWeapon(n)
    BY <1>2 DEF SameButWeapon
  <1>4. QED
    BY <1>3 DEF n

LEMMA SampledGood ==
  ASSUME Good(hm), NEW level \in 0..2
  PROVE  /\ hm.suppressed => /\ Good([hm EXCEPT !.r2 = level])
                             /\ Good([[hm EXCEPT !.r2 = level] EXCEPT !.laser = "off"])
         /\ Good([Sampled(level) EXCEPT !.waiting = FALSE])
         /\ hm.waiting => Good(Sampled(0)) /\ SameButWeapon(Sampled(0))
  <1> DEFINE a(l) == IF l = 0 THEN "off" ELSE hm.armed
             s(l) == [hm EXCEPT !.r2 = l, !.armed = a(l)]
  <1>1. \A l \in 0..2 : a(l) \in Leases /\ (a(l) # "off" => hm.armed # "off")
    BY DEF Good, Managers, Leases
  <1>2. \A l \in 0..2 : Sampled(l) = s(l)
    BY DEF Sampled, Good, Managers
  <1> HIDE DEF a
  <1>3. Good([s(level) EXCEPT !.waiting = FALSE])
    BY <1>1 DEF Good, Owned, Managers
  <1>4. hm.waiting => Good(s(0))
    BY <1>1 DEF Good, Owned, Managers
  <1>5. SameButWeapon(Sampled(0))
    BY ReleasedIsSame
  <1> HIDE DEF s
  <1>6. hm.suppressed => Good([hm EXCEPT !.r2 = level])
    BY DEF Good, Owned, Managers
  <1> DEFINE n == [hm EXCEPT !.r2 = level]
  <1> HIDE DEF n
  <1>7. hm.suppressed => Good([n EXCEPT !.laser = "off"])
    BY <1>6 DEF n, Good, Owned, Managers, Leases
  <1>8. Sampled(level) = s(level) /\ Sampled(0) = s(0)
    BY <1>2
  <1>9. QED
    BY <1>3, <1>4, <1>5, <1>6, <1>7, <1>8 DEF n

LEMMA AfterFootGood ==
  ASSUME NEW m, Good(m)
  PROVE  Good(AfterFoot(m)) /\ Good(AfterContext(m))
  BY FedGood DEF AfterFoot, AfterContext

LEMMA R2Sound ==
  ASSUME Sound, \/ \E level \in 0..2 : R2Suppressed(level) \/ R2Late(level) \/ R2OnFoot(level)
                \/ R2Stale
  PROVE  Sound'
  <1>1. Good(hm)
    BY DEF Sound
  <1>2. ASSUME NEW level \in 0..2, R2Suppressed(level)
        PROVE  Sound'
    <2> DEFINE m == [hm EXCEPT !.r2 = level]
               quiet == [m EXCEPT !.laser = "off"]
    <2>1. Submit("worker", quiet, ShipBed(quiet)) \/ Record("worker", m)
      BY <1>2 DEF R2Suppressed
    <2>2. hm.suppressed /\ Good(m) /\ Good(quiet)
      BY <1>1, <1>2, SampledGood DEF R2Suppressed
    <2>3. SameButWeapon(m)
      <3>1. m = [hm EXCEPT !.firing = hm.firing, !.armed = hm.armed, !.waiting = hm.waiting,
                           !.r2 = level, !.paused = hm.paused]
        BY <1>1 DEF Good, Managers
      <3> HIDE DEF m
      <3>2. QED
        BY <3>1 DEF SameButWeapon
    <2> HIDE DEF m, quiet
    <2>4. Granted(hm) \subseteq Granted(m)
      BY <1>1, <2>2, <2>3, WeaponGrants DEF Good
    <2>5. QED
      BY <2>1, <2>2, <2>4, ShipBedGranted, SubmitSound, RecordSound, GameThread
  <1>3. ASSUME NEW level \in 0..2, R2Late(level)
        PROVE  Sound'
    <2> DEFINE m == [Sampled(level) EXCEPT !.waiting = FALSE]
    <2>1. Submit("worker", Fed(m, 0), WeaponBed(m, 0)) /\ Good(m)
      BY <1>1, <1>3, SampledGood DEF R2Late
    <2> HIDE DEF m
    <2>2. QED
      BY <2>1, FootSubmit, GameThread
  <1>4. ASSUME NEW level \in 0..2, R2OnFoot(level)
        PROVE  Sound'
    <2> DEFINE m == [Sampled(level) EXCEPT !.waiting = FALSE]
    <2>1. Submit("worker", AfterFoot(m), FootBed(m)) /\ Good(m)
      BY <1>1, <1>4, SampledGood DEF R2OnFoot
    <2> HIDE DEF m
    <2>2. QED
      BY <2>1, AfterFootGood, FootBedGranted, SubmitSound, GameThread
  <1>5. CASE R2Stale
    <2>1. /\ hm.waiting /\ hm.r2 = 0 /\ Record("worker", Sampled(0))
          /\ Good(Sampled(0)) /\ SameButWeapon(Sampled(0))
      <3>1. hm.waiting /\ hm.r2 = 0 /\ Record("worker", Sampled(0)) /\ 0 \in 0..2
        BY <1>1, <1>5 DEF R2Stale, Good, Owned
      <3>2. QED
        BY <1>1, <3>1, SampledGood
    <2>2. Granted(hm) \subseteq Granted(Sampled(0))
      BY <1>1, <2>1, ReleasedIsQuiet, WeaponGrants DEF Good
    <2>3. QED
      BY <2>1, <2>2, RecordSound, GameThread
  <1>6. QED
    BY <1>2, <1>3, <1>4, <1>5

-----------------------------------------------------------------------------
(* The boost pack, the settings and the handing over.                      *)

\* A thread goes on to another step with what it has.
LEMMA StepTyped ==
  ASSUME RestTyped, NEW t \in Threads, NEW step \in Steps \ {"write"},
         pending' = [pending EXCEPT ![t].at = step]
  PROVE  /\ pending' \in [Threads -> Handover]
         /\ \A u \in Threads : pending'[u].at = "write" => pending'[u].side # "none"
  BY DEF RestTyped, Handover

LEMMA StepNames == /\ "start" \in Steps \ {"write"} /\ "stop" \in Steps \ {"write"}
                   /\ "compose" \in Steps \ {"write"} /\ "look" \in Steps \ {"write"}
                   /\ "forced" \in Steps \ {"write"} /\ "off" \in Leases /\ "running" \in Leases
  BY DEF Steps, Leases

\* A call that was decided is neither a composition nor the settings page's.
LEMMA CallTold ==
  ASSUME Sound, NEW t \in Threads, Idle(t), NEW call \in {"start", "stop"},
         pending' = [pending EXCEPT ![t].at = call], UNCHANGED <<hm, enabled, backend, newest>>
  PROVE  Told'
  <1>1. "settings" \in Threads /\ newest \in Threads /\ newest' = newest
    BY DEF Threads, Sound, RestTyped
  <1>2. /\ pending'[t].at = call
        /\ \A u \in Threads \ {t} : pending'[u] = pending[u]
    BY DEF Sound, RestTyped, Handover
  <1>3. /\ InFlight(newest)' <=> InFlight(newest)
        /\ InFlight(newest) => pending'[newest].bed = pending[newest].bed
    BY <1>1, <1>2 DEF InFlight, Idle
  <1>4. (Composing' <=> Composing) /\ (Silencing' <=> Silencing)
    BY <1>1, <1>2 DEF Composing, Silencing, Idle
  <1>5. Vibrates' = Vibrates /\ crossed' = crossed /\ enabled' = enabled /\ hm' = hm
    BY DEF Vibrates, backend
  <1>6. \A u \in Threads : pending'[u].at \in {"forced", "compose"} => u = "settings"
    BY <1>2 DEF Sound, Told
  <1>7. /\ pending'[newest].at = "write" => pending'[newest] = pending[newest]
        /\ pending'["settings"].at \in {"forced", "write"} =>
              pending'["settings"] = pending["settings"]
    BY <1>1, <1>2
  <1>8. Told
    BY DEF Sound
  <1>9. Granted(hm)' = Granted(hm)
    BY <1>5
  <1>10. CASE enabled
    BY <1>1, <1>3, <1>4, <1>5, <1>6, <1>8, <1>9, <1>10 DEF Told
  <1>11. CASE ~enabled
    BY <1>1, <1>4, <1>5, <1>6, <1>7, <1>8, <1>11 DEF Told
  <1>12. QED
    BY <1>10, <1>11

LEMMA DecideSound ==
  ASSUME Sound, NEW t \in Threads, NEW next \in Leases, NEW call \in {"start", "stop"},
         Decide(t, next, call)
  PROVE  Sound'
  <1>1. RestTyped'
    BY StepTyped, StepNames DEF Decide, Sound, RestTyped, backend
  <1>2. hm' = hm
    BY DEF Decide
  <1>3. Told'
    BY CallTold DEF Decide
  <1>4. QED
    BY <1>1, <1>2, <1>3 DEF Sound, Good, Owned, Managers

LEMMA JetSound ==
  ASSUME Sound, Jet \/ JetTick
  PROVE  Sound'
  <1>1. CASE JetThrust \/ JetTick \/ \E t \in {"wwise", "game"} : JetEnds(t)
    BY <1>1, DecideSound, StepNames, GameThread DEF JetThrust, JetEnds, JetTick
  <1>2. ASSUME NEW on \in BOOLEAN, Eligible(on)
        PROVE  Sound'
    <2>1. \/ pending' = pending
          \/ pending' = [pending EXCEPT !["game"].at = "stop"]
      BY <1>2 DEF Eligible
    <2>2. /\ pending' \in [Threads -> Handover]
          /\ \A u \in Threads : pending'[u].at = "write" => pending'[u].side # "none"
      BY <2>1, StepTyped, StepNames, GameThread DEF Sound, RestTyped
    <2>3. RestTyped' /\ hm' = hm
      BY <1>2, <2>2, StepNames DEF Eligible, Sound, RestTyped, backend
    <2>4. Told'
      <3>1. UNCHANGED <<hm, enabled, backend, newest>> /\ Idle("game")
        BY <1>2 DEF Eligible, Game
      <3>2. CASE pending' = pending
        BY <3>1, <3>2, KeptTold DEF Sound
      <3>3. CASE pending' = [pending EXCEPT !["game"].at = "stop"]
        BY <3>1, <3>3, CallTold, GameThread
      <3>4. QED
        BY <2>1, <3>2, <3>3
    <2>5. QED
      BY <2>3, <2>4 DEF Sound, Good, Owned, Managers
  <1>3. QED
    BY <1>1, <1>2 DEF Jet

\* A composition made in a second hold of the mutex.
LEMMA ComposeSound ==
  ASSUME Sound, NEW t \in Threads, ~InFlight(t),
         NEW step \in {"look", "forced"}, step = "look" \/ (t = "settings" /\ enabled),
         NEW bed \in SUBSET Granted(hm'), Hand(t, step, bed), Leave, Good(hm')
  PROVE  Sound'
  <1>1. RestTyped'
    BY HandTyped, StepNames, GrantedAreSources DEF Sound, RestTyped, Leave, shared, backend
  <1>2. Told'
    BY HandTold DEF Sound, Leave, shared
  <1>3. QED
    BY <1>1, <1>2 DEF Sound, Good, Owned, Managers

\* A thread drops what it has not composed, or what the master switch refuses.
LEMMA DropTold ==
  ASSUME Sound, NEW t \in Threads, pending' = [pending EXCEPT ![t] = Quiet],
         \/ ~InFlight(t) /\ pending[t].at = "start"
         \/ pending[t].at = "look" /\ ~enabled,
         UNCHANGED <<hm, enabled, backend, newest>>
  PROVE  Told'
  <1>1. "settings" \in Threads /\ newest \in Threads /\ newest' = newest
    BY DEF Threads, Sound, RestTyped
  <1>2. /\ pending'[t].at = "idle"
        /\ \A u \in Threads \ {t} : pending'[u] = pending[u]
    BY DEF Sound, RestTyped, Quiet
  <1>3. Vibrates' = Vibrates /\ crossed' = crossed /\ enabled' = enabled /\ hm' = hm
        /\ Told /\ Granted(hm)' = Granted(hm)
    BY DEF Vibrates, backend, Sound
  <1>4. \A u \in Threads : pending'[u].at \in {"forced", "compose"} => u = "settings"
    BY <1>2 DEF Sound, Told
  <1>5. (Composing' <=> Composing) /\ (Silencing' <=> Silencing)
    BY <1>1, <1>2 DEF Composing, Silencing
  <1>6. CASE enabled
    <2>1. /\ InFlight(newest)' <=> InFlight(newest)
          /\ InFlight(newest) => pending'[newest].bed = pending[newest].bed
      BY <1>1, <1>2, <1>6 DEF InFlight
    <2>2. QED
      BY <1>1, <1>3, <1>4, <1>5, <1>6, <2>1 DEF Told
  <1>7. CASE ~enabled
    <2>1. /\ pending'[newest].at = "write" => pending'[newest] = pending[newest]
          /\ pending'["settings"].at \in {"forced", "write"} =>
                pending'["settings"] = pending["settings"]
      BY <1>1, <1>2
    <2>2. QED
      BY <1>1, <1>3, <1>4, <1>5, <1>7, <2>1 DEF Told
  <1>8. QED
    BY <1>6, <1>7

LEMMA ThrustSound ==
  ASSUME Sound, NEW t \in Threads, StartThrust(t) \/ StopThrust(t)
  PROVE  Sound'
  <1>1. Good(hm) /\ ~InFlight(t)
    BY DEF Sound, InFlight, StartThrust, StopThrust
  <1>2. CASE StartThrust(t)
    <2> DEFINE blocked == hm.suppressed \/ hm.pilot \/ hm.vehicle
               on == ~blocked
               m == [hm EXCEPT !.thrust = on]
    <2>1. on \in BOOLEAN /\ (on => ~hm.suppressed)
      OBVIOUS
    <2>2. /\ hm' = IF blocked THEN m ELSE AfterFoot(m)
          /\ \/ blocked /\ pending' = [pending EXCEPT ![t] = Quiet] /\ UNCHANGED newest
             \/ ~blocked /\ Hand(t, "look", FootBed(m))
          /\ Leave /\ pending[t].at = "start"
      BY <1>2 DEF StartThrust
    <2> HIDE DEF on
    <2>3. Good(m) /\ (blocked => m = hm)
      <3>1. Good(m)
        BY <1>1, <2>1 DEF Good, Owned, Managers
      <3>2. blocked => ~hm.thrust /\ ~on
        BY <1>1 DEF on, Good, Owned
      <3>3. blocked => m = hm
        BY <1>1, <2>1, <3>2 DEF Good, Managers
      <3>4. QED
        BY <3>1, <3>3
    <2> HIDE DEF m, blocked
    <2>4. Good(hm')
      BY <2>2, <2>3, AfterFootGood
    <2>5. CASE ~blocked /\ Hand(t, "look", FootBed(m))
      <3>1. hm' = AfterFoot(m)
        BY <2>2, <2>5
      <3>2. FootBed(m) \in SUBSET Granted(hm')
        BY <2>3, <3>1, FootBedGranted
      <3>3. QED
        BY <1>1, <2>2, <2>4, <2>5, <3>2, ComposeSound
    <2>6. CASE blocked /\ pending' = [pending EXCEPT ![t] = Quiet] /\ UNCHANGED newest
      <3>1. RestTyped'
        BY <2>2, <2>6, QuietTyped DEF Sound, RestTyped, Leave, shared, backend, Quiet
      <3>2. Told'
        BY <1>1, <2>2, <2>3, <2>6, DropTold DEF Leave, shared
      <3>3. QED
        BY <3>1, <3>2, <2>4 DEF Sound, Good, Owned, Managers
    <2>7. QED
      BY <2>2, <2>5, <2>6
  <1>3. CASE StopThrust(t)
    <2> DEFINE m == [hm EXCEPT !.thrust = FALSE]
    <2>1. /\ hm' = AfterContext(m) /\ Hand(t, "look", ContextBed(m)) /\ Leave
          /\ Good(m)
      BY <1>1, <1>3 DEF StopThrust, Good, Owned, Managers
    <2> HIDE DEF m
    <2>2. Good(hm') /\ ContextBed(m) \in SUBSET Granted(hm')
      BY <2>1, AfterFootGood, FootBedGranted
    <2>3. QED
      BY <1>1, <2>1, <2>2, ComposeSound
  <1>4. QED
    BY <1>2, <1>3

\* A composition goes from the switch and the link to its store.
LEMMA AdvanceTold ==
  ASSUME Sound, NEW t \in Threads, NEW p, pending' = [pending EXCEPT ![t] = p],
         p.at = "write", p.bed = pending[t].bed,
         pending[t].at = "forced" \/ (pending[t].at = "look" /\ enabled),
         UNCHANGED <<hm, enabled, backend, newest>>
  PROVE  Told'
  <1>1. "settings" \in Threads /\ newest \in Threads /\ newest' = newest
    BY DEF Threads, Sound, RestTyped
  <1>2. /\ pending'[t].at = "write" /\ pending'[t].bed = pending[t].bed
        /\ \A u \in Threads \ {t} : pending'[u] = pending[u]
        /\ \A u \in Threads : pending'[u].bed = pending[u].bed
    BY DEF Sound, RestTyped
  <1>3. Vibrates' = Vibrates /\ crossed' = crossed /\ enabled' = enabled /\ hm' = hm
        /\ Told /\ Granted(hm)' = Granted(hm)
    BY DEF Vibrates, backend, Sound
  <1>4. \A u \in Threads : pending'[u].at \in {"forced", "compose"} => u = "settings"
    BY <1>2 DEF Sound, Told
  <1>5. (Composing' <=> Composing) /\ (InFlight(newest)' <=> InFlight(newest))
    BY <1>1, <1>2 DEF Composing, InFlight
  <1>6. CASE enabled
    BY <1>1, <1>2, <1>3, <1>4, <1>5, <1>6 DEF Told
  <1>7. CASE ~enabled
    <2>1. t = "settings" /\ pending[t].at = "forced" /\ pending[t].bed = {}
      BY <1>3, <1>7 DEF Told
    <2>2. Silencing'
      BY <1>2, <2>1 DEF Silencing
    <2>3. /\ pending'[newest].at = "write" => pending'[newest].bed = {}
          /\ pending'["settings"].bed = {}
      BY <1>1, <1>2, <1>3, <1>7, <2>1 DEF Told
    <2>4. QED
      BY <1>1, <1>3, <1>4, <1>5, <1>7, <2>2, <2>3 DEF Told
  <1>8. QED
    BY <1>6, <1>7

\* A store that does not cross leaves no more than its composition vibrating.
LEMMA WriteVibrates ==
  ASSUME Sound, NEW t \in Threads, Write(t)
  PROVE  crossed' \/ (Vibrates' \subseteq pending[t].bed /\ (newest = t \/ pending[t].bed = {}))
  <1> SUFFICES ASSUME ~crossed'
               PROVE  Vibrates' \subseteq pending[t].bed /\ (newest = t \/ pending[t].bed = {})
    OBVIOUS
  <1>1. /\ (pending[t].side = "bluetooth") = (link = "bluetooth")
        /\ newest = t \/ pending[t].bed = {}
        /\ link' = link /\ link \in Links
    BY DEF Write, Sound, RestTyped
  <1>2. pending[t].side \in {"usb", "bluetooth"}
    BY DEF Write, Sound, RestTyped, Handover
  <1>3. CASE link = "bluetooth"
    BY <1>1, <1>2, <1>3 DEF Write, Vibrates
  <1>4. CASE link = "usb"
    BY <1>1, <1>2, <1>4 DEF Write, Vibrates
  <1>5. CASE link = "none"
    BY <1>1, <1>5 DEF Vibrates
  <1>6. QED
    BY <1>1, <1>3, <1>4, <1>5 DEF Links

LEMMA WriteTold ==
  ASSUME Sound, NEW t \in Threads, Write(t)
  PROVE  Told'
  <1>1. "settings" \in Threads /\ newest \in Threads /\ newest' = newest
    BY DEF Threads, Sound, RestTyped, Write
  <1>2. /\ pending[t].at = "write" /\ pending'[t].at = "idle"
        /\ \A u \in Threads \ {t} : pending'[u] = pending[u]
    BY DEF Sound, RestTyped, Quiet, Write
  <1>3. enabled' = enabled /\ hm' = hm /\ Told /\ Granted(hm)' = Granted(hm)
    BY DEF Sound, Write, shared
  <1>4. \A u \in Threads : pending'[u].at \in {"forced", "compose"} => u = "settings"
    BY <1>2, <1>3 DEF Told
  <1>5. Composing' <=> Composing
    BY <1>1, <1>2 DEF Composing
  <1>6. CASE enabled
    <2>1. InFlight(newest)' => newest # t /\ InFlight(newest) /\ pending'[newest] = pending[newest]
      BY <1>1, <1>2 DEF InFlight
    <2>2. crossed' \/ Composing \/ Vibrates' \subseteq Granted(hm)
      <3>1. newest = t => InFlight(newest)
        BY <1>2 DEF InFlight
      <3>2. QED
        BY <1>3, <1>6, <3>1, WriteVibrates DEF Told
    <2>3. QED
      BY <1>1, <1>3, <1>4, <1>5, <1>6, <2>1, <2>2 DEF Told
  <1>7. CASE ~enabled
    <2>1. crossed' \/ Vibrates' = {}
      BY <1>2, <1>3, <1>7, WriteVibrates DEF Told
    <2>2. /\ pending'[newest].at = "write" => pending'[newest] = pending[newest]
          /\ pending'["settings"].at \in {"forced", "write"} =>
                pending'["settings"] = pending["settings"]
      BY <1>1, <1>2
    <2>3. QED
      BY <1>1, <1>3, <1>4, <1>5, <1>7, <2>1, <2>2 DEF Told
  <1>8. QED
    BY <1>6, <1>7

LEMMA LookSound ==
  ASSUME Sound, NEW t \in Threads, Look(t) \/ LookForced(t) \/ Write(t)
  PROVE  Sound'
  <1>1. CASE Look(t) \/ LookForced(t)
    <2> DEFINE s == IF link = "bluetooth" THEN "bluetooth" ELSE "usb"
               p == [pending[t] EXCEPT !.at = "write", !.side = s]
    <2>1. p \in Handover /\ p.side # "none"
      BY DEF Sound, RestTyped, Handover, Steps
    <2>2. pending' = [pending EXCEPT ![t] = p] \/ pending' = [pending EXCEPT ![t] = Quiet]
      BY <1>1 DEF Look, LookForced
    <2> HIDE DEF p
    <2>3. /\ pending' \in [Threads -> Handover]
          /\ \A u \in Threads : pending'[u].at = "write" => pending'[u].side # "none"
      <3>1. Quiet.at = "idle" /\ Quiet \in Handover
        BY QuietTyped DEF Quiet
      <3>2. PICK q \in Handover : /\ pending' = [pending EXCEPT ![t] = q]
                                  /\ q.at = "write" => q.side # "none"
        BY <2>1, <2>2, <3>1
      <3>3. QED
        BY <3>2 DEF Sound, RestTyped
    <2>4. UNCHANGED <<scenario, open, hm, shared, backend, newest>>
      BY <1>1 DEF Look, LookForced
    <2>5. RestTyped' /\ hm' = hm
      BY <2>3, <2>4 DEF Sound, RestTyped, shared, backend
    <2>6. Told'
      <3>1. CASE pending[t].at = "look" /\ ~enabled
        BY <1>1, <2>4, <3>1, DropTold DEF Look, LookForced, shared
      <3>2. CASE pending[t].at = "forced" \/ (pending[t].at = "look" /\ enabled)
        <4>1. pending' = [pending EXCEPT ![t] = p]
          BY <1>1, <3>2 DEF p, Look, LookForced
        <4>2. p.at = "write" /\ p.bed = pending[t].bed
          BY DEF p, Sound, RestTyped, Handover
        <4>3. QED
          BY <2>4, <3>2, <4>1, <4>2, AdvanceTold DEF shared
      <3>3. QED
        BY <1>1, <3>1, <3>2 DEF Look, LookForced
    <2>7. QED
      BY <2>5, <2>6 DEF Sound, Good, Owned, Managers
  <1>2. CASE Write(t)
    <2>1. pending[t].bed \subseteq Sources
      BY DEF Sound, RestTyped, Handover
    <2>2. wired' \subseteq Sources /\ bt' \subseteq Sources /\ crossed' \in BOOLEAN
      BY <1>2, <2>1 DEF Write, Sound, RestTyped
    <2>3. RestTyped' /\ hm' = hm
      BY <1>2, <2>2, QuietTyped DEF Write, Sound, RestTyped, shared, Quiet
    <2>4. QED
      BY <1>2, <2>3, WriteTold DEF Sound, Good, Owned, Managers
  <1>3. QED
    BY <1>1, <1>2

\* The same switches leave what is granted.
LEMMA SwitchGrants ==
  ASSUME Good(hm), NEW f \in BOOLEAN, hm.firing /\ (hm.family \/ hm.weapon = "none") => f,
         hm' = [hm EXCEPT !.boost = hm.boost, !.family = hm.family, !.firing = f]
  PROVE  Granted(hm) \subseteq Granted(hm')
  <1> DEFINE m == [hm EXCEPT !.boost = hm.boost, !.family = hm.family, !.firing = f]
  <1>1. m \in Managers
    BY DEF Good, Managers
  <1>2. m = [hm EXCEPT !.firing = f, !.armed = hm.armed, !.waiting = hm.waiting, !.r2 = hm.r2,
                       !.paused = hm.paused]
    BY DEF Good, Managers
  <1>3. hm' = m
    OBVIOUS
  <1>4. WeaponBed(hm, hm.r2) # {} => WeaponBed(m, m.r2) # {}
    BY DEF WeaponBed, FiringAfter, Good, Managers
  <1> HIDE DEF m
  <1>5. SameButWeapon(m)
    BY <1>2 DEF SameButWeapon
  <1>6. Granted(hm) \subseteq Granted(m)
    BY <1>1, <1>4, <1>5, WeaponGrants DEF Good
  <1>7. QED
    BY <1>3, <1>6

LEMMA SettingsTold ==
  ASSUME Sound, NEW on \in BOOLEAN, NEW boost \in BOOLEAN, NEW family \in BOOLEAN,
         NEW changed \in BOOLEAN, ApplySettings(on, boost, family, changed)
  PROVE  Told'
  <1>1. "settings" \in Threads /\ newest \in Threads /\ Told /\ Good(hm) /\ RestTyped
    BY DEF Threads, Sound, RestTyped
  <1>2. /\ pending["settings"].at = "idle" /\ enabled' = on
        /\ Vibrates' = Vibrates /\ crossed' = crossed
    BY DEF ApplySettings, Idle, Vibrates, backend
  <1>3. CASE on /\ pending' = [pending EXCEPT !["settings"].at = "compose"] /\ newest' = newest
    <2>1. /\ pending'["settings"].at = "compose"
          /\ \A u \in Threads \ {"settings"} : pending'[u] = pending[u]
      BY <1>1, <1>3 DEF RestTyped, Handover
    <2>2. \A u \in Threads : pending'[u].at \in {"forced", "compose"} => u = "settings"
      BY <1>1, <2>1 DEF Told
    <2>3. Composing' /\ enabled'
      BY <1>2, <1>3, <2>1 DEF Composing
    <2>4. QED
      BY <2>2, <2>3 DEF Told
  <1>4. CASE on /\ enabled /\ boost = hm.boost /\ family = hm.family /\ UNCHANGED <<pending, newest>>
    <2>1. Granted(hm) \subseteq Granted(hm')
      <3> DEFINE f == hm.firing /\ (hm.family \/ hm.weapon = "none")
      <3>1. hm' = [hm EXCEPT !.boost = hm.boost, !.family = hm.family, !.firing = f]
            /\ f \in BOOLEAN
        BY <1>1, <1>4 DEF ApplySettings, Good, Managers
      <3>2. hm.firing /\ (hm.family \/ hm.weapon = "none") => f
        OBVIOUS
      <3> HIDE DEF f
      <3>3. QED
        BY <1>1, <3>1, <3>2, SwitchGrants
    <2>2. UNCHANGED <<enabled, pending, newest, backend>>
      BY <1>2, <1>4, <1>1 DEF ApplySettings, RestTyped
    <2>3. QED
      BY <1>1, <2>1, <2>2, KeptTold
  <1>5. CASE ~on /\ Hand("settings", "forced", {})
    <2>1. /\ pending'["settings"].at = "forced" /\ pending'["settings"].bed = {}
          /\ newest' = "settings"
          /\ \A u \in Threads \ {"settings"} : pending'[u] = pending[u]
      BY <1>1, <1>5, HandedOver
    <2>2. \A u \in Threads : pending'[u].at \in {"forced", "compose"} => u = "settings"
      BY <1>1, <2>1 DEF Told
    <2>3. ~Composing' /\ Silencing' /\ ~enabled'
      BY <1>2, <1>5, <2>1 DEF Composing, Silencing
    <2>4. QED
      BY <2>1, <2>2, <2>3 DEF Told
  <1>6. CASE ~on /\ ~enabled /\ UNCHANGED <<pending, newest>>
    <2>1. ~enabled' /\ (Composing' <=> Composing) /\ (Silencing' <=> Silencing)
          /\ pending' = pending /\ newest' = newest
      BY <1>2, <1>6 DEF Composing, Silencing
    <2>2. QED
      BY <1>1, <1>2, <1>6, <2>1 DEF Told
  <1>7. QED
    BY <1>1, <1>3, <1>4, <1>5, <1>6 DEF ApplySettings

LEMMA SettingsSound ==
  ASSUME Sound, \/ ComposeSettings
                \/ \E on, boost, family, changed \in BOOLEAN :
                      ApplySettings(on, boost, family, changed)
  PROVE  Sound'
  <1>1. Good(hm)
    BY DEF Sound
  <1>2. CASE ComposeSettings
    <2>1. /\ hm' = AfterContext(hm) /\ Hand("settings", "forced", ContextBed(hm)) /\ Leave
          /\ Good(hm') /\ ContextBed(hm) \in SUBSET Granted(hm')
      BY <1>1, <1>2, AfterFootGood, FootBedGranted DEF ComposeSettings
    <2>2. enabled /\ ~InFlight("settings")
      BY <1>2 DEF ComposeSettings, Sound, Told, Composing, InFlight
    <2>3. QED
      BY <2>1, <2>2, ComposeSound, GameThread
  <1>3. ASSUME NEW on \in BOOLEAN, NEW boost \in BOOLEAN, NEW family \in BOOLEAN,
               NEW changed \in BOOLEAN, ApplySettings(on, boost, family, changed)
        PROVE  Sound'
    <2> DEFINE f == hm.firing /\ (family \/ hm.weapon = "none")
               m == [hm EXCEPT !.boost = boost, !.family = family, !.firing = f]
    <2>1. hm' = m /\ f \in BOOLEAN /\ (f => hm.firing)
      BY <1>1, <1>3 DEF ApplySettings, Good, Managers
    <2> HIDE DEF f
    <2>2. Good(hm')
      <3>1. m \in Managers
        BY <1>1, <2>1 DEF Good, Managers
      <3>2. Owned(m)
        BY <1>1, <2>1 DEF Good, Owned, Managers
      <3> HIDE DEF m
      <3>3. QED
        BY <2>1, <3>1, <3>2 DEF Good
    <2>3. /\ pending' \in [Threads -> Handover] /\ newest' \in Threads
          /\ \A u \in Threads : pending'[u].at = "write" => pending'[u].side # "none"
      <3>1. CASE pending' = pending /\ newest' = newest
        BY <3>1 DEF Sound, RestTyped
      <3>2. CASE pending' = [pending EXCEPT !["settings"].at = "compose"] /\ newest' = newest
        BY <3>2, StepTyped, StepNames, GameThread DEF Sound, RestTyped
      <3>3. CASE Hand("settings", "forced", {})
        BY <3>3, HandTyped, StepNames, GameThread DEF Sound
      <3>4. QED
        BY <1>3, <3>1, <3>2, <3>3 DEF ApplySettings
    <2>4. RestTyped'
      BY <1>3, <2>3 DEF ApplySettings, Sound, RestTyped, backend
    <2>5. Told'
      BY <1>3, SettingsTold
    <2>6. QED
      BY <2>2, <2>4, <2>5 DEF Sound, Good, Owned, Managers
  <1>4. QED
    BY <1>2, <1>3

-----------------------------------------------------------------------------
(* Time and the link.                                                      *)

\* A lease that is due still vibrates.
LEMMA ElapseGrants ==
  ASSUME Good(hm), NEW l \in ManagedLeases, hm[l] # "off"
  PROVE  Granted(hm) \subseteq Granted([hm EXCEPT ![l] = "due"])
  <1> DEFINE m == [hm EXCEPT ![l] = "due"]
  <1>1. l \in {"laser", "forward", "vertical", "armed"}
    BY DEF ManagedLeases
  <1>2. hm.rumble => m.rumble
    BY <1>1 DEF Good, Managers
  <1>3. ShipBed([hm EXCEPT !.rumble = FALSE]) \subseteq ShipBed([m EXCEPT !.rumble = FALSE])
    BY <1>1 DEF ShipBed, Good, Managers
  <1>4. VehicleBed(hm) \subseteq VehicleBed(m)
    BY <1>1 DEF VehicleBed, VehicleLive, Good, Managers
  <1>5. ~hm.suppressed /\ Thrusting(hm) => ~m.suppressed /\ Thrusting(m)
    BY <1>1 DEF Thrusting, Good, Managers
  <1>6. ~hm.suppressed /\ WeaponBed(hm, hm.r2) # {} => ~m.suppressed /\ WeaponBed(m, m.r2) # {}
    BY <1>1 DEF WeaponBed, FiringAfter, Good, Managers
  <1>7. QED
    BY <1>2, <1>3, <1>4, <1>5, <1>6, GrantsKept

LEMMA TimeSound ==
  ASSUME Sound, Tick \/ JetElapses \/ \E l \in ManagedLeases : Elapse(l)
  PROVE  Sound'
  <1>1. Good(hm) /\ RestTyped
    BY DEF Sound
  <1>2. ASSUME NEW l \in ManagedLeases, Elapse(l)
        PROVE  Sound'
    <2>1. Good([hm EXCEPT ![l] = "due"])
      <3>1. hm[l] # "off"
        BY <1>2 DEF Elapse
      <3>2. CASE l = "laser"
        BY <1>1, <3>1, <3>2 DEF Good, Owned, Managers, Leases
      <3>3. CASE l = "forward"
        BY <1>1, <3>1, <3>3 DEF Good, Owned, Managers, Leases
      <3>4. CASE l = "vertical"
        BY <1>1, <3>1, <3>4 DEF Good, Owned, Managers, Leases
      <3>5. CASE l = "armed"
        BY <1>1, <3>1, <3>5 DEF Good, Owned, Managers, Leases
      <3>6. QED
        BY <3>2, <3>3, <3>4, <3>5 DEF ManagedLeases
    <2>2. Granted(hm) \subseteq Granted([hm EXCEPT ![l] = "due"])
      BY <1>1, <1>2, ElapseGrants DEF Elapse
    <2>3. QED
      BY <1>2, <2>1, <2>2, RestKept DEF Elapse
  <1>3. CASE JetElapses
    <2>1. RestTyped' /\ hm' = hm
      BY <1>1, <1>3 DEF JetElapses, RestTyped, backend, Leases
    <2>2. Told'
      BY <1>3, KeptTold DEF JetElapses, Sound
    <2>3. QED
      BY <1>1, <2>1, <2>2 DEF Sound, Good, Owned, Managers
  <1>4. CASE Tick
    <2> DEFINE f == IF hm.forward = "due" THEN "off" ELSE hm.forward
               v == IF hm.vertical = "due" THEN "off" ELSE hm.vertical
               boosts == [hm EXCEPT !.forward = f, !.vertical = v]
               laser == [boosts EXCEPT !.laser = "off"]
               n == [boosts EXCEPT !.armed = "off", !.waiting = FALSE]
               beam == Fed(n, 0)
    <2>1. \/ Submit("game", laser, ShipBed(laser))
          \/ Submit("game", AfterFoot(beam), FootBed(beam))
          \/ Submit("game", boosts, VehicleBed(boosts))
      BY <1>4 DEF Tick
    <2>2. f \in Leases /\ v \in Leases /\ (f # "off" => hm.forward # "off")
          /\ (v # "off" => hm.vertical # "off")
      BY <1>1 DEF Good, Managers, Leases
    <2> HIDE DEF f, v
    <2>3. Good(boosts)
      BY <1>1, <2>2 DEF Good, Owned, Managers
    <2> HIDE DEF boosts
    <2>4. Good(laser) /\ Good(n)
      BY <2>3 DEF Good, Owned, Managers, Leases
    <2> HIDE DEF n, laser
    <2>5. Good(beam)
      BY <2>4, FedGood
    <2> HIDE DEF beam
    <2>6. QED
      BY <2>1, <2>3, <2>4, <2>5, ShipBedGranted, VehicleBedGranted, FootBedGranted,
         AfterFootGood, SubmitSound, GameThread
  <1>5. QED
    BY <1>2, <1>3, <1>4

LEMMA LinkSound ==
  ASSUME Sound, NEW l \in Links, LinkChange(l)
  PROVE  Sound'
  <1>1. RestTyped' /\ hm' = hm
    BY DEF LinkChange, Sound, RestTyped, shared
  <1>2. crossed' \/ Vibrates' = {}
    BY DEF LinkChange, Vibrates, Links
  <1>3. /\ Told /\ Granted(hm)' = Granted(hm) /\ enabled' = enabled /\ pending' = pending
        /\ newest' = newest
    BY DEF Sound, LinkChange, shared
  <1>4. Told'
    BY <1>2, <1>3 DEF Told, InFlight, Composing, Silencing
  <1>5. QED
    BY <1>1, <1>4 DEF Sound, Good, Owned, Managers

LEMMA InitSound == Init => Sound
  <1> SUFFICES ASSUME Init PROVE Sound
    OBVIOUS
  <1>1. Good(hm)
    BY InitialGood DEF Init
  <1>2. pending \in [Threads -> Handover] /\ \A t \in Threads : pending[t].at = "idle"
    BY QuietTyped DEF Init, Quiet
  <1>3. RestTyped
    BY <1>2, GameThread DEF Init, RestTyped, Leases, Links
  <1>4. Vibrates = {}
    BY DEF Init, Vibrates
  <1>5. "settings" \in Threads /\ newest \in Threads
    BY DEF Init, Threads
  <1>6. Told
    BY <1>2, <1>4, <1>5 DEF Told, InFlight, Composing
  <1>7. QED
    BY <1>1, <1>3, <1>6 DEF Sound

LEMMA NextSound == Sound /\ [Next]_vars => Sound'
  <1> SUFFICES ASSUME Sound, [Next]_vars PROVE Sound'
    OBVIOUS
  <1>1. CASE Context
    BY <1>1, ContextSound, VehicleMenuSound, ShipMenuSound, SuppressedMenuSound, FootMenuSound
       DEF Context, Menu
  <1>2. CASE Weapon
    BY <1>2, EquipSound, PauseSound, FireSound, R2Sound DEF Weapon
  <1>3. CASE Delivery
    BY <1>3, ThrustSound, LookSound, SettingsSound DEF Delivery
  <1>4. CASE Time
    BY <1>4, TimeSound, JetSound DEF Time
  <1>5. CASE UNCHANGED vars
    BY <1>5, RestKept DEF vars, Sound, Good, Owned, Managers
  <1>6. QED
    BY <1>1, <1>2, <1>3, <1>4, <1>5, ShipSound, Rev8Sound, JetSound, SettingsSound, LinkSound
       DEF Next

\* Types hold in every instance.
THEOREM Typing == Spec => []TypeOK
  <1>1. Sound => TypeOK
    BY SoundParts
  <1>2. QED
    BY <1>1, InitSound, NextSound, PTL DEF Spec

\* No change of seat, menu or authority leaves behind an effect of another
\* context.
THEOREM ContextsOwn == Spec => []ContextOwnsEffects
  <1>1. Sound => ContextOwnsEffects
    BY SoundParts
  <1>2. QED
    BY <1>1, InitSound, NextSound, PTL DEF Spec

\* Once nothing is being handed over only what the state grants vibrates, and
\* nothing with haptics off, unless an older composition was stored over the
\* newest one or the link changed under what was stored.
THEOREM OrderedGranted == Spec => []OrderedIsGranted
  <1>1. Sound => OrderedIsGranted
    BY SoundParts
  <1>2. QED
    BY <1>1, InitSound, NextSound, PTL DEF Spec

(* The runtime tick and the effects whose lease has run out.               *)

Lapsed == {s \in Boosts \cup {"laser"} : hm[s] = "due"}

\* A lapsed lease opens a branch of HapticsManager::tick, and while its effect is
\* felt the backend listens.
TickIsDue ==
  /\ Lapsed # {} => LaserOver \/ BoostOver
  /\ Settled /\ ~crossed /\ Lapsed \cap Vibrates # {} => enabled

\* Whichever branch it is, the one composition it submits ends every lapsed lease.
TickEnds ==
  Tick => /\ Lapsed' = {}
          /\ newest' = "game" /\ pending'["game"].at = "look"
          /\ pending'["game"].bed \cap Lapsed = {}

LEMMA LapsedLaser ==
  ASSUME ContextOwnsEffects, hm.laser = "due"
  PROVE  LaserOver /\ ~BoostOver /\ ~BeamOver
  BY DEF ContextOwnsEffects, LaserOver, BoostOver, BeamOver

LEMMA TickMayEnd ==
  ASSUME OrderedIsGranted, ContextOwnsEffects
  PROVE  TickIsDue
  <1>1. ASSUME Lapsed # {} PROVE LaserOver \/ BoostOver
    <2>1. PICK s \in Boosts \cup {"laser"} : hm[s] = "due"
      BY <1>1 DEF Lapsed
    <2>2. QED
      BY <2>1, LapsedLaser, BoostsAssumption DEF BoostOver
  <1>2. ASSUME Settled, ~crossed, Lapsed \cap Vibrates # {} PROVE enabled
    BY <1>2 DEF OrderedIsGranted
  <1>3. QED
    BY <1>1, <1>2 DEF TickIsDue

LEMMA TickDoesEnd ==
  ASSUME Sound
  PROVE  TickEnds
  <1> SUFFICES ASSUME Tick PROVE TickEnds
    BY DEF TickEnds
  <1>1. ContextOwnsEffects /\ hm \in Managers /\ "game" \in Threads
    BY SoundParts, GameThread DEF Sound, Good
  <1>2. pending \in [Threads -> Handover]
    BY DEF Sound, RestTyped
  <1> DEFINE Over(l) == IF hm[l] = "due" THEN "off" ELSE hm[l]
             boosts == [hm EXCEPT !.forward = Over("forward"), !.vertical = Over("vertical")]
             laser == [boosts EXCEPT !.laser = "off"]
             beam == Fed([boosts EXCEPT !.armed = "off", !.waiting = FALSE], 0)
             Ended(m) == m.forward # "due" /\ m.vertical # "due" /\ m.laser # "due"
  <1>3. ASSUME NEW m, NEW bed, Submit("game", m, bed), Ended(m), bed \cap Lapsed = {}
        PROVE  TickEnds
    <2>1. /\ hm' = m /\ newest' = "game"
          /\ pending'["game"] = [at |-> "look", bed |-> bed, side |-> "none"]
      BY <1>1, <1>2, <1>3 DEF Submit, Hand
    <2>2. Lapsed' = {}
      BY <2>1, <1>3, BoostsAssumption DEF Lapsed
    <2>3. QED
      BY <2>1, <2>2, <1>3 DEF TickEnds
  <1>4. /\ boosts.forward # "due" /\ boosts.vertical # "due" /\ boosts.laser = hm.laser
        /\ boosts.mask = hm.mask /\ boosts.rumble = hm.rumble
    BY <1>1 DEF Managers
  <1>5. CASE LaserOver /\ Submit("game", laser, ShipBed(laser))
    <2>1. Ended(laser) /\ laser.laser = "off"
      BY <1>1, <1>4 DEF Managers
    <2>2. ShipBed(laser) \cap Lapsed = {}
      BY <2>1, BoostsAssumption DEF ShipBed, Lapsed
    <2>3. QED
      BY <1>3, <1>5, <2>1, <2>2
  <1>6. CASE BeamOver /\ Submit("game", AfterFoot(beam), FootBed(beam))
    <2>1. hm.laser # "due"
      BY <1>1, <1>6, LapsedLaser
    <2>2. Ended(beam) /\ Ended(AfterFoot(beam))
      BY <1>1, <1>4, <2>1 DEF Fed, AfterFoot, Managers
    <2>3. FootBed(beam) \cap Lapsed = {}
      BY BoostsAssumption DEF FootBed, WeaponBed, Lapsed
    <2>4. QED
      BY <1>3, <1>6, <2>2, <2>3
  <1>7. CASE BoostOver /\ ~LaserOver /\ ~BeamOver /\ Submit("game", boosts, VehicleBed(boosts))
    <2>1. hm.laser # "due"
      BY <1>1, <1>7, LapsedLaser
    <2>2. Ended(boosts)
      BY <1>4, <2>1
    <2>3. VehicleBed(boosts) \cap Lapsed = {}
      <3>1. \A s \in {"forward", "vertical"} : hm[s] = "due" => boosts[s] = "off"
        BY <1>1 DEF Managers
      <3>2. QED
        BY <3>1, <2>1, BoostsAssumption DEF VehicleBed, Lapsed
    <2>4. QED
      BY <1>3, <1>7, <2>2, <2>3
  <1>8. QED
    BY <1>5, <1>6, <1>7 DEF Tick

\* A lease that has run out waits for nothing but the tick, and one tick ends it in
\* whatever context it finds it: what LeasesEnd needs besides fairness.
THEOREM TickEndsLeases == Spec => []TickIsDue /\ [][TickEnds]_vars
  <1>1. Sound => TickIsDue
    BY SoundParts, TickMayEnd
  <1>2. Sound => [TickEnds]_vars
    BY TickDoesEnd
  <1>3. QED
    BY <1>1, <1>2, InitSound, NextSound, PTL DEF Spec
=============================================================================
