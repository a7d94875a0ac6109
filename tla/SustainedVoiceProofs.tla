------------------------- MODULE SustainedVoiceProofs -------------------------
(***************************************************************************)
(* Theorems about SustainedVoice for every number of generations, menus,   *)
(* settings and links.  The backend is treated once, operator by operator; *)
(* the steps then follow from those lemmas.  In this order: the types, the  *)
(* blocked loop and the two sides (Inv); the speaker that is off           *)
(* (SilentInv); the session on the cable (WiredInv) and its authorities    *)
(* (PhantomInv); the refinement of LoopAuthority (LoopInv); the ways a     *)
(* loop is orphaned, on any link (OrphanInv).                              *)
(***************************************************************************)
EXTENDS SustainedVoice, TLAPS

\* Backend records that keep the rule of OneTransportHoldsVoice, strengthened by
\* what makes it inductive: a side that holds a voice is running, and a side is
\* selected only in a started backend.
Exclusive(b) ==
  /\ b.btMixer # None => b.transport = "bluetooth" /\ b.btRunning
  /\ b.mixer # None => b.transport = "wired" /\ b.client
  /\ b.pending.kind = "set" => b.transport = "wired" /\ b.client
  /\ ~b.started => b.transport = "none"

Good(b) == b \in Backends /\ Exclusive(b)

USE DEF None, Rover

LEMMA Constants == MaxGen \in Nat \ {0} /\ HapticsClient \in BOOLEAN
  BY MaxGenAssumption, HapticsClientAssumption

LEMMA OwnerFacts ==
  /\ Gens \subseteq Owners /\ Rover \in Owners /\ None \notin Owners
  /\ NoUpdate \in Updates /\ NoUpdate.kind = "none"
  BY Constants DEF Gens, Owners, NoUpdate, Updates

LEMMA UpdateTypes ==
  \A u \in Updates : /\ u.kind \in {"none", "set", "clear"}
                     /\ u.kind # "none" => u.owner \in Owners /\ u.force \in BOOLEAN
  BY DEF Updates, NoUpdate

LEMMA ClearSpeakerStateGood ==
  ASSUME NEW b, Good(b)
  PROVE  Good(ClearSpeakerState(b)) /\ ClearSpeakerState(b).transport = b.transport
         /\ ClearSpeakerState(b).mixer = None /\ ClearSpeakerState(b).pending.kind = "none"
  BY OwnerFacts DEF Good, Backends, Exclusive, ClearSpeakerState

LEMMA StopWiredGood ==
  ASSUME NEW b, Good(b)
  PROVE  Good(StopWired(b)) /\ StopWired(b).transport = b.transport
<1>1. CASE ~b.client
  BY <1>1 DEF StopWired
<1>2. CASE b.client
  <2> DEFINE w == b.worker /\ HapticsClient
             e == b.endpoint /\ HapticsClient
             c == [b EXCEPT !.pending = NoUpdate, !.mixer = None, !.client = FALSE,
                            !.worker = w, !.endpoint = e]
  <2>1. StopWired(b) = c
    BY <1>2 DEF StopWired
  <2>2. w \in BOOLEAN /\ e \in BOOLEAN
    BY Constants DEF Good, Backends
  <2> HIDE DEF w, e
  <2>3. c \in Backends /\ c.transport = b.transport
    BY <2>2, OwnerFacts DEF Good, Backends
  <2>4. Exclusive(c)
    BY OwnerFacts DEF Good, Backends, Exclusive
  <2> QED BY <2>1, <2>3, <2>4 DEF Good
<1> QED BY <1>1, <1>2 DEF Good, Backends

\* A backend with no voice anywhere.
Quiet(b) == b \in Backends /\ b.btMixer = None /\ b.mixer = None /\ b.pending.kind # "set"

LEMMA QuietIsGood ==
  ASSUME NEW b, Quiet(b), b.started \/ b.transport = "none"
  PROVE  Good(b)
  BY DEF Quiet, Good, Exclusive

LEMMA StartWiredQuiet ==
  ASSUME NEW b, Quiet(b), NEW ok \in BOOLEAN
  PROVE  Quiet(StartWired(b, ok)) /\ StartWired(b, ok).started = b.started
  BY Constants DEF Quiet, Backends, StartWired, Links

LEMMA StartBluetoothQuiet ==
  ASSUME NEW b, Quiet(b), NEW ok \in BOOLEAN
  PROVE  Quiet(StartBluetooth(b, ok)) /\ StartBluetooth(b, ok).started = b.started
  BY DEF Quiet, Backends, StartBluetooth, Links

LEMMA BluetoothGood ==
  ASSUME NEW b, Good(b)
  PROVE  /\ Good(ClearBluetooth(b)) /\ ClearBluetooth(b).transport = b.transport
         /\ ClearBluetooth(b).btMixer = None
         /\ Good(StopBluetooth(b)) /\ StopBluetooth(b).transport = b.transport
         /\ StopBluetooth(b).btMixer = None
         /\ StopBluetooth(b).mixer = b.mixer /\ StopBluetooth(b).pending = b.pending
  BY DEF Good, Backends, Exclusive, ClearBluetooth, StopBluetooth

LEMMA StopWiredSilences ==
  ASSUME NEW b, Good(b)
  PROVE  StopWired(b).mixer = None /\ StopWired(b).pending.kind # "set"
         /\ StopWired(b).btMixer = b.btMixer
  BY OwnerFacts DEF Good, Backends, Exclusive, StopWired

LEMMA LeaveTransportQuiet ==
  ASSUME NEW b, Good(b)
  PROVE  Quiet(LeaveTransport(b)) /\ LeaveTransport(b).started = b.started
<1>1. CASE b.transport = "wired"
  <2> DEFINE c == ClearSpeakerState(b)
  <2>1. Good(c) /\ c.transport = "wired" /\ c.btMixer = None /\ c.started = b.started
    BY <1>1, ClearSpeakerStateGood DEF Good, Exclusive, Backends, ClearSpeakerState
  <2>2. LeaveTransport(b) = StopWired(c)
    BY <1>1 DEF LeaveTransport
  <2> HIDE DEF c
  <2>3. StopWired(c).started = c.started
    BY <2>1 DEF Good, Backends, StopWired
  <2> QED BY <2>1, <2>2, <2>3, StopWiredGood, StopWiredSilences DEF Quiet, Good
<1>2. CASE b.transport = "bluetooth"
  <2> DEFINE c == ClearBluetooth(b)
  <2>1. Good(c) /\ c.transport = "bluetooth" /\ c.started = b.started
    BY <1>2, BluetoothGood DEF Good, Backends, ClearBluetooth
  <2>2. LeaveTransport(b) = StopBluetooth(c)
    BY <1>2 DEF LeaveTransport
  <2> HIDE DEF c
  <2>3. StopBluetooth(c).started = c.started
    BY <2>1 DEF Good, Backends, StopBluetooth
  <2> QED BY <2>1, <2>2, <2>3, BluetoothGood DEF Quiet, Good, Exclusive
<1>3. CASE b.transport \notin {"wired", "bluetooth"}
  BY <1>3 DEF LeaveTransport, Quiet, Good, Exclusive
<1> QED BY <1>1, <1>2, <1>3

LEMMA SynchronizeGood ==
  ASSUME NEW b, Good(b), NEW l \in Links, NEW ok \in BOOLEAN
  PROVE  Good(Synchronize(b, l, ok))
<1>1. CASE ~Switches(b, l)
  BY <1>1 DEF Synchronize
<1>2. CASE Switches(b, l)
  <2> DEFINE c == LeaveTransport(b)
  <2>1. Quiet(c) /\ c.started
    BY <1>2, LeaveTransportQuiet DEF Switches
  <2>2. Synchronize(b, l, ok) = EnterTransport(c, l, ok)
    BY <1>2 DEF Synchronize
  <2> HIDE DEF c
  <2>3. Quiet(EnterTransport(c, l, ok)) /\ EnterTransport(c, l, ok).started
    BY <2>1, StartWiredQuiet, StartBluetoothQuiet DEF EnterTransport
  <2> QED BY <2>2, <2>3, QuietIsGood
<1> QED BY <1>1, <1>2

LEMMA StartDualGood ==
  ASSUME NEW b, Good(b), NEW l \in Links, NEW ok \in BOOLEAN
  PROVE  Good(StartDual(b, l, ok))
<1>1. CASE b.started
  BY <1>1 DEF StartDual
<1>2. CASE ~b.started
  <2> DEFINE c == [b EXCEPT !.started = TRUE, !.transport = "none"]
  <2>1. Quiet(c) /\ c.started
    BY <1>2 DEF Quiet, Good, Exclusive, Backends
  <2>2. StartDual(b, l, ok) = Synchronize(c, l, ok)
    BY <1>2 DEF StartDual
  <2> HIDE DEF c
  <2> QED BY <2>1, <2>2, QuietIsGood, SynchronizeGood
<1> QED BY <1>1, <1>2

LEMMA StopDualGood ==
  ASSUME NEW b, Good(b)
  PROVE  Good(StopDual(b)) /\ (b.started => Quiet(StopDual(b)))
<1> DEFINE c == StopWired(b)
           d == StopBluetooth(c)
<1>1. Good(c) /\ c.mixer = None /\ c.pending.kind # "set"
  BY StopWiredGood, StopWiredSilences
<1> HIDE DEF c
<1>2. Quiet(d)
  BY <1>1, BluetoothGood DEF Quiet, Good
<1>3. StopDual(b) = IF b.started
                    THEN [d EXCEPT !.transport = "none", !.started = FALSE] ELSE b
  BY DEF StopDual, c
<1> HIDE DEF d
<1>4. /\ Quiet([d EXCEPT !.transport = "none", !.started = FALSE])
      /\ [d EXCEPT !.transport = "none", !.started = FALSE].transport = "none"
  BY <1>2 DEF Quiet, Backends
<1> QED BY <1>3, <1>4, QuietIsGood

LEMMA ClearPlaybackGood == ASSUME NEW b, Good(b) PROVE Good(ClearPlayback(b))
  BY ClearSpeakerStateGood, BluetoothGood DEF ClearPlayback

LEMMA EndpointGood ==
  ASSUME NEW b, Good(b)
  PROVE  /\ Good(EndpointOpen(b)) /\ Good(EndpointLost(b))
         /\ EndpointLost(b).transport = b.transport /\ EndpointLost(b).client = b.client
<1> DEFINE c == ClearSpeakerState(b)
<1>1. Good(c) /\ c.transport = b.transport /\ c.client = b.client
  BY ClearSpeakerStateGood DEF Good, Backends, ClearSpeakerState
<1> HIDE DEF c
<1>2. Good([c EXCEPT !.endpoint = TRUE]) /\ Good([c EXCEPT !.endpoint = FALSE])
  BY <1>1 DEF Good, Backends, Exclusive
<1>3. /\ [c EXCEPT !.endpoint = FALSE].transport = b.transport
      /\ [c EXCEPT !.endpoint = FALSE].client = b.client
  BY <1>1 DEF Good, Backends
<1> QED BY <1>2, <1>3 DEF EndpointOpen, EndpointLost, c

LEMMA SetPersistentGood ==
  ASSUME NEW b, Good(b), Active(b), NEW owner \in Owners, NEW c \in Raced(b)
  PROVE  Good(SetPersistent(c, owner))
<1>1. Good(c) /\ c.transport = b.transport /\ c.client = b.client
  BY EndpointGood DEF Raced
<1>2. CASE b.transport = "wired"
  <2> DEFINE u == [kind |-> "set", owner |-> owner, force |-> FALSE]
  <2>1. u \in Updates
    BY DEF Updates
  <2>2. c.client
    BY <1>1, <1>2 DEF Active
  <2>3. SetPersistent(c, owner) = [c EXCEPT !.pending = u]
    BY <1>1, <1>2 DEF SetPersistent
  <2> HIDE DEF u
  <2> QED BY <2>1, <2>2, <2>3, <1>1, <1>2 DEF Good, Backends, Exclusive
<1>3. CASE b.transport = "bluetooth"
  <2>1. c = b /\ c.btRunning
    BY <1>3 DEF Raced, Active
  <2>2. SetPersistent(c, owner) = [c EXCEPT !.btMixer = owner]
    BY <1>1, <1>3 DEF SetPersistent
  <2> QED BY <2>1, <2>2, <1>1, <1>3 DEF Good, Backends, Exclusive
<1> QED BY <1>2, <1>3 DEF Active

LEMMA ClearPersistentGood ==
  ASSUME NEW b, Good(b), NEW owner \in Owners, NEW force \in BOOLEAN
  PROVE  Good(ClearPersistent(b, owner, force))
<1> DEFINE u == [kind |-> "clear", owner |-> owner, force |-> force]
<1>1. u \in Updates /\ u.kind = "clear"
  BY DEF Updates
<1> HIDE DEF u
<1>2. Good([b EXCEPT !.pending = u])
  BY <1>1 DEF Good, Backends, Exclusive
<1>3. Good([b EXCEPT !.btMixer = IF force \/ b.btMixer = owner THEN None ELSE b.btMixer])
  BY DEF Good, Backends, Exclusive
<1> QED BY <1>2, <1>3 DEF ClearPersistent, u

LEMMA RenderBlockGood == ASSUME NEW b, Good(b) PROVE Good(RenderBlock(b))
<1>1. b.pending \in Updates
  BY DEF Good, Backends
<1>2. AfterUpdate(b) \in Owners \cup {None}
  BY <1>1, UpdateTypes DEF AfterUpdate, Good, Backends
<1>3. AfterUpdate(b) # None => b.transport = "wired" /\ b.client
  BY DEF AfterUpdate, Good, Exclusive
<1> DEFINE m == AfterUpdate(b)
<1> HIDE DEF m
<1>4. Good([b EXCEPT !.mixer = m, !.pending = NoUpdate])
  BY <1>2, <1>3, OwnerFacts DEF Good, Backends, Exclusive, m
<1> QED BY <1>4 DEF RenderBlock, m
-------------------------------------------------------------------------------
\* The inductive invariant of the safety theorems.
Inv ==
  /\ TypeOK
  /\ Exclusive(be)
  /\ NoAuthorityWhileBlocked
  /\ pb.auth <=> pb.activeGen # None

LEMMA InvGood == Inv => Good(be)
  BY DEF Inv, TypeOK, Good

LEMMA FlagFacts ==
  /\ SessionLinks \subseteq Links /\ StartResults \subseteq BOOLEAN
  /\ \A s \in LiveSettings : s \in Settings
  BY LinksAssumption, FlagsAssumption, SettingsAssumption

LEMMA SyncedGood ==
  ASSUME Inv, NEW ok \in StartResults
  PROVE  /\ Good(Synced(ok))
         /\ \A owner \in Owners, force \in BOOLEAN : Good(AfterClear(Synced(ok), owner, force))
<1>1. Good(Synced(ok))
  BY InvGood, SynchronizeGood, FlagFacts DEF Synced, Inv, TypeOK
<1> QED BY <1>1, ClearPersistentGood DEF AfterClear

LEMMA RevokeFacts ==
  ASSUME NEW p \in Playbacks
  PROVE  /\ Revoke(p) \in Playbacks /\ ~Revoke(p).auth /\ Revoke(p).activeGen = None
         /\ Revoke(p).nextGen = p.nextGen
  BY DEF Revoke, Playbacks

\* What a step must show when it writes only the playback and the backend.
LEMMA InvFromParts ==
  ASSUME Inv, pb' \in Playbacks, Good(be'), ~pb'.auth, pb'.activeGen = None,
         UNCHANGED <<phase, live, link, driving, direct>>,
         rover' \in {"off", "engine"} \cup Thrusts, lost' \in BOOLEAN
  PROVE  Inv'
  BY DEF Inv, TypeOK, Good, NoAuthorityWhileBlocked

LEMMA ClearSustainedInv ==
  ASSUME Inv, NEW next \in Playbacks, NEW force \in BOOLEAN, ClearSustained(next, force)
  PROVE  Inv'
<1>1. Good(be')
  <2>1. CASE pb.activeGen # None
    <3>1. pb.activeGen \in Owners
      BY <2>1, OwnerFacts DEF Inv, TypeOK, Playbacks
    <3> QED BY <2>1, <3>1, SyncedGood DEF ClearSustained
  <2>2. CASE pb.activeGen = None
    BY <2>2, InvGood DEF ClearSustained
  <2> QED BY <2>1, <2>2
<1>2. pb' \in Playbacks /\ ~pb'.auth /\ pb'.activeGen = None
  BY RevokeFacts DEF ClearSustained
<1> QED BY <1>1, <1>2, InvFromParts DEF ClearSustained, Inv, TypeOK

\* A step that leaves the playback alone or revokes its authority.
LEMMA BackendStepInv ==
  ASSUME Inv, Good(be'), pb' \in {pb, Revoke(pb)},
         phase' \in {"loading", "started", "quit"}, live' \in LiveSettings,
         link' \in SessionLinks, rover' \in {"off", "engine"} \cup Thrusts,
         driving' \in BOOLEAN, lost' \in BOOLEAN, direct' \in BOOLEAN
  PROVE  Inv'
<1>1. pb \in Playbacks
  BY DEF Inv, TypeOK
<1>2. /\ pb' \in Playbacks
      /\ pb'.auth <=> pb'.activeGen # None
      /\ NoAuthorityWhileBlocked'
  BY <1>1, RevokeFacts DEF Inv, NoAuthorityWhileBlocked, Revoke, Playbacks
<1> QED BY <1>2 DEF Inv, TypeOK, Good

LEMMA ContextFacts == NewContext(pb) = [pb EXCEPT !.profile = "none", !.paused = FALSE, !.menus = {}]
  BY DEF NewContext

\* The events that take the loop back, whatever else they write.
RevokingEvents ==
  \/ ShipPilotEntered \/ ShipPilotInvalidated \/ ShipPilotExited
  \/ LandVehicleContextEntered \/ LandVehicleContextExited
  \/ \E profile \in Profiles : WeaponEquipped(profile)
  \/ GamePaused \/ Shutdown
  \/ \E menu \in Menus : BlockingMenuOpened(menu)

LEMMA RevokingEventsShape ==
  ASSUME Inv, RevokingEvents
  PROVE  \E next \in Playbacks, force \in BOOLEAN :
           next.nextGen = pb.nextGen /\ ClearSustained(next, force)
<1> DEFINE Goal == \E next \in Playbacks, force \in BOOLEAN :
                     next.nextGen = pb.nextGen /\ ClearSustained(next, force)
<1>1. pb \in Playbacks
  BY DEF Inv, TypeOK
<1>2. CASE ShipPilotEntered
  <2> DEFINE n == [NewContext(pb) EXCEPT !.pilot = TRUE, !.vehicle = FALSE,
                               !.suppressed = TRUE]
  <2>1. n \in Playbacks /\ n.nextGen = pb.nextGen
    BY <1>1, ContextFacts DEF Playbacks, Profiles
  <2>2. ClearSustained(n, TRUE) \/ ClearSustained(n, FALSE)
    BY <1>2 DEF ShipPilotEntered
  <2> HIDE DEF n
  <2> QED BY <2>1, <2>2
<1>3. CASE ShipPilotInvalidated
  <2> DEFINE n == [NewContext(pb) EXCEPT !.pilot = FALSE, !.vehicle = FALSE,
                               !.suppressed = TRUE]
  <2>1. n \in Playbacks /\ n.nextGen = pb.nextGen
    BY <1>1, ContextFacts DEF Playbacks, Profiles
  <2>2. ClearSustained(n, TRUE) \/ ClearSustained(n, FALSE)
    BY <1>3 DEF ShipPilotInvalidated
  <2> HIDE DEF n
  <2> QED BY <2>1, <2>2
<1>4. CASE ShipPilotExited
  <2> DEFINE n == [NewContext(pb) EXCEPT !.pilot = FALSE, !.suppressed = pb.vehicle]
  <2>1. n \in Playbacks /\ n.nextGen = pb.nextGen
    BY <1>1, ContextFacts DEF Playbacks, Profiles
  <2>2. ClearSustained(n, TRUE) \/ ClearSustained(n, FALSE)
    BY <1>4 DEF ShipPilotExited
  <2> HIDE DEF n
  <2> QED BY <2>1, <2>2
<1>5. CASE LandVehicleContextEntered
  <2> DEFINE n == [NewContext(pb) EXCEPT !.vehicle = TRUE, !.suppressed = TRUE]
  <2>1. n \in Playbacks /\ n.nextGen = pb.nextGen
    BY <1>1, ContextFacts DEF Playbacks, Profiles
  <2>2. ClearSustained(n, TRUE) \/ ClearSustained(n, FALSE)
    BY <1>5 DEF LandVehicleContextEntered
  <2> HIDE DEF n
  <2> QED BY <2>1, <2>2
<1>6. CASE LandVehicleContextExited
  <2> DEFINE n == [NewContext(pb) EXCEPT !.vehicle = FALSE,
          !.suppressed = IF pb.pilot THEN pb.suppressed ELSE FALSE]
  <2>1. n \in Playbacks /\ n.nextGen = pb.nextGen
    BY <1>1, ContextFacts DEF Playbacks, Profiles
  <2>2. ClearSustained(n, TRUE) \/ ClearSustained(n, FALSE)
    BY <1>6 DEF LandVehicleContextExited
  <2> HIDE DEF n
  <2> QED BY <2>1, <2>2
<1>7. ASSUME NEW profile \in Profiles, WeaponEquipped(profile)
      PROVE  Goal
  <2> DEFINE n == [pb EXCEPT !.profile = profile]
  <2>1. n \in Playbacks /\ n.nextGen = pb.nextGen
    BY <1>1 DEF Playbacks
  <2>2. ClearSustained(n, TRUE) \/ ClearSustained(n, FALSE)
    BY <1>7 DEF WeaponEquipped
  <2> HIDE DEF n
  <2> QED BY <2>1, <2>2
<1>8. CASE GamePaused
  <2> DEFINE n == [pb EXCEPT !.paused = TRUE]
  <2>1. n \in Playbacks /\ n.nextGen = pb.nextGen
    BY <1>1 DEF Playbacks
  <2>2. ClearSustained(n, TRUE) \/ ClearSustained(n, FALSE)
    BY <1>8 DEF GamePaused
  <2> HIDE DEF n
  <2> QED BY <2>1, <2>2
<1>9. CASE Shutdown
  <2> DEFINE n == [pb EXCEPT !.pilot = FALSE, !.vehicle = FALSE, !.suppressed = FALSE,
                   !.profile = "none"]
  <2>1. n \in Playbacks /\ n.nextGen = pb.nextGen
    BY <1>1 DEF Playbacks, Profiles
  <2>2. ClearSustained(n, TRUE) \/ ClearSustained(n, FALSE)
    BY <1>9 DEF Shutdown
  <2> HIDE DEF n
  <2> QED BY <2>1, <2>2
<1>10. ASSUME NEW menu \in Menus, BlockingMenuOpened(menu)
       PROVE  Goal
  <2> DEFINE n == [pb EXCEPT !.menus = pb.menus \cup {menu}]
  <2>1. n \in Playbacks /\ n.nextGen = pb.nextGen
    BY <1>1, <1>10 DEF Playbacks
  <2>2. ClearSustained(n, TRUE) \/ ClearSustained(n, FALSE)
    BY <1>10 DEF BlockingMenuOpened
  <2> HIDE DEF n
  <2> QED BY <2>1, <2>2
<1> QED BY <1>2, <1>3, <1>4, <1>5, <1>6, <1>7, <1>8, <1>9, <1>10 DEF RevokingEvents

LEMMA RevokingEventsInv == ASSUME Inv, RevokingEvents PROVE Inv'
  BY RevokingEventsShape, ClearSustainedInv

LEMMA PlaybackOnlyInv ==
  ASSUME Inv,
         SuppressionLifted \/ GameUnpaused \/ \E menu \in Menus : BlockingMenuClosed(menu)
  PROVE  Inv'
<1>1. pb \in Playbacks /\ Good(be)
  BY InvGood DEF Inv, TypeOK
<1> DEFINE Kept == /\ pb' \in Playbacks
                   /\ pb'.auth = pb.auth /\ pb'.activeGen = pb.activeGen
                   /\ NoAuthorityWhileBlocked'
                   /\ UNCHANGED <<be, phase, live, link, rover, driving, lost, direct>>
<1>2. Kept
  <2>1. CASE SuppressionLifted
    BY <1>1, <2>1 DEF SuppressionLifted, PlaybackOnly, Inv, NoAuthorityWhileBlocked, Playbacks
  <2>2. CASE GameUnpaused
    BY <1>1, <2>2 DEF GameUnpaused, PlaybackOnly, Inv, NoAuthorityWhileBlocked, Playbacks
  <2>3. ASSUME NEW menu \in Menus, BlockingMenuClosed(menu)
        PROVE  Kept
    BY <1>1, <2>3 DEF BlockingMenuClosed, PlaybackOnly, Inv, NoAuthorityWhileBlocked, Playbacks
  <2> QED BY <2>1, <2>2, <2>3
<1> QED BY <1>2 DEF Inv, TypeOK

LEMMA PostSetGood ==
  ASSUME Inv, NEW b, Good(b), Open(b), NEW owner \in Owners, PostSet(b, owner)
  PROVE  Good(be') /\ lost' \in BOOLEAN
BY SetPersistentGood DEF PostSet, Open, Inv, TypeOK

LEMMA WwiseStartInv == ASSUME Inv, WwiseStart PROVE Inv'
<1> DEFINE g == pb.nextGen
<1>1. g \in Gens /\ g \in Owners /\ g # None /\ g + 1 \in 1..(MaxGen + 1)
  BY Constants, OwnerFacts DEF WwiseStart, Inv, TypeOK, Playbacks, Gens
<1>2. pb \in Playbacks /\ ~pb.suppressed /\ ~pb.paused /\ pb.menus = {}
  BY DEF WwiseStart, Inv, TypeOK
<1>3. UNCHANGED <<phase, live, link, rover, driving, direct>>
  BY DEF WwiseStart
<1>4. PICK ok \in StartResults :
        LET b == Synced(ok)
        IN  IF Open(b) /\ live.speaker /\ live.weapons
            THEN /\ PostSet(b, g)
                 /\ pb' = [pb EXCEPT !.auth = TRUE, !.activeGen = g, !.releaseGen = g,
                                     !.nextGen = g + 1]
            ELSE /\ be' = b
                 /\ \E p \in SelfReport(pb, be) : pb' = [p EXCEPT !.nextGen = g + 1]
                 /\ UNCHANGED lost
  BY DEF WwiseStart
<1> DEFINE b == Synced(ok)
<1>5. Good(b)
  BY SyncedGood
<1> HIDE DEF b, g
<1>6. CASE Open(b) /\ live.speaker /\ live.weapons
  <2>1. /\ PostSet(b, g)
        /\ pb' = [pb EXCEPT !.auth = TRUE, !.activeGen = g, !.releaseGen = g,
                            !.nextGen = g + 1]
    BY <1>4, <1>6 DEF b, g
  <2>2. Good(be') /\ lost' \in BOOLEAN
    BY <1>1, <1>5, <1>6, <2>1, PostSetGood
  <2>3. pb' \in Playbacks /\ pb'.auth /\ pb'.activeGen # None /\ NoAuthorityWhileBlocked'
    BY <1>1, <1>2, <2>1 DEF Playbacks, NoAuthorityWhileBlocked
  <2> QED BY <1>3, <2>2, <2>3 DEF Inv, TypeOK, Good
<1>7. CASE ~(Open(b) /\ live.speaker /\ live.weapons)
  <2>1. PICK p \in SelfReport(pb, be) : pb' = [p EXCEPT !.nextGen = g + 1]
    BY <1>4, <1>7 DEF b, g
  <2>2. be' = b /\ UNCHANGED lost
    BY <1>4, <1>7 DEF b, g
  <2>3. p \in {pb, Revoke(pb)}
    BY DEF SelfReport
  <2>4. /\ pb' \in Playbacks /\ (pb'.auth <=> pb'.activeGen # None)
        /\ NoAuthorityWhileBlocked'
    BY <1>1, <1>2, <2>1, <2>3 DEF Playbacks, Revoke, NoAuthorityWhileBlocked, Inv
  <2> QED BY <1>3, <1>5, <2>2, <2>4 DEF Inv, TypeOK, Good
<1> QED BY <1>6, <1>7

LEMMA PlaybackCallsInv ==
  ASSUME Inv, WwiseStop \/ FiniteCue \/ RightTriggerReleased
  PROVE  Inv'
<1>1. pb \in Playbacks /\ (pb.activeGen # None => pb.activeGen \in Owners)
  BY OwnerFacts DEF Inv, TypeOK, Playbacks
<1>2. CASE WwiseStop
  <2>1. Good(be')
    BY <1>1, <1>2, SyncedGood DEF WwiseStop
  <2> QED BY <1>1, <1>2, <2>1, RevokeFacts, InvFromParts DEF WwiseStop, Inv, TypeOK
<1>3. CASE FiniteCue
  <2>1. Good(be')
    BY <1>3, SyncedGood DEF FiniteCue
  <2>2. pb' \in {pb, Revoke(pb)}
    BY <1>3 DEF FiniteCue, SelfReport
  <2> QED BY <1>3, <2>1, <2>2, BackendStepInv DEF FiniteCue, Inv, TypeOK
<1>4. CASE RightTriggerReleased
  <2>1. Good(be')
    BY <1>1, <1>4, SyncedGood DEF RightTriggerReleased
  <2>2. PICK p \in SelfReport(pb, be) : pb' = [p EXCEPT !.auth = FALSE, !.activeGen = None]
    BY <1>4 DEF RightTriggerReleased
  <2>3. p \in Playbacks
    BY <1>1, RevokeFacts DEF SelfReport
  <2>4. pb' \in Playbacks /\ ~pb'.auth /\ pb'.activeGen = None
    BY <2>2, <2>3 DEF Playbacks
  <2> QED BY <1>4, <2>1, <2>4, InvFromParts DEF RightTriggerReleased, Inv, TypeOK
<1> QED BY <1>2, <1>3, <1>4

LEMMA ReportInv == ASSUME Inv, ReportEndpointInvalidated \/ ReportDirectStop PROVE Inv'
  BY InvGood, BackendStepInv DEF ReportEndpointInvalidated, ReportDirectStop, Inv, TypeOK

LEMMA StopIfActiveGood == ASSUME NEW b, Good(b) PROVE Good(StopIfActive(b))
  BY StopDualGood DEF StopIfActive

LEMMA ManagerInv == ASSUME Inv, ManagerStep PROVE Inv'
<1>1. Good(be) /\ link \in Links
  BY InvGood, FlagFacts DEF Inv, TypeOK
<1>2. \A ok \in StartResults :
        /\ Good(Synchronize(be, link, ok)) /\ Good(StartDual(be, link, ok))
        /\ Good(StopIfActive(Synchronize(be, link, ok))) /\ Good(Synced(ok))
  BY <1>1, SynchronizeGood, StartDualGood, StopIfActiveGood, SyncedGood, FlagFacts
<1>3. CASE ManagerStart
  BY <1>1, <1>2, <1>3, BackendStepInv DEF ManagerStart, Inv, TypeOK
<1>4. CASE ManagerStop
  BY <1>2, <1>4, BackendStepInv DEF ManagerStop, Reported, Inv, TypeOK
<1>5. CASE Poll
  BY <1>2, <1>5, BackendStepInv DEF Poll, Reported, Inv, TypeOK
<1>6. CASE BoostpackClear
  <2>1. Good(be')
    BY <1>1, <1>6, ClearSpeakerStateGood DEF BoostpackClear
  <2> QED BY <1>6, <2>1, BackendStepInv DEF BoostpackClear, Inv, TypeOK
<1>7. ASSUME NEW next \in LiveSettings,
             \/ StoreSettings(next) \/ DisableSpeaker(next)
             \/ EnableSpeaker(next) \/ ChangePolicy(next)
      PROVE  Inv'
  <2>1. CASE StoreSettings(next)
    BY <1>1, <2>1, BackendStepInv DEF StoreSettings, Inv, TypeOK
  <2>2. CASE DisableSpeaker(next)
    BY <1>2, <2>2, BackendStepInv DEF DisableSpeaker, Reported, Inv, TypeOK
  <2>3. CASE EnableSpeaker(next)
    BY <1>2, <2>3, BackendStepInv DEF EnableSpeaker, Inv, TypeOK
  <2>4. CASE ChangePolicy(next)
    <3>1. Good(be')
      BY <1>1, <2>4, ClearPlaybackGood DEF ChangePolicy
    <3> QED BY <2>4, <3>1, BackendStepInv DEF ChangePolicy, Reported, Inv, TypeOK
  <2> QED BY <1>7, <2>1, <2>2, <2>3, <2>4
<1> QED BY <1>3, <1>4, <1>5, <1>6, <1>7 DEF ManagerStep

LEMMA RoverSetInv ==
  ASSUME Inv, NEW believed \in {"off", "engine"} \cup Thrusts, RoverSet(believed)
  PROVE  Inv'
<1>1. PICK ok \in StartResults :
        LET b == Synced(ok)
        IN  IF Open(b) /\ VehicleOn
            THEN PostSet(b, Rover) /\ rover' = believed
            ELSE be' = b /\ UNCHANGED <<rover, lost>>
  BY DEF RoverSet
<1> DEFINE b == Synced(ok)
<1>2. Good(b)
  BY SyncedGood
<1> HIDE DEF b
<1>3. Good(be') /\ lost' \in BOOLEAN /\ rover' \in {"off", "engine"} \cup Thrusts
  <2>1. CASE Open(b) /\ VehicleOn
    BY <1>1, <1>2, <2>1, PostSetGood, OwnerFacts DEF b
  <2>2. CASE ~(Open(b) /\ VehicleOn)
    BY <1>1, <1>2, <2>2 DEF b, Inv, TypeOK
  <2> QED BY <2>1, <2>2
<1>4. /\ pb' \in {pb, Revoke(pb)}
      /\ UNCHANGED <<phase, live, link, driving, direct>>
  BY DEF RoverSet, Reported
<1> QED BY <1>3, <1>4, BackendStepInv DEF Inv, TypeOK

LEMMA RoverClearInv == ASSUME Inv, RoverClear PROVE Inv'
<1>1. Good(be')
  BY SyncedGood, OwnerFacts DEF RoverClear
<1> QED BY <1>1, BackendStepInv DEF RoverClear, Reported, Inv, TypeOK

LEMMA RoverInv == ASSUME Inv, RoverStep PROVE Inv'
<1>1. CASE RoverEngine
  BY <1>1, RoverSetInv DEF RoverEngine
<1>2. CASE RoverStopEngine
  BY <1>2, RoverClearInv DEF RoverStopEngine
<1>3. CASE RoverStopThrust
  BY <1>3, InvGood, BackendStepInv DEF RoverStopThrust, Inv, TypeOK
<1>4. CASE VehicleAuthority
  BY <1>4, InvGood, BackendStepInv DEF VehicleAuthority, Inv, TypeOK
<1>5. ASSUME NEW kind \in Thrusts, RoverThrustStart(kind) \/ RoverThrustStop(kind)
      PROVE  Inv'
  BY <1>5, RoverSetInv, RoverClearInv DEF RoverThrustStart, RoverThrustStop
<1> QED BY <1>1, <1>2, <1>3, <1>4, <1>5 DEF RoverStep

LEMMA WorkerInv == ASSUME Inv, WorkerStep PROVE Inv'
<1>1. Good(be) /\ Good(EndpointOpen(be)) /\ Good(EndpointLost(be)) /\ Good(RenderBlock(be))
  BY InvGood, EndpointGood, RenderBlockGood
<1>2. CASE Render
  BY <1>1, <1>2, BackendStepInv DEF Render, Inv, TypeOK
<1>3. CASE OpenEndpoint
  BY <1>1, <1>3, BackendStepInv DEF OpenEndpoint, Inv, TypeOK
<1>4. CASE LoseEndpoint
  BY <1>1, <1>4, BackendStepInv DEF LoseEndpoint, Inv, TypeOK
<1>5. CASE WiredWorkerFails
  <2> DEFINE c == EndpointLost(be)
  <2> HIDE DEF c
  <2>1. Good([c EXCEPT !.worker = FALSE])
    BY <1>1 DEF Good, Backends, Exclusive, c
  <2>2. be' = [c EXCEPT !.worker = FALSE]
    BY <1>5 DEF WiredWorkerFails, c
  <2> QED BY <1>5, <2>1, <2>2, BackendStepInv DEF WiredWorkerFails, Inv, TypeOK
<1>6. CASE BluetoothConnect \/ BluetoothWriteFails \/ BluetoothWorkerFails
  <2>1. Good(be')
    BY <1>1, <1>6 DEF BluetoothConnect, BluetoothWriteFails, BluetoothWorkerFails,
                      Good, Backends, Exclusive
  <2> QED BY <1>6, <2>1, BackendStepInv
          DEF BluetoothConnect, BluetoothWriteFails, BluetoothWorkerFails, Inv, TypeOK
<1>7. CASE ChangeLink
  BY <1>1, <1>7, BackendStepInv DEF ChangeLink, Inv, TypeOK
<1> QED BY <1>2, <1>3, <1>4, <1>5, <1>6, <1>7 DEF WorkerStep

LEMMA InitialBackendGood == Good(InitialBackend)
  BY OwnerFacts, Constants DEF Good, Exclusive, InitialBackend, Backends, Links

LEMMA InitInv == ASSUME Init PROVE Inv
<1>1. pb \in Playbacks /\ ~pb.auth /\ pb.activeGen = None
  BY Constants DEF Init, Playbacks, Profiles
<1> QED BY <1>1, InitialBackendGood
        DEF Init, Inv, TypeOK, Good, NoAuthorityWhileBlocked

LEMMA NextInv == ASSUME Inv, [Next]_vars PROVE Inv'
<1>1. CASE PlaybackStep
  BY <1>1, RevokingEventsInv, PlaybackOnlyInv, WwiseStartInv, PlaybackCallsInv, ReportInv
  DEF PlaybackStep, RevokingEvents
<1>2. CASE UNCHANGED vars
  BY <1>2 DEF vars, Inv, TypeOK, NoAuthorityWhileBlocked
<1> QED BY <1>1, <1>2, ManagerInv, RoverInv, WorkerInv DEF Next

LEMMA Invariance == Spec => []Inv
  BY InitInv, NextInv, PTL DEF Spec

\* Every variable keeps its type, whatever the order of calls, workers and
\* faults (every handler of WeaponSpeakerPlayback and the backends).
THEOREM TypeCorrect == Spec => []TypeOK
  BY Invariance, PTL DEF Inv

\* No weapon loop is authorised during a pause, a blocking menu, a ship or a
\* vehicle, whatever else the process does (observeGameEvent).
THEOREM Blocked == Spec => []NoAuthorityWhileBlocked
  BY Invariance, PTL DEF Inv

\* The link may change at any moment: the side that is not selected never holds
\* a loop (DualModeSpeakerBackend::synchronizeTransport).
THEOREM OneTransport == Spec => []OneTransportHoldsVoice
<1>1. Inv => OneTransportHoldsVoice
  BY DEF Inv, Exclusive, OneTransportHoldsVoice
<1> QED BY <1>1, Invariance, PTL
-------------------------------------------------------------------------------
(* A speaker that is switched off, not started yet or stopped has nothing   *)
(* left to play on an open WASAPI endpoint, whatever the links.             *)

\* An open endpoint has nothing to play.
Silent(b) == b.endpoint => b.mixer = None /\ b.pending.kind # "set"

\* The manager lets no loop through.
Off == phase # "started" \/ ~live.speaker

LEMMA QuietIsSilent == ASSUME NEW b, Quiet(b) PROVE Silent(b)
  BY DEF Quiet, Silent

\* Changing the side leaves no voice on either.
LEMMA SynchronizeQuiet ==
  ASSUME NEW b, Good(b), NEW l \in Links, NEW ok \in BOOLEAN
  PROVE  IF Switches(b, l) THEN Quiet(Synchronize(b, l, ok)) ELSE Synchronize(b, l, ok) = b
<1>1. CASE Switches(b, l)
  <2> DEFINE c == LeaveTransport(b)
  <2>1. Quiet(c)
    BY LeaveTransportQuiet
  <2>2. Synchronize(b, l, ok) = EnterTransport(c, l, ok)
    BY <1>1 DEF Synchronize
  <2> HIDE DEF c
  <2>3. Quiet(EnterTransport(c, l, ok))
    BY <2>1, StartWiredQuiet, StartBluetoothQuiet DEF EnterTransport
  <2> QED BY <1>1, <2>2, <2>3
<1>2. CASE ~Switches(b, l)
  BY <1>2 DEF Synchronize
<1> QED BY <1>1, <1>2

LEMMA StartDualQuiet ==
  ASSUME NEW b, Good(b), NEW l \in Links, NEW ok \in BOOLEAN
  PROVE  IF b.started THEN StartDual(b, l, ok) = b ELSE Quiet(StartDual(b, l, ok))
<1>1. CASE b.started
  BY <1>1 DEF StartDual
<1>2. CASE ~b.started
  <2> DEFINE c == [b EXCEPT !.started = TRUE, !.transport = "none"]
  <2>1. Quiet(c) /\ c.started
    BY <1>2 DEF Quiet, Good, Exclusive, Backends
  <2>2. StartDual(b, l, ok) = Synchronize(c, l, ok)
    BY <1>2 DEF StartDual
  <2> HIDE DEF c
  <2>3. Good(c)
    BY <2>1, QuietIsGood
  <2> QED BY <1>2, <2>1, <2>2, <2>3, SynchronizeQuiet
<1> QED BY <1>1, <1>2

\* A backend that is not active has no voice on an open endpoint.
LEMMA InactiveIsSilent == ASSUME NEW b, Good(b), ~Active(b) PROVE Silent(b)
  BY DEF Silent, Good, Exclusive, Active

LEMMA StopIfActiveSilent == ASSUME NEW b, Good(b) PROVE Silent(StopIfActive(b))
<1>1. CASE Active(b)
  <2>1. b.started
    BY <1>1 DEF Active, Good, Exclusive
  <2> QED BY <1>1, <2>1, StopDualGood, QuietIsSilent DEF StopIfActive
<1>2. CASE ~Active(b)
  BY <1>2, InactiveIsSilent DEF StopIfActive
<1> QED BY <1>1, <1>2

\* What the workers and the clears do to a silent endpoint.
LEMMA SilentKept ==
  ASSUME NEW b, Good(b), Silent(b), NEW owner \in Owners, NEW force \in BOOLEAN
  PROVE  /\ Silent(ClearPersistent(b, owner, force)) /\ Silent(ClearSpeakerState(b))
         /\ Silent(ClearPlayback(b)) /\ Silent(RenderBlock(b))
         /\ Silent(EndpointOpen(b)) /\ Silent(EndpointLost(b))
<1>1. Good(ClearSpeakerState(b)) /\ ClearSpeakerState(b).mixer = None
      /\ ClearSpeakerState(b).pending.kind = "none"
  BY ClearSpeakerStateGood
<1>2. Silent(ClearPersistent(b, owner, force))
  BY DEF ClearPersistent, Silent, Good, Backends
<1>3. Silent(RenderBlock(b))
  BY OwnerFacts DEF RenderBlock, AfterUpdate, Silent, Good, Backends
<1> DEFINE c == ClearSpeakerState(b)
<1>4. c \in Backends /\ c.mixer = None /\ c.pending.kind = "none"
  BY <1>1 DEF Good
<1> HIDE DEF c
<1>5. /\ Silent(c) /\ Silent(ClearBluetooth(c))
      /\ Silent([c EXCEPT !.endpoint = TRUE]) /\ Silent([c EXCEPT !.endpoint = FALSE])
  BY <1>4 DEF Silent, ClearBluetooth, Backends
<1> QED BY <1>2, <1>3, <1>5 DEF ClearPlayback, EndpointOpen, EndpointLost, c

SilentInv == Inv /\ (Off => Silent(be))

\* A step that keeps the manager off, and what it leaves of the backend.
LEMMA OffCalls ==
  ASSUME Inv, Silent(be), NEW ok \in StartResults
  PROVE  /\ Silent(Synced(ok))
         /\ \A owner \in Owners, force \in BOOLEAN : Silent(AfterClear(Synced(ok), owner, force))
<1>1. Good(be) /\ link \in Links /\ ok \in BOOLEAN
  BY InvGood, FlagFacts DEF Inv, TypeOK
<1>2. Good(Synced(ok))
  BY SyncedGood
<1>3. Silent(Synced(ok))
  BY <1>1, SynchronizeQuiet, QuietIsSilent DEF Synced
<1> QED BY <1>2, <1>3, SilentKept DEF AfterClear

LEMMA PlaybackSilent == ASSUME Inv, Off, Silent(be), PlaybackStep PROVE Silent(be')
<1>1. pb \in Playbacks /\ (pb.activeGen # None => pb.activeGen \in Owners)
  BY OwnerFacts DEF Inv, TypeOK, Playbacks
<1>2. CASE RevokingEvents
  <2>1. PICK next \in Playbacks, force \in BOOLEAN : ClearSustained(next, force)
    BY <1>2, RevokingEventsShape
  <2> QED BY <1>1, <2>1, OffCalls DEF ClearSustained
<1>3. CASE WwiseStart
  BY <1>3, OffCalls DEF WwiseStart, Open, Off
<1>4. CASE WwiseStop
  BY <1>1, <1>4, OffCalls DEF WwiseStop
<1>5. CASE FiniteCue
  BY <1>5, OffCalls DEF FiniteCue
<1>6. CASE RightTriggerReleased
  BY <1>1, <1>6, OffCalls DEF RightTriggerReleased
<1>7. CASE \/ SuppressionLifted \/ GameUnpaused
           \/ \E menu \in Menus : BlockingMenuClosed(menu)
           \/ ReportEndpointInvalidated \/ ReportDirectStop
  BY <1>7 DEF SuppressionLifted, GameUnpaused, BlockingMenuClosed, PlaybackOnly,
              ReportEndpointInvalidated, ReportDirectStop
<1> QED BY <1>2, <1>3, <1>4, <1>5, <1>6, <1>7 DEF PlaybackStep, RevokingEvents

LEMMA RoverSilent == ASSUME Inv, Off, Silent(be), RoverStep PROVE Silent(be')
<1>1. ASSUME NEW believed, RoverSet(believed) PROVE Silent(be')
  BY <1>1, OffCalls DEF RoverSet, Open, VehicleOn, Off
<1>2. ASSUME RoverClear PROVE Silent(be')
  BY <1>2, OffCalls, OwnerFacts DEF RoverClear
<1>3. ASSUME RoverStopThrust \/ VehicleAuthority PROVE Silent(be')
  BY <1>3 DEF RoverStopThrust, VehicleAuthority
<1> QED BY <1>1, <1>2, <1>3
        DEF RoverStep, RoverEngine, RoverStopEngine, RoverThrustStart, RoverThrustStop

LEMMA WorkerSilent == ASSUME Inv, Silent(be), WorkerStep PROVE Silent(be')
<1>1. /\ Silent(RenderBlock(be)) /\ Silent(EndpointOpen(be)) /\ Silent(EndpointLost(be))
      /\ Good(EndpointLost(be))
  BY InvGood, SilentKept, EndpointGood, OwnerFacts
<1> DEFINE c == EndpointLost(be)
<1>2. CASE WiredWorkerFails
  <2> HIDE DEF c
  <2>1. be' = [c EXCEPT !.worker = FALSE] /\ c \in Backends /\ Silent(c)
    BY <1>1, <1>2 DEF WiredWorkerFails, Good, c
  <2> QED BY <2>1 DEF Silent, Backends
<1>3. CASE BluetoothConnect \/ BluetoothWriteFails \/ BluetoothWorkerFails \/ ChangeLink
  BY <1>3, InvGood DEF BluetoothConnect, BluetoothWriteFails, BluetoothWorkerFails,
                       ChangeLink, Silent, Good, Backends
<1> QED BY <1>1, <1>2, <1>3 DEF WorkerStep, Render, OpenEndpoint, LoseEndpoint

LEMMA ManagerSilent == ASSUME SilentInv, ManagerStep PROVE (Off => Silent(be))'
<1>1. Good(be) /\ link \in Links
  BY InvGood, FlagFacts DEF SilentInv, Inv, TypeOK
<1>2. ASSUME NEW ok \in StartResults
      PROVE  /\ Good(Synchronize(be, link, ok))
             /\ Silent(StopIfActive(Synchronize(be, link, ok)))
             /\ Silent(be) => Silent(Synchronize(be, link, ok)) /\ Silent(StartDual(be, link, ok))
  BY <1>1, FlagFacts, SynchronizeGood, StopIfActiveSilent, SynchronizeQuiet, StartDualQuiet,
     QuietIsSilent
<1>3. CASE ManagerStart
  BY <1>2, <1>3 DEF ManagerStart, SilentInv, Off
<1>4. CASE ManagerStop \/ \E next \in LiveSettings : DisableSpeaker(next)
  BY <1>2, <1>4 DEF ManagerStop, DisableSpeaker
<1>5. CASE Poll
  BY <1>2, <1>5 DEF Poll, SilentInv, Off
<1>6. CASE BoostpackClear \/ \E next \in LiveSettings : ChangePolicy(next)
  <2>1. Silent(ClearSpeakerState(be)) /\ Silent(ClearPlayback(be))
    <3>1. Silent(ClearSpeakerState(be)) /\ ClearSpeakerState(be) \in Backends
      BY <1>1, ClearSpeakerStateGood DEF Silent, Good
    <3> QED BY <3>1 DEF ClearPlayback, ClearBluetooth, Silent, Backends
  <2> QED BY <1>6, <2>1 DEF BoostpackClear, ChangePolicy
<1>7. CASE \E next \in LiveSettings : StoreSettings(next) \/ EnableSpeaker(next)
  BY <1>7 DEF StoreSettings, EnableSpeaker, SilentInv, Off
<1> QED BY <1>3, <1>4, <1>5, <1>6, <1>7 DEF ManagerStep

LEMMA NextSilent == ASSUME SilentInv, [Next]_vars PROVE SilentInv'
<1>1. Inv'
  BY NextInv DEF SilentInv
<1>2. CASE ManagerStep
  BY <1>1, <1>2, ManagerSilent DEF SilentInv
<1>3. CASE PlaybackStep \/ RoverStep \/ WorkerStep \/ UNCHANGED vars
  <2>1. UNCHANGED <<phase, live>>
    BY <1>3 DEF vars, PlaybackStep, ShipPilotEntered, ShipPilotInvalidated, ShipPilotExited,
       LandVehicleContextEntered, LandVehicleContextExited, SuppressionLifted, WeaponEquipped,
       GamePaused, GameUnpaused, BlockingMenuOpened, BlockingMenuClosed, Shutdown, WwiseStart,
       WwiseStop, FiniteCue, RightTriggerReleased, ReportEndpointInvalidated, ReportDirectStop,
       ClearSustained, PlaybackOnly, RoverStep, RoverEngine, RoverStopEngine, RoverStopThrust,
       VehicleAuthority, RoverThrustStart, RoverThrustStop, RoverSet, RoverClear, WorkerStep,
       Render, OpenEndpoint, LoseEndpoint, WiredWorkerFails, BluetoothConnect,
       BluetoothWriteFails, BluetoothWorkerFails, ChangeLink
  <2>2. Off => Silent(be')
    BY <1>3, PlaybackSilent, RoverSilent, WorkerSilent DEF SilentInv, vars
  <2> QED BY <1>1, <2>1, <2>2 DEF SilentInv, Off
<1> QED BY <1>2, <1>3 DEF Next

LEMMA InitSilent == ASSUME Init PROVE SilentInv
  BY InitInv DEF Init, SilentInv, InitialBackend, Silent, NoUpdate

LEMMA SilentInvariance == Spec => []SilentInv
  BY InitSilent, NextSilent, PTL DEF Spec
-------------------------------------------------------------------------------
(* A session on the cable.                                                  *)

Wired == SessionLinks = {"wired"}

\* A backend that never selected the Bluetooth side.
OffAir(b) == b.transport # "bluetooth"

LEMMA StartOffAir ==
  ASSUME NEW b, Good(b), OffAir(b), NEW ok \in BOOLEAN
  PROVE  OffAir(Synchronize(b, "wired", ok)) /\ OffAir(StartDual(b, "wired", ok))
<1>1. ASSUME NEW c \in Backends, OffAir(c)
      PROVE  OffAir(Synchronize(c, "wired", ok))
  <2>1. CASE Switches(c, "wired")
    <3>1. LeaveTransport(c) = c
      BY <1>1, <2>1 DEF LeaveTransport, Switches, OffAir
    <3>2. Synchronize(c, "wired", ok) = StartWired(c, ok)
      BY <2>1, <3>1 DEF Synchronize, EnterTransport
    <3> QED BY <1>1, <3>2 DEF StartWired, OffAir, Backends
  <2>2. CASE ~Switches(c, "wired")
    BY <1>1, <2>2 DEF Synchronize
  <2> QED BY <2>1, <2>2
<1>2. CASE b.started
  BY <1>1, <1>2 DEF StartDual, Good
<1>3. CASE ~b.started
  <2> DEFINE c == [b EXCEPT !.started = TRUE, !.transport = "none"]
  <2>1. c \in Backends /\ OffAir(c)
    BY DEF Good, Backends, OffAir
  <2>2. StartDual(b, "wired", ok) = Synchronize(c, "wired", ok)
    BY <1>3 DEF StartDual
  <2> HIDE DEF c
  <2> QED BY <1>1, <2>1, <2>2 DEF Good
<1> QED BY <1>2, <1>3

LEMMA OpsOffAir ==
  ASSUME NEW b, Good(b), OffAir(b), NEW owner, NEW force
  PROVE  /\ OffAir(ClearSpeakerState(b)) /\ OffAir(ClearPlayback(b))
         /\ OffAir(ClearPersistent(b, owner, force)) /\ OffAir(SetPersistent(b, owner))
         /\ OffAir(RenderBlock(b)) /\ OffAir(EndpointOpen(b)) /\ OffAir(EndpointLost(b))
         /\ OffAir(StopIfActive(b))
<1>1. OffAir(StopIfActive(b))
  <2> DEFINE d == StopBluetooth(StopWired(b))
  <2>1. d \in Backends /\ d.transport = b.transport
    BY StopWiredGood, BluetoothGood DEF Good
  <2>2. StopDual(b) \in {b, [d EXCEPT !.transport = "none", !.started = FALSE]}
    BY DEF StopDual
  <2> HIDE DEF d
  <2> QED BY <2>1, <2>2 DEF StopIfActive, OffAir, Backends
<1>2. OffAir(ClearSpeakerState(b)) /\ ClearSpeakerState(b) \in Backends
  BY ClearSpeakerStateGood DEF Good, OffAir
<1> DEFINE c == ClearSpeakerState(b)
<1> HIDE DEF c
<1>3. /\ OffAir([c EXCEPT !.endpoint = TRUE]) /\ OffAir([c EXCEPT !.endpoint = FALSE])
      /\ OffAir(ClearBluetooth(c))
  BY <1>2 DEF OffAir, ClearBluetooth, Backends, c
<1>4. /\ OffAir(ClearPersistent(b, owner, force)) /\ OffAir(SetPersistent(b, owner))
      /\ OffAir(RenderBlock(b))
  BY DEF ClearPersistent, SetPersistent, RenderBlock, OffAir, Good, Backends
<1> QED BY <1>1, <1>2, <1>3, <1>4 DEF ClearPlayback, EndpointOpen, EndpointLost, c

\* On the cable nothing changes sides, so no side change reports.
WiredInv == Inv /\ OffAir(be)

LEMMA WiredFacts ==
  ASSUME Wired, WiredInv
  PROVE  /\ link = "wired" /\ Good(be) /\ OffAir(be) /\ ~SwitchReports(be, link)
         /\ be.btMixer = None
  BY InvGood DEF Wired, WiredInv, Inv, TypeOK, SwitchReports, Switches, OffAir, Exclusive

LEMMA WiredCalls ==
  ASSUME Wired, WiredInv, NEW ok \in StartResults
  PROVE  /\ Good(Synced(ok)) /\ OffAir(Synced(ok))
         /\ \A owner, force : OffAir(AfterClear(Synced(ok), owner, force))
<1>1. Good(Synced(ok)) /\ OffAir(Synced(ok))
  BY WiredFacts, SyncedGood, StartOffAir, FlagFacts DEF Synced, WiredInv
<1> QED BY <1>1, OpsOffAir DEF AfterClear

LEMMA PostSetOffAir ==
  ASSUME NEW b, Good(b), OffAir(b), NEW owner, PostSet(b, owner)
  PROVE  OffAir(be')
<1>1. PICK c \in Raced(b) : be' = SetPersistent(c, owner)
  BY DEF PostSet
<1>2. Good(c) /\ OffAir(c)
  BY EndpointGood, OpsOffAir DEF Raced
<1> QED BY <1>1, <1>2, OpsOffAir

LEMMA PlaybackOffAir == ASSUME Wired, WiredInv, PlaybackStep PROVE OffAir(be')
<1>1. OffAir(be) /\ Inv
  BY DEF WiredInv
<1>2. CASE RevokingEvents
  <2>1. PICK next \in Playbacks, force \in BOOLEAN : ClearSustained(next, force)
    BY <1>1, <1>2, RevokingEventsShape
  <2> QED BY <1>1, <2>1, WiredCalls DEF ClearSustained
<1>3. CASE WwiseStart
  <2>1. PICK ok \in StartResults : PostSet(Synced(ok), pb.nextGen) \/ be' = Synced(ok)
    BY <1>3 DEF WwiseStart
  <2> QED BY <2>1, WiredCalls, PostSetOffAir
<1>4. CASE WwiseStop
  BY <1>4, WiredCalls DEF WwiseStop
<1>5. CASE FiniteCue
  BY <1>5, WiredCalls DEF FiniteCue
<1>6. CASE RightTriggerReleased
  BY <1>6, WiredCalls DEF RightTriggerReleased
<1>7. CASE \/ SuppressionLifted \/ GameUnpaused
           \/ \E menu \in Menus : BlockingMenuClosed(menu)
           \/ ReportEndpointInvalidated \/ ReportDirectStop
  BY <1>1, <1>7 DEF SuppressionLifted, GameUnpaused, BlockingMenuClosed, PlaybackOnly,
              ReportEndpointInvalidated, ReportDirectStop
<1> QED BY <1>2, <1>3, <1>4, <1>5, <1>6, <1>7 DEF PlaybackStep, RevokingEvents

LEMMA ManagerOffAir == ASSUME Wired, WiredInv, ManagerStep PROVE OffAir(be')
<1>1. Good(be) /\ OffAir(be) /\ link = "wired"
  BY WiredFacts
<1>2. OffAir(ClearSpeakerState(be)) /\ OffAir(ClearPlayback(be))
  BY <1>1, OpsOffAir
<1>3. ASSUME NEW ok \in StartResults
      PROVE  /\ OffAir(Synchronize(be, link, ok)) /\ OffAir(StartDual(be, link, ok))
             /\ OffAir(StopIfActive(Synchronize(be, link, ok)))
  <2>1. Good(Synchronize(be, link, ok)) /\ ok \in BOOLEAN
    BY <1>1, SynchronizeGood, FlagFacts DEF Links
  <2>2. OffAir(Synchronize(be, link, ok)) /\ OffAir(StartDual(be, link, ok))
    BY <1>1, <2>1, StartOffAir
  <2> QED BY <2>1, <2>2, OpsOffAir
<1> QED BY <1>1, <1>2, <1>3 DEF ManagerStep, ManagerStart, ManagerStop, Poll, BoostpackClear,
           StoreSettings, DisableSpeaker, EnableSpeaker, ChangePolicy

LEMMA RoverOffAir == ASSUME Wired, WiredInv, RoverStep PROVE OffAir(be')
<1>1. ASSUME NEW believed, RoverSet(believed) PROVE OffAir(be')
  <2>1. PICK ok \in StartResults : PostSet(Synced(ok), Rover) \/ be' = Synced(ok)
    BY <1>1 DEF RoverSet
  <2> QED BY <2>1, WiredCalls, PostSetOffAir
<1>2. ASSUME RoverClear PROVE OffAir(be')
  BY <1>2, WiredCalls DEF RoverClear
<1>3. ASSUME RoverStopThrust \/ VehicleAuthority PROVE OffAir(be')
  BY <1>3, WiredFacts DEF RoverStopThrust, VehicleAuthority
<1> QED BY <1>1, <1>2, <1>3
        DEF RoverStep, RoverEngine, RoverStopEngine, RoverThrustStart, RoverThrustStop

LEMMA WorkerOffAir == ASSUME Wired, WiredInv, WorkerStep PROVE OffAir(be')
<1>1. /\ OffAir(be) /\ OffAir(RenderBlock(be)) /\ OffAir(EndpointOpen(be))
      /\ OffAir(EndpointLost(be)) /\ Good(EndpointLost(be)) /\ Good(be)
  BY WiredFacts, OpsOffAir, EndpointGood
<1> DEFINE c == EndpointLost(be)
<1>2. CASE WiredWorkerFails
  <2> HIDE DEF c
  <2>1. be' = [c EXCEPT !.worker = FALSE] /\ c \in Backends /\ OffAir(c)
    BY <1>1, <1>2 DEF WiredWorkerFails, Good, c
  <2> QED BY <2>1 DEF OffAir, Backends
<1>3. CASE BluetoothConnect \/ BluetoothWriteFails \/ BluetoothWorkerFails \/ ChangeLink
  BY <1>1, <1>3 DEF BluetoothConnect, BluetoothWriteFails, BluetoothWorkerFails,
                    ChangeLink, OffAir, Good, Backends
<1> QED BY <1>1, <1>2, <1>3 DEF WorkerStep, Render, OpenEndpoint, LoseEndpoint

LEMMA WiredInvariance == ASSUME Wired PROVE Spec => []WiredInv
<1>1. Init => WiredInv
  <2>1. Init => OffAir(be)
    BY DEF Init, InitialBackend, OffAir
  <2> QED BY <2>1, InitInv DEF WiredInv
<1>2. WiredInv /\ [Next]_vars => WiredInv'
  <2> SUFFICES ASSUME WiredInv, [Next]_vars PROVE WiredInv'
    OBVIOUS
  <2>1. Inv'
    BY NextInv DEF WiredInv
  <2>2. CASE UNCHANGED vars
    BY <2>1, <2>2 DEF WiredInv, vars
  <2> QED BY <2>1, <2>2, PlaybackOffAir, ManagerOffAir, RoverOffAir, WorkerOffAir
          DEF Next, WiredInv
<1> QED BY <1>1, <1>2, PTL DEF Spec

\* On the cable the master switch silences every category at once, whatever
\* races with it: boostpack, vehicle, lost endpoints, dying workers and calls
\* that overtake a block (applyLiveSettings, DualModeSpeakerBackend::stop).
THEOREM DisabledSilences == ASSUME Wired PROVE Spec => []DisabledIsSilent
<1>1. WiredInv /\ SilentInv => DisabledIsSilent
  BY WiredFacts DEF SilentInv, Off, Silent, DisabledIsSilent, Audible
<1> QED BY <1>1, SilentInvariance, WiredInvariance, PTL
-------------------------------------------------------------------------------
(* On foot, on the cable, with a worker that only ends when it is told to,  *)
(* an authority always has its loop.                                        *)

\* What the backend plays is what the playback authorised, or a revocation is on
\* its way.
Backed == Sounding(be) = pb.activeGen \/ lost \/ direct

PhantomInv == WiredInv /\ rover = "off" /\ ~driving /\ (pb.auth => Backed)

LEMMA SoundingOffAir ==
  ASSUME NEW b, OffAir(b)
  PROVE  Sounding(b) = IF b.endpoint THEN AfterUpdate(b) ELSE None
  BY DEF OffAir, Sounding

\* A side that plays is selected, so the calls find it in place.
LEMMA SoundingStays ==
  ASSUME Wired, WiredInv, Sounding(be) # None, NEW ok
  PROVE  /\ be.transport = "wired" /\ be.client /\ be.endpoint /\ be.started
         /\ Synchronize(be, link, ok) = be /\ StartDual(be, link, ok) = be
<1>1. be.endpoint /\ AfterUpdate(be) # None /\ Good(be) /\ link = "wired"
  BY SoundingOffAir, WiredFacts
<1>2. be.mixer # None \/ be.pending.kind = "set"
  BY <1>1 DEF AfterUpdate
<1>3. be.transport = "wired" /\ be.client /\ be.started
  BY <1>1, <1>2 DEF Good, Exclusive
<1> QED BY <1>1, <1>3 DEF Synchronize, Switches, StartDual

\* A granted loop is in the mailbox of the open endpoint, or the endpoint is lost
\* and the report under way.
LEMMA PostSetSounds ==
  ASSUME NEW b, Good(b), OffAir(b), Active(b), NEW owner \in Owners, PostSet(b, owner)
  PROVE  /\ lost' \/ Sounding(be') = owner
         /\ ~lost /\ lost' => ~be'.endpoint
<1>1. PICK c \in Raced(b) : be' = SetPersistent(c, owner) /\ lost' = (lost \/ c # b)
  BY DEF PostSet
<1>2. b.transport = "wired" /\ b.endpoint
  BY DEF Active, OffAir
<1>3. CASE c = b
  <2> DEFINE u == [kind |-> "set", owner |-> owner, force |-> FALSE]
  <2>1. be' = [b EXCEPT !.pending = u]
    BY <1>1, <1>2, <1>3 DEF SetPersistent
  <2>2. u.kind = "set" /\ u.owner = owner
    OBVIOUS
  <2> HIDE DEF u
  <2>3. /\ be'.endpoint /\ be'.transport = "wired"
        /\ be'.pending.kind = "set" /\ be'.pending.owner = owner
    BY <1>2, <2>1, <2>2 DEF Good, Backends
  <2>4. AfterUpdate(be') = owner
    BY <2>3 DEF AfterUpdate
  <2>5. Sounding(be') = AfterUpdate(be')
    BY <2>3 DEF Sounding
  <2>6. ~lost => ~lost'
    BY <1>1, <1>3
  <2> QED BY <2>4, <2>5, <2>6
<1>4. CASE c # b
  <2>1. c = EndpointLost(b)
    BY <1>2, <1>4 DEF Raced
  <2>2. Good(c) /\ ~c.endpoint
    BY <2>1, EndpointGood, ClearSpeakerStateGood DEF EndpointLost, Good, Backends
  <2>3. ~SetPersistent(c, owner).endpoint
    BY <2>2 DEF SetPersistent, Good, Backends
  <2> QED BY <1>1, <1>4, <2>3
<1> QED BY <1>3, <1>4

LEMMA PlaybackBacked ==
  ASSUME Wired, PhantomInv, PlaybackStep
  PROVE  (pb.auth => Backed)'
<1>1. Inv /\ WiredInv /\ pb \in Playbacks
  BY DEF PhantomInv, WiredInv, Inv, TypeOK
<1>2. CASE RevokingEvents
  <2>1. PICK next \in Playbacks, force \in BOOLEAN : ClearSustained(next, force)
    BY <1>1, <1>2, RevokingEventsShape
  <2> QED BY <2>1, RevokeFacts DEF ClearSustained
<1>3. CASE WwiseStart
  <2>1. ~pb.auth
    BY <1>1, <1>3 DEF WwiseStart, Inv
  <2>2. PICK ok \in StartResults :
          \/ /\ PostSet(Synced(ok), pb.nextGen) /\ Open(Synced(ok))
             /\ pb' = [pb EXCEPT !.auth = TRUE, !.activeGen = pb.nextGen,
                                 !.releaseGen = pb.nextGen, !.nextGen = pb.nextGen + 1]
          \/ \E p \in SelfReport(pb, be) : pb' = [p EXCEPT !.nextGen = pb.nextGen + 1]
    BY <1>3 DEF WwiseStart
  <2>3. pb.nextGen \in Owners
    BY <1>1, <1>3, Constants, OwnerFacts DEF WwiseStart, Playbacks, Gens
  <2>4. CASE PostSet(Synced(ok), pb.nextGen) /\ Open(Synced(ok))
    <3>1. lost' \/ Sounding(be') = pb.nextGen
      BY <1>1, <2>3, <2>4, WiredCalls, PostSetSounds DEF Open
    <3>2. CASE pb' = [pb EXCEPT !.auth = TRUE, !.activeGen = pb.nextGen,
                                !.releaseGen = pb.nextGen, !.nextGen = pb.nextGen + 1]
      BY <1>1, <3>1, <3>2 DEF Backed, Playbacks
    <3>3. CASE \E p \in SelfReport(pb, be) : pb' = [p EXCEPT !.nextGen = pb.nextGen + 1]
      BY <1>1, <2>1, <3>3, RevokeFacts DEF SelfReport, Playbacks
    <3> QED BY <2>2, <3>2, <3>3
  <2>5. CASE \E p \in SelfReport(pb, be) : pb' = [p EXCEPT !.nextGen = pb.nextGen + 1]
    BY <1>1, <2>1, <2>5, RevokeFacts DEF SelfReport, Playbacks
  <2> QED BY <2>2, <2>4, <2>5
<1>4. CASE WwiseStop \/ ReportEndpointInvalidated \/ ReportDirectStop
  BY <1>1, <1>4, RevokeFacts DEF WwiseStop, ReportEndpointInvalidated, ReportDirectStop
<1>5. CASE FiniteCue
  BY <1>1, <1>5, WiredFacts DEF FiniteCue
<1>6. CASE RightTriggerReleased
  BY <1>1, <1>6, RevokeFacts DEF RightTriggerReleased, SelfReport, Playbacks
<1>7. CASE \/ SuppressionLifted \/ GameUnpaused
           \/ \E menu \in Menus : BlockingMenuClosed(menu)
  <2>1. /\ pb'.auth = pb.auth /\ pb'.activeGen = pb.activeGen
        /\ UNCHANGED <<be, lost, direct>>
    BY <1>1, <1>7 DEF SuppressionLifted, GameUnpaused, BlockingMenuClosed, PlaybackOnly, Playbacks
  <2> QED BY <2>1 DEF PhantomInv, Backed
<1> QED BY <1>2, <1>3, <1>4, <1>5, <1>6, <1>7 DEF PlaybackStep, RevokingEvents

\* stop() and a disabling that silence a playing side report it.
LEMMA StoppingBacked ==
  ASSUME Wired, PhantomInv, NEW ok \in StartResults, UNCHANGED <<lost, direct>>,
         be' = StopIfActive(Synchronize(be, link, ok)),
         Reported(\/ SwitchReports(be, link)
                  \/ Active(Synchronize(be, link, ok)) /\ StopReports(Synchronize(be, link, ok)))
  PROVE  (pb.auth => Backed)'
<1>1. WiredInv /\ pb \in Playbacks
  BY DEF PhantomInv, WiredInv, Inv, TypeOK
<1>2. CASE lost \/ direct
  BY <1>2 DEF Backed
<1>3. CASE ~lost /\ ~direct /\ pb.auth
  <2>1. Sounding(be) # None
    BY <1>3 DEF PhantomInv, WiredInv, Inv, Backed
  <2>2. /\ Synchronize(be, link, ok) = be
        /\ be.client /\ be.started /\ be.endpoint /\ be.transport = "wired"
    BY <1>1, <2>1, SoundingStays
  <2>3. Active(be) /\ StopReports(be)
    BY <2>2 DEF Active, StopReports
  <2> QED BY <1>1, <2>2, <2>3, RevokeFacts DEF Reported
<1>4. CASE ~pb.auth
  BY <1>1, <1>4, RevokeFacts DEF Reported
<1> QED BY <1>2, <1>3, <1>4

\* A call that leaves the playback alone and may only start a silent side.
LEMMA StartingBacked ==
  ASSUME Wired, PhantomInv, NEW ok, UNCHANGED <<pb, lost, direct>>,
         be' \in {be, Synchronize(be, link, ok), StartDual(be, link, ok)}
  PROVE  (pb.auth => Backed)'
<1>1. CASE lost \/ direct \/ ~pb.auth
  BY <1>1 DEF Backed
<1>2. CASE ~lost /\ ~direct /\ pb.auth
  <2>1. Sounding(be) # None /\ Backed /\ WiredInv
    BY <1>2 DEF PhantomInv, WiredInv, Inv, Backed
  <2>2. be' = be
    BY <2>1, SoundingStays
  <2> QED BY <2>1, <2>2 DEF Backed
<1> QED BY <1>1, <1>2

LEMMA ManagerBacked == ASSUME Wired, PhantomInv, ManagerStep PROVE (pb.auth => Backed)'
<1>1. WiredInv /\ pb \in Playbacks /\ ~SwitchReports(be, link)
  BY WiredFacts DEF PhantomInv, WiredInv, Inv, TypeOK
<1>2. CASE ManagerStop \/ \E next \in LiveSettings : DisableSpeaker(next)
  BY <1>2, StoppingBacked DEF ManagerStop, DisableSpeaker
<1>3. CASE ManagerStart
  BY <1>3, StartingBacked DEF ManagerStart
<1>4. CASE Poll
  BY <1>1, <1>4, StartingBacked DEF Poll, Reported
<1>5. CASE BoostpackClear
  BY <1>5 DEF BoostpackClear, Backed
<1>6. CASE \E next \in LiveSettings : StoreSettings(next) \/ EnableSpeaker(next)
  BY <1>6, StartingBacked DEF StoreSettings, EnableSpeaker
<1>7. CASE \E next \in LiveSettings : ChangePolicy(next)
  BY <1>1, <1>7, RevokeFacts DEF ChangePolicy, Reported
<1> QED BY <1>2, <1>3, <1>4, <1>5, <1>6, <1>7 DEF ManagerStep

\* A block plays what was announced, and the Bluetooth worker is not heard.
LEMMA WorkersSound ==
  ASSUME Wired, WiredInv,
         Render \/ BluetoothConnect \/ BluetoothWriteFails \/ BluetoothWorkerFails
  PROVE  Sounding(be') = Sounding(be) /\ UNCHANGED <<pb, lost, direct>>
<1>1. Good(be) /\ OffAir(be) /\ link = "wired"
  BY WiredFacts
<1>2. CASE Render
  <2> DEFINE m == AfterUpdate(be)
  <2>1. be' = [be EXCEPT !.mixer = m, !.pending = NoUpdate]
    BY <1>2 DEF Render, RenderBlock
  <2> HIDE DEF m
  <2>2. be'.endpoint = be.endpoint /\ OffAir(be') /\ be'.mixer = m /\ be'.pending.kind = "none"
    BY <1>1, <2>1, OwnerFacts DEF Good, Backends, OffAir
  <2>3. AfterUpdate(be') = m
    BY <2>2 DEF AfterUpdate
  <2>4. Sounding(be') = Sounding(be)
    BY <1>1, <2>2, <2>3, SoundingOffAir DEF m
  <2> QED BY <1>2, <2>4 DEF Render
<1>3. CASE BluetoothConnect \/ BluetoothWriteFails \/ BluetoothWorkerFails
  <2>1. /\ UNCHANGED <<pb, lost, direct>>
        /\ be'.endpoint = be.endpoint /\ be'.transport = be.transport
        /\ be'.mixer = be.mixer /\ be'.pending = be.pending
    BY <1>1, <1>3 DEF BluetoothConnect, BluetoothWriteFails, BluetoothWorkerFails, Good, Backends
  <2>2. AfterUpdate(be') = AfterUpdate(be)
    BY <2>1 DEF AfterUpdate
  <2> QED BY <1>1, <2>1, <2>2, SoundingOffAir DEF OffAir
<1> QED BY <1>2, <1>3

LEMMA WorkerBacked ==
  ASSUME Wired, ~WorkerFaults, PhantomInv, WorkerStep
  PROVE  (pb.auth => Backed)'
<1>1. WiredInv /\ OffAir(be) /\ link = "wired"
  BY WiredFacts DEF PhantomInv
<1>2. CASE Render \/ BluetoothConnect \/ BluetoothWriteFails \/ BluetoothWorkerFails
  BY <1>1, <1>2, WorkersSound DEF PhantomInv, Backed
<1>3. CASE OpenEndpoint
  <2>1. Sounding(be) = None
    BY <1>1, <1>3, SoundingOffAir DEF OpenEndpoint
  <2>2. UNCHANGED <<pb, lost, direct>>
    BY <1>3 DEF OpenEndpoint
  <2> QED BY <2>1, <2>2 DEF PhantomInv, WiredInv, Inv, Backed
<1>4. CASE LoseEndpoint
  BY <1>4 DEF LoseEndpoint, Backed
<1>5. CASE ChangeLink
  BY <1>1, <1>5 DEF ChangeLink, Wired
<1> QED BY <1>2, <1>3, <1>4, <1>5 DEF WorkerStep, WiredWorkerFails

\* On foot the rover's calls stay out.
LEMMA OnFoot ==
  ASSUME ~RoverDriven, PhantomInv, [Next]_vars
  PROVE  ~RoverStep /\ rover' = "off" /\ ~driving'
<1>1. ~RoverStep
  BY DEF PhantomInv, RoverStep, RoverEngine, RoverStopEngine, RoverStopThrust, VehicleAuthority,
         RoverThrustStart, RoverThrustStop, Thrusts
<1>2. UNCHANGED <<rover, driving>>
  BY <1>1 DEF Next, vars, PlaybackStep, ShipPilotEntered, ShipPilotInvalidated, ShipPilotExited,
     LandVehicleContextEntered, LandVehicleContextExited, SuppressionLifted, WeaponEquipped,
     GamePaused, GameUnpaused, BlockingMenuOpened, BlockingMenuClosed, Shutdown, WwiseStart,
     WwiseStop, FiniteCue, RightTriggerReleased, ReportEndpointInvalidated, ReportDirectStop,
     ClearSustained, PlaybackOnly, ManagerStep, ManagerStart, ManagerStop, Poll,
     BoostpackClear, StoreSettings, DisableSpeaker, EnableSpeaker, ChangePolicy, WorkerStep,
     Render, OpenEndpoint, LoseEndpoint, WiredWorkerFails, BluetoothConnect,
     BluetoothWriteFails, BluetoothWorkerFails, ChangeLink
<1> QED BY <1>1, <1>2 DEF PhantomInv

\* On the cable and on foot an authorised loop plays, or the thread that will
\* revoke it is under way, even when calls overtake a block: no stale authority
\* refuses the next Loop_Play (startSustained, observeBackendInvalidation).
THEOREM NoPhantoms ==
  ASSUME Wired, ~RoverDriven, ~WorkerFaults
  PROVE  Spec => []NoPhantomAuthority
<1>1. Init => rover = "off" /\ ~driving /\ ~pb.auth
  BY DEF Init
<1>2. ASSUME PhantomInv, WiredInv', [Next]_vars
      PROVE  PhantomInv'
  <2>1. CASE UNCHANGED vars
    BY <1>2, <2>1 DEF vars, PhantomInv, Backed
  <2> QED BY <1>2, <2>1, OnFoot, PlaybackBacked, ManagerBacked, WorkerBacked DEF Next, PhantomInv
<1>3. Init /\ WiredInv => PhantomInv
  BY <1>1 DEF PhantomInv
<1>4. PhantomInv => NoPhantomAuthority
  BY DEF PhantomInv, Backed, NoPhantomAuthority
<1>5. PhantomInv /\ WiredInv' /\ [Next]_vars => PhantomInv'
  BY <1>2
<1> QED BY <1>3, <1>4, <1>5, WiredInvariance, PTL DEF Spec
-------------------------------------------------------------------------------
(* The refinement.  SustainedVoice implements LoopAuthority when no boostpack *)
(* clear goes past the manager: for every number of generations, on both    *)
(* links, with link changes, settings, lost endpoints and dying workers.    *)

\* A weapon loop waits in the mailbox of an open endpoint.
Posted(b) == b.endpoint /\ b.pending.kind = "set" /\ b.pending.owner \in Gens

\* c comes from b by steps that start no loop and open no endpoint.
Follows(b, c) ==
  /\ c.mixer \in {b.mixer, None}
  /\ Posted(c) => Posted(b) /\ c.pending = b.pending
  /\ c.endpoint => b.endpoint

LEMMA FollowsTrans ==
  ASSUME NEW b, NEW c, NEW d, Follows(b, c), Follows(c, d)
  PROVE  Follows(b, d)
  BY DEF Follows

LEMMA QuietNotPosted == ASSUME NEW b, Quiet(b) PROVE ~Posted(b)
  BY DEF Quiet, Posted

LEMMA StopWiredFollows == ASSUME NEW b, Good(b) PROVE Follows(b, StopWired(b))
<1>1. CASE b.client
  <2>1. StopWired(b).endpoint => b.endpoint
    <3> DEFINE e == b.endpoint /\ HapticsClient
    <3>1. StopWired(b).endpoint = e
      BY <1>1 DEF StopWired, Good, Backends
    <3> QED BY <3>1
  <2> QED BY <2>1, StopWiredSilences DEF Follows, Posted
<1>2. CASE ~b.client
  BY <1>2 DEF StopWired, Follows
<1> QED BY <1>1, <1>2

LEMMA SimpleFollows ==
  ASSUME NEW b, Good(b), NEW ok \in BOOLEAN
  PROVE  /\ Follows(b, ClearSpeakerState(b)) /\ Follows(b, ClearBluetooth(b))
         /\ Follows(b, StopBluetooth(b)) /\ Follows(b, StartBluetooth(b, ok))
         /\ Follows(b, EndpointLost(b))
  BY OwnerFacts DEF Good, Backends, Follows, Posted, ClearSpeakerState, ClearBluetooth,
     StopBluetooth, StartBluetooth, EndpointLost

LEMMA StartWiredFollows ==
  ASSUME NEW b, Quiet(b), NEW ok \in BOOLEAN
  PROVE  /\ Follows(b, StartWired(b, ok))
         /\ Follows(b, StartBluetooth(b, ok))
  BY DEF Quiet, Backends, Follows, Posted, StartWired, StartBluetooth

LEMMA LeaveTransportFollows == ASSUME NEW b, Good(b) PROVE Follows(b, LeaveTransport(b))
<1>1. Good(ClearSpeakerState(b)) /\ Good(ClearBluetooth(b))
  BY ClearSpeakerStateGood, BluetoothGood
<1>2. CASE b.transport = "wired"
  BY <1>1, <1>2, StopWiredFollows, SimpleFollows, FollowsTrans DEF LeaveTransport
<1>3. CASE b.transport = "bluetooth"
  BY <1>1, <1>3, SimpleFollows, FollowsTrans DEF LeaveTransport
<1>4. CASE b.transport \notin {"wired", "bluetooth"}
  BY <1>4 DEF LeaveTransport, Follows
<1> QED BY <1>2, <1>3, <1>4

LEMMA SynchronizeFollows ==
  ASSUME NEW b, Good(b), NEW l \in Links, NEW ok \in BOOLEAN
  PROVE  /\ Follows(b, Synchronize(b, l, ok))
         /\ Switches(b, l) => ~Posted(Synchronize(b, l, ok))
<1>1. CASE ~Switches(b, l)
  BY <1>1 DEF Synchronize, Follows
<1>2. CASE Switches(b, l)
  <2> DEFINE c == LeaveTransport(b)
  <2>1. Quiet(c) /\ Follows(b, c)
    BY LeaveTransportQuiet, LeaveTransportFollows
  <2>2. Synchronize(b, l, ok) = EnterTransport(c, l, ok)
    BY <1>2 DEF Synchronize
  <2> HIDE DEF c
  <2>3. Quiet(EnterTransport(c, l, ok)) /\ Follows(c, EnterTransport(c, l, ok))
    BY <2>1, StartWiredQuiet, StartBluetoothQuiet, StartWiredFollows DEF EnterTransport
  <2> QED BY <2>1, <2>2, <2>3, FollowsTrans, QuietNotPosted
<1> QED BY <1>1, <1>2

LEMMA StartDualFollows ==
  ASSUME NEW b, Good(b), NEW l \in Links, NEW ok \in BOOLEAN
  PROVE  Follows(b, StartDual(b, l, ok))
<1>1. CASE b.started
  BY <1>1 DEF StartDual, Follows
<1>2. CASE ~b.started
  <2> DEFINE c == [b EXCEPT !.started = TRUE, !.transport = "none"]
  <2>1. Quiet(c) /\ c.started /\ Follows(b, c)
    BY <1>2 DEF Quiet, Good, Exclusive, Backends, Follows, Posted
  <2>2. StartDual(b, l, ok) = Synchronize(c, l, ok)
    BY <1>2 DEF StartDual
  <2> HIDE DEF c
  <2> QED BY <2>1, <2>2, QuietIsGood, SynchronizeFollows, FollowsTrans
<1> QED BY <1>1, <1>2

LEMMA StopDualFollows == ASSUME NEW b, Good(b) PROVE Follows(b, StopDual(b))
<1> DEFINE c == StopWired(b)
           d == StopBluetooth(c)
<1>1. Good(c) /\ Follows(b, c)
  BY StopWiredGood, StopWiredFollows
<1> HIDE DEF c
<1>2. Good(d) /\ Follows(b, d)
  BY <1>1, BluetoothGood, SimpleFollows, FollowsTrans
<1>3. StopDual(b) = IF b.started
                    THEN [d EXCEPT !.transport = "none", !.started = FALSE] ELSE b
  BY DEF StopDual, c
<1> HIDE DEF d
<1>4. Follows(d, [d EXCEPT !.transport = "none", !.started = FALSE])
  BY <1>2 DEF Good, Backends, Follows, Posted
<1> QED BY <1>2, <1>3, <1>4, FollowsTrans DEF Follows

\* What is still posted after stop() or a disabling was not active.
LEMMA StopIfActiveFollows ==
  ASSUME NEW b, Good(b)
  PROVE  Follows(b, StopIfActive(b)) /\ ~Posted(StopIfActive(b))
<1>1. CASE Active(b)
  BY <1>1, StopDualFollows, StopDualGood, QuietNotPosted DEF StopIfActive, Active, Good, Exclusive
<1>2. CASE ~Active(b)
  BY <1>2 DEF StopIfActive, Follows, Posted, Active, Good, Exclusive
<1> QED BY <1>1, <1>2
-------------------------------------------------------------------------------
\* A posted weapon loop is the authorised one, and a report that is on its way
\* finds the endpoint closed.
LoopInv ==
  /\ Inv
  /\ Posted(be) => /\ pb.auth /\ pb.activeGen = be.pending.owner
                   /\ phase = "started"
  /\ lost => ~be.endpoint
  /\ ~direct

\* The variables of LoopAuthority.
Wanted == IF pb.auth THEN pb.activeGen ELSE None
Heard  == IF be.mixer \in Gens THEN be.mixer ELSE None
Issued == pb.nextGen - 1

LEMMA HeardFades ==
  ASSUME be'.mixer \in {be.mixer, None}
  PROVE  Heard' \in {Heard, 0}
  BY Constants DEF Heard, Gens

\* A step after which no loop is posted and the authority is kept or revoked.
LEMMA RevokingStep ==
  ASSUME LoopInv, Inv', be'.mixer \in {be.mixer, None}, ~Posted(be'),
         lost' => ~be'.endpoint, ~direct',
         Wanted' \in {Wanted, 0}, pb'.nextGen = pb.nextGen
  PROVE  LoopInv' /\ [Loop!Next]_Loop!avars
<1>1. LoopInv'
  BY DEF LoopInv
<1>2. Heard' \in {Heard, 0} /\ Issued' = Issued
  BY HeardFades DEF Issued
<1> QED BY <1>1, <1>2
        DEF Wanted, Heard, Issued, Loop!Next, Loop!Revoke, Loop!Fade, Loop!Fades, Loop!avars

\* A step of the backend that starts nothing and leaves the playback alone.
LEMMA FollowingStep ==
  ASSUME LoopInv, Inv', Follows(be, be'), UNCHANGED <<pb, direct>>,
         phase' = phase \/ phase = "loading", lost' => ~be'.endpoint
  PROVE  LoopInv' /\ [Loop!Next]_Loop!avars
<1>1. LoopInv'
  BY DEF LoopInv, Follows, Posted
<1>2. Heard' \in {Heard, 0} /\ Wanted' = Wanted /\ Issued' = Issued
  BY HeardFades DEF Follows, Issued, Wanted
<1> QED BY <1>1, <1>2
        DEF Wanted, Heard, Issued, Loop!Next, Loop!Fade, Loop!avars

LEMMA PlaybackFacts ==
  ASSUME Inv
  PROVE  pb \in Playbacks /\ Good(be) /\ link \in Links /\ pb.nextGen \in Nat
  BY InvGood, FlagFacts, Constants DEF Inv, TypeOK, Playbacks

LEMMA SyncedFollows ==
  ASSUME LoopInv, NEW ok \in StartResults
  PROVE  /\ Good(Synced(ok)) /\ Follows(be, Synced(ok))
         /\ phase = "started" /\ Switches(be, link) => ~Posted(Synced(ok))
<1>1. Inv
  BY DEF LoopInv
<1> QED BY <1>1, PlaybackFacts, SyncedGood, SynchronizeFollows, FlagFacts DEF Synced, Follows

\* The call that takes a loop back leaves nothing posted, told or not.
LEMMA AfterClearFacts ==
  ASSUME LoopInv, NEW ok \in StartResults, NEW owner \in Owners, NEW force \in BOOLEAN
  PROVE  /\ Follows(be, AfterClear(Synced(ok), owner, force))
         /\ ~Posted(AfterClear(Synced(ok), owner, force))
<1> DEFINE b == Synced(ok)
<1>1. Good(b) /\ Follows(be, b)
  BY SyncedFollows
<1> HIDE DEF b
<1>2. Follows(b, ClearPersistent(b, owner, force))
  BY <1>1 DEF Follows, Posted, ClearPersistent, Good, Backends
<1>3. CASE Open(b)
  <2>1. ~Posted(ClearPersistent(b, owner, force))
    BY <1>1 DEF ClearPersistent, Posted, Good, Exclusive, Backends
  <2> QED BY <1>1, <1>2, <1>3, <2>1, FollowsTrans DEF AfterClear, b
<1>4. CASE ~Open(b)
  <2>1. AfterClear(Synced(ok), owner, force) = b
    BY <1>4 DEF AfterClear, b
  <2>2. ~Posted(b)
    BY <1>1, <1>4 DEF Open, Active, Posted, Good, Exclusive, LoopInv, Follows
  <2> QED BY <1>1, <2>1, <2>2
<1> QED BY <1>3, <1>4

-------------------------------------------------------------------------------
(* The steps.                                                              *)


\* What every step establishes.
Refines == LoopInv' /\ [Loop!Next]_Loop!avars

LEMMA RevokingEventsRefine == ASSUME LoopInv, Inv', RevokingEvents PROVE Refines
<1>1. PICK next \in Playbacks, force \in BOOLEAN :
        next.nextGen = pb.nextGen /\ ClearSustained(next, force)
  BY RevokingEventsShape DEF LoopInv
<1>2. Wanted' = 0 /\ pb'.nextGen = pb.nextGen
  BY <1>1, RevokeFacts DEF ClearSustained, Wanted
<1>3. /\ Follows(be, be') /\ ~Posted(be')
  <2>1. CASE pb.activeGen # None
    <3>1. pb.activeGen \in Owners
      BY <2>1, PlaybackFacts, OwnerFacts DEF LoopInv, Playbacks
    <3> QED BY <1>1, <2>1, <3>1, AfterClearFacts DEF ClearSustained
  <2>2. CASE pb.activeGen = None
    BY <1>1, <2>2 DEF ClearSustained, LoopInv, Inv, Follows
  <2> QED BY <2>1, <2>2
<1> QED BY <1>1, <1>2, <1>3, RevokingStep DEF ClearSustained, LoopInv, Follows, Refines

LEMMA PlaybackOnlyRefines ==
  ASSUME LoopInv, Inv',
         SuppressionLifted \/ GameUnpaused \/ \E menu \in Menus : BlockingMenuClosed(menu)
  PROVE  Refines
<1>1. /\ UNCHANGED <<be, phase, live, link, rover, driving, lost, direct>>
      /\ pb'.auth = pb.auth /\ pb'.activeGen = pb.activeGen /\ pb'.nextGen = pb.nextGen
  BY PlaybackFacts DEF LoopInv, SuppressionLifted, GameUnpaused, BlockingMenuClosed,
     PlaybackOnly, Playbacks
<1>2. LoopInv'
  BY <1>1 DEF LoopInv, Posted
<1>3. UNCHANGED <<Wanted, Heard, Issued>>
  BY <1>1 DEF Wanted, Heard, Issued
<1> QED BY <1>2, <1>3 DEF Refines, Wanted, Heard, Issued, Loop!avars

LEMMA WwiseStartRefines == ASSUME LoopInv, Inv', WwiseStart PROVE Refines
<1> DEFINE g == pb.nextGen
<1>1. pb \in Playbacks /\ g \in Gens /\ g \in Owners /\ Wanted = 0 /\ phase \in {"loading", "started", "quit"}
  BY Constants, OwnerFacts, PlaybackFacts
  DEF WwiseStart, LoopInv, Inv, TypeOK, Playbacks, Gens, Wanted
<1>2. PICK ok \in StartResults :
        LET b == Synced(ok)
        IN  IF Open(b) /\ live.speaker /\ live.weapons
            THEN /\ PostSet(b, g)
                 /\ pb' = [pb EXCEPT !.auth = TRUE, !.activeGen = g, !.releaseGen = g,
                                     !.nextGen = g + 1]
            ELSE /\ be' = b
                 /\ \E p \in SelfReport(pb, be) : pb' = [p EXCEPT !.nextGen = g + 1]
                 /\ UNCHANGED lost
  BY DEF WwiseStart
<1> DEFINE b == Synced(ok)
<1>3. Good(b) /\ Follows(be, b)
  BY SyncedFollows
<1>4. UNCHANGED <<phase, direct>>
  BY DEF WwiseStart
<1> HIDE DEF b, g
<1>5. CASE Open(b) /\ live.speaker /\ live.weapons
  <2>1. /\ PostSet(b, g)
        /\ pb' = [pb EXCEPT !.auth = TRUE, !.activeGen = g, !.releaseGen = g,
                            !.nextGen = g + 1]
    BY <1>2, <1>5 DEF b, g
  <2>2. PICK c \in Raced(b) : be' = SetPersistent(c, g) /\ lost' = (lost \/ c # b)
    BY <2>1 DEF PostSet
  <2>3. Good(c) /\ Follows(b, c) /\ (c # b => ~c.endpoint)
    <3>1. ~EndpointLost(b).endpoint
      BY <1>3, ClearSpeakerStateGood DEF EndpointLost, ClearSpeakerState, Good, Backends
    <3> QED BY <1>3, <3>1, EndpointGood, SimpleFollows, FlagFacts DEF Raced, Follows
  <2>4. /\ be'.mixer = c.mixer /\ be'.endpoint = c.endpoint
        /\ Posted(be') => be'.pending.owner = g \/ (Posted(c) /\ be'.pending = c.pending)
    BY <2>2, <2>3 DEF SetPersistent, Posted, Good, Backends
  <2>5. c.transport = b.transport
    BY <1>3, EndpointGood DEF Raced
  <2>6. Posted(be') => be'.pending.owner = g
    BY <2>2, <2>3, <2>4, <2>5 DEF SetPersistent, Posted, Good, Exclusive, Backends
  <2>7. pb'.auth /\ pb'.activeGen = g /\ pb'.nextGen = g + 1
    BY <1>1, <2>1 DEF Playbacks
  <2>8. be'.mixer \in {be.mixer, None}
    BY <1>3, <2>3, <2>4 DEF Follows
  <2>9. LoopInv'
    BY <1>3, <1>4, <1>5, <2>2, <2>3, <2>4, <2>6, <2>7 DEF LoopInv, Open, Follows
  <2>10. Loop!Grant
    BY <1>1, <2>7, <2>8, HeardFades, Constants
    DEF Loop!Grant, Loop!Fades, Wanted, Heard, Issued, g, Gens
  <2> QED BY <2>9, <2>10 DEF Refines, Loop!Next
<1>6. CASE ~(Open(b) /\ live.speaker /\ live.weapons)
  <2>1. PICK p \in SelfReport(pb, be) : pb' = [p EXCEPT !.nextGen = g + 1]
    BY <1>2, <1>6 DEF b, g
  <2>2. be' = b /\ UNCHANGED lost
    BY <1>2, <1>6 DEF b, g
  <2>3. p \in Playbacks /\ ~p.auth
    BY <1>1, RevokeFacts DEF SelfReport, LoopInv, Inv, Wanted, Gens
  <2>4. ~pb'.auth /\ pb'.nextGen = g + 1
    BY <2>1, <2>3 DEF Playbacks
  <2>5. ~Posted(be) /\ ~Posted(b)
    BY <1>1, <1>3 DEF LoopInv, Wanted, Follows, Inv, WwiseStart
  <2>6. LoopInv'
    BY <1>3, <1>4, <2>2, <2>5 DEF LoopInv, Follows
  <2>7. Heard' \in {Heard, 0}
    BY <1>3, <2>2, HeardFades DEF Follows
  <2>8. Loop!Waste
    BY <1>1, <2>4, <2>7, Constants
    DEF Loop!Waste, Loop!Fades, Wanted, Heard, Issued, g, Gens
  <2> QED BY <2>6, <2>8 DEF Refines, Loop!Next
<1> QED BY <1>5, <1>6

LEMMA PlaybackCallsRefine ==
  ASSUME LoopInv, Inv', WwiseStop \/ FiniteCue \/ RightTriggerReleased
  PROVE  Refines
<1>1. pb \in Playbacks /\ (pb.activeGen # None => pb.activeGen \in Owners)
  BY OwnerFacts, PlaybackFacts DEF LoopInv, Playbacks
<1>2. CASE WwiseStop
  <2>1. Wanted' = 0 /\ pb'.nextGen = pb.nextGen
    BY <1>1, <1>2, RevokeFacts DEF WwiseStop, Wanted
  <2>2. Follows(be, be') /\ ~Posted(be')
    <3>1. CASE pb.activeGen # None
      BY <1>1, <1>2, <3>1, AfterClearFacts DEF WwiseStop
    <3>2. CASE pb.activeGen = None
      BY <1>2, <3>2, SyncedFollows DEF WwiseStop, LoopInv, Inv, Follows
    <3> QED BY <3>1, <3>2
  <2> QED BY <1>2, <2>1, <2>2, RevokingStep DEF WwiseStop, LoopInv, Follows, Refines
<1>3. CASE FiniteCue
  <2>1. Follows(be, be') /\ ~Posted(be')
    BY <1>3, SyncedFollows DEF FiniteCue, SwitchReports
  <2>2. Wanted' \in {Wanted, 0} /\ pb'.nextGen = pb.nextGen
    BY <1>1, <1>3, RevokeFacts DEF FiniteCue, SelfReport, Wanted
  <2> QED BY <1>3, <2>1, <2>2, RevokingStep DEF FiniteCue, LoopInv, Follows, Refines
<1>4. CASE RightTriggerReleased
  <2>1. Follows(be, be') /\ ~Posted(be')
    BY <1>1, <1>4, AfterClearFacts DEF RightTriggerReleased
  <2>2. PICK p \in SelfReport(pb, be) : pb' = [p EXCEPT !.auth = FALSE, !.activeGen = None]
    BY <1>4 DEF RightTriggerReleased
  <2>3. p \in Playbacks /\ p.nextGen = pb.nextGen
    BY <1>1, RevokeFacts DEF SelfReport
  <2>4. Wanted' = 0 /\ pb'.nextGen = pb.nextGen
    BY <2>2, <2>3 DEF Playbacks, Wanted
  <2> QED BY <1>4, <2>1, <2>4, RevokingStep DEF RightTriggerReleased, LoopInv, Follows, Refines
<1> QED BY <1>2, <1>3, <1>4

LEMMA ReportRefines ==
  ASSUME LoopInv, Inv', ReportEndpointInvalidated \/ ReportDirectStop
  PROVE  Refines
<1>1. ReportEndpointInvalidated
  BY DEF LoopInv, ReportDirectStop
<1>2. pb'.nextGen = pb.nextGen /\ Wanted' = 0 /\ UNCHANGED be
  BY <1>1, PlaybackFacts, RevokeFacts DEF ReportEndpointInvalidated, LoopInv, Wanted
<1>3. ~Posted(be')
  BY <1>1, <1>2 DEF ReportEndpointInvalidated, LoopInv, Posted
<1> QED BY <1>1, <1>2, <1>3, RevokingStep DEF ReportEndpointInvalidated, LoopInv, Refines

\* A call into the manager that may report: when it does nothing stays posted.
LEMMA ReportingStep ==
  ASSUME LoopInv, Inv', NEW reports \in BOOLEAN, Reported(reports), Follows(be, be'),
         reports => ~Posted(be'), phase' = phase \/ ~Posted(be'),
         UNCHANGED <<lost, direct>>
  PROVE  Refines
<1>1. lost' => ~be'.endpoint
  BY DEF LoopInv, Follows
<1>2. CASE ~Posted(be')
  <2>1. Wanted' \in {Wanted, 0} /\ pb'.nextGen = pb.nextGen
    BY PlaybackFacts, RevokeFacts DEF LoopInv, Reported, Wanted
  <2> QED BY <1>1, <1>2, <2>1, RevokingStep DEF LoopInv, Follows, Refines
<1>3. CASE Posted(be')
  BY <1>1, <1>3, FollowingStep DEF Reported, Refines
<1> QED BY <1>2, <1>3

LEMMA ManagerRefines ==
  ASSUME LoopInv, Inv', ~BoostpackClears, ManagerStep
  PROVE  Refines
<1>1. Good(be) /\ link \in Links /\ Inv
  BY PlaybackFacts DEF LoopInv
<1>2. ASSUME NEW ok \in StartResults
      PROVE  LET b == Synchronize(be, link, ok)
             IN  /\ Good(b) /\ Follows(be, b) /\ (Switches(be, link) => ~Posted(b))
                 /\ Follows(be, StopIfActive(b)) /\ ~Posted(StopIfActive(b))
                 /\ Follows(be, StartDual(be, link, ok))
  <2> DEFINE b == Synchronize(be, link, ok)
  <2>1. Good(b) /\ Follows(be, b) /\ (Switches(be, link) => ~Posted(b))
    BY <1>1, SynchronizeGood, SynchronizeFollows, FlagFacts
  <2> HIDE DEF b
  <2>2. Follows(be, StopIfActive(b)) /\ ~Posted(StopIfActive(b))
    BY <2>1, StopIfActiveFollows, FollowsTrans
  <2>3. Follows(be, StartDual(be, link, ok))
    BY <1>1, StartDualFollows, FlagFacts
  <2> QED BY <2>1, <2>2, <2>3 DEF b
<1>3. CASE ManagerStart
  <2>1. Follows(be, be') /\ UNCHANGED <<pb, lost, direct>> /\ phase = "loading"
    BY <1>2, <1>3 DEF ManagerStart, Follows
  <2>2. ~Posted(be')
    BY <2>1 DEF Follows, LoopInv
  <2> QED BY <2>1, <2>2, RevokingStep DEF LoopInv, Follows, Wanted, Refines
<1>4. CASE ManagerStop
  <2>1. /\ Follows(be, be') /\ ~Posted(be') /\ UNCHANGED <<lost, direct>>
        /\ pb' \in {pb, Revoke(pb)}
    BY <1>2, <1>4 DEF ManagerStop, Reported
  <2>2. Wanted' \in {Wanted, 0} /\ pb'.nextGen = pb.nextGen
    BY <1>1, <2>1, PlaybackFacts, RevokeFacts DEF Wanted
  <2> QED BY <2>1, <2>2, RevokingStep DEF LoopInv, Follows, Refines
<1>5. CASE Poll
  <2>1. Follows(be, be') /\ ~Posted(be') /\ UNCHANGED <<phase, lost, direct>>
    BY <1>2, <1>5 DEF Poll
  <2>2. SwitchReports(be, link) \in BOOLEAN /\ Reported(SwitchReports(be, link))
    BY <1>5 DEF Poll, SwitchReports
  <2> QED BY <2>1, <2>2, ReportingStep
<1>6. CASE BoostpackClear
  BY <1>6 DEF BoostpackClear
<1>7. ASSUME NEW next \in LiveSettings,
             \/ StoreSettings(next) \/ DisableSpeaker(next)
             \/ EnableSpeaker(next) \/ ChangePolicy(next)
      PROVE  Refines
  <2>1. CASE StoreSettings(next) \/ EnableSpeaker(next)
    <3>1. Follows(be, be') /\ UNCHANGED <<pb, phase, lost, direct>>
      BY <1>2, <2>1 DEF StoreSettings, EnableSpeaker, Follows
    <3> QED BY <3>1, FollowingStep DEF LoopInv, Follows, Refines
  <2>2. CASE DisableSpeaker(next)
    <3>1. /\ Follows(be, be') /\ ~Posted(be') /\ UNCHANGED <<phase, lost, direct>>
          /\ pb' \in {pb, Revoke(pb)}
      BY <1>2, <2>2 DEF DisableSpeaker, Reported
    <3>2. Wanted' \in {Wanted, 0} /\ pb'.nextGen = pb.nextGen
      BY <1>1, <3>1, PlaybackFacts, RevokeFacts DEF Wanted
    <3> QED BY <3>1, <3>2, RevokingStep DEF LoopInv, Follows, Refines
  <2>3. CASE ChangePolicy(next)
    <3> DEFINE c == ClearSpeakerState(be)
    <3>1. Good(c) /\ Follows(be, c) /\ ~Posted(c)
      BY <1>1, ClearSpeakerStateGood, SimpleFollows, FlagFacts DEF Posted
    <3> HIDE DEF c
    <3>2. Follows(c, ClearBluetooth(c))
      BY <3>1, SimpleFollows
    <3>3. be' = ClearBluetooth(c) /\ Reported(TRUE) /\ UNCHANGED <<phase, lost, direct>>
      BY <2>3 DEF ChangePolicy, ClearPlayback, c
    <3>4. Follows(be, be') /\ ~Posted(be')
      BY <3>1, <3>2, <3>3, FollowsTrans DEF Follows
    <3> QED BY <3>3, <3>4, ReportingStep
  <2> QED BY <1>7, <2>1, <2>2, <2>3
<1> QED BY <1>3, <1>4, <1>5, <1>6, <1>7 DEF ManagerStep

LEMMA RoverSetRefines ==
  ASSUME LoopInv, Inv', NEW believed, RoverSet(believed)
  PROVE  Refines
<1>1. PICK ok \in StartResults :
        LET b == Synced(ok)
        IN  IF Open(b) /\ VehicleOn
            THEN PostSet(b, Rover) /\ rover' = believed
            ELSE be' = b /\ UNCHANGED <<rover, lost>>
  BY DEF RoverSet
<1> DEFINE b == Synced(ok)
           reports == phase = "started" /\ SwitchReports(be, link)
<1>2. /\ Good(b) /\ Follows(be, b) /\ (reports => ~Posted(b))
      /\ Reported(reports) /\ reports \in BOOLEAN
  BY SyncedFollows DEF RoverSet, SwitchReports
<1>3. UNCHANGED <<phase, direct>>
  BY DEF RoverSet
<1> HIDE DEF b, reports
<1>4. CASE Open(b) /\ VehicleOn
  <2>1. PICK c \in Raced(b) : be' = SetPersistent(c, Rover) /\ lost' = (lost \/ c # b)
    BY <1>1, <1>4 DEF PostSet, b
  <2>2. Good(c) /\ Follows(b, c) /\ c.transport = b.transport /\ (c # b => ~c.endpoint)
    <3>1. ~EndpointLost(b).endpoint
      BY <1>2, ClearSpeakerStateGood DEF EndpointLost, ClearSpeakerState, Good, Backends
    <3> QED BY <1>2, <3>1, EndpointGood, SimpleFollows, FlagFacts DEF Raced, Follows
  <2>3. be'.mixer = c.mixer /\ be'.endpoint = c.endpoint /\ ~Posted(be')
    BY <2>1, <2>2, Constants DEF SetPersistent, Posted, Good, Exclusive, Backends, Gens
  <2>4. Wanted' \in {Wanted, 0} /\ pb'.nextGen = pb.nextGen
    BY <1>2, PlaybackFacts, RevokeFacts DEF LoopInv, Reported, Wanted
  <2>5. be'.mixer \in {be.mixer, None} /\ (lost' => ~be'.endpoint)
    BY <1>2, <2>1, <2>2, <2>3 DEF Follows, LoopInv
  <2> QED BY <1>3, <2>3, <2>4, <2>5, RevokingStep DEF LoopInv, Refines
<1>5. CASE ~(Open(b) /\ VehicleOn)
  <2>1. be' = b /\ UNCHANGED lost
    BY <1>1, <1>5 DEF b
  <2> QED BY <1>2, <1>3, <2>1, ReportingStep
<1> QED BY <1>4, <1>5

LEMMA RoverClearRefines == ASSUME LoopInv, Inv', RoverClear PROVE Refines
<1>1. Follows(be, be') /\ ~Posted(be') /\ UNCHANGED <<phase, lost, direct>>
  BY AfterClearFacts, OwnerFacts DEF RoverClear
<1> DEFINE reports == phase = "started" /\ SwitchReports(be, link)
<1>2. Reported(reports) /\ reports \in BOOLEAN
  BY DEF RoverClear, SwitchReports
<1> HIDE DEF reports
<1> QED BY <1>1, <1>2, ReportingStep

LEMMA RoverRefines == ASSUME LoopInv, Inv', RoverStep PROVE Refines
<1>1. CASE RoverEngine \/ RoverStopEngine
  BY <1>1, RoverSetRefines, RoverClearRefines DEF RoverEngine, RoverStopEngine
<1>2. CASE RoverStopThrust \/ VehicleAuthority
  BY <1>2, FollowingStep
  DEF RoverStopThrust, VehicleAuthority, Follows, LoopInv, Refines
<1>3. ASSUME NEW kind \in Thrusts, RoverThrustStart(kind) \/ RoverThrustStop(kind)
      PROVE  Refines
  BY <1>3, RoverSetRefines, RoverClearRefines DEF RoverThrustStart, RoverThrustStop
<1> QED BY <1>1, <1>2, <1>3 DEF RoverStep

\* The block that takes the mailbox: only the authorised loop can begin.
LEMMA RenderRefines == ASSUME LoopInv, Inv', Render PROVE Refines
<1>1. Good(be) /\ be.endpoint /\ be' = RenderBlock(be)
  BY PlaybackFacts DEF Render, LoopInv
<1>2. be'.mixer = AfterUpdate(be) /\ ~Posted(be') /\ be'.endpoint = be.endpoint
  BY <1>1, OwnerFacts DEF RenderBlock, Good, Backends, Posted
<1>3. LoopInv'
  BY <1>2 DEF LoopInv, Render
<1>4. Wanted' = Wanted /\ Issued' = Issued
  BY DEF Render, Wanted, Issued
<1>5. CASE Posted(be)
  <2>1. AfterUpdate(be) = be.pending.owner /\ Wanted = be.pending.owner
    BY <1>5 DEF LoopInv, Posted, AfterUpdate, Wanted
  <2>2. Heard' = Wanted /\ Wanted # 0
    BY <1>2, <1>5, <2>1, Constants DEF Heard, Posted, Gens
  <2>3. Loop!Begin
    BY <1>4, <2>2 DEF Loop!Begin, Wanted, Heard, Issued
  <2> QED BY <1>3, <2>3 DEF Refines, Loop!Next
<1>6. CASE ~Posted(be)
  <2>1. AfterUpdate(be) \in Gens => AfterUpdate(be) = be.mixer
    BY <1>1, <1>6, Constants DEF AfterUpdate, Posted, Gens
  <2>2. Heard' \in {Heard, 0}
    BY <1>2, <2>1 DEF Heard
  <2> QED BY <1>3, <1>4, <2>2
          DEF Refines, Loop!Next, Loop!Fade, Loop!avars, Wanted, Heard, Issued
<1> QED BY <1>5, <1>6

LEMMA WorkerRefines == ASSUME LoopInv, Inv', WorkerStep PROVE Refines
<1>1. Good(be)
  BY PlaybackFacts DEF LoopInv
<1>2. CASE OpenEndpoint
  <2>1. be'.mixer = None /\ ~Posted(be') /\ ~lost' /\ UNCHANGED <<pb, direct>>
    BY <1>1, <1>2, OwnerFacts
    DEF OpenEndpoint, EndpointOpen, ClearSpeakerState, Good, Backends, Posted
  <2> QED BY <2>1, RevokingStep DEF LoopInv, Wanted, Refines
<1>3. CASE LoseEndpoint \/ WiredWorkerFails
  <2>1. /\ be'.mixer = None /\ ~be'.endpoint /\ UNCHANGED <<pb, direct>>
    BY <1>1, <1>3 DEF LoseEndpoint, WiredWorkerFails, EndpointLost, ClearSpeakerState,
                      Good, Backends
  <2> QED BY <2>1, RevokingStep DEF LoopInv, Posted, Wanted, Refines
<1>4. CASE BluetoothConnect \/ BluetoothWriteFails \/ BluetoothWorkerFails \/ ChangeLink
  <2>1. /\ Follows(be, be') /\ be'.endpoint = be.endpoint
        /\ UNCHANGED <<pb, phase, lost, direct>>
    BY <1>1, <1>4 DEF BluetoothConnect, BluetoothWriteFails, BluetoothWorkerFails,
                      ChangeLink, Follows, Posted, Good, Backends
  <2> QED BY <2>1, FollowingStep DEF LoopInv, Refines
<1> QED BY <1>2, <1>3, <1>4, RenderRefines DEF WorkerStep

LEMMA InitRefines == ASSUME Init PROVE LoopInv /\ Loop!Init
<1>1. ~Posted(be) /\ be.mixer = 0 /\ ~be.endpoint
  BY DEF Init, InitialBackend, Posted, NoUpdate
<1>2. ~pb.auth /\ pb.nextGen = 1 /\ ~lost /\ ~direct
  BY DEF Init
<1>3. LoopInv
  BY <1>1, <1>2, InitInv DEF LoopInv
<1>4. Loop!Init
  BY <1>1, <1>2 DEF Loop!Init, Gens
<1> QED BY <1>3, <1>4

LEMMA NextRefines ==
  ASSUME LoopInv, ~BoostpackClears, [Next]_vars
  PROVE  Refines
<1>1. Inv'
  BY NextInv DEF LoopInv
<1>2. CASE PlaybackStep
  BY <1>1, <1>2, RevokingEventsRefine, PlaybackOnlyRefines, WwiseStartRefines,
     PlaybackCallsRefine, ReportRefines DEF PlaybackStep, RevokingEvents
<1>3. CASE UNCHANGED vars
  BY <1>1, <1>3, FollowingStep DEF vars, Follows, LoopInv, Refines
<1> QED BY <1>1, <1>2, <1>3, ManagerRefines, RoverRefines, WorkerRefines DEF Next

\* Without boostpack feedback the wired loop implements LoopAuthority: only the
\* authorised generation begins to sound and none ever comes back (startSustained,
\* the mailbox of DualSenseAudioTransport and every path that revokes).
THEOREM Refinement ==
  ASSUME ~BoostpackClears
  PROVE  Spec => ImplementsLoopAuthority
<1>1. Init => LoopInv /\ Loop!Init
  BY InitRefines
<1>2. LoopInv /\ [Next]_vars => LoopInv' /\ [Loop!Next]_Loop!avars
  BY NextRefines DEF Refines
<1> QED BY <1>1, <1>2, PTL DEF Spec, ImplementsLoopAuthority, Loop!Spec
-------------------------------------------------------------------------------
(* Loops without authority, whatever the links, the boostpack, the vehicle  *)
(* and the workers do, and with any number of calls between two blocks.     *)

\* A report that is on its way found the endpoint closed.
OrphanInv == SilentInv /\ (lost => ~be.endpoint)

\* The ways in which the code orphans a loop (see NoOrphanLoop).
Excused ==
  \/ ClearOverwritten
  \/ be.transport = "bluetooth" /\ ~Open(be)
  \/ direct /\ ~direct'
  \/ be.transport = "bluetooth" /\ lost /\ ~lost'

LEMMA OrphanFacts ==
  ASSUME SilentInv
  PROVE  /\ Inv /\ pb \in Playbacks /\ Good(be) /\ link \in Links
         /\ pb.activeGen # None => pb.activeGen \in Owners
         /\ pb.auth <=> pb.activeGen # None
         /\ Rover \notin Gens /\ None \notin Gens /\ Rover \in Owners
<1>1. Rover \notin Gens /\ None \notin Gens
  BY Constants DEF Gens
<1> QED BY <1>1, PlaybackFacts, OwnerFacts DEF SilentInv, Inv, TypeOK, Playbacks

\* No call of the manager opens an endpoint.
LEMMA CallsOpenNothing ==
  ASSUME Inv, NEW ok \in StartResults
  PROVE  /\ Good(Synced(ok)) /\ Good(Synchronize(be, link, ok))
         /\ Synced(ok).endpoint => be.endpoint
         /\ Synchronize(be, link, ok).endpoint => be.endpoint
         /\ StartDual(be, link, ok).endpoint => be.endpoint
         /\ StopIfActive(Synchronize(be, link, ok)).endpoint => be.endpoint
         /\ \A owner \in Owners, force \in BOOLEAN :
              AfterClear(Synced(ok), owner, force).endpoint => be.endpoint
<1>1. Good(be) /\ link \in Links /\ ok \in BOOLEAN /\ Good(Synced(ok))
  BY PlaybackFacts, FlagFacts, SyncedGood
<1>2. Good(Synchronize(be, link, ok)) /\ Follows(be, Synchronize(be, link, ok))
  BY <1>1, SynchronizeGood, SynchronizeFollows
<1>3. Synced(ok).endpoint => be.endpoint
  BY <1>2 DEF Synced, Follows
<1>4. ASSUME NEW owner \in Owners, NEW force \in BOOLEAN
      PROVE  AfterClear(Synced(ok), owner, force).endpoint => be.endpoint
  BY <1>1, <1>3 DEF AfterClear, ClearPersistent, Good, Backends
<1>5. /\ Follows(be, StartDual(be, link, ok))
      /\ Follows(be, StopIfActive(Synchronize(be, link, ok)))
  BY <1>1, <1>2, StartDualFollows, StopIfActiveFollows, FollowsTrans
<1> QED BY <1>1, <1>2, <1>3, <1>4, <1>5 DEF Follows

LEMMA PostSetLost ==
  ASSUME NEW b, Good(b), NEW owner, PostSet(b, owner), lost => ~b.endpoint
  PROVE  lost' => ~be'.endpoint
<1>1. PICK c \in Raced(b) : be' = SetPersistent(c, owner) /\ lost' = (lost \/ c # b)
  BY DEF PostSet
<1>2. Good(c) /\ (c # b => ~c.endpoint)
  BY EndpointGood, ClearSpeakerStateGood DEF Raced, EndpointLost, Good, Backends
<1>3. SetPersistent(c, owner).endpoint = c.endpoint
  BY <1>2 DEF SetPersistent, Good, Backends
<1> QED BY <1>1, <1>2, <1>3

LEMMA LostKept ==
  ASSUME Inv, lost => ~be.endpoint, [Next]_vars
  PROVE  lost' => ~be'.endpoint
<1>1. Good(be) /\ (pb.activeGen # None => pb.activeGen \in Owners) /\ Rover \in Owners
  BY InvGood, OwnerFacts DEF Inv, TypeOK, Playbacks
<1>2. ASSUME UNCHANGED lost, be'.endpoint => be.endpoint PROVE lost' => ~be'.endpoint
  BY <1>2
<1>3. CASE PlaybackStep
  <2>1. CASE RevokingEvents
    <3>1. PICK next \in Playbacks, force \in BOOLEAN : ClearSustained(next, force)
      BY <2>1, RevokingEventsShape
    <3> QED BY <1>1, <1>2, <3>1, CallsOpenNothing DEF ClearSustained
  <2>2. CASE WwiseStart
    BY <1>2, <2>2, CallsOpenNothing, PostSetLost DEF WwiseStart
  <2>3. CASE WwiseStop \/ FiniteCue \/ RightTriggerReleased
    BY <1>1, <1>2, <2>3, CallsOpenNothing DEF WwiseStop, FiniteCue, RightTriggerReleased
  <2>4. CASE ReportEndpointInvalidated
    BY <2>4 DEF ReportEndpointInvalidated
  <2>5. CASE \/ SuppressionLifted \/ GameUnpaused \/ ReportDirectStop
             \/ \E menu \in Menus : BlockingMenuClosed(menu)
    BY <2>5 DEF SuppressionLifted, GameUnpaused, BlockingMenuClosed, PlaybackOnly,
                ReportDirectStop
  <2> QED BY <1>3, <2>1, <2>2, <2>3, <2>4, <2>5 DEF PlaybackStep, RevokingEvents
<1>4. CASE ManagerStep
  <2>1. /\ ClearSpeakerState(be).endpoint = be.endpoint
        /\ ClearPlayback(be).endpoint = be.endpoint
    BY <1>1 DEF ClearPlayback, ClearBluetooth, ClearSpeakerState, Good, Backends
  <2>2. UNCHANGED lost /\ (be'.endpoint => be.endpoint)
    BY <1>4, <2>1, CallsOpenNothing
    DEF ManagerStep, ManagerStart, ManagerStop, Poll, BoostpackClear, StoreSettings,
        DisableSpeaker, EnableSpeaker, ChangePolicy
  <2> QED BY <1>2, <2>2
<1>5. CASE RoverStep
  <2>1. ASSUME NEW believed, RoverSet(believed) PROVE lost' => ~be'.endpoint
    BY <1>2, <2>1, CallsOpenNothing, PostSetLost DEF RoverSet
  <2>2. ASSUME RoverClear PROVE lost' => ~be'.endpoint
    BY <1>1, <1>2, <2>2, CallsOpenNothing DEF RoverClear
  <2>3. CASE RoverStopThrust \/ VehicleAuthority
    BY <2>3 DEF RoverStopThrust, VehicleAuthority
  <2> QED BY <1>5, <2>1, <2>2, <2>3
          DEF RoverStep, RoverEngine, RoverStopEngine, RoverThrustStart, RoverThrustStop
<1>6. CASE WorkerStep
  <2>1. CASE OpenEndpoint
    BY <2>1 DEF OpenEndpoint
  <2>2. CASE LoseEndpoint \/ WiredWorkerFails
    <3>1. Good(EndpointLost(be)) /\ ~EndpointLost(be).endpoint
      BY <1>1, EndpointGood, ClearSpeakerStateGood DEF EndpointLost, Good, Backends
    <3>2. ~[EndpointLost(be) EXCEPT !.worker = FALSE].endpoint
      BY <3>1 DEF Good, Backends
    <3> QED BY <2>2, <3>1, <3>2 DEF LoseEndpoint, WiredWorkerFails
  <2>3. CASE \/ Render \/ BluetoothConnect \/ BluetoothWriteFails
             \/ BluetoothWorkerFails \/ ChangeLink
    BY <1>1, <2>3 DEF Render, RenderBlock, BluetoothConnect, BluetoothWriteFails,
                      BluetoothWorkerFails, ChangeLink, Good, Backends
  <2> QED BY <1>6, <2>1, <2>2, <2>3 DEF WorkerStep
<1>7. CASE UNCHANGED vars
  BY <1>7 DEF vars
<1> QED BY <1>3, <1>4, <1>5, <1>6, <1>7 DEF Next

LEMMA OrphanInvariance == Spec => []OrphanInv
<1>1. Init => OrphanInv
  BY InitSilent DEF Init, OrphanInv
<1>2. OrphanInv /\ [Next]_vars => OrphanInv'
  BY NextSilent, LostKept DEF OrphanInv, SilentInv
<1> QED BY <1>1, <1>2, PTL DEF Spec

\* What a record plays when it holds nothing.
LEMMA QuietSounds == ASSUME NEW b, Quiet(b) PROVE Sounding(b) = None
  BY DEF Quiet, Sounding, AfterUpdate

LEMMA SilentSounds ==
  ASSUME NEW b, b.transport # "bluetooth", Silent(b)
  PROVE  Sounding(b) = None
  BY DEF Silent, Sounding, AfterUpdate

\* Synchronizing starts nothing, and a change of side leaves nothing.
LEMMA SyncedSounds ==
  ASSUME Inv, NEW ok \in StartResults
  PROVE  /\ Synced(ok) = be \/ Quiet(Synced(ok))
         /\ (phase = "started" /\ Switches(be, link)) => Quiet(Synced(ok))
         /\ Switches(be, link) => Quiet(Synchronize(be, link, ok))
         /\ ~Switches(be, link) => Synchronize(be, link, ok) = be
         /\ StartDual(be, link, ok) = be \/ Quiet(StartDual(be, link, ok))
<1>1. Good(be) /\ link \in Links /\ ok \in BOOLEAN
  BY PlaybackFacts, FlagFacts
<1> QED BY <1>1, SynchronizeQuiet, StartDualQuiet DEF Synced

\* A backend that is not told of a clear has nothing to play, unless it is the
\* Bluetooth side.
LEMMA ClosedSounds ==
  ASSUME SilentInv, ~Open(be)
  PROVE  be.transport = "bluetooth" \/ Sounding(be) = None
<1>1. CASE phase = "started"
  BY <1>1, OrphanFacts, InactiveIsSilent, SilentSounds DEF Open
<1>2. CASE phase # "started"
  BY <1>2, SilentSounds DEF SilentInv, Off
<1> QED BY <1>1, <1>2

\* A clear takes its owner out, or leaves the mixer a loop whose own clear, or
\* whose successor, it has replaced in the mailbox.
LEMMA ClearSounds ==
  ASSUME SilentInv, Open(be), NEW owner \in Owners, NEW force \in BOOLEAN,
         be' = ClearPersistent(be, owner, force)
  PROVE  \/ Sounding(be') \in {Sounding(be), None} \ {owner}
         \/ ClearOverwritten
<1>1. Good(be) /\ Active(be) /\ owner # None
  BY OrphanFacts, OwnerFacts DEF Open
<1>2. CASE be.transport = "wired"
  <2> DEFINE u == [kind |-> "clear", owner |-> owner, force |-> force]
  <2>1. u.kind = "clear" /\ u.owner = owner /\ u.force = force
    OBVIOUS
  <2>2. be' = [be EXCEPT !.pending = u]
    BY <1>2 DEF ClearPersistent
  <2> HIDE DEF u
  <2>3. /\ be'.transport = "wired" /\ be'.endpoint /\ be.endpoint /\ be'.mixer = be.mixer
        /\ be'.pending.kind = "clear" /\ be'.pending.owner = owner
        /\ be'.pending.force = force
    BY <1>1, <1>2, <2>1, <2>2 DEF Good, Backends, Active
  <2>4. Sounding(be') = IF force \/ owner = be.mixer THEN None ELSE be.mixer
    BY <2>3 DEF Sounding, AfterUpdate
  <2>5. be.pending = NoUpdate => Sounding(be) = be.mixer
    BY <1>2, <2>3 DEF Sounding, AfterUpdate, NoUpdate
  <2>6. CASE force \/ owner = be.mixer \/ be.pending = NoUpdate
    BY <1>1, <2>4, <2>5, <2>6
  <2>7. CASE ~(force \/ owner = be.mixer \/ be.pending = NoUpdate)
    BY <1>2, <2>3, <2>7 DEF ClearOverwritten
  <2> QED BY <2>6, <2>7
<1>3. CASE be.transport = "bluetooth"
  <2> DEFINE m == IF force \/ be.btMixer = owner THEN None ELSE be.btMixer
  <2>1. be' = [be EXCEPT !.btMixer = m]
    BY <1>3 DEF ClearPersistent
  <2> HIDE DEF m
  <2>2. Sounding(be') = m /\ Sounding(be) = be.btMixer
    BY <1>1, <1>3, <2>1 DEF Sounding, Good, Backends
  <2> QED BY <1>1, <2>2 DEF m
<1> QED BY <1>1, <1>2, <1>3 DEF Active

\* The call of the manager around it.
LEMMA CallSounds ==
  ASSUME SilentInv, NEW ok \in StartResults, NEW owner \in Owners, NEW force \in BOOLEAN,
         be' = AfterClear(Synced(ok), owner, force)
  PROVE  /\ \/ Sounding(be') \in {Sounding(be), None} \ {owner}
            \/ Excused
         /\ (phase = "started" /\ Switches(be, link)) => Sounding(be') = None
<1>1. Good(Synced(ok)) /\ owner # None /\ Inv
  BY SyncedGood, OwnerFacts DEF SilentInv
<1>2. CASE Quiet(Synced(ok))
  <2> DEFINE b == Synced(ok)
             u == [kind |-> "clear", owner |-> owner, force |-> force]
             m == IF force \/ b.btMixer = owner THEN None ELSE b.btMixer
  <2>1. be' \in {b, [b EXCEPT !.pending = u], [b EXCEPT !.btMixer = m]}
    BY DEF AfterClear, ClearPersistent
  <2>2. u.kind = "clear" /\ u.owner = owner /\ m = None
    BY <1>2 DEF Quiet
  <2> HIDE DEF b, u, m
  <2>3. be'.btMixer = None /\ be'.mixer = None /\ be'.pending.kind # "set"
    BY <1>2, <2>1, <2>2 DEF Quiet, Backends, b
  <2>4. Sounding(be') = None
    BY <2>3 DEF Sounding, AfterUpdate
  <2> QED BY <1>1, <2>4
<1>3. CASE ~Quiet(Synced(ok))
  <2>1. Synced(ok) = be /\ ~(phase = "started" /\ Switches(be, link))
    BY <1>1, <1>3, SyncedSounds
  <2>2. CASE Open(be)
    BY <2>1, <2>2, ClearSounds DEF AfterClear, Excused
  <2>3. CASE ~Open(be)
    <3>1. be' = be
      BY <2>1, <2>3 DEF AfterClear
    <3> QED BY <1>1, <2>1, <2>3, <3>1, ClosedSounds DEF Excused
  <2> QED BY <2>1, <2>2, <2>3
<1> QED BY <1>2, <1>3

\* A loop that is started is what plays next, unless the endpoint has just gone.
LEMMA SetSounds ==
  ASSUME OrphanInv, NEW ok \in StartResults, Open(Synced(ok)), NEW owner \in Owners,
         PostSet(Synced(ok), owner)
  PROVE  Sounding(be') \in {owner, None}
<1> DEFINE b == Synced(ok)
<1>1. Good(b) /\ Active(b) /\ (b.endpoint => be.endpoint) /\ (lost => ~be.endpoint)
  BY CallsOpenNothing DEF OrphanInv, SilentInv, Open
<1>2. PostSet(b, owner)
  OBVIOUS
<1> HIDE DEF b
<1>3. CASE b.transport = "bluetooth"
  <2>1. PICK c \in Raced(b) : be' = SetPersistent(c, owner)
    BY <1>2 DEF PostSet
  <2>2. c = b
    BY <1>3 DEF Raced
  <2>3. be' = [b EXCEPT !.btMixer = owner]
    BY <1>3, <2>1, <2>2 DEF SetPersistent
  <2>4. be'.transport = "bluetooth" /\ be'.btMixer = owner
    BY <1>1, <1>3, <2>3 DEF Good, Backends
  <2> QED BY <2>4 DEF Sounding
<1>4. CASE OffAir(b)
  <2>1. b.transport = "wired" /\ b.endpoint
    BY <1>1, <1>4 DEF Active, OffAir
  <2>2. ~be'.endpoint \/ Sounding(be') = owner
    BY <1>1, <1>2, <1>4, <2>1, PostSetSounds
  <2>3. OffAir(be')
    BY <1>1, <1>2, <1>4, PostSetOffAir
  <2> QED BY <2>2, <2>3, SoundingOffAir
<1> QED BY <1>3, <1>4 DEF OffAir

\* A step after which no weapon loop plays, or the authorised one goes on.
LEMMA NoneOrphaned ==
  ASSUME SilentInv, ~Orphan,
         \/ Sounding(be') \notin Gens
         \/ /\ Sounding(be') \in {Sounding(be), None}
            /\ pb.auth => pb'.auth /\ pb'.activeGen = pb.activeGen
  PROVE  ~Orphan'
  BY OrphanFacts DEF Orphan

\* The loop that is taken back is the only one that may play.
LEMMA TakenBack ==
  ASSUME SilentInv, ~Orphan, NEW ok \in StartResults, NEW force \in BOOLEAN,
         pb.activeGen # None, be' = AfterClear(Synced(ok), pb.activeGen, force)
  PROVE  ~Orphan' \/ Excused
<1>1. pb.activeGen \in Owners /\ None \notin Gens
  BY OrphanFacts
<1>2. CASE Sounding(be') \in {Sounding(be), None} \ {pb.activeGen}
  <2>1. Sounding(be') \notin Gens
    BY <1>1, <1>2 DEF Orphan
  <2> QED BY <2>1, NoneOrphaned
<1> QED BY <1>1, <1>2, CallSounds

LEMMA PlaybackOrphans ==
  ASSUME OrphanInv, ~Orphan, PlaybackStep
  PROVE  ~Orphan' \/ Excused
<1>1. /\ SilentInv /\ Inv /\ pb \in Playbacks /\ None \notin Gens
      /\ pb.auth <=> pb.activeGen # None
  BY OrphanFacts DEF OrphanInv
<1>2. ASSUME NEW ok \in StartResults, be' = Synced(ok), ~pb.auth \/ Switches(be, link),
             phase = "started" \/ ~pb.auth
      PROVE  ~Orphan'
  BY <1>1, <1>2, SyncedSounds, QuietSounds, NoneOrphaned
<1>3. CASE RevokingEvents
  <2>1. PICK next \in Playbacks, force \in BOOLEAN : ClearSustained(next, force)
    BY <1>1, <1>3, RevokingEventsShape
  <2>2. CASE pb.activeGen # None
    BY <1>1, <2>1, <2>2, TakenBack DEF ClearSustained
  <2>3. CASE pb.activeGen = None
    BY <1>1, <2>1, <2>3, NoneOrphaned DEF ClearSustained
  <2> QED BY <2>2, <2>3
<1>4. CASE WwiseStart
  <2>1. ~pb.auth
    BY <1>1, <1>4 DEF WwiseStart
  <2>2. PICK ok \in StartResults :
          \/ /\ PostSet(Synced(ok), pb.nextGen) /\ Open(Synced(ok))
             /\ pb' = [pb EXCEPT !.auth = TRUE, !.activeGen = pb.nextGen,
                                 !.releaseGen = pb.nextGen, !.nextGen = pb.nextGen + 1]
          \/ be' = Synced(ok)
    BY <1>4 DEF WwiseStart
  <2>3. CASE be' = Synced(ok)
    BY <1>2, <2>1, <2>3
  <2>4. CASE /\ PostSet(Synced(ok), pb.nextGen) /\ Open(Synced(ok))
             /\ pb' = [pb EXCEPT !.auth = TRUE, !.activeGen = pb.nextGen,
                                 !.releaseGen = pb.nextGen, !.nextGen = pb.nextGen + 1]
    <3>1. pb.nextGen \in Owners
      BY <1>1, <1>4, Constants, OwnerFacts DEF WwiseStart, Playbacks, Gens
    <3>2. Sounding(be') \in {pb.nextGen, None}
      BY <2>4, <3>1, SetSounds
    <3>3. pb'.auth /\ pb'.activeGen = pb.nextGen
      BY <1>1, <2>4 DEF Playbacks
    <3> QED BY <1>1, <3>2, <3>3 DEF Orphan
  <2> QED BY <2>2, <2>3, <2>4
<1>5. CASE WwiseStop
  <2>1. CASE pb.activeGen # None
    BY <1>1, <1>5, <2>1, TakenBack DEF WwiseStop
  <2>2. CASE pb.activeGen = None
    BY <1>1, <1>2, <1>5, <2>2 DEF WwiseStop
  <2> QED BY <2>1, <2>2
<1>6. CASE FiniteCue
  BY <1>2, <1>6 DEF FiniteCue, SwitchReports
<1>7. CASE RightTriggerReleased
  BY <1>1, <1>7, TakenBack DEF RightTriggerReleased
<1>8. CASE ReportEndpointInvalidated
  <2>1. lost /\ ~lost' /\ be' = be /\ ~be.endpoint
    BY <1>8 DEF ReportEndpointInvalidated, OrphanInv
  <2>2. be.transport # "bluetooth" => Sounding(be') = None
    BY <2>1 DEF Sounding
  <2> QED BY <1>1, <2>1, <2>2, NoneOrphaned DEF Excused
<1>9. CASE ReportDirectStop
  BY <1>9 DEF ReportDirectStop, Excused
<1>10. CASE \/ SuppressionLifted \/ GameUnpaused
            \/ \E menu \in Menus : BlockingMenuClosed(menu)
  <2>1. pb'.auth = pb.auth /\ pb'.activeGen = pb.activeGen /\ be' = be
    BY <1>1, <1>10 DEF SuppressionLifted, GameUnpaused, BlockingMenuClosed, PlaybackOnly, Playbacks
  <2> QED BY <2>1 DEF Orphan
<1> QED BY <1>3, <1>4, <1>5, <1>6, <1>7, <1>8, <1>9, <1>10 DEF PlaybackStep, RevokingEvents

LEMMA ManagerOrphans == ASSUME OrphanInv, ~Orphan, ManagerStep PROVE ~Orphan'
<1>1. SilentInv /\ Inv /\ Good(be) /\ None \notin Gens
  BY OrphanFacts DEF OrphanInv
\* Stopping and switching leave nothing; otherwise nobody reports.
<1>2. ASSUME NEW ok \in StartResults,
             be' \in {StopIfActive(Synchronize(be, link, ok)), Synchronize(be, link, ok)},
             \/ Quiet(be')
             \/ be' = Synchronize(be, link, ok) /\ Reported(SwitchReports(be, link))
      PROVE  ~Orphan'
  <2>1. CASE Quiet(be') \/ Switches(be, link)
    BY <1>1, <1>2, <2>1, SyncedSounds, QuietSounds, NoneOrphaned
  <2>2. CASE ~Quiet(be') /\ ~Switches(be, link)
    BY <1>1, <1>2, <2>2, SyncedSounds, NoneOrphaned DEF Reported, SwitchReports
  <2> QED BY <2>1, <2>2
<1>3. CASE ManagerStop \/ \E next \in LiveSettings : DisableSpeaker(next)
  <2>1. PICK ok \in StartResults :
          LET b == Synchronize(be, link, ok)
          IN  /\ be' = StopIfActive(b)
              /\ Reported(SwitchReports(be, link) \/ (Active(b) /\ StopReports(b)))
    BY <1>3 DEF ManagerStop, DisableSpeaker
  <2> DEFINE b == Synchronize(be, link, ok)
  <2>2. Good(b)
    BY <1>1, CallsOpenNothing
  <2> HIDE DEF b
  <2>3. CASE Active(b)
    <3>1. b.started
      BY <2>2, <2>3 DEF Active, Good, Exclusive
    <3>2. Quiet(be')
      BY <2>1, <2>2, <2>3, <3>1, StopDualGood DEF StopIfActive, b
    <3> QED BY <1>2, <2>1, <3>2
  <2>4. CASE ~Active(b)
    <3>1. be' = b /\ Reported(SwitchReports(be, link) \/ FALSE)
      BY <2>1, <2>4 DEF StopIfActive, b
    <3>2. Reported(SwitchReports(be, link))
      BY <3>1 DEF Reported
    <3> QED BY <1>2, <3>1, <3>2 DEF b
  <2> QED BY <2>3, <2>4
<1>4. CASE ManagerStart \/ \E next \in LiveSettings : StoreSettings(next) \/ EnableSpeaker(next)
  <2>1. UNCHANGED pb /\ (be' = be \/ Quiet(be'))
    BY <1>1, <1>4, SyncedSounds DEF ManagerStart, StoreSettings, EnableSpeaker
  <2> QED BY <1>1, <2>1, QuietSounds, NoneOrphaned
<1>5. CASE Poll
  BY <1>2, <1>5 DEF Poll
<1>6. CASE BoostpackClear \/ \E next \in LiveSettings : ChangePolicy(next)
  <2> DEFINE c == ClearSpeakerState(be)
  <2>1. Good(c) /\ c.mixer = None /\ c.pending.kind = "none" /\ c.transport = be.transport
    BY <1>1, ClearSpeakerStateGood
  <2>2. c.btMixer = be.btMixer
    BY <1>1 DEF ClearSpeakerState, Good, Backends
  <2> HIDE DEF c
  <2>3. Sounding(c) \in {Sounding(be), None} /\ Sounding(ClearBluetooth(c)) = None
    BY <2>1, <2>2 DEF Sounding, AfterUpdate, ClearBluetooth, Good, Backends
  <2>4. CASE BoostpackClear
    BY <1>1, <2>3, <2>4, NoneOrphaned DEF BoostpackClear, c
  <2>5. CASE \E next \in LiveSettings : ChangePolicy(next)
    BY <1>1, <2>3, <2>5, NoneOrphaned DEF ChangePolicy, ClearPlayback, c
  <2> QED BY <1>6, <2>4, <2>5
<1> QED BY <1>3, <1>4, <1>5, <1>6 DEF ManagerStep

LEMMA RoverOrphans == ASSUME OrphanInv, ~Orphan, RoverStep PROVE ~Orphan' \/ Excused
<1>1. /\ SilentInv /\ Inv /\ Good(be)
      /\ Rover \notin Gens /\ None \notin Gens /\ Rover \in Owners
  BY OrphanFacts DEF OrphanInv
<1>2. ASSUME NEW believed, RoverSet(believed) PROVE ~Orphan'
  <2>1. PICK ok \in StartResults :
          \/ PostSet(Synced(ok), Rover) /\ Open(Synced(ok))
          \/ be' = Synced(ok)
    BY <1>2 DEF RoverSet
  <2>2. CASE PostSet(Synced(ok), Rover) /\ Open(Synced(ok))
    BY <1>1, <2>2, SetSounds, NoneOrphaned
  <2>3. CASE be' = Synced(ok)
    <3>1. CASE phase = "started" /\ Switches(be, link)
      BY <1>1, <2>3, <3>1, SyncedSounds, QuietSounds, NoneOrphaned
    <3>2. CASE ~(phase = "started" /\ Switches(be, link))
      <4>1. UNCHANGED pb
        BY <1>2, <3>2 DEF RoverSet, Reported, SwitchReports
      <4> QED BY <1>1, <2>3, <4>1, SyncedSounds, QuietSounds, NoneOrphaned
    <3> QED BY <3>1, <3>2
  <2> QED BY <2>1, <2>2, <2>3
<1>3. ASSUME RoverClear PROVE ~Orphan' \/ Excused
  <2>1. PICK ok \in StartResults : be' = AfterClear(Synced(ok), Rover, FALSE)
    BY <1>3 DEF RoverClear
  <2>2. /\ (Sounding(be') \in {Sounding(be), None} \/ Excused)
        /\ (phase = "started" /\ Switches(be, link)) => Sounding(be') = None
    BY <1>1, <2>1, CallSounds
  <2>3. ~(phase = "started" /\ Switches(be, link)) => UNCHANGED pb
    BY <1>3 DEF RoverClear, Reported, SwitchReports
  <2> QED BY <1>1, <2>2, <2>3, NoneOrphaned
<1>4. ASSUME RoverStopThrust \/ VehicleAuthority PROVE ~Orphan'
  BY <1>1, <1>4, NoneOrphaned DEF RoverStopThrust, VehicleAuthority
<1> QED BY <1>2, <1>3, <1>4
        DEF RoverStep, RoverEngine, RoverStopEngine, RoverThrustStart, RoverThrustStop

LEMMA WorkerOrphans == ASSUME OrphanInv, ~Orphan, WorkerStep PROVE ~Orphan'
<1>1. SilentInv /\ Good(be) /\ None \notin Gens
  BY OrphanFacts DEF OrphanInv
<1>2. CASE Render
  <2> DEFINE m == AfterUpdate(be)
  <2>1. be' = [be EXCEPT !.mixer = m, !.pending = NoUpdate] /\ UNCHANGED pb
    BY <1>2 DEF Render, RenderBlock
  <2> HIDE DEF m
  <2>2. /\ be'.mixer = m /\ be'.pending.kind = "none" /\ be'.btMixer = be.btMixer
        /\ be'.transport = be.transport /\ be'.endpoint = be.endpoint
    BY <1>1, <2>1, OwnerFacts DEF Good, Backends
  <2>3. AfterUpdate(be') = m
    BY <2>2 DEF AfterUpdate
  <2>4. Sounding(be') = Sounding(be)
    BY <2>2, <2>3 DEF Sounding, m
  <2> QED BY <1>1, <2>1, <2>4, NoneOrphaned
<1>3. CASE OpenEndpoint \/ LoseEndpoint \/ WiredWorkerFails
  <2> DEFINE c == ClearSpeakerState(be)
  <2>1. /\ c \in Backends /\ c.mixer = None /\ c.pending.kind = "none"
        /\ c.transport = be.transport /\ c.btMixer = be.btMixer
    BY <1>1, ClearSpeakerStateGood DEF Good, Backends, ClearSpeakerState
  <2> HIDE DEF c
  <2>2. /\ UNCHANGED pb
        /\ be' \in {[c EXCEPT !.endpoint = TRUE], [c EXCEPT !.endpoint = FALSE],
                    [[c EXCEPT !.endpoint = FALSE] EXCEPT !.worker = FALSE]}
    BY <1>3 DEF OpenEndpoint, LoseEndpoint, WiredWorkerFails, EndpointOpen, EndpointLost, c
  <2>3. /\ be'.mixer = None /\ be'.pending.kind = "none"
        /\ be'.transport = be.transport /\ be'.btMixer = be.btMixer
    BY <2>1, <2>2 DEF Backends
  <2>4. Sounding(be') \in {Sounding(be), None}
    BY <2>3 DEF Sounding, AfterUpdate
  <2> QED BY <1>1, <2>2, <2>4, NoneOrphaned
<1>4. CASE BluetoothConnect \/ BluetoothWriteFails \/ BluetoothWorkerFails \/ ChangeLink
  <2>1. /\ UNCHANGED pb
        /\ be'.mixer = be.mixer /\ be'.pending = be.pending /\ be'.btMixer = be.btMixer
        /\ be'.transport = be.transport /\ be'.endpoint = be.endpoint
    BY <1>1, <1>4 DEF BluetoothConnect, BluetoothWriteFails, BluetoothWorkerFails, ChangeLink,
                      Good, Backends
  <2>2. AfterUpdate(be') = AfterUpdate(be)
    BY <2>1 DEF AfterUpdate
  <2>3. Sounding(be') = Sounding(be)
    BY <2>1, <2>2 DEF Sounding
  <2> QED BY <1>1, <2>1, <2>3, NoneOrphaned
<1> QED BY <1>2, <1>3, <1>4 DEF WorkerStep

\* Without any assumption about links, boostpack, vehicle, workers, or how many
\* calls come between two blocks: a loop is orphaned only by a clear that writes
\* over the mailbox, by a Bluetooth side with no open handle, or by a report
\* about another loop (clearSustained, pendingPersistent, observeBackendInvalidation).
THEOREM NoOrphans == Spec => NoOrphanLoop
<1> DEFINE Step == Orphan' /\ ~Orphan =>
                     \/ ClearOverwritten
                     \/ be.transport = "bluetooth" /\ ~Open(be)
                     \/ direct /\ ~direct'
                     \/ be.transport = "bluetooth" /\ lost /\ ~lost'
<1>1. ASSUME OrphanInv, [Next]_vars PROVE [Step]_vars
  <2>1. CASE UNCHANGED vars
    BY <2>1
  <2>2. CASE Next
    BY <1>1, <2>2, PlaybackOrphans, ManagerOrphans, RoverOrphans, WorkerOrphans
    DEF Next, Excused
  <2> QED BY <1>1, <2>1, <2>2
<1>2. OrphanInv /\ [Next]_vars => [Step]_vars
  BY <1>1
<1> QED BY <1>2, OrphanInvariance, PTL DEF Spec, NoOrphanLoop

\* A weapon loop that is still heard without its authority and is not an orphan is
\* about to end: the wired endpoint is open, an update waits, and the next block
\* plays no weapon loop.
SilenceIsDue ==
  ~pb.auth /\ ~Orphan /\ Audible(be) \in Gens =>
    be.endpoint /\ be.pending # NoUpdate /\ Audible(RenderBlock(be)) \notin Gens

\* What EventuallySilent needs besides a worker that goes on rendering: one block
\* is enough, and the mailbox that holds the clear cannot be lost with the loop
\* still in the mixer (renderOneBlock, teardownTransport).
THEOREM OneBlockSilences == Spec => []SilenceIsDue
<1>1. ASSUME Inv, ~pb.auth, ~Orphan, Audible(be) \in Gens
      PROVE  be.endpoint /\ be.pending # NoUpdate /\ Audible(RenderBlock(be)) \notin Gens
  <2>1. Good(be) /\ None \notin Gens /\ Sounding(be) \notin Gens
    BY <1>1, InvGood, Constants DEF Orphan, Gens
  <2>2. be.btMixer \notin Gens
    BY <2>1 DEF Sounding, Good, Exclusive
  <2>3. be.endpoint /\ be.mixer \in Gens
    BY <1>1, <2>1, <2>2 DEF Audible
  <2>4. be.transport = "wired" /\ be.btMixer = None
    BY <2>1, <2>3 DEF Good, Exclusive
  <2>5. AfterUpdate(be) \notin Gens
    BY <2>1, <2>3, <2>4 DEF Sounding
  <2>6. be.pending # NoUpdate
    BY <2>3, <2>5 DEF AfterUpdate, NoUpdate
  <2> DEFINE m == AfterUpdate(be)
             c == [be EXCEPT !.mixer = m, !.pending = NoUpdate]
  <2>7. RenderBlock(be) = c
    BY DEF RenderBlock
  <2> HIDE DEF m
  <2>8. c.mixer = m /\ c.btMixer = None
    BY <2>1, <2>4 DEF Good, Backends
  <2> HIDE DEF c
  <2>9. Audible(c) \in {m, None}
    BY <2>8 DEF Audible
  <2> QED BY <2>1, <2>3, <2>5, <2>6, <2>7, <2>9 DEF m
<1>2. Inv => SilenceIsDue
  BY <1>1 DEF SilenceIsDue
<1> QED BY <1>2, Invariance, PTL
=============================================================================
