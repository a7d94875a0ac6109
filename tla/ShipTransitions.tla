-------------------------- MODULE ShipTransitions --------------------------
(***************************************************************************)
(* A launch or a landing of the player's ship: ShipPilotContext reads the  *)
(* seat from the menus, ShipLaunchLandingReconProbe proves a landing from  *)
(* the order of the menus and the state of the ship, and Plugin.cpp starts *)
(* and stops the rumble, the triggers and the light bar from both.         *)
(*                                                                         *)
(* Two threads: `sink' takes a menu event through its observers, `tick' is *)
(* the permanent task.  A step is what lies between two shared accesses.   *)
(* A time is off, running or due.  Reports and their samples are left out. *)
(***************************************************************************)
EXTENDS Naturals

CONSTANTS
  Events,      \* menus that open and close during the behaviour
  Concurrent,  \* menu events arrive while the task runs
  Prompt,      \* the task samples the ship between the taking of a seat and the
               \* next menu event
  Unconfirmed  \* the HUD of a ship may be open without the player in its seat

Menus == {"SpaceshipHud", "Loading", "Fader", "Takeoff", "Data"}

ASSUME EventsAssumption == Events \subseteq Menus
ASSUME FlagsAssumption == {Concurrent, Prompt, Unconfirmed} \subseteq BOOLEAN

Places == {"air", "ground", "docked"}   \* not landed nor docked; landed; docked
Times == {"off", "running", "due"}
Body == {"body", "triggers"}
All == Body \cup {"light"}

VARIABLES
  menus,   \* menus the game has open
  place,   \* where the ship is
  seated,  \* the player is the ship's pilot
  ctx,     \* ShipPilotContext
  probe,   \* ShipLaunchLandingReconProbe, under its mutex
  flags,   \* the atomics of Plugin.cpp
  felt,    \* what HapticsManager and EffectsEngine were last told
  poll,    \* _nextShipPropulsionPoll
  sink, tick,
  thump,   \* touchdowns felt since the ship was last in the air
  flew     \* the ship has been in the air since the takeoff was armed

game == <<menus, place, seated>>
vars == <<game, ctx, probe, flags, felt, poll, sink, tick, thump, flew>>

NoSequence == [on |-> FALSE, loadOpened |-> FALSE, loadClosed |-> FALSE, hudClosed |-> FALSE,
               faderClosed |-> FALSE, takeoffOpened |-> FALSE, takeoffClosed |-> FALSE,
               fader2 |-> FALSE, load2Opened |-> FALSE, load2Closed |-> FALSE,
               touchdown |-> FALSE, seen |-> "none",
               max |-> "off", tail |-> "off", post |-> "off"]

Init ==
  /\ menus = {} /\ place \in Places /\ seated \in BOOLEAN
  /\ ctx = [piloting |-> FALSE, loading |-> FALSE, hud |-> FALSE, invalidated |-> FALSE]
  /\ probe = [pilot |-> FALSE, blocked |-> FALSE, loading |-> FALSE,
              prev |-> "none", last |-> "none", seq |-> NoSequence]
  /\ flags = [pilot |-> FALSE, sampled |-> "none", mask |-> FALSE,
              phase |-> "none", faderClosed |-> FALSE, boundary |-> FALSE, cap |-> "off"]
  /\ felt = {} /\ poll = "due"
  /\ sink = [at |-> "idle", menu |-> "Data", opening |-> FALSE, seat |-> "none"]
  /\ tick = [at |-> "idle", pilot |-> FALSE, precise |-> FALSE, owes |-> "none"]
  /\ thump = 0 /\ flew = FALSE

-----------------------------------------------------------------------------
(* ShipPilotContext::observeMenu: the context after and the change of seat *)

Observed(menu, opening) ==
  IF menu = "Loading"
  THEN IF opening
       THEN [ctx EXCEPT !.loading = TRUE, !.piloting = FALSE, !.invalidated = @ \/ ctx.piloting]
       ELSE [ctx EXCEPT !.loading = FALSE, !.piloting = @ \/ ctx.hud, !.invalidated = FALSE]
  ELSE IF menu = "SpaceshipHud"
  THEN IF opening
       THEN IF ctx.loading \/ ctx.piloting THEN [ctx EXCEPT !.hud = TRUE]
            ELSE [ctx EXCEPT !.hud = TRUE, !.piloting = TRUE, !.invalidated = FALSE]
       ELSE [ctx EXCEPT !.hud = FALSE, !.piloting = FALSE,
                        !.invalidated = @ /\ ctx.loading /\ ~ctx.piloting]
  ELSE ctx

Seat(menu, opening) ==
  IF menu = "Loading"
  THEN IF opening THEN IF ctx.piloting THEN "invalidated" ELSE "none"
       ELSE IF ctx.hud THEN "entered" ELSE IF ctx.invalidated THEN "exited" ELSE "none"
  ELSE IF menu = "SpaceshipHud"
  THEN IF opening THEN IF ctx.loading \/ ctx.piloting THEN "none" ELSE "entered"
       ELSE IF ctx.piloting THEN "exited" ELSE "none"
  ELSE "none"

-----------------------------------------------------------------------------
(* ShipLaunchLandingReconProbe.                                            *)

ClearEvidence(p, keepLast) ==
  [p EXCEPT !.prev = "none", !.seq = NoSequence, !.last = IF keepLast THEN @ ELSE "none"]

NoMore(p) == [p EXCEPT !.seq = NoSequence]

SetPilotActive(p, on) ==
  LET q == [p EXCEPT !.pilot = on]
      loads == ~on /\ p.seq.on /\ p.loading /\ p.seq.loadOpened
      resumes == on /\ p.seq.on /\ (p.seq.hudClosed \/ p.seq.loadClosed)
  IN  IF p.pilot = on THEN p
      ELSE IF loads \/ resumes THEN [q EXCEPT !.prev = "none"] ELSE ClearEvidence(q, FALSE)

SetMenuBlocked(p, on) ==
  LET q == [p EXCEPT !.blocked = on]
  IN  IF on /\ ~p.blocked THEN ClearEvidence(q, TRUE) ELSE q

\* expireLandingSequenceIfNeededLocked
Expire(p) ==
  LET s == p.seq
      waits == s.faderClosed /\ ~s.takeoffOpened /\ s.seen = "none"
  IN  IF ~s.on THEN p
      ELSE IF s.touchdown THEN IF s.post = "due" THEN NoMore(p) ELSE p
      ELSE IF (waits /\ s.tail = "due") \/ s.max = "due" THEN NoMore(p) ELSE p

\* startLandingSequenceLocked: from the last state seen, which must be flight.
Start(p) ==
  LET known == IF p.prev # "none" THEN p.prev ELSE p.last
  IN  IF p.seq.on \/ ~p.pilot \/ p.blocked \/ known # "air" THEN p
      ELSE [p EXCEPT !.seq = [NoSequence EXCEPT !.on = TRUE, !.max = "running",
                                                !.loadOpened = p.loading]]

FaderOpens(p) ==
  LET q == Start(p)
  IN  [q EXCEPT !.seq.fader2 = @ \/ (q.seq.faderClosed /\ q.seq.takeoffOpened)]

\* The first close proves the sequence; the last one ends it.
FaderCloses(p) ==
  LET s == p.seq
  IN  IF ~s.on THEN p
      ELSE IF ~s.faderClosed
      THEN IF s.hudClosed /\ s.loadOpened /\ s.loadClosed
           THEN [p EXCEPT !.seq.faderClosed = TRUE, !.seq.tail = "running"] ELSE NoMore(p)
      ELSE IF s.fader2 /\ s.takeoffClosed /\ s.load2Opened /\ s.load2Closed THEN NoMore(p)
      ELSE p

LoadingOpens(p) ==
  LET q == Start([p EXCEPT !.loading = TRUE])
  IN  IF ~q.seq.on THEN q
      ELSE IF q.seq.fader2 THEN [q EXCEPT !.seq.load2Opened = TRUE]
      ELSE [q EXCEPT !.seq.loadOpened = TRUE]

LoadingCloses(p) ==
  LET q == [p EXCEPT !.loading = FALSE]
  IN  IF ~q.seq.on THEN q
      ELSE IF q.seq.load2Opened THEN [q EXCEPT !.seq.load2Closed = TRUE]
      ELSE [q EXCEPT !.seq.loadClosed = TRUE]

TakeoffChanges(p, opening) ==
  IF ~p.seq.on \/ ~p.seq.faderClosed THEN p
  ELSE IF opening THEN [p EXCEPT !.seq.takeoffOpened = TRUE]
  ELSE [p EXCEPT !.seq.takeoffClosed = p.seq.takeoffOpened]

ObserveMenu(p, menu, opening) ==
  LET q == Expire(p)
  IN  CASE menu = "Fader" -> IF opening THEN FaderOpens(q) ELSE FaderCloses(q)
        [] menu = "Loading" -> IF opening THEN LoadingOpens(q) ELSE LoadingCloses(q)
        [] menu = "Takeoff" -> TakeoffChanges(q, opening)
        [] menu = "SpaceshipHud" ->
             [q EXCEPT !.seq.hudClosed = @ \/ (~opening /\ q.seq.on /\ q.loading /\ ~q.seq.faderClosed)]
        [] OTHER -> q

\* observeShipState, in its two parts: what the landing makes of a state, when
\* it looks, and what a pilot's probe makes of it otherwise.
Looks(p) == p.seq.on /\ (~p.pilot \/ p.seq.hudClosed \/ p.seq.loadClosed)

Landed(p, state) ==
  /\ Looks(p) /\ ~p.seq.touchdown /\ state = "ground"
  /\ p.seq.seen # "ground"

\* Mutant: a touchdown is not remembered.
LookedUnsaved(p, state) ==
  IF ~Looks(p) THEN p
  ELSE IF state = "docked" THEN NoMore(p)
  ELSE IF Landed(p, state) THEN [p EXCEPT !.seq.post = "running"] ELSE [p EXCEPT !.seq.seen = state]

Looked(p, state) ==
  IF ~Looks(p) THEN p
  ELSE IF state = "docked" THEN NoMore(p)
  ELSE LET q == [p EXCEPT !.seq.seen = state]
       IN  IF ~Landed(p, state) THEN q
           ELSE [q EXCEPT !.seq.touchdown = TRUE, !.seq.post = "running",
                          !.prev = IF p.pilot THEN state ELSE @,
                          !.last = IF p.pilot THEN state ELSE @]

Boundary(p, state) ==
  IF ~p.pilot \/ p.prev = "none" \/ "docked" \in {p.prev, state} THEN "none"
  ELSE IF p.prev = "ground" /\ state = "air" THEN "takeoff"
  ELSE IF p.prev = "air" /\ state = "ground" THEN "touchdown"
  ELSE "none"

Piloted(p, state) ==
  IF ~p.pilot THEN p
  ELSE LET q == [p EXCEPT !.last = state, !.prev = state]
       IN  IF Boundary(p, state) = "touchdown" THEN NoMore(q) ELSE q

\* The probe and what it reports of a state.
ShipState(state) ==
  LET p == Expire(probe)
  IN  IF probe.blocked THEN [probe |-> probe, boundary |-> "none"]
      ELSE IF Landed(p, state) THEN [probe |-> Looked(p, state), boundary |-> "touchdown"]
      ELSE LET q == Looked(p, state)
           IN  [probe |-> Piloted(q, state), boundary |-> Boundary(q, state)]

Precise(p) == p.seq.on /\ p.seq.faderClosed /\ ~p.seq.touchdown

-----------------------------------------------------------------------------
(* startShipLaunchLandingHaptics and stopShipLaunchLandingHaptics: the     *)
(* phase is exchanged first, what it stands for follows.                   *)

Reset(f, cap) == [f EXCEPT !.faderClosed = FALSE, !.boundary = FALSE, !.cap = cap]

Exchange(f) == [f EXCEPT !.phase = "none"]

\* Mutant: the light bar keeps the transition.
StillButLight == felt' = felt \ Body /\ flags' = Reset(flags, "off")

Still == felt' = {} /\ flags' = Reset(flags, "off")

-----------------------------------------------------------------------------
(* GameStateAdapter::ProcessEvent and the observers of the event, in the   *)
(* order of runtimeEmit.                                                   *)

MenuEvent(menu) ==
  LET opening == menu \notin menus
  IN  /\ sink.at = "idle"
      /\ Concurrent \/ tick.at = "idle"
      /\ Prompt => (flags.pilot => flags.sampled # "none")
      /\ Unconfirmed \/ (menu = "SpaceshipHud" /\ opening => seated)
      /\ menus' = IF opening THEN menus \cup {menu} ELSE menus \ {menu}
      /\ ctx' = Observed(menu, opening)
      /\ sink' = [at |-> "probe", menu |-> menu, opening |-> opening, seat |-> Seat(menu, opening)]
      /\ UNCHANGED <<place, seated, probe, flags, felt, poll, tick, thump, flew>>

SinkStays == UNCHANGED <<game, ctx, tick, thump, flew>>

SinkAt(at) == sink' = [sink EXCEPT !.at = at]

SinkProbe ==
  /\ sink.at = "probe" /\ SinkAt("phase")
  /\ probe' = ObserveMenu(probe, sink.menu, sink.opening)
  /\ UNCHANGED <<flags, felt, poll>> /\ SinkStays

\* The first close of the fader is counted, the next one after the boundary
\* ends the takeoff.
SinkPhase ==
  LET closes == flags.phase = "takeoff" /\ sink.menu = "Fader" /\ ~sink.opening
      ends == closes /\ flags.faderClosed /\ flags.boundary
  IN  /\ sink.at = "phase" /\ SinkAt(IF ends THEN "stop" ELSE "mask")
      /\ flags' = [flags EXCEPT !.faderClosed = @ \/ closes]
      /\ UNCHANGED <<probe, felt, poll>> /\ SinkStays

SinkStop ==
  /\ sink.at = "stop" /\ SinkAt(IF flags.phase = "none" THEN "mask" ELSE "still")
  /\ flags' = Exchange(flags)
  /\ UNCHANGED <<probe, felt, poll>> /\ SinkStays

SinkStill ==
  sink.at = "still" /\ SinkAt("mask") /\ Still /\ UNCHANGED <<probe, poll>> /\ SinkStays

SinkMask ==
  /\ sink.at = "mask" /\ SinkAt(IF sink.menu = "Data" THEN "blocked" ELSE "seat")
  /\ flags' = [flags EXCEPT !.mask = IF sink.menu = "Data" THEN sink.opening ELSE @]
  /\ UNCHANGED <<probe, felt, poll>> /\ SinkStays

SinkBlocked ==
  /\ sink.at = "blocked" /\ SinkAt("seat")
  /\ probe' = SetMenuBlocked(probe, flags.mask)
  /\ UNCHANGED <<flags, felt, poll>> /\ SinkStays

\* What follows is for a change of seat.
SinkSeat ==
  LET changes == sink.seat # "none"
  IN  /\ sink.at = "seat" /\ SinkAt(IF changes THEN "pilot" ELSE "idle")
      /\ poll' = IF changes THEN "due" ELSE poll
      /\ flags' = IF changes
                  THEN [flags EXCEPT !.pilot = sink.seat = "entered", !.sampled = "none"] ELSE flags
      /\ UNCHANGED <<probe, felt>> /\ SinkStays

SinkPilot ==
  /\ sink.at = "pilot" /\ SinkAt("tell")
  /\ probe' = SetPilotActive(probe, sink.seat = "entered")
  /\ UNCHANGED <<flags, felt, poll>> /\ SinkStays

\* Only the triggers forget a transition when a load takes the seat away.
SinkTell ==
  /\ sink.at = "tell" /\ SinkAt("idle")
  /\ felt' = IF sink.seat = "invalidated" THEN felt \ {"triggers"} ELSE felt
  /\ UNCHANGED <<probe, flags, poll>> /\ SinkStays

-----------------------------------------------------------------------------
(* runtimeTick.                                                            *)

TickStays == UNCHANGED <<game, ctx, sink>>

TickAt(at, owes) == tick' = [tick EXCEPT !.at = at, !.owes = owes]

TickPilot ==
  /\ tick.at = "idle" /\ tick.owes = "none"
  /\ Concurrent \/ sink.at = "idle"
  /\ tick' = [tick EXCEPT !.at = "precise", !.pilot = flags.pilot]
  /\ UNCHANGED <<probe, flags, felt, poll, thump, flew>> /\ TickStays

TickPrecise ==
  /\ tick.at = "precise"
  /\ tick' = [tick EXCEPT !.at = "landing", !.precise = Precise(probe)]
  /\ UNCHANGED <<probe, flags, felt, poll, thump, flew>> /\ TickStays

\* A proven landing sequence starts the landing; one that is gone stops it.
TickLanding ==
  LET starts == tick.precise /\ flags.phase = "none"
      stops == ~tick.precise /\ flags.phase = "landing"
  IN  /\ tick.at = "landing" /\ tick.owes = "none"
      /\ TickAt("arm", IF starts THEN "all" ELSE IF stops THEN "still" ELSE "none")
      /\ flags' = IF starts THEN [flags EXCEPT !.phase = "landing"]
                  ELSE IF stops THEN Exchange(flags) ELSE flags
      /\ UNCHANGED <<probe, felt, poll, thump, flew>> /\ TickStays

\* maybeStartShipTakeoffRumble
Arms ==
  /\ tick.pilot /\ ~tick.precise /\ flags.phase = "none"
  /\ flags.sampled = "ground" /\ ~flags.mask
  /\ "Fader" \in menus /\ "Takeoff" \notin menus

TickArm ==
  /\ tick.at = "arm" /\ tick.owes = "none"
  /\ TickAt("poll", IF Arms THEN "light" ELSE "none")
  /\ flags' = IF Arms THEN [flags EXCEPT !.phase = "takeoff"] ELSE flags
  /\ flew' = IF Arms THEN place # "ground" ELSE flew
  /\ UNCHANGED <<probe, felt, poll, thump>> /\ TickStays

\* pollShipPropulsionState: without the player in the seat the state it returns
\* is the default one, neither landed nor docked.
Sample == IF seated THEN place ELSE "air"

\* The boundary of an armed takeoff starts the body and the triggers.
TickPoll ==
  LET polls == tick.pilot /\ poll # "running"
      seen == ShipState(Sample)
      looks == polls /\ ~tick.precise
      lifts == looks /\ seen.boundary = "takeoff" /\ flags.phase = "takeoff" /\ ~flags.boundary
  IN  /\ tick.at = "poll" /\ tick.owes = "none"
      /\ TickAt("touch", IF lifts THEN "body" ELSE "none")
      /\ poll' = IF polls THEN "running" ELSE poll
      /\ probe' = IF looks THEN seen.probe ELSE probe
      /\ flags' = [flags EXCEPT !.sampled = IF polls THEN Sample ELSE @, !.boundary = @ \/ lifts]
      /\ UNCHANGED <<felt, thump, flew>> /\ TickStays

\* The precise poll of a landing, or the diagnostic one without a pilot.
TickTouch ==
  LET diagnoses == ~tick.precise /\ ~tick.pilot /\ probe.seq.on /\ poll # "running"
      sees == (tick.precise \/ diagnoses) /\ seated
      seen == ShipState(place)
      lands == tick.precise /\ sees /\ seen.boundary = "touchdown"
  IN  /\ tick.at = "touch" /\ tick.owes = "none"
      /\ poll' = IF diagnoses THEN "running" ELSE poll
      /\ probe' = IF sees THEN seen.probe ELSE probe
      /\ TickAt("cancel", IF ~lands THEN "none" ELSE IF flags.phase = "none" THEN "thump"
                          ELSE "landed")
      /\ flags' = IF lands THEN Exchange(flags) ELSE flags
      /\ UNCHANGED <<felt, thump, flew>> /\ TickStays

TickCancel ==
  LET stops == tick.precise /\ seated /\ flags.phase = "landing" /\ ~Precise(probe)
  IN  /\ tick.at = "cancel" /\ tick.owes = "none"
      /\ TickAt("cap", IF stops THEN "still" ELSE "none")
      /\ flags' = IF stops THEN Exchange(flags) ELSE flags
      /\ UNCHANGED <<probe, felt, poll, thump, flew>> /\ TickStays

\* A takeoff ends without its pilot, under a blocking menu or after 30 seconds.
TickCap ==
  LET stops == flags.phase = "takeoff" /\ (~tick.pilot \/ flags.mask \/ flags.cap = "due")
  IN  /\ tick.at = "cap" /\ tick.owes = "none"
      /\ TickAt("report", IF stops THEN "still" ELSE "none")
      /\ flags' = IF stops THEN Exchange(flags) ELSE flags
      /\ UNCHANGED <<probe, felt, poll, thump, flew>> /\ TickStays

\* takeReadyReport
TickReport ==
  /\ tick.at = "report" /\ tick.owes = "none"
  /\ tick' = [tick EXCEPT !.at = "idle", !.pilot = FALSE, !.precise = FALSE]
  /\ probe' = Expire(probe)
  /\ UNCHANGED <<flags, felt, poll, thump, flew>> /\ TickStays

\* Mutant: an armed takeoff is felt at once.
TickFeelsAtOnce ==
  /\ tick.owes \in {"all", "light"} /\ TickAt(tick.at, "none")
  /\ felt' = felt \cup All
  /\ flags' = Reset(flags, "running")
  /\ UNCHANGED <<probe, poll, thump, flew>> /\ TickStays

\* What follows an exchange of the phase.
TickFeels ==
  /\ tick.owes \in {"all", "light"} /\ TickAt(tick.at, "none")
  /\ felt' = felt \cup (IF tick.owes = "all" THEN All ELSE {"light"})
  /\ flags' = Reset(flags, "running")
  /\ UNCHANGED <<probe, poll, thump, flew>> /\ TickStays

TickLifts ==
  /\ tick.owes = "body" /\ TickAt(tick.at, "none")
  /\ felt' = felt \cup Body
  /\ flags' = [flags EXCEPT !.cap = "running"]
  /\ UNCHANGED <<probe, poll, thump, flew>> /\ TickStays

TickStill ==
  /\ tick.owes \in {"still", "landed"}
  /\ TickAt(tick.at, IF tick.owes = "landed" THEN "thump" ELSE "none")
  /\ Still
  /\ UNCHANGED <<probe, poll, thump, flew>> /\ TickStays

\* dispatchShipTouchdownHaptic
TickThump ==
  /\ tick.owes = "thump" /\ TickAt(tick.at, "none")
  /\ felt' = felt \ {"body", "light"}
  /\ thump' = thump + 1
  /\ UNCHANGED <<probe, flags, poll, flew>> /\ TickStays

-----------------------------------------------------------------------------
(* The ship, the player and the clock.                                     *)

GameMoves ==
  /\ Concurrent \/ (sink.at = "idle" /\ tick.at = "idle")
  /\ UNCHANGED <<menus, ctx, probe, flags, felt, poll, sink, tick>>

Fly ==
  /\ GameMoves /\ UNCHANGED seated
  /\ place' = IF place = "air" THEN "ground" ELSE "air"
  /\ thump' = IF place' = "air" THEN 0 ELSE thump
  /\ flew' = (flew \/ place' = "air")

Dock == place = "air" /\ place' = "docked" /\ GameMoves /\ UNCHANGED <<seated, thump, flew>>

ChangeSeat ==
  /\ GameMoves /\ UNCHANGED <<place, thump, flew>>
  /\ Unconfirmed \/ "SpaceshipHud" \notin menus
  /\ seated' = ~seated

\* A time passes: the interval of the poll, the cap of a takeoff, and of a
\* sequence its age, the wait for its tail and the window after the touchdown.
Elapse(c) ==
  /\ Concurrent \/ (sink.at = "idle" /\ tick.at = "idle")
  /\ UNCHANGED <<game, ctx, felt, sink, tick, thump, flew>>
  /\ \/ c = "poll" /\ poll = "running" /\ poll' = "due" /\ UNCHANGED <<probe, flags>>
     \/ /\ c = "cap" /\ flags.cap = "running" /\ flags' = [flags EXCEPT !.cap = "due"]
        /\ UNCHANGED <<probe, poll>>
     \/ /\ c \in {"max", "tail", "post"}
        /\ probe.seq[c] = "running" /\ probe' = [probe EXCEPT !.seq[c] = "due"]
        /\ UNCHANGED <<flags, poll>>

-----------------------------------------------------------------------------
Sink ==
  \/ SinkProbe \/ SinkPhase \/ SinkStop \/ SinkStill \/ SinkMask \/ SinkBlocked
  \/ SinkSeat \/ SinkPilot \/ SinkTell

Tick ==
  \/ TickPilot \/ TickPrecise \/ TickLanding \/ TickArm \/ TickPoll \/ TickTouch
  \/ TickCancel \/ TickCap \/ TickReport
  \/ TickFeels \/ TickLifts \/ TickStill \/ TickThump

Next == (\E m \in Events : MenuEvent(m)) \/ Sink \/ Tick \/ Fly \/ Dock \/ ChangeSeat
        \/ \E c \in {"poll", "cap", "max", "tail", "post"} : Elapse(c)

Spec == Init /\ [][Next]_vars

-----------------------------------------------------------------------------
(* Properties.                                                             *)

Sequences ==
  [on : BOOLEAN, loadOpened : BOOLEAN, loadClosed : BOOLEAN, hudClosed : BOOLEAN,
   faderClosed : BOOLEAN, takeoffOpened : BOOLEAN, takeoffClosed : BOOLEAN,
   fader2 : BOOLEAN, load2Opened : BOOLEAN, load2Closed : BOOLEAN,
   touchdown : BOOLEAN, seen : {"none", "air", "ground"},
   max : Times, tail : Times, post : Times]

\* Every variable has its type.
TypeOK ==
  /\ menus \subseteq Menus /\ place \in Places /\ seated \in BOOLEAN
  /\ ctx \in [piloting : BOOLEAN, loading : BOOLEAN, hud : BOOLEAN, invalidated : BOOLEAN]
  /\ probe \in [pilot : BOOLEAN, blocked : BOOLEAN, loading : BOOLEAN,
                prev : Places \cup {"none"}, last : Places \cup {"none"}, seq : Sequences]
  /\ flags \in [pilot : BOOLEAN, sampled : Places \cup {"none"}, mask : BOOLEAN,
                phase : {"none", "takeoff", "landing"},
                faderClosed : BOOLEAN, boundary : BOOLEAN, cap : Times]
  /\ felt \subseteq All /\ poll \in {"running", "due"}
  /\ sink \in [at : {"idle", "probe", "phase", "stop", "still", "mask", "blocked", "seat",
                     "pilot", "tell"},
               menu : Menus, opening : BOOLEAN,
               seat : {"none", "entered", "exited", "invalidated"}]
  /\ tick \in [at : {"idle", "precise", "landing", "arm", "poll", "touch", "cancel", "cap", "report"},
               pilot : BOOLEAN, precise : BOOLEAN,
               owes : {"none", "all", "light", "body", "still", "landed", "thump"}]
  /\ thump \in Nat /\ flew \in BOOLEAN

Resting == sink.at = "idle" /\ tick.at = "idle"

\* Between two events and turns of the task nothing of a transition is felt
\* without one: the light bar needs an armed takeoff or a landing, the body and
\* the triggers a landing or a takeoff whose boundary was seen.  A takeoff has
\* its 30 seconds counted.
FeltIsOwned ==
  Resting =>
    /\ felt # {} => flags.phase # "none"
    /\ felt \cap Body # {} /\ flags.phase = "takeoff" => flags.boundary
    /\ flags.phase = "takeoff" => flags.cap # "off"

\* The body and the triggers of a takeoff wait for the ship to leave the ground.
TakeoffLeavesGround ==
  felt \cap Body # {} /\ flags.phase = "takeoff" => flew

\* A touchdown is felt once, until the ship has flown again.
OneThump == thump <= 1
=============================================================================
