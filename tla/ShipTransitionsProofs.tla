----------------------- MODULE ShipTransitionsProofs -----------------------
(***************************************************************************)
(* Proofs about launch and landing: nothing of a transition is felt        *)
(* without one, a takeoff is felt once the ship has flown, and a touchdown *)
(* once, when menu events and the task do not overlap.                     *)
(***************************************************************************)
EXTENDS ShipTransitions, TLAPS

Flags ==
  [pilot : BOOLEAN, sampled : Places \cup {"none"}, mask : BOOLEAN,
   phase : {"none", "takeoff", "landing"},
   faderClosed : BOOLEAN, boundary : BOOLEAN, cap : Times]

Sinks ==
  [at : {"idle", "probe", "phase", "stop", "still", "mask", "blocked", "seat", "pilot", "tell"},
   menu : Menus, opening : BOOLEAN, seat : {"none", "entered", "exited", "invalidated"}]

Ticks ==
  [at : {"idle", "precise", "landing", "arm", "poll", "touch", "cancel", "cap", "report"},
   pilot : BOOLEAN, precise : BOOLEAN,
   owes : {"none", "all", "light", "body", "still", "landed", "thump"}]

\* The types the argument needs.
Typed ==
  /\ flags \in Flags /\ felt \subseteq All /\ sink \in Sinks /\ tick \in Ticks
  /\ place \in Places /\ seated \in BOOLEAN

\* One handler at a time, and the task owes nothing between its turns.
Alone ==
  /\ sink.at = "idle" \/ tick.at = "idle"
  /\ tick.at = "idle" => tick.owes = "none"

\* What follows an exchange of the phase finds the phase it left: no other
\* handler has come between.
Follows ==
  /\ sink.at = "still" => flags.phase = "none"
  /\ tick.owes \in {"still", "landed", "thump"} => flags.phase = "none"
  /\ tick.owes = "all" => flags.phase = "landing"
  /\ tick.owes = "light" => flags.phase = "takeoff" /\ felt = {}
  /\ tick.owes = "body" => flags.phase = "takeoff" /\ flags.boundary

\* FeltIsOwned, with what is about to be cleared or counted left out.
Clears == sink.at = "still" \/ tick.owes \in {"still", "landed"}

Owned ==
  /\ felt # {} /\ ~Clears => flags.phase # "none"
  /\ felt \cap Body # {} /\ flags.phase = "takeoff" => flags.boundary
  /\ flags.phase = "takeoff" /\ tick.owes # "light" => flags.cap # "off"

Inv == Typed /\ Alone /\ Follows /\ Owned

LEMMA InvOwns == Inv => FeltIsOwned
  BY DEF Inv, Alone, Owned, Clears, FeltIsOwned, Resting

LEMMA InitInv == Init => Inv
  BY DEF Init, Inv, Typed, Alone, Follows, Owned, Clears, Flags, Sinks, Ticks, Places, Menus,
     Times, All

-----------------------------------------------------------------------------
(* Menu events.                                                            *)

\* A step that touches neither the phase nor what is felt.
LEMMA MenuEventInv ==
  ASSUME ~Concurrent, Inv, NEW m \in Events, MenuEvent(m)
  PROVE  Inv'
  <1>1. /\ sink.at = "idle" /\ tick.at = "idle" /\ flags' = flags /\ felt' = felt /\ tick' = tick
        /\ place' = place /\ seated' = seated
    BY DEF MenuEvent
  <1>2. sink' = [at |-> "probe", menu |-> m, opening |-> m \notin menus,
                 seat |-> Seat(m, m \notin menus)]
    BY Zenon DEF MenuEvent
  <1>3. Seat(m, m \notin menus) \in {"none", "entered", "exited", "invalidated"}
    BY DEF Seat
  <1>4. sink' \in Sinks /\ sink'.at = "probe"
    BY <1>2, <1>3, EventsAssumption DEF Sinks
  <1>5. Typed'
    BY <1>1, <1>4 DEF Inv, Typed
  <1>6. Alone' /\ Follows' /\ Owned'
    BY <1>1, <1>4 DEF Inv, Alone, Follows, Owned, Clears
  <1>7. QED
    BY <1>5, <1>6 DEF Inv

LEMMA SinkInv ==
  ASSUME ~Concurrent, Inv, Sink
  PROVE  Inv'
  <1>1. /\ flags \in Flags /\ felt \subseteq All /\ sink \in Sinks /\ tick \in Ticks
        /\ place \in Places /\ seated \in BOOLEAN
    BY DEF Inv, Typed
  <1>2. tick' = tick /\ place' = place /\ seated' = seated
    BY DEF Sink, SinkProbe, SinkPhase, SinkStop, SinkStill, SinkMask, SinkBlocked, SinkSeat,
       SinkPilot, SinkTell, SinkStays, game
  <1>3. sink.at # "idle" /\ tick.at = "idle" /\ tick.owes = "none"
    BY DEF Inv, Alone, Sink, SinkProbe, SinkPhase, SinkStop, SinkStill, SinkMask, SinkBlocked,
       SinkSeat, SinkPilot, SinkTell
  <1>4. Alone'
    BY <1>2, <1>3 DEF Alone
  <1>5. CASE SinkProbe \/ SinkBlocked \/ SinkPilot
    <2>1. flags' = flags /\ felt' = felt /\ sink' \in Sinks
          /\ sink'.at \in {"phase", "seat", "tell"}
          /\ sink.at # "still"
      BY <1>1, <1>5 DEF SinkProbe, SinkBlocked, SinkPilot, SinkAt, Sinks
    <2>2. QED
      BY <1>1, <1>2, <1>3, <1>4, <2>1 DEF Inv, Typed, Follows, Owned, Clears
  <1>6. CASE SinkPhase
    <2>1. flags' \in Flags /\ felt' = felt /\ sink' \in Sinks
          /\ sink'.at \in {"stop", "mask"} /\ sink.at # "still"
          /\ flags'.phase = flags.phase /\ flags'.boundary = flags.boundary
          /\ flags'.cap = flags.cap
      BY <1>1, <1>6 DEF SinkPhase, SinkAt, Sinks, Flags
    <2>2. QED
      BY <1>1, <1>2, <1>3, <1>4, <2>1 DEF Inv, Typed, Follows, Owned, Clears
  <1>7. CASE SinkStop
    <2>1. flags' \in Flags /\ felt' = felt /\ sink' \in Sinks /\ sink.at # "still"
          /\ sink'.at = (IF flags.phase = "none" THEN "mask" ELSE "still")
          /\ flags'.phase = "none"
      BY <1>1, <1>7 DEF SinkStop, SinkAt, Sinks, Flags, Exchange
    <2>2. QED
      BY <1>1, <1>2, <1>3, <1>4, <2>1 DEF Inv, Typed, Follows, Owned, Clears
  <1>8. CASE SinkStill
    <2>1. flags' \in Flags /\ felt' = {} /\ sink' \in Sinks /\ sink'.at = "mask"
          /\ flags'.phase = flags.phase /\ flags.phase = "none"
      BY <1>1, <1>8 DEF SinkStill, SinkAt, Still, Reset, Sinks, Flags, Times, Inv, Follows
    <2>2. QED
      BY <1>1, <1>2, <1>3, <1>4, <2>1 DEF Inv, Typed, Follows, Owned, Clears
  <1>9. CASE SinkMask
    <2>1. flags' \in Flags /\ felt' = felt /\ sink' \in Sinks /\ sink.at # "still"
          /\ sink'.at # "still"
          /\ flags'.phase = flags.phase /\ flags'.boundary = flags.boundary
          /\ flags'.cap = flags.cap
      BY <1>1, <1>9 DEF SinkMask, SinkAt, Sinks, Flags
    <2>2. QED
      BY <1>1, <1>2, <1>3, <1>4, <2>1 DEF Inv, Typed, Follows, Owned, Clears
  <1>10. CASE SinkSeat
    <2> DEFINE entered == sink.seat = "entered"
               f == [flags EXCEPT !.pilot = entered, !.sampled = "none"]
    <2>1. flags' \in {f, flags} /\ felt' = felt /\ sink.at # "still"
      BY <1>10, Zenon DEF SinkSeat
    <2>2. sink' \in Sinks /\ sink'.at # "still"
      BY <1>1, <1>10 DEF SinkSeat, SinkAt, Sinks
    <2>3. entered \in BOOLEAN
      OBVIOUS
    <2> HIDE DEF entered
    <2>4. f \in Flags /\ f.phase = flags.phase /\ f.boundary = flags.boundary
          /\ f.cap = flags.cap
      BY <1>1, <2>3 DEF Flags
    <2> HIDE DEF f
    <2>5. QED
      BY <1>1, <1>2, <1>3, <1>4, <2>1, <2>2, <2>4 DEF Inv, Typed, Follows, Owned, Clears
  <1>11. CASE SinkTell
    <2>1. flags' = flags /\ felt' \subseteq felt /\ sink' \in Sinks /\ sink.at # "still"
          /\ sink'.at = "idle"
      BY <1>1, <1>11 DEF SinkTell, SinkAt, Sinks
    <2>2. QED
      BY <1>1, <1>2, <1>3, <1>4, <2>1 DEF Inv, Typed, Follows, Owned, Clears
  <1>12. QED
    BY <1>5, <1>6, <1>7, <1>8, <1>9, <1>10, <1>11 DEF Sink

-----------------------------------------------------------------------------
(* The task.                                                               *)

\* A step of the task that owes nothing and leaves the phase.
LEMMA PlainStep ==
  ASSUME Inv, sink' = sink, sink.at = "idle", tick' \in Ticks, tick.owes = "none",
         tick'.owes = "none", flags' \in Flags, felt' = felt,
         flags'.phase = flags.phase, flags'.boundary = flags.boundary, flags'.cap = flags.cap,
         place' = place, seated' = seated
  PROVE  Inv'
  BY DEF Inv, Typed, Alone, Follows, Owned, Clears

LEMMA WorkerAlone ==
  ASSUME ~Concurrent, Inv, Tick
  PROVE  /\ sink.at = "idle" /\ sink' = sink /\ place' = place /\ seated' = seated
         /\ Typed
         /\ tick.at = "idle" => tick.owes = "none"
  BY DEF Inv, Typed, Alone, Tick, TickPilot, TickPrecise, TickLanding, TickArm, TickPoll,
     TickTouch, TickCancel, TickCap, TickReport, TickFeels, TickLifts, TickStill, TickThump,
     TickStays, game

\* The steps that may exchange the phase for none.
LEMMA StopStep ==
  ASSUME Inv, sink' = sink, sink.at = "idle", tick' \in Ticks, tick.owes = "none",
         tick'.at # "idle", flags' \in Flags, felt' = felt, flags'.phase = "none",
         \/ tick'.owes \in {"still", "landed"}
         \/ tick'.owes \in {"none", "thump"} /\ flags.phase = "none",
         place' = place, seated' = seated
  PROVE  Inv'
  BY DEF Inv, Typed, Alone, Follows, Owned, Clears

LEMMA QuietTicksInv ==
  ASSUME ~Concurrent, Inv, TickPilot \/ TickPrecise \/ TickReport
  PROVE  Inv'
  <1>1. /\ sink.at = "idle" /\ sink' = sink /\ place' = place /\ seated' = seated /\ Typed
        /\ tick.at = "idle" => tick.owes = "none"
    BY WorkerAlone DEF Tick
  <1>2. flags' = flags /\ felt' = felt
    BY DEF TickPilot, TickPrecise, TickReport
  <1>3. CASE TickPilot
    <2>1. tick' \in Ticks /\ tick'.owes = "none" /\ tick.owes = "none"
      BY <1>1, <1>3 DEF TickPilot, Typed, Ticks, Flags
    <2>2. QED
      BY <1>1, <1>2, <2>1, PlainStep DEF Typed
  <1>4. CASE TickReport
    <2>1. tick' \in Ticks /\ tick'.owes = "none" /\ tick.owes = "none"
      BY <1>1, <1>4 DEF TickReport, Typed, Ticks
    <2>2. QED
      BY <1>1, <1>2, <2>1, PlainStep DEF Typed
  <1>5. CASE TickPrecise
    <2> DEFINE precise == Precise(probe)
    <2>1. precise \in BOOLEAN
      BY DEF Precise
    <2>2. tick' = [tick EXCEPT !.at = "landing", !.precise = precise]
      BY <1>5 DEF TickPrecise
    <2> HIDE DEF precise
    <2>3. tick' \in Ticks /\ tick'.owes = tick.owes /\ tick'.at = "landing"
      BY <1>1, <2>1, <2>2 DEF Typed, Ticks
    <2>4. QED
      BY <1>1, <1>2, <2>3 DEF Inv, Typed, Alone, Follows, Owned, Clears
  <1>6. QED
    BY <1>3, <1>4, <1>5

\* The steps that look at the phase and may exchange it for none.
LEMMA StopTicksInv ==
  ASSUME ~Concurrent, Inv, TickTouch \/ TickCancel \/ TickCap
  PROVE  Inv'
  <1>1. /\ sink.at = "idle" /\ sink' = sink /\ place' = place /\ seated' = seated /\ Typed
        /\ tick.owes = "none" /\ felt' = felt
    BY WorkerAlone DEF Tick, TickTouch, TickCancel, TickCap
  <1>2. Exchange(flags) \in Flags /\ Exchange(flags).phase = "none"
    BY <1>1 DEF Exchange, Typed, Flags
  <1>3. /\ tick' \in Ticks /\ tick'.at \in {"cancel", "cap", "report"}
        /\ tick'.owes \in {"none", "thump", "still", "landed"}
        /\ flags' \in {flags, Exchange(flags)}
        /\ tick'.owes = "none" => flags' = flags
        /\ tick'.owes # "none" => flags' = Exchange(flags)
        /\ tick'.owes = "thump" => flags.phase = "none"
    <2>1. CASE TickTouch
      BY <1>1, <2>1 DEF TickTouch, TickAt, Typed, Ticks
    <2>2. CASE TickCancel
      BY <1>1, <2>2 DEF TickCancel, TickAt, Typed, Ticks
    <2>3. CASE TickCap
      BY <1>1, <2>3 DEF TickCap, TickAt, Typed, Ticks
    <2>4. QED
      BY <2>1, <2>2, <2>3
  <1>4. CASE tick'.owes = "none"
    BY <1>1, <1>3, <1>4, PlainStep DEF Typed
  <1>5. CASE tick'.owes # "none"
    BY <1>1, <1>2, <1>3, <1>5, StopStep
  <1>6. QED
    BY <1>4, <1>5

\* The landing starts from no phase and stops from its own.
LEMMA LandingInv ==
  ASSUME ~Concurrent, Inv, TickLanding
  PROVE  Inv'
  <1> DEFINE starts == tick.precise /\ flags.phase = "none"
             stops == ~tick.precise /\ flags.phase = "landing"
             f == [flags EXCEPT !.phase = "landing"]
  <1>1. /\ sink.at = "idle" /\ sink' = sink /\ place' = place /\ seated' = seated /\ Typed
        /\ tick.owes = "none" /\ felt' = felt
    BY WorkerAlone DEF Tick, TickLanding
  <1>2. /\ tick' = [tick EXCEPT !.at = "arm", !.owes = IF starts THEN "all"
                                                  ELSE IF stops THEN "still" ELSE "none"]
        /\ flags' = IF starts THEN f ELSE IF stops THEN Exchange(flags) ELSE flags
    BY DEF TickLanding, TickAt
  <1>3. tick' \in Ticks /\ tick'.at = "arm"
        /\ tick'.owes = (IF starts THEN "all" ELSE IF stops THEN "still" ELSE "none")
    BY <1>1, <1>2 DEF Typed, Ticks
  <1>4. CASE starts
    <2>1. f \in Flags /\ f.phase = "landing"
      BY <1>1 DEF Typed, Flags
    <2>2. QED
      BY <1>1, <1>2, <1>3, <1>4, <2>1 DEF Inv, Typed, Alone, Follows, Owned, Clears
  <1>5. CASE ~starts /\ stops
    <2>1. Exchange(flags) \in Flags /\ Exchange(flags).phase = "none"
      BY <1>1 DEF Exchange, Typed, Flags
    <2>2. QED
      BY <1>1, <1>2, <1>3, <1>5, <2>1, StopStep
  <1>6. CASE ~starts /\ ~stops
    BY <1>1, <1>2, <1>3, <1>6, PlainStep DEF Typed
  <1>7. QED
    BY <1>4, <1>5, <1>6

\* A takeoff is armed from no phase, so nothing is felt yet.
LEMMA ArmInv ==
  ASSUME ~Concurrent, Inv, TickArm
  PROVE  Inv'
  <1> DEFINE f == [flags EXCEPT !.phase = "takeoff"]
  <1>1. /\ sink.at = "idle" /\ sink' = sink /\ place' = place /\ seated' = seated /\ Typed
        /\ tick.owes = "none" /\ felt' = felt
    BY WorkerAlone DEF Tick, TickArm
  <1>2. tick' \in Ticks /\ tick'.at = "poll"
        /\ tick'.owes = (IF Arms THEN "light" ELSE "none")
        /\ flags' = (IF Arms THEN f ELSE flags)
    BY <1>1 DEF TickArm, TickAt, Typed, Ticks
  <1>3. CASE Arms
    <2>1. f \in Flags /\ f.phase = "takeoff" /\ flags.phase = "none"
      BY <1>1, <1>3 DEF Typed, Flags, Arms
    <2>2. felt = {}
      BY <1>1, <2>1 DEF Inv, Owned, Clears
    <2>3. QED
      BY <1>1, <1>2, <1>3, <2>1, <2>2 DEF Inv, Typed, Alone, Follows, Owned, Clears
  <1>4. CASE ~Arms
    BY <1>1, <1>2, <1>4, PlainStep DEF Typed
  <1>5. QED
    BY <1>3, <1>4

\* The boundary is marked before the body is started.
LEMMA PollInv ==
  ASSUME ~Concurrent, Inv, TickPoll
  PROVE  Inv'
  <1> DEFINE polls == tick.pilot /\ poll # "running"
             lifts == /\ polls /\ ~tick.precise /\ ShipState(Sample).boundary = "takeoff"
                      /\ flags.phase = "takeoff" /\ ~flags.boundary
             sampled == IF polls THEN Sample ELSE flags.sampled
             boundary == flags.boundary \/ lifts
             f == [flags EXCEPT !.sampled = sampled, !.boundary = boundary]
  <1>1. /\ sink.at = "idle" /\ sink' = sink /\ place' = place /\ seated' = seated /\ Typed
        /\ tick.owes = "none" /\ felt' = felt
    BY WorkerAlone DEF Tick, TickPoll
  <1>2. tick' \in Ticks /\ tick'.at = "touch"
        /\ tick'.owes = (IF lifts THEN "body" ELSE "none")
    BY <1>1 DEF TickPoll, TickAt, Typed, Ticks
  <1>3. flags' = f
    <2>1. flags.sampled = flags["sampled"]
      OBVIOUS
    <2>2. QED
      BY <1>1 DEF TickPoll, Typed, Flags
  <1>4. sampled \in Places \cup {"none"} /\ boundary \in BOOLEAN
        /\ (lifts => boundary) /\ (~lifts => boundary = flags.boundary)
        /\ (lifts => flags.phase = "takeoff")
    BY <1>1 DEF Typed, Flags, Sample, Places
  <1> HIDE DEF sampled, boundary, lifts
  <1>5. f \in Flags /\ f.phase = flags.phase /\ f.boundary = boundary /\ f.cap = flags.cap
    BY <1>1, <1>4 DEF Typed, Flags
  <1> HIDE DEF f
  <1>6. CASE lifts
    BY <1>1, <1>2, <1>3, <1>4, <1>5, <1>6 DEF Inv, Typed, Alone, Follows, Owned, Clears
  <1>7. CASE ~lifts
    BY <1>1, <1>2, <1>3, <1>4, <1>5, <1>7, PlainStep
  <1>8. QED
    BY <1>6, <1>7

\* What follows an exchange.
LEMMA OwedTicksInv ==
  ASSUME ~Concurrent, Inv, TickFeels \/ TickLifts \/ TickStill \/ TickThump
  PROVE  Inv'
  <1>1. /\ sink.at = "idle" /\ sink' = sink /\ place' = place /\ seated' = seated /\ Typed
        /\ tick.owes # "none" /\ tick.at # "idle"
    BY WorkerAlone DEF Tick, TickFeels, TickLifts, TickStill, TickThump, Inv, Alone
  <1>2. CASE TickFeels
    <2>1. tick' \in Ticks /\ tick'.at = tick.at /\ tick'.owes = "none"
      BY <1>1, <1>2 DEF TickFeels, TickAt, Typed, Ticks
    <2>2. flags' \in Flags /\ flags'.phase = flags.phase /\ flags'.cap = "running"
          /\ ~flags'.boundary
      BY <1>1, <1>2 DEF TickFeels, Reset, Typed, Flags, Times
    <2>3. felt' \subseteq All /\ flags.phase # "none"
          /\ (flags.phase = "takeoff" => felt' \cap Body = {})
      BY <1>1, <1>2 DEF TickFeels, Inv, Follows, Typed, All, Body
    <2>4. QED
      BY <1>1, <2>1, <2>2, <2>3 DEF Inv, Typed, Alone, Follows, Owned, Clears
  <1>3. CASE TickLifts
    <2>1. tick' \in Ticks /\ tick'.at = tick.at /\ tick'.owes = "none"
      BY <1>1, <1>3 DEF TickLifts, TickAt, Typed, Ticks
    <2>2. flags' \in Flags /\ flags'.phase = flags.phase /\ flags'.cap = "running"
          /\ flags'.boundary = flags.boundary
      BY <1>1, <1>3 DEF TickLifts, Typed, Flags, Times
    <2>3. felt' \subseteq All /\ flags.phase = "takeoff" /\ flags.boundary
      BY <1>1, <1>3 DEF TickLifts, Inv, Follows, Typed, All
    <2>4. QED
      BY <1>1, <2>1, <2>2, <2>3 DEF Inv, Typed, Alone, Follows, Owned, Clears
  <1>4. CASE TickStill
    <2>1. tick' \in Ticks /\ tick'.at = tick.at /\ tick'.owes \in {"none", "thump"}
      BY <1>1, <1>4 DEF TickStill, TickAt, Typed, Ticks
    <2>2. flags' \in Flags /\ flags'.phase = flags.phase /\ felt' = {}
          /\ flags.phase = "none"
      BY <1>1, <1>4 DEF TickStill, Still, Reset, Typed, Flags, Times, Inv, Follows
    <2>3. QED
      BY <1>1, <2>1, <2>2 DEF Inv, Typed, Alone, Follows, Owned, Clears
  <1>5. CASE TickThump
    <2>1. tick' \in Ticks /\ tick'.at = tick.at /\ tick'.owes = "none" /\ flags' = flags
      BY <1>1, <1>5 DEF TickThump, TickAt, Typed, Ticks
    <2>2. felt' \subseteq felt /\ flags.phase = "none" /\ tick.owes = "thump"
      BY <1>1, <1>5 DEF TickThump, Inv, Follows
    <2>3. QED
      BY <1>1, <2>1, <2>2 DEF Inv, Typed, Alone, Follows, Owned, Clears
  <1>6. QED
    BY <1>2, <1>3, <1>4, <1>5

-----------------------------------------------------------------------------
(* The game and the clock, and the theorem.                                *)

LEMMA GameInv ==
  ASSUME ~Concurrent, Inv, Fly \/ Dock \/ ChangeSeat
  PROVE  Inv'
  <1>1. flags' = flags /\ felt' = felt /\ sink' = sink /\ tick' = tick
    BY DEF Fly, Dock, ChangeSeat, GameMoves
  <1>2. place' \in Places /\ seated' \in BOOLEAN
    BY DEF Fly, Dock, ChangeSeat, GameMoves, Inv, Typed, Places
  <1>3. QED
    BY <1>1, <1>2 DEF Inv, Typed, Alone, Follows, Owned, Clears

LEMMA ElapseInv ==
  ASSUME ~Concurrent, Inv, NEW c \in {"poll", "cap", "max", "tail", "post"}, Elapse(c)
  PROVE  Inv'
  <1>1. felt' = felt /\ sink' = sink /\ tick' = tick /\ place' = place /\ seated' = seated
    BY DEF Elapse, game
  <1>2. /\ flags' \in Flags /\ flags'.phase = flags.phase /\ flags'.boundary = flags.boundary
        /\ flags'.cap = "off" => flags.cap = "off"
    BY DEF Elapse, Inv, Typed, Flags, Times
  <1>3. QED
    BY <1>1, <1>2 DEF Inv, Typed, Alone, Follows, Owned, Clears

LEMMA NextInv == ~Concurrent /\ Inv /\ [Next]_vars => Inv'
  <1> SUFFICES ASSUME ~Concurrent, Inv, [Next]_vars PROVE Inv'
    OBVIOUS
  <1>1. CASE UNCHANGED vars
    BY <1>1 DEF vars, game, Inv, Typed, Alone, Follows, Owned, Clears
  <1>2. CASE Tick
    BY <1>2, QuietTicksInv, StopTicksInv, LandingInv, ArmInv, PollInv, OwedTicksInv DEF Tick
  <1>3. CASE Next
    BY <1>2, <1>3, MenuEventInv, SinkInv, GameInv, ElapseInv DEF Next
  <1>4. QED
    BY <1>1, <1>3

\* Nothing of a transition is felt without one once the handlers rest, for any
\* menus, whether or not the HUD proves the seat and however seldom the ship is
\* sampled.
THEOREM TransitionsOwn == ~Concurrent => (Spec => []FeltIsOwned)
  <1> SUFFICES ASSUME ~Concurrent PROVE Spec => []FeltIsOwned
    OBVIOUS
  <1>1. Inv /\ [Next]_vars => Inv'
    BY NextInv
  <1>2. QED
    BY <1>1, InitInv, InvOwns, PTL DEF Spec

-----------------------------------------------------------------------------
(* The operators of the probe: what each keeps.                            *)

Probes ==
  [pilot : BOOLEAN, blocked : BOOLEAN, loading : BOOLEAN,
   prev : Places \cup {"none"}, last : Places \cup {"none"}, seq : Sequences]

\* Two probes that differ only in the sequence and in the load.
Alike(p, q) ==
  /\ q.pilot = p.pilot /\ q.blocked = p.blocked /\ q.prev = p.prev /\ q.last = p.last

LEMMA NoSequenceTyped == NoSequence \in Sequences /\ ~NoSequence.on
  BY DEF NoSequence, Sequences, Times

LEMMA NoMoreKeeps ==
  ASSUME NEW p \in Probes
  PROVE  NoMore(p) \in Probes /\ Alike(p, NoMore(p)) /\ ~NoMore(p).seq.on
         /\ NoMore(p).seq = NoSequence
  BY NoSequenceTyped DEF NoMore, Probes, Alike

LEMMA ExpireKeeps ==
  ASSUME NEW p \in Probes
  PROVE  /\ Expire(p) \in Probes /\ Alike(p, Expire(p))
         /\ Expire(p).seq.on => Expire(p) = p
  BY NoMoreKeeps DEF Expire, Alike

LEMMA ClearKeeps ==
  ASSUME NEW p \in Probes, NEW keepLast \in BOOLEAN
  PROVE  LET q == ClearEvidence(p, keepLast)
         IN  /\ q \in Probes /\ q.pilot = p.pilot /\ q.blocked = p.blocked /\ q.prev = "none"
             /\ ~q.seq.on /\ q.last = (IF keepLast THEN p.last ELSE "none")
  BY NoSequenceTyped DEF ClearEvidence, Probes

\* A probe given another sequence.
LEMMA Resequenced ==
  ASSUME NEW p \in Probes, NEW s \in Sequences
  PROVE  LET q == [p EXCEPT !.seq = s]
         IN  q \in Probes /\ Alike(p, q) /\ q.seq = s /\ q.loading = p.loading
  BY DEF Probes, Alike

\* The flags of a sequence other than its being and its touchdown.
Marks ==
  {"loadOpened", "loadClosed", "hudClosed", "faderClosed", "takeoffOpened", "takeoffClosed",
   "fader2", "load2Opened", "load2Closed"}

LEMMA SequenceFlags ==
  ASSUME NEW s \in Sequences, NEW b \in BOOLEAN,
         NEW f \in Marks
  PROVE  LET t == [s EXCEPT ![f] = b]
         IN  t \in Sequences /\ t.on = s.on /\ t.touchdown = s.touchdown
  BY DEF Sequences, Marks


\* The probe after an operation that may start a sequence or go on with one.
Continues(p, q) ==
  /\ q \in Probes /\ Alike(p, q)
  /\ q.seq.on => \/ p.seq.on /\ q.seq.touchdown = p.seq.touchdown
                 \/ /\ p.pilot /\ ~p.blocked /\ ~q.seq.touchdown
                    /\ "air" \in {p.prev, p.last} /\ (p.prev # "none" => p.prev = "air")

LEMMA ContinuesSame ==
  ASSUME NEW p \in Probes
  PROVE  Continues(p, p) /\ Continues(p, NoMore(p))
  BY NoMoreKeeps DEF Continues, Alike

LEMMA ContinuesFlag ==
  ASSUME NEW p, NEW q, Continues(p, q), NEW b \in BOOLEAN,
         NEW f \in Marks
  PROVE  Continues(p, [q EXCEPT !.seq = [q.seq EXCEPT ![f] = b]])
  <1> DEFINE s == q.seq
             t == [s EXCEPT ![f] = b]
             r == [q EXCEPT !.seq = t]
  <1>1. q \in Probes /\ s \in Sequences
    BY DEF Continues, Probes
  <1> HIDE DEF s
  <1>2. t \in Sequences /\ t.on = s.on /\ t.touchdown = s.touchdown
    BY <1>1, SequenceFlags
  <1> HIDE DEF t
  <1>3. r \in Probes /\ Alike(q, r) /\ r.seq = t
    BY <1>1, <1>2, Resequenced
  <1> HIDE DEF r
  <1>4. Continues(p, r)
    BY <1>2, <1>3 DEF Continues, Alike, s
  <1>5. QED
    BY <1>4 DEF r, t, s

LEMMA StartContinues ==
  ASSUME NEW p \in Probes
  PROVE  Continues(p, Start(p)) /\ Start(p).loading = p.loading
  <1> DEFINE known == IF p.prev # "none" THEN p.prev ELSE p.last
             s == [NoSequence EXCEPT !.on = TRUE, !.max = "running", !.loadOpened = p.loading]
             q == [p EXCEPT !.seq = s]
  <1>1. CASE p.seq.on \/ ~p.pilot \/ p.blocked \/ known # "air"
    BY <1>1, ContinuesSame DEF Start
  <1>2. CASE ~(p.seq.on \/ ~p.pilot \/ p.blocked \/ known # "air")
    <2>1. p.loading \in BOOLEAN
      BY DEF Probes
    <2>2. s \in Sequences /\ s.on /\ ~s.touchdown
      BY <2>1 DEF NoSequence, Sequences, Times
    <2>3. Start(p) = q
      BY <1>2 DEF Start
    <2> HIDE DEF s
    <2>4. q \in Probes /\ Alike(p, q) /\ q.seq = s /\ q.loading = p.loading
      BY <2>2, Resequenced
    <2> HIDE DEF q
    <2>5. QED
      BY <1>2, <2>2, <2>3, <2>4 DEF Continues
  <1>3. QED
    BY <1>1, <1>2

LEMMA LoadingContinues ==
  ASSUME NEW p \in Probes, NEW b \in BOOLEAN
  PROVE  LET q == [p EXCEPT !.loading = b] IN q \in Probes /\ Alike(p, q) /\ q.seq = p.seq
  BY DEF Probes, Alike

LEMMA ContinuesAlike ==
  ASSUME NEW p, NEW q, NEW r, Alike(p, q), q.seq = p.seq, Continues(q, r)
  PROVE  Continues(p, r)
  BY DEF Continues, Alike

LEMMA FaderContinues ==
  ASSUME NEW p \in Probes
  PROVE  Continues(p, FaderOpens(p)) /\ Continues(p, FaderCloses(p))
  <1>1. Continues(p, FaderOpens(p))
    <2> DEFINE q == Start(p)
               b == q.seq.fader2 \/ (q.seq.faderClosed /\ q.seq.takeoffOpened)
               r == [q EXCEPT !.seq.fader2 = b]
    <2>1. Continues(p, q)
      BY StartContinues
    <2>2. b \in BOOLEAN
      BY <2>1 DEF Continues, Probes, Sequences
    <2>3. FaderOpens(p) = r
      BY DEF FaderOpens
    <2> HIDE DEF q, b
    <2>4. r = [q EXCEPT !.seq = [q.seq EXCEPT !["fader2"] = b]]
      OBVIOUS
    <2> HIDE DEF r
    <2>5. "fader2" \in Marks
      BY DEF Marks
    <2>6. QED
      BY <2>1, <2>2, <2>3, <2>4, <2>5, ContinuesFlag
  <1>2. Continues(p, FaderCloses(p))
    <2> DEFINE s == [p.seq EXCEPT !.faderClosed = TRUE, !.tail = "running"]
               q == [p EXCEPT !.seq = s]
    <2>1. FaderCloses(p) \in {p, NoMore(p), q}
      BY DEF FaderCloses
    <2>2. p.seq \in Sequences
      BY DEF Probes
    <2>3. s \in Sequences /\ s.on = p.seq.on /\ s.touchdown = p.seq.touchdown
      BY <2>2 DEF Sequences, Times
    <2> HIDE DEF s
    <2>4. q \in Probes /\ Alike(p, q) /\ q.seq = s
      BY <2>3, Resequenced
    <2> HIDE DEF q
    <2>5. Continues(p, q)
      BY <2>3, <2>4 DEF Continues
    <2>6. QED
      BY <2>1, <2>5, ContinuesSame
  <1>3. QED
    BY <1>1, <1>2

LEMMA LoadContinues ==
  ASSUME NEW p \in Probes
  PROVE  Continues(p, LoadingOpens(p)) /\ Continues(p, LoadingCloses(p))
  <1>1. Continues(p, LoadingOpens(p))
    <2> DEFINE l == [p EXCEPT !.loading = TRUE]
               q == Start(l)
               q1 == [q EXCEPT !.seq = [q.seq EXCEPT !["load2Opened"] = TRUE]]
               q2 == [q EXCEPT !.seq = [q.seq EXCEPT !["loadOpened"] = TRUE]]
    <2>1. LoadingOpens(p) \in {q, q1, q2}
      BY DEF LoadingOpens
    <2>2. l \in Probes /\ Alike(p, l) /\ l.seq = p.seq
      BY LoadingContinues
    <2> HIDE DEF l
    <2>3. Continues(p, q)
      BY <2>2, StartContinues, ContinuesAlike
    <2> HIDE DEF q
    <2>4. Continues(p, q1) /\ Continues(p, q2)
      BY <2>3, ContinuesFlag DEF Marks
    <2>5. QED
      BY <2>1, <2>3, <2>4
  <1>2. Continues(p, LoadingCloses(p))
    <2> DEFINE q == [p EXCEPT !.loading = FALSE]
               q1 == [q EXCEPT !.seq = [q.seq EXCEPT !["load2Closed"] = TRUE]]
               q2 == [q EXCEPT !.seq = [q.seq EXCEPT !["loadClosed"] = TRUE]]
    <2>1. LoadingCloses(p) \in {q, q1, q2}
      BY DEF LoadingCloses
    <2>2. q \in Probes /\ Alike(p, q) /\ q.seq = p.seq
      BY LoadingContinues
    <2> HIDE DEF q
    <2>3. Continues(p, q)
      BY <2>2, ContinuesSame, ContinuesAlike
    <2>4. Continues(p, q1) /\ Continues(p, q2)
      BY <2>3, ContinuesFlag DEF Marks
    <2>5. QED
      BY <2>1, <2>3, <2>4
  <1>3. QED
    BY <1>1, <1>2

LEMMA TakeoffContinues ==
  ASSUME NEW p \in Probes, NEW opening \in BOOLEAN
  PROVE  Continues(p, TakeoffChanges(p, opening))
  <1> DEFINE b == p.seq.takeoffOpened
             q1 == [p EXCEPT !.seq = [p.seq EXCEPT !["takeoffOpened"] = TRUE]]
             q2 == [p EXCEPT !.seq = [p.seq EXCEPT !["takeoffClosed"] = b]]
  <1>1. TakeoffChanges(p, opening) \in {p, q1, q2}
    BY DEF TakeoffChanges
  <1>2. Continues(p, p)
    BY ContinuesSame
  <1>3. b \in BOOLEAN
    BY DEF Probes, Sequences
  <1> HIDE DEF b
  <1>4. Continues(p, q1) /\ Continues(p, q2)
    BY <1>2, <1>3, ContinuesFlag DEF Marks
  <1>5. QED
    BY <1>1, <1>2, <1>4

\* A menu never gives the probe a landing it has not started from flight.
LEMMA ObserveContinues ==
  ASSUME NEW p \in Probes, NEW menu \in Menus, NEW opening \in BOOLEAN
  PROVE  Continues(p, ObserveMenu(p, menu, opening))
  <1> DEFINE q == Expire(p)
             b == q.seq.hudClosed \/ (~opening /\ q.seq.on /\ q.loading /\ ~q.seq.faderClosed)
             r == ObserveMenu(p, menu, opening)
             h == [q EXCEPT !.seq = [q.seq EXCEPT !["hudClosed"] = b]]
  <1>1. q \in Probes /\ Alike(p, q) /\ (q.seq.on => q = p)
    BY ExpireKeeps
  <1>2. b \in BOOLEAN
    BY <1>1 DEF Probes, Sequences
  <1>3. r \in {FaderOpens(q), FaderCloses(q), LoadingOpens(q), LoadingCloses(q),
               TakeoffChanges(q, opening), h, q}
    BY DEF ObserveMenu, Menus
  <1> HIDE DEF q, b, r
  <1>4. Continues(q, q)
    BY <1>1, ContinuesSame
  <1>5. Continues(q, h)
    BY <1>2, <1>4, ContinuesFlag DEF Marks
  <1> HIDE DEF h
  <1>6. Continues(q, r)
    BY <1>1, <1>3, <1>4, <1>5, FaderContinues, LoadContinues, TakeoffContinues
  <1>7. Continues(p, r)
    BY <1>1, <1>6 DEF Continues, Alike
  <1>8. QED
    BY <1>7 DEF r

LEMMA PilotSets ==
  ASSUME NEW p \in Probes, NEW on \in BOOLEAN
  PROVE  LET q == SetPilotActive(p, on)
         IN  /\ q \in Probes /\ q.pilot = on /\ q.blocked = p.blocked
             /\ \/ q = p
                \/ q.prev = "none" /\ q.last = p.last /\ q.seq = p.seq /\ p.seq.on
                \/ q.prev = "none" /\ q.last = "none" /\ ~q.seq.on
  <1> DEFINE q == [p EXCEPT !.pilot = on]
             r == [q EXCEPT !.prev = "none"]
             c == ClearEvidence(q, FALSE)
             s == SetPilotActive(p, on)
  <1>1. q \in Probes /\ q.pilot = on /\ q.blocked = p.blocked /\ q.last = p.last /\ q.seq = p.seq
    BY DEF Probes
  <1>2. \/ s = p /\ p.pilot = on
        \/ s = r /\ p.seq.on
        \/ s = c
    BY DEF SetPilotActive
  <1> HIDE DEF q, s
  <1>3. r \in Probes /\ r.pilot = on /\ r.blocked = p.blocked /\ r.last = p.last
        /\ r.seq = p.seq /\ r.prev = "none"
    BY <1>1 DEF Probes
  <1>4. c \in Probes /\ c.pilot = on /\ c.blocked = p.blocked /\ c.prev = "none"
        /\ c.last = "none" /\ ~c.seq.on
    BY <1>1, ClearKeeps
  <1> HIDE DEF r, c
  <1>5. /\ s \in Probes /\ s.pilot = on /\ s.blocked = p.blocked
        /\ \/ s = p
           \/ s.prev = "none" /\ s.last = p.last /\ s.seq = p.seq /\ p.seq.on
           \/ s.prev = "none" /\ s.last = "none" /\ ~s.seq.on
    BY <1>2, <1>3, <1>4
  <1>6. QED
    BY <1>5 DEF s

LEMMA BlockedSets ==
  ASSUME NEW p \in Probes, NEW on \in BOOLEAN
  PROVE  LET q == SetMenuBlocked(p, on)
         IN  /\ q \in Probes /\ q.pilot = p.pilot /\ q.blocked = on /\ q.last = p.last
             /\ \/ q.prev = p.prev /\ q.seq = p.seq /\ (on => p.blocked)
                \/ q.prev = "none" /\ ~q.seq.on
  <1> DEFINE q == [p EXCEPT !.blocked = on]
             c == ClearEvidence(q, TRUE)
             s == SetMenuBlocked(p, on)
  <1>1. q \in Probes /\ q.pilot = p.pilot /\ q.blocked = on /\ q.last = p.last
        /\ q.seq = p.seq /\ q.prev = p.prev
    BY DEF Probes
  <1>2. s = IF on /\ ~p.blocked THEN c ELSE q
    BY DEF SetMenuBlocked
  <1> HIDE DEF q, s
  <1>3. c \in Probes /\ c.pilot = p.pilot /\ c.blocked = on /\ c.prev = "none"
        /\ c.last = p.last /\ ~c.seq.on
    BY <1>1, ClearKeeps
  <1> HIDE DEF c
  <1>4. /\ s \in Probes /\ s.pilot = p.pilot /\ s.blocked = on /\ s.last = p.last
        /\ \/ s.prev = p.prev /\ s.seq = p.seq /\ (on => p.blocked)
           \/ s.prev = "none" /\ ~s.seq.on
    BY <1>1, <1>2, <1>3
  <1>5. QED
    BY <1>4 DEF s

\* What a state of the ship makes of the landing that is under way.
LEMMA LookedKeeps ==
  ASSUME NEW p \in Probes, NEW state \in Places
  PROVE  LET q == Looked(p, state)
         IN  /\ q \in Probes /\ q.pilot = p.pilot /\ q.blocked = p.blocked
             /\ q.seq.on => p.seq.on /\ (p.seq.touchdown => q.seq.touchdown)
             /\ ~Landed(p, state) => q.prev = p.prev /\ q.last = p.last
             /\ Landed(p, state) => /\ q.seq.touchdown
                                    /\ q.prev = (IF p.pilot THEN state ELSE p.prev)
                                    /\ q.last = (IF p.pilot THEN state ELSE p.last)
  <1> DEFINE s == [p.seq EXCEPT !.seen = state]
             t == [s EXCEPT !.touchdown = TRUE, !.post = "running"]
             prev == IF p.pilot THEN state ELSE p.prev
             last == IF p.pilot THEN state ELSE p.last
             q == [p EXCEPT !.seq = s]
             r == [p EXCEPT !.seq = t, !.prev = prev, !.last = last]
             l == Looked(p, state)
  <1>1. p.seq \in Sequences /\ prev \in Places \cup {"none"} /\ last \in Places \cup {"none"}
    BY DEF Probes
  <1>2. CASE ~Looks(p)
    BY <1>2 DEF Looked, Landed
  <1>3. CASE Looks(p) /\ state = "docked"
    <2>1. ~Landed(p, state)
      BY <1>3 DEF Landed
    <2>2. l = NoMore(p)
      BY <1>3 DEF Looked
    <2>3. QED
      BY <2>1, <2>2, NoMoreKeeps DEF Alike
  <1>4. CASE Looks(p) /\ state # "docked"
    <2>1. s \in Sequences /\ s.on = p.seq.on /\ s.touchdown = p.seq.touchdown
      BY <1>1, <1>4 DEF Sequences, Places
    <2>2. l = IF Landed(p, state)
              THEN [q EXCEPT !.seq.touchdown = TRUE, !.seq.post = "running",
                             !.prev = prev, !.last = last]
              ELSE q
      BY <1>4 DEF Looked, Probes
    <2> HIDE DEF s, prev, last
    <2>3. q \in Probes /\ Alike(p, q) /\ q.seq = s
      BY <2>1, Resequenced
    <2>4. t \in Sequences /\ t.on = s.on /\ t.touchdown
      BY <2>1 DEF Sequences, Times
    <2>5. Landed(p, state) => l = r
      BY <2>2 DEF Probes
    <2> HIDE DEF t
    <2>6. r \in Probes /\ r.pilot = p.pilot /\ r.blocked = p.blocked /\ r.seq = t
          /\ r.prev = prev /\ r.last = last
      BY <1>1, <2>4 DEF Probes
    <2> HIDE DEF q, r, l
    <2>7. /\ l \in Probes /\ l.pilot = p.pilot /\ l.blocked = p.blocked
          /\ l.seq.on => p.seq.on /\ (p.seq.touchdown => l.seq.touchdown)
          /\ ~Landed(p, state) => l.prev = p.prev /\ l.last = p.last
          /\ Landed(p, state) => l.seq.touchdown /\ l.prev = prev /\ l.last = last
      BY <2>1, <2>2, <2>3, <2>4, <2>5, <2>6 DEF Alike
    <2>8. QED
      BY <2>7 DEF l, prev, last
  <1>5. QED
    BY <1>2, <1>3, <1>4

LEMMA PilotedKeeps ==
  ASSUME NEW p \in Probes, NEW state \in Places
  PROVE  LET q == Piloted(p, state)
         IN  /\ q \in Probes /\ q.pilot = p.pilot /\ q.blocked = p.blocked
             /\ q.seq.on => q.seq = p.seq /\ Boundary(p, state) # "touchdown"
             /\ ~p.pilot => q = p
             /\ p.pilot => q.prev = state /\ q.last = state
  <1> DEFINE r == [p EXCEPT !.last = state, !.prev = state]
             q == Piloted(p, state)
  <1>1. r \in Probes /\ r.pilot = p.pilot /\ r.blocked = p.blocked /\ r.seq = p.seq
        /\ r.prev = state /\ r.last = state
    BY DEF Probes
  <1>2. ~p.pilot => q = p /\ Boundary(p, state) = "none"
    BY DEF Piloted, Boundary
  <1>3. p.pilot => q = IF Boundary(p, state) = "touchdown" THEN NoMore(r) ELSE r
    BY DEF Piloted
  <1> HIDE DEF r, q
  <1>4. NoMore(r) \in Probes /\ Alike(r, NoMore(r)) /\ ~NoMore(r).seq.on
    BY <1>1, NoMoreKeeps
  <1>5. /\ q \in Probes /\ q.pilot = p.pilot /\ q.blocked = p.blocked
        /\ q.seq.on => q.seq = p.seq /\ Boundary(p, state) # "touchdown"
        /\ ~p.pilot => q = p
        /\ p.pilot => q.prev = state /\ q.last = state
    BY <1>1, <1>2, <1>3, <1>4 DEF Alike
  <1>6. QED
    BY <1>5 DEF q

\* A state of the ship moves what was seen last, never starts a landing and never
\* forgets a touchdown; a touchdown it reports is of a ship on the ground.
LEMMA ShipStateKeeps ==
  ASSUME probe \in Probes, NEW state \in Places
  PROVE  LET q == ShipState(state).probe
             boundary == ShipState(state).boundary
         IN  /\ q \in Probes /\ q.pilot = probe.pilot /\ q.blocked = probe.blocked
             /\ q.seq.on => probe.seq.on /\ (probe.seq.touchdown => q.seq.touchdown)
             /\ \/ q.prev = probe.prev /\ q.last = probe.last
                \/ q.prev = state /\ q.last = state
             /\ ~probe.blocked /\ probe.pilot => q.last = state
             /\ boundary = "touchdown" => /\ state = "ground" /\ ~probe.blocked
                                          /\ q.seq.on => q.seq.touchdown
             /\ boundary = "takeoff" => state = "air"
  <1> DEFINE p == Expire(probe)
             l == Looked(p, state)
             s == ShipState(state)
             d == Piloted(l, state)
  <1>1. p \in Probes /\ Alike(probe, p) /\ (p.seq.on => p = probe)
    BY ExpireKeeps
  <1>2. /\ l \in Probes /\ l.pilot = p.pilot /\ l.blocked = p.blocked
        /\ l.seq.on => p.seq.on /\ (p.seq.touchdown => l.seq.touchdown)
        /\ ~Landed(p, state) => l.prev = p.prev /\ l.last = p.last
        /\ Landed(p, state) => /\ l.seq.touchdown
                               /\ l.prev = (IF p.pilot THEN state ELSE p.prev)
                               /\ l.last = (IF p.pilot THEN state ELSE p.last)
    BY <1>1, LookedKeeps
  <1>3. /\ d \in Probes /\ d.pilot = l.pilot /\ d.blocked = l.blocked
        /\ d.seq.on => d.seq = l.seq /\ Boundary(l, state) # "touchdown"
        /\ ~l.pilot => d = l
        /\ l.pilot => d.prev = state /\ d.last = state
    BY <1>2, PilotedKeeps
  <1>4. Landed(p, state) => state = "ground"
    BY DEF Landed
  <1>5. /\ Boundary(l, state) = "touchdown" => state = "ground"
        /\ Boundary(l, state) = "takeoff" => state = "air"
    BY DEF Boundary
  <1>6. s = IF probe.blocked THEN [probe |-> probe, boundary |-> "none"]
            ELSE IF Landed(p, state) THEN [probe |-> l, boundary |-> "touchdown"]
            ELSE [probe |-> d, boundary |-> Boundary(l, state)]
    BY DEF ShipState
  <1> HIDE DEF p, l, d, s
  <1>7. CASE probe.blocked
    <2>1. s.probe = probe /\ s.boundary = "none"
      BY <1>6, <1>7
    <2>2. QED
      BY <1>7, <2>1 DEF s
  <1>8. CASE ~probe.blocked /\ Landed(p, state)
    <2>1. s.probe = l /\ s.boundary = "touchdown"
      BY <1>6, <1>8
    <2>2. QED
      BY <1>1, <1>2, <1>4, <1>8, <2>1 DEF s, Alike
  <1>9. CASE ~probe.blocked /\ ~Landed(p, state)
    <2>1. s.probe = d /\ s.boundary = Boundary(l, state)
      BY <1>6, <1>9
    <2>2. QED
      BY <1>1, <1>2, <1>3, <1>5, <1>9, <2>1 DEF s, Alike
  <1>10. QED
    BY <1>7, <1>8, <1>9

-----------------------------------------------------------------------------
(* The context of the pilot.                                               *)

Contexts == [piloting : BOOLEAN, loading : BOOLEAN, hud : BOOLEAN, invalidated : BOOLEAN]

LEMMA ContextGiven ==
  ASSUME NEW c \in Contexts, NEW on \in BOOLEAN, NEW load \in BOOLEAN, NEW inv \in BOOLEAN
  PROVE  LET d == [c EXCEPT !.loading = load, !.piloting = on, !.invalidated = inv]
         IN  d \in Contexts /\ d.piloting = on /\ d.hud = c.hud
  BY DEF Contexts

LEMMA HudGiven ==
  ASSUME NEW c \in Contexts, NEW hud \in BOOLEAN, NEW on \in BOOLEAN, NEW inv \in BOOLEAN
  PROVE  LET d == [c EXCEPT !.hud = hud, !.piloting = on, !.invalidated = inv]
         IN  d \in Contexts /\ d.piloting = on /\ d.hud = hud
  BY DEF Contexts

\* The context after an event has the pilot whom the change of seat names.
LEMMA ObservedKeeps ==
  ASSUME ctx \in Contexts, NEW menu \in Menus, NEW opening \in BOOLEAN
  PROVE  LET c == Observed(menu, opening)
             seat == Seat(menu, opening)
         IN  /\ c \in Contexts /\ seat \in {"none", "entered", "exited", "invalidated"}
             /\ c.hud = (IF menu = "SpaceshipHud" THEN opening ELSE ctx.hud)
             /\ (ctx.piloting => ctx.hud) =>
                  /\ c.piloting => c.hud
                  /\ seat = "none" => c.piloting = ctx.piloting
                  /\ seat # "none" => c.piloting = (seat = "entered")
  <1> DEFINE c == Observed(menu, opening)
             seat == Seat(menu, opening)
             Good == /\ c \in Contexts /\ seat \in {"none", "entered", "exited", "invalidated"}
                     /\ c.hud = (IF menu = "SpaceshipHud" THEN opening ELSE ctx.hud)
                     /\ (ctx.piloting => ctx.hud) =>
                          /\ c.piloting => c.hud
                          /\ seat = "none" => c.piloting = ctx.piloting
                          /\ seat # "none" => c.piloting = (seat = "entered")
  <1>1. /\ ctx.piloting \in BOOLEAN /\ ctx.loading \in BOOLEAN /\ ctx.hud \in BOOLEAN
        /\ ctx.invalidated \in BOOLEAN
    BY DEF Contexts
  <1>2. CASE menu = "Loading" /\ opening
    <2> DEFINE inv == ctx.invalidated \/ ctx.piloting
               d == [ctx EXCEPT !.loading = TRUE, !.piloting = FALSE, !.invalidated = inv]
    <2>1. c = d /\ seat = IF ctx.piloting THEN "invalidated" ELSE "none"
      BY <1>2 DEF Observed, Seat
    <2>2. inv \in BOOLEAN
      BY <1>1
    <2> HIDE DEF c, inv
    <2>3. d \in Contexts /\ d.piloting = FALSE /\ d.hud = ctx.hud
      BY <2>2, ContextGiven
    <2> HIDE DEF d, seat
    <2>4. Good
      BY <1>1, <1>2, <2>1, <2>3
    <2>5. QED
      BY <2>4 DEF c, seat
  <1>3. CASE menu = "Loading" /\ ~opening
    <2> DEFINE on == ctx.piloting \/ ctx.hud
               d == [ctx EXCEPT !.loading = FALSE, !.piloting = on, !.invalidated = FALSE]
    <2>1. c = d /\ seat = IF ctx.hud THEN "entered" ELSE IF ctx.invalidated THEN "exited" ELSE "none"
      BY <1>3 DEF Observed, Seat
    <2>2. on \in BOOLEAN
      BY <1>1
    <2> HIDE DEF c, on
    <2>3. d \in Contexts /\ d.piloting = on /\ d.hud = ctx.hud
      BY <2>2, ContextGiven
    <2> HIDE DEF d, seat
    <2>4. Good
      BY <1>1, <1>3, <2>1, <2>3 DEF on
    <2>5. QED
      BY <2>4 DEF c, seat
  <1>4. CASE menu = "SpaceshipHud" /\ opening
    <2> DEFINE d == [ctx EXCEPT !.hud = TRUE]
               e == [ctx EXCEPT !.hud = TRUE, !.piloting = TRUE, !.invalidated = FALSE]
    <2>1. /\ c = (IF ctx.loading \/ ctx.piloting THEN d ELSE e)
          /\ seat = IF ctx.loading \/ ctx.piloting THEN "none" ELSE "entered"
      BY <1>4 DEF Observed, Seat
    <2> HIDE DEF c
    <2>2. /\ d \in Contexts /\ d.piloting = ctx.piloting /\ d.hud = TRUE
          /\ e \in Contexts /\ e.piloting = TRUE /\ e.hud = TRUE
      BY DEF Contexts
    <2> HIDE DEF d, e, seat
    <2>3. Good
      BY <1>1, <1>4, <2>1, <2>2
    <2>4. QED
      BY <2>3 DEF c, seat
  <1>5. CASE menu = "SpaceshipHud" /\ ~opening
    <2> DEFINE inv == ctx.invalidated /\ ctx.loading /\ ~ctx.piloting
               d == [ctx EXCEPT !.hud = FALSE, !.piloting = FALSE, !.invalidated = inv]
    <2>1. c = d /\ seat = IF ctx.piloting THEN "exited" ELSE "none"
      BY <1>5 DEF Observed, Seat
    <2>2. inv \in BOOLEAN
      BY <1>1
    <2> HIDE DEF c, inv
    <2>3. d \in Contexts /\ d.piloting = FALSE /\ d.hud = FALSE
      BY <2>2, HudGiven
    <2> HIDE DEF d, seat
    <2>4. Good
      BY <1>1, <1>5, <2>1, <2>3
    <2>5. QED
      BY <2>4 DEF c, seat
  <1>6. CASE menu \notin {"Loading", "SpaceshipHud"}
    BY <1>6 DEF Observed, Seat
  <1>7. QED
    BY <1>2, <1>3, <1>4, <1>5, <1>6

-----------------------------------------------------------------------------
(* Types, whatever overlaps.                                               *)

\* The types of what Typed leaves out.
Kinds ==
  /\ menus \subseteq Menus /\ ctx \in Contexts /\ probe \in Probes
  /\ poll \in {"running", "due"} /\ thump \in Nat /\ flew \in BOOLEAN

LEMMA TypesMeet == TypeOK <=> Typed /\ Kinds
  BY DEF TypeOK, Typed, Kinds, Flags, Sinks, Ticks, Contexts, Probes

LEMMA MenuEventTypes ==
  ASSUME Typed, Kinds, NEW m \in Events, MenuEvent(m)
  PROVE  Typed' /\ Kinds'
  <1> DEFINE opening == m \notin menus
  <1>1. m \in Menus /\ opening \in BOOLEAN
    BY EventsAssumption
  <1>2. sink' = [at |-> "probe", menu |-> m, opening |-> opening, seat |-> Seat(m, opening)]
        /\ ctx' = Observed(m, opening)
    BY Zenon DEF MenuEvent
  <1>3. /\ flags' = flags /\ felt' = felt /\ tick' = tick /\ place' = place /\ seated' = seated
        /\ probe' = probe /\ poll' = poll /\ thump' = thump /\ flew' = flew
    BY DEF MenuEvent
  <1>4. menus' \subseteq Menus
    BY <1>1 DEF MenuEvent, Kinds
  <1> HIDE DEF opening
  <1>5. Observed(m, opening) \in Contexts
        /\ Seat(m, opening) \in {"none", "entered", "exited", "invalidated"}
    BY <1>1, ObservedKeeps DEF Kinds
  <1>6. sink' \in Sinks
    BY <1>1, <1>2, <1>5 DEF Sinks
  <1>7. QED
    BY <1>2, <1>3, <1>4, <1>5, <1>6 DEF Typed, Kinds

LEMMA SinkTypes ==
  ASSUME Typed, Kinds, Sink
  PROVE  Typed' /\ Kinds'
  <1>1. /\ flags \in Flags /\ felt \subseteq All /\ sink \in Sinks /\ probe \in Probes
        /\ poll \in {"running", "due"}
    BY DEF Typed, Kinds
  <1>2. /\ tick' = tick /\ place' = place /\ seated' = seated /\ menus' = menus /\ ctx' = ctx
        /\ thump' = thump /\ flew' = flew
    BY DEF Sink, SinkProbe, SinkPhase, SinkStop, SinkStill, SinkMask, SinkBlocked, SinkSeat,
       SinkPilot, SinkTell, SinkStays, game
  <1>3. sink' \in Sinks
    <2>1. \E at \in {"idle", "phase", "stop", "still", "mask", "blocked", "seat", "pilot", "tell"} :
            SinkAt(at)
      BY DEF Sink, SinkProbe, SinkPhase, SinkStop, SinkStill, SinkMask, SinkBlocked, SinkSeat,
         SinkPilot, SinkTell
    <2>2. QED
      BY <1>1, <2>1 DEF SinkAt, Sinks
  <1>4. flags' \in Flags /\ felt' \subseteq All /\ probe' \in Probes /\ poll' \in {"running", "due"}
    <2>1. CASE SinkProbe
      <3>1. flags' = flags /\ felt' = felt /\ poll' = poll
            /\ probe' = ObserveMenu(probe, sink.menu, sink.opening)
        BY <2>1 DEF SinkProbe
      <3>2. sink.menu \in Menus /\ sink.opening \in BOOLEAN
        BY <1>1 DEF Sinks
      <3>3. QED
        BY <1>1, <3>1, <3>2, ObserveContinues DEF Continues
    <2>2. CASE SinkPhase
      <3>1. felt' = felt /\ poll' = poll /\ probe' = probe
        BY <2>2 DEF SinkPhase
      <3>2. flags' \in Flags
        BY <1>1, <2>2 DEF SinkPhase, Flags
      <3>3. QED
        BY <1>1, <3>1, <3>2
    <2>3. CASE SinkStop
      BY <1>1, <2>3 DEF SinkStop, Exchange, Flags
    <2>4. CASE SinkStill
      BY <1>1, <2>4 DEF SinkStill, Still, Reset, Flags, Times
    <2>5. CASE SinkMask
      BY <1>1, <2>5 DEF SinkMask, Flags, Sinks
    <2>6. CASE SinkBlocked
      <3>1. flags' = flags /\ felt' = felt /\ poll' = poll
            /\ probe' = SetMenuBlocked(probe, flags.mask)
        BY <2>6 DEF SinkBlocked
      <3>2. flags.mask \in BOOLEAN
        BY <1>1 DEF Flags
      <3>3. QED
        BY <1>1, <3>1, <3>2, BlockedSets
    <2>7. CASE SinkSeat
      <3> DEFINE entered == sink.seat = "entered"
                 f == [flags EXCEPT !.pilot = entered, !.sampled = "none"]
      <3>1. flags' \in {f, flags} /\ felt' = felt /\ poll' \in {"due", poll} /\ probe' = probe
        BY <2>7, Zenon DEF SinkSeat
      <3>2. entered \in BOOLEAN
        OBVIOUS
      <3> HIDE DEF entered
      <3>3. f \in Flags
        BY <1>1, <3>2 DEF Flags
      <3> HIDE DEF f
      <3>4. QED
        BY <1>1, <3>1, <3>3
    <2>8. CASE SinkPilot
      <3> DEFINE entered == sink.seat = "entered"
      <3>1. flags' = flags /\ felt' = felt /\ poll' = poll
            /\ probe' = SetPilotActive(probe, entered)
        BY <2>8, Zenon DEF SinkPilot
      <3>2. entered \in BOOLEAN
        OBVIOUS
      <3> HIDE DEF entered
      <3>3. QED
        BY <1>1, <3>1, <3>2, PilotSets
    <2>9. CASE SinkTell
      BY <1>1, <2>9 DEF SinkTell
    <2>10. QED
      BY <2>1, <2>2, <2>3, <2>4, <2>5, <2>6, <2>7, <2>8, <2>9 DEF Sink
  <1>5. QED
    BY <1>2, <1>3, <1>4 DEF Typed, Kinds

LEMMA TickTypes ==
  ASSUME Typed, Kinds, Tick
  PROVE  Typed' /\ Kinds'
  <1>1. /\ flags \in Flags /\ felt \subseteq All /\ tick \in Ticks /\ probe \in Probes
        /\ poll \in {"running", "due"} /\ thump \in Nat /\ flew \in BOOLEAN
        /\ place \in Places /\ seated \in BOOLEAN
    BY DEF Typed, Kinds
  <1>2. sink' = sink /\ place' = place /\ seated' = seated /\ menus' = menus /\ ctx' = ctx
    BY DEF Tick, TickPilot, TickPrecise, TickLanding, TickArm, TickPoll,
       TickTouch, TickCancel, TickCap, TickReport, TickFeels, TickLifts, TickStill, TickThump,
       TickStays, game
  <1>3. thump' \in Nat /\ flew' \in BOOLEAN /\ poll' \in {"running", "due"} /\ felt' \subseteq All
    <2>1. thump' \in Nat
      BY <1>1 DEF Tick, TickPilot, TickPrecise, TickLanding, TickArm, TickPoll, TickTouch,
         TickCancel, TickCap, TickReport, TickFeels, TickLifts, TickStill, TickThump
    <2>2. flew' \in BOOLEAN
      <3>1. flew' \in {flew, TRUE, FALSE}
        BY Zenon DEF Tick, TickPilot, TickPrecise, TickLanding, TickArm, TickPoll, TickTouch,
           TickCancel, TickCap, TickReport, TickFeels, TickLifts, TickStill, TickThump
      <3>2. QED
        BY <1>1, <3>1
    <2>3. poll' \in {"running", "due"}
      BY <1>1 DEF Tick, TickPilot, TickPrecise, TickLanding, TickArm, TickPoll, TickTouch,
         TickCancel, TickCap, TickReport, TickFeels, TickLifts, TickStill, TickThump
    <2>4. felt' \subseteq All
      BY <1>1 DEF Tick, TickPilot, TickPrecise, TickLanding, TickArm, TickPoll, TickTouch,
         TickCancel, TickCap, TickReport, TickFeels, TickLifts, TickStill, TickThump, Still, All,
         Body
    <2>5. QED
      BY <2>1, <2>2, <2>3, <2>4
  <1>4. tick' \in Ticks
    <2>1. CASE TickPilot
      BY <1>1, <2>1 DEF TickPilot, Ticks, Flags
    <2>2. CASE TickPrecise
      <3> DEFINE precise == Precise(probe)
      <3>1. precise \in BOOLEAN /\ tick' = [tick EXCEPT !.at = "landing", !.precise = precise]
        BY <2>2 DEF Precise, TickPrecise
      <3> HIDE DEF precise
      <3>2. QED
        BY <1>1, <3>1 DEF Ticks
    <2>3. CASE TickReport
      BY <1>1, <2>3 DEF TickReport, Ticks
    <2>4. CASE ~(TickPilot \/ TickPrecise \/ TickReport)
      <3>1. \E at \in {tick.at, "arm", "poll", "touch", "cancel", "cap", "report"},
               owes \in {"none", "all", "light", "body", "still", "landed", "thump"} :
              TickAt(at, owes)
        BY <2>4 DEF Tick, TickLanding, TickArm, TickPoll, TickTouch, TickCancel, TickCap,
           TickFeels, TickLifts, TickStill, TickThump
      <3>2. QED
        BY <1>1, <3>1 DEF TickAt, Ticks
    <2>5. QED
      BY <2>1, <2>2, <2>3, <2>4
  <1>5. Expire(probe) \in Probes /\ ShipState(Sample).probe \in Probes
        /\ ShipState(place).probe \in Probes
    <2>1. Sample \in Places
      BY <1>1 DEF Sample, Places
    <2>2. QED
      BY <1>1, <2>1, ExpireKeeps, ShipStateKeeps
  <1>6. probe' \in Probes
    <2>1. probe' \in {probe, Expire(probe), ShipState(Sample).probe, ShipState(place).probe}
      BY DEF Tick, TickPilot, TickPrecise, TickLanding, TickArm, TickPoll, TickTouch,
         TickCancel, TickCap, TickReport, TickFeels, TickLifts, TickStill, TickThump
    <2>2. QED
      BY <1>1, <1>5, <2>1
  <1>7. flags' \in Flags
    <2>1. CASE TickPoll
      <3> DEFINE polls == tick.pilot /\ poll # "running"
                 lifts == /\ polls /\ ~tick.precise /\ ShipState(Sample).boundary = "takeoff"
                          /\ flags.phase = "takeoff" /\ ~flags.boundary
                 sampled == IF polls THEN Sample ELSE flags.sampled
                 boundary == flags.boundary \/ lifts
      <3>1. flags' = [flags EXCEPT !.sampled = sampled, !.boundary = boundary]
        <4>1. flags.sampled = flags["sampled"]
          OBVIOUS
        <4>2. QED
          BY <1>1, <2>1 DEF TickPoll, Flags
      <3>2. sampled \in Places \cup {"none"} /\ boundary \in BOOLEAN
        BY <1>1 DEF Flags, Sample, Places
      <3> HIDE DEF sampled, boundary, lifts
      <3>3. QED
        BY <1>1, <3>1, <3>2 DEF Flags
    <2>2. CASE ~TickPoll
      <3>1. flags' \in {flags, Exchange(flags), [flags EXCEPT !.phase = "landing"],
                        [flags EXCEPT !.phase = "takeoff"], [flags EXCEPT !.cap = "running"],
                        Reset(flags, "running"), Reset(flags, "off")}
        BY <2>2 DEF Tick, TickPilot, TickPrecise, TickLanding, TickArm, TickTouch,
           TickCancel, TickCap, TickReport, TickFeels, TickLifts, TickStill, TickThump, Still
      <3>2. QED
        BY <1>1, <3>1 DEF Exchange, Reset, Flags, Times
    <2>3. QED
      BY <2>1, <2>2
  <1>8. sink' \in Sinks
    BY <1>2 DEF Typed
  <1>9. QED
    BY <1>1, <1>2, <1>3, <1>4, <1>6, <1>7, <1>8 DEF Typed, Kinds

LEMMA GameTypes ==
  ASSUME Typed, Kinds, Fly \/ Dock \/ ChangeSeat
  PROVE  Typed' /\ Kinds'
  <1>1. /\ flags' = flags /\ felt' = felt /\ sink' = sink /\ tick' = tick /\ menus' = menus
        /\ ctx' = ctx /\ probe' = probe /\ poll' = poll
    BY DEF Fly, Dock, ChangeSeat, GameMoves
  <1>2. place' \in Places /\ seated' \in BOOLEAN
    BY DEF Fly, Dock, ChangeSeat, Typed, Places
  <1>3. flew' \in BOOLEAN
    <2>1. CASE Fly
      <3>1. flew' = (flew \/ place' = "air")
        BY <2>1, Zenon DEF Fly
      <3>2. QED
        BY <3>1
    <2>2. CASE Dock \/ ChangeSeat
      BY <2>2 DEF Dock, ChangeSeat, Kinds
    <2>3. QED
      BY <2>1, <2>2
  <1>4. thump' \in {0, thump}
    BY DEF Fly, Dock, ChangeSeat
  <1>5. QED
    BY <1>1, <1>2, <1>3, <1>4 DEF Typed, Kinds

LEMMA ElapseTypes ==
  ASSUME Typed, Kinds, NEW c \in {"poll", "cap", "max", "tail", "post"}, Elapse(c)
  PROVE  Typed' /\ Kinds'
  <1>1. /\ felt' = felt /\ sink' = sink /\ tick' = tick /\ place' = place /\ seated' = seated
        /\ menus' = menus /\ ctx' = ctx /\ thump' = thump /\ flew' = flew
    BY DEF Elapse, game
  <1>2. flags' \in Flags /\ poll' \in {"running", "due"}
    BY DEF Elapse, Typed, Kinds, Flags, Times
  <1>3. probe' \in Probes
    <2> DEFINE s == [probe.seq EXCEPT ![c] = "due"]
    <2>1. CASE c \in {"max", "tail", "post"}
      <3>1. probe' = [probe EXCEPT !.seq = s]
        BY <2>1 DEF Elapse
      <3>2. s \in Sequences
        BY <2>1 DEF Kinds, Probes, Sequences, Times
      <3> HIDE DEF s
      <3>3. QED
        BY <3>1, <3>2, Resequenced DEF Kinds
    <2>2. CASE c \notin {"max", "tail", "post"}
      BY <2>2 DEF Elapse, Kinds
    <2>3. QED
      BY <2>1, <2>2
  <1>4. QED
    BY <1>1, <1>2, <1>3 DEF Typed, Kinds

LEMMA NextTypes == TypeOK /\ [Next]_vars => TypeOK'
  <1> SUFFICES ASSUME TypeOK, [Next]_vars PROVE TypeOK'
    OBVIOUS
  <1>1. Typed /\ Kinds
    BY TypesMeet
  <1>2. CASE UNCHANGED vars
    BY <1>2 DEF vars, game, TypeOK
  <1>3. CASE Next
    <2>1. Typed' /\ Kinds'
      BY <1>1, <1>3, MenuEventTypes, SinkTypes, TickTypes, GameTypes, ElapseTypes DEF Next
    <2>2. QED
      BY <2>1 DEF TypeOK, Typed, Kinds, Flags, Sinks, Ticks, Contexts, Probes
  <1>4. QED
    BY <1>2, <1>3

LEMMA NextKinds == Inv /\ Kinds /\ [Next]_vars => Kinds'
  <1> SUFFICES ASSUME Inv, Kinds, [Next]_vars PROVE Kinds'
    OBVIOUS
  <1>1. TypeOK
    BY TypesMeet DEF Inv
  <1>2. TypeOK'
    BY <1>1, NextTypes
  <1>3. QED
    BY <1>2, TypesMeet, PTL

LEMMA InitTypes == Init => TypeOK
  <1> SUFFICES ASSUME Init PROVE Typed /\ Kinds
    BY TypesMeet
  <1>1. Typed
    BY InitInv DEF Inv
  <1>2. probe \in Probes
    BY NoSequenceTyped DEF Init, Probes
  <1>3. ctx \in Contexts /\ menus = {} /\ poll = "due" /\ thump = 0 /\ flew = FALSE
    BY DEF Init, Contexts
  <1>4. QED
    BY <1>1, <1>2, <1>3 DEF Kinds

\* Every variable keeps its type, whatever the menus, the overlaps and the seat.
THEOREM Typing == Spec => []TypeOK
  BY InitTypes, NextTypes, PTL DEF Spec

-----------------------------------------------------------------------------
(* The seat: whoever the HUD proves to be a pilot is one.                  *)

\* The steps of an event that come before its change of seat is stored.
Before == {"probe", "phase", "stop", "still", "mask", "blocked", "seat"}

Seats ==
  /\ ctx.hud => "SpaceshipHud" \in menus
  /\ ctx.piloting => ctx.hud
  /\ "SpaceshipHud" \in menus => seated
  /\ sink.at \in Before /\ sink.seat # "none" => ctx.piloting = (sink.seat = "entered")
  /\ ~(sink.at \in Before /\ sink.seat # "none") => flags.pilot = ctx.piloting
  /\ sink.at \in {"pilot", "tell"} => sink.seat # "none"
  /\ tick.at # "idle" => tick.pilot = flags.pilot

LEMMA SinkGoes ==
  ASSUME Sink, sink \in Sinks, flags \in Flags
  PROVE  /\ sink'.seat = sink.seat /\ ctx' = ctx /\ menus' = menus /\ place' = place
         /\ seated' = seated /\ tick' = tick /\ thump' = thump /\ flew' = flew
         /\ sink.at # "idle" /\ sink' \in Sinks
         /\ sink.at = "pilot" => sink'.at = "tell"
         /\ sink.at = "tell" => sink'.at = "idle"
         /\ sink.at = "seat" => sink'.at = IF sink.seat # "none" THEN "pilot" ELSE "idle"
         /\ sink.at \in Before \ {"seat"} => sink'.at \in Before
  <1>1. PICK at \in {"idle", "phase", "stop", "still", "mask", "blocked", "seat", "pilot", "tell"} :
          /\ SinkAt(at)
          /\ sink.at = "pilot" => at = "tell"
          /\ sink.at = "tell" => at = "idle"
          /\ sink.at = "seat" => at = IF sink.seat # "none" THEN "pilot" ELSE "idle"
          /\ sink.at \in Before \ {"seat"} => at \in Before
    BY DEF Sink, SinkProbe, SinkPhase, SinkStop, SinkStill, SinkMask, SinkBlocked, SinkSeat,
       SinkPilot, SinkTell, Before
  <1>2. sink'.seat = sink.seat /\ sink'.at = at /\ sink' \in Sinks
    BY <1>1 DEF SinkAt, Sinks
  <1>3. /\ ctx' = ctx /\ menus' = menus /\ place' = place
        /\ seated' = seated /\ tick' = tick /\ thump' = thump /\ flew' = flew
        /\ sink.at # "idle"
    BY DEF Sink, SinkProbe, SinkPhase, SinkStop, SinkStill, SinkMask, SinkBlocked, SinkSeat,
       SinkPilot, SinkTell, SinkStays, game
  <1>4. QED
    BY <1>1, <1>2, <1>3

LEMMA SinkPilots ==
  ASSUME Sink, flags \in Flags
  PROVE  /\ ~SinkSeat => flags'.pilot = flags.pilot /\ flags'.sampled = flags.sampled
         /\ SinkSeat /\ sink.seat = "none" => flags' = flags
         /\ SinkSeat /\ sink.seat # "none" =>
              flags'.pilot = (sink.seat = "entered") /\ flags'.sampled = "none"
  <1>1. CASE SinkSeat
    <2> DEFINE entered == sink.seat = "entered"
               f == [flags EXCEPT !.pilot = entered, !.sampled = "none"]
    <2>1. flags' = IF sink.seat # "none" THEN f ELSE flags
      BY <1>1, Zenon DEF SinkSeat
    <2> HIDE DEF entered
    <2>2. f.pilot = entered /\ f.sampled = "none"
      BY DEF Flags
    <2> HIDE DEF f
    <2>3. sink.seat # "none" => flags'.pilot = entered /\ flags'.sampled = "none"
      BY <2>1, <2>2
    <2>4. QED
      BY <1>1, <2>1, <2>3 DEF entered
  <1>2. CASE ~SinkSeat
    BY <1>2 DEF Sink, SinkProbe, SinkPhase, SinkStop, SinkStill, SinkMask, SinkBlocked,
       SinkPilot, SinkTell, Exchange, Still, Reset, Flags
  <1>3. QED
    BY <1>1, <1>2

LEMMA SinkSeats ==
  ASSUME Typed, Kinds, Alone, Seats, Sink
  PROVE  Seats'
  <1>1. sink \in Sinks /\ flags \in Flags
    BY DEF Typed
  <1>2. tick.at = "idle"
    BY <1>1, SinkGoes DEF Alone
  <1>3. CASE SinkSeat
    <2>1. sink.at = "seat"
      BY <1>3 DEF SinkSeat
    <2>2. QED
      BY <1>1, <1>2, <1>3, <2>1, SinkGoes, SinkPilots DEF Seats, Before
  <1>4. CASE ~SinkSeat
    <2>1. sink.at # "seat" /\ sink.at \in Before \cup {"pilot", "tell"}
      BY <1>4 DEF Sink, SinkProbe, SinkPhase, SinkStop, SinkStill, SinkMask, SinkBlocked,
         SinkPilot, SinkTell, Before
    <2>2. QED
      BY <1>1, <1>2, <1>4, <2>1, SinkGoes, SinkPilots DEF Seats, Before
  <1>5. QED
    BY <1>3, <1>4

LEMMA MenuEventSeats ==
  ASSUME ~Unconfirmed, Typed, Kinds, Alone, Seats, NEW m \in Events, ~Concurrent, MenuEvent(m)
  PROVE  Seats'
  <1> DEFINE opening == m \notin menus
  <1>1. m \in Menus /\ opening \in BOOLEAN /\ ctx \in Contexts
    BY EventsAssumption DEF Kinds
  <1>2. sink' = [at |-> "probe", menu |-> m, opening |-> opening, seat |-> Seat(m, opening)]
        /\ ctx' = Observed(m, opening)
    BY Zenon DEF MenuEvent
  <1>3. flags' = flags /\ tick' = tick /\ seated' = seated /\ sink.at = "idle" /\ tick.at = "idle"
    BY DEF MenuEvent
  <1>4. /\ m = "SpaceshipHud" => /\ ("SpaceshipHud" \in menus') = opening
                                 /\ opening => seated
        /\ m # "SpaceshipHud" => ("SpaceshipHud" \in menus') = ("SpaceshipHud" \in menus)
    BY DEF MenuEvent
  <1> HIDE DEF opening
  <1>5. LET c == Observed(m, opening)
            seat == Seat(m, opening)
        IN  /\ c.hud = (IF m = "SpaceshipHud" THEN opening ELSE ctx.hud)
            /\ (ctx.piloting => ctx.hud) =>
                 /\ c.piloting => c.hud
                 /\ seat = "none" => c.piloting = ctx.piloting
                 /\ seat # "none" => c.piloting = (seat = "entered")
    BY <1>1, ObservedKeeps
  <1>6. sink'.at = "probe" /\ sink'.seat = Seat(m, opening)
    BY <1>2
  <1>7. QED
    BY <1>2, <1>3, <1>4, <1>5, <1>6 DEF Seats, Before

\* What the task does to the flags, the poll of the ship aside.
LEMMA TickFlags ==
  ASSUME Tick, ~TickPoll
  PROVE  flags' \in {flags, Exchange(flags), [flags EXCEPT !.phase = "landing"],
                     [flags EXCEPT !.phase = "takeoff"], [flags EXCEPT !.cap = "running"],
                     Reset(flags, "running"), Reset(flags, "off")}
  BY DEF Tick, TickPilot, TickPrecise, TickLanding, TickArm, TickTouch,
     TickCancel, TickCap, TickReport, TickFeels, TickLifts, TickStill, TickThump, Still

Polls == tick.pilot /\ poll # "running"

Lifts ==
  /\ Polls /\ ~tick.precise /\ ShipState(Sample).boundary = "takeoff"
  /\ flags.phase = "takeoff" /\ ~flags.boundary

LEMMA PollFlags ==
  ASSUME TickPoll, Typed
  PROVE  /\ flags'.pilot = flags.pilot /\ flags'.phase = flags.phase
         /\ flags'.sampled = (IF Polls THEN Sample ELSE flags.sampled)
         /\ flags'.boundary <=> flags.boundary \/ Lifts
  <1> DEFINE sampled == IF Polls THEN Sample ELSE flags.sampled
             boundary == flags.boundary \/ Lifts
             f == [flags EXCEPT !.sampled = sampled, !.boundary = boundary]
  <1>1. flags \in Flags
    BY DEF Typed
  <1>2. flags' = f
    <2>1. flags.sampled = flags["sampled"]
      OBVIOUS
    <2>2. QED
      BY <1>1 DEF TickPoll, Flags, Polls, Lifts
  <1>3. boundary \in BOOLEAN
    BY <1>1 DEF Flags
  <1> HIDE DEF sampled, boundary
  <1>4. f.pilot = flags.pilot /\ f.phase = flags.phase /\ f.sampled = sampled
        /\ f.boundary = boundary
    BY <1>1, <1>3 DEF Flags
  <1>5. QED
    BY <1>2, <1>4 DEF sampled, boundary

LEMMA TickGoes ==
  ASSUME Tick, Typed, Alone
  PROVE  /\ sink' = sink /\ ctx' = ctx /\ menus' = menus /\ seated' = seated /\ place' = place
         /\ flags'.pilot = flags.pilot
         /\ tick.at = "idle" => tick'.pilot = flags.pilot
         /\ tick.at # "idle" /\ tick'.at # "idle" => tick'.pilot = tick.pilot
  <1>1. flags \in Flags /\ tick \in Ticks
    BY DEF Typed
  <1>2. sink' = sink /\ ctx' = ctx /\ menus' = menus /\ seated' = seated /\ place' = place
    BY DEF Tick, TickPilot, TickPrecise, TickLanding, TickArm, TickPoll,
       TickTouch, TickCancel, TickCap, TickReport, TickFeels, TickLifts, TickStill, TickThump,
       TickStays, game
  <1>3. flags'.pilot = flags.pilot
    <2>1. CASE TickPoll
      BY <2>1, PollFlags
    <2>2. CASE ~TickPoll
      BY <1>1, <2>2, TickFlags DEF Flags, Exchange, Reset
    <2>3. QED
      BY <2>1, <2>2
  <1>4. tick.at = "idle" => tick'.pilot = flags.pilot
    <2>1. tick.at = "idle" => TickPilot
      BY DEF Alone, Tick, TickPilot, TickPrecise, TickLanding, TickArm, TickPoll, TickTouch,
         TickCancel, TickCap, TickReport, TickFeels, TickLifts, TickStill, TickThump
    <2>2. QED
      BY <1>1, <2>1 DEF TickPilot, Ticks
  <1>5. tick.at # "idle" /\ tick'.at # "idle" => tick'.pilot = tick.pilot
    <2>1. CASE TickPrecise
      <3> DEFINE precise == Precise(probe)
      <3>1. tick' = [tick EXCEPT !.at = "landing", !.precise = precise]
        BY <2>1 DEF TickPrecise
      <3> HIDE DEF precise
      <3>2. QED
        BY <1>1, <3>1 DEF Ticks
    <2>2. CASE ~TickPrecise
      <3>1. \/ TickPilot \/ TickReport
            \/ \E at, owes : TickAt(at, owes)
        BY <2>2 DEF Tick, TickLanding, TickArm, TickPoll, TickTouch, TickCancel, TickCap,
           TickFeels, TickLifts, TickStill, TickThump
      <3>2. QED
        BY <1>1, <3>1 DEF TickAt, TickPilot, TickReport, Ticks
    <2>3. QED
      BY <2>1, <2>2
  <1>6. QED
    BY <1>2, <1>3, <1>4, <1>5

\* A handler owes nothing before its turn, so the first step of a turn is TickPilot.
LEMMA TickSeats ==
  ASSUME Typed, Alone, Seats, Tick
  PROVE  Seats'
  BY TickGoes DEF Seats

LEMMA GameSeats ==
  ASSUME ~Unconfirmed, Typed, Seats, Fly \/ Dock \/ ChangeSeat
  PROVE  Seats'
  <1>1. flags' = flags /\ sink' = sink /\ tick' = tick /\ menus' = menus /\ ctx' = ctx
    BY DEF Fly, Dock, ChangeSeat, GameMoves
  <1>2. "SpaceshipHud" \in menus => seated' = seated
    BY DEF Fly, Dock, ChangeSeat, GameMoves
  <1>3. QED
    BY <1>1, <1>2 DEF Seats

LEMMA ElapseSeats ==
  ASSUME Typed, Seats, NEW c \in {"poll", "cap", "max", "tail", "post"}, Elapse(c)
  PROVE  Seats'
  <1>1. sink' = sink /\ tick' = tick /\ menus' = menus /\ ctx' = ctx /\ seated' = seated
    BY DEF Elapse, game
  <1>2. flags'.pilot = flags.pilot
    BY DEF Elapse, Typed, Flags
  <1>3. QED
    BY <1>1, <1>2 DEF Seats

LEMMA NextSeats ==
  ASSUME ~Concurrent, ~Unconfirmed, Inv, Kinds, Seats, [Next]_vars
  PROVE  Seats'
  <1>1. Typed /\ Alone
    BY DEF Inv
  <1>2. CASE UNCHANGED vars
    BY <1>2 DEF vars, game, Seats
  <1>3. CASE Next
    BY <1>1, <1>3, MenuEventSeats, SinkSeats, TickSeats, GameSeats, ElapseSeats DEF Next
  <1>4. QED
    BY <1>2, <1>3

LEMMA InitSeats == Init => Seats
  BY DEF Init, Seats, Before

-----------------------------------------------------------------------------
(* The takeoff: its boundary is the ship's own flight.                     *)

Flies ==
  /\ flags.boundary => flags.phase = "takeoff" \/ Clears
  /\ flags.phase = "takeoff" /\ place # "ground" => flew
  /\ flags.phase = "takeoff" /\ flags.boundary => flew

\* The pilot the task has read is seated, so the state it samples is the ship's.
LEMMA PilotSamples ==
  ASSUME Alone, Seats, tick.at # "idle", tick.pilot
  PROVE  seated /\ Sample = place
  BY DEF Alone, Seats, Before, Sample

LEMMA SinkFlies ==
  ASSUME Typed, Alone, Flies, Sink
  PROVE  Flies'
  <1>1. sink \in Sinks /\ flags \in Flags
    BY DEF Typed
  <1>2. place' = place /\ flew' = flew /\ tick' = tick /\ tick.owes = "none"
    BY <1>1, SinkGoes DEF Alone
  <1>3. CASE SinkStop
    <2>1. sink'.at = (IF flags.phase = "none" THEN "mask" ELSE "still") /\ sink.at = "stop"
      BY <1>1, <1>3 DEF SinkStop, SinkAt, Sinks
    <2>2. flags'.phase = "none" /\ flags'.boundary = flags.boundary
      BY <1>1, <1>3 DEF SinkStop, Exchange, Flags
    <2>3. QED
      BY <1>2, <2>1, <2>2 DEF Flies, Clears
  <1>4. CASE SinkStill
    <2>1. ~flags'.boundary /\ flags'.phase = flags.phase
      BY <1>1, <1>4 DEF SinkStill, Still, Reset, Flags
    <2>2. QED
      BY <1>2, <2>1 DEF Flies
  <1>5. CASE ~SinkStop /\ ~SinkStill
    <2>1. sink.at # "still"
      BY <1>5 DEF Sink, SinkProbe, SinkPhase, SinkMask, SinkBlocked, SinkSeat, SinkPilot, SinkTell
    <2>2. flags'.phase = flags.phase /\ flags'.boundary = flags.boundary
      <3>1. CASE SinkSeat
        <4> DEFINE entered == sink.seat = "entered"
                   f == [flags EXCEPT !.pilot = entered, !.sampled = "none"]
        <4>1. flags' \in {f, flags}
          BY <3>1, Zenon DEF SinkSeat
        <4> HIDE DEF entered
        <4>2. f.phase = flags.phase /\ f.boundary = flags.boundary
          BY <1>1 DEF Flags
        <4> HIDE DEF f
        <4>3. QED
          BY <4>1, <4>2
      <3>2. CASE ~SinkSeat
        BY <1>1, <1>5, <3>2 DEF Sink, SinkProbe, SinkPhase, SinkMask, SinkBlocked, SinkPilot,
           SinkTell, Flags
      <3>3. QED
        BY <3>1, <3>2
    <2>3. QED
      BY <1>2, <2>1, <2>2 DEF Flies, Clears
  <1>6. QED
    BY <1>3, <1>4, <1>5

\* The boundary of a takeoff is seen from the air, where the ship has flown.
LEMMA PollFlies ==
  ASSUME Typed, Kinds, Alone, Seats, Flies, TickPoll
  PROVE  Flies'
  <1>1. tick.at = "poll" /\ tick.owes = "none" /\ flew' = flew /\ sink' = sink /\ place' = place
    BY DEF TickPoll, TickStays, game
  <1>2. /\ flags'.phase = flags.phase
        /\ flags'.boundary <=> flags.boundary \/ Lifts
    BY PollFlags
  <1>3. ASSUME Lifts PROVE flags.phase = "takeoff" /\ flew
    <2>1. seated /\ Sample = place
      BY <1>1, <1>3, PilotSamples DEF Lifts, Polls
    <2>2. Sample \in Places /\ probe \in Probes
      BY <2>1 DEF Typed, Kinds
    <2>3. ShipState(Sample).boundary = "takeoff" => Sample = "air"
      BY <2>2, ShipStateKeeps
    <2>4. place # "ground" /\ flags.phase = "takeoff"
      BY <1>3, <2>1, <2>3 DEF Lifts
    <2>5. QED
      BY <2>4 DEF Flies
  <1>4. QED
    BY <1>1, <1>2, <1>3 DEF Flies, Clears

LEMMA TickFlies ==
  ASSUME Typed, Kinds, Alone, Follows, Seats, Flies, Tick, ~Concurrent
  PROVE  Flies'
  <1>1. flags \in Flags /\ tick \in Ticks
    BY DEF Typed
  <1>2. place' = place /\ sink' = sink
    BY TickGoes
  <1>3. sink.at = "idle"
    BY DEF Alone, Tick, TickPilot, TickPrecise, TickLanding, TickArm, TickPoll,
       TickTouch, TickCancel, TickCap, TickReport, TickFeels, TickLifts, TickStill, TickThump
  <1>4. CASE TickPoll
    BY <1>4, PollFlies
  <1>5. CASE TickArm
    <2>1. tick.owes = "none" /\ flew' = IF Arms THEN place # "ground" ELSE flew
      BY <1>5, Zenon DEF TickArm
    <2>2. /\ Arms => flags'.phase = "takeoff" /\ flags'.boundary = flags.boundary
                     /\ flags.phase = "none"
          /\ ~Arms => flags' = flags
      BY <1>1, <1>5 DEF TickArm, Flags, Arms
    <2>3. tick'.owes = IF Arms THEN "light" ELSE "none"
      BY <1>1, <1>5 DEF TickArm, TickAt, Ticks
    <2>4. Arms => ~flags.boundary
      BY <1>3, <2>1, <2>2 DEF Flies, Clears
    <2>5. CASE Arms
      BY <1>2, <2>1, <2>2, <2>4, <2>5 DEF Flies
    <2>6. CASE ~Arms
      BY <1>2, <2>1, <2>2, <2>3, <2>6 DEF Flies, Clears
    <2>7. QED
      BY <2>5, <2>6
  <1>6. CASE TickPilot \/ TickPrecise \/ TickReport
    <2>1. flags' = flags /\ flew' = flew
      BY <1>6 DEF TickPilot, TickPrecise, TickReport
    <2>2. tick'.owes = tick.owes
      <3>1. CASE TickPrecise
        <4> DEFINE precise == Precise(probe)
        <4>1. tick' = [tick EXCEPT !.at = "landing", !.precise = precise]
          BY <3>1 DEF TickPrecise
        <4> HIDE DEF precise
        <4>2. QED
          BY <1>1, <4>1 DEF Ticks
      <3>2. CASE TickPilot \/ TickReport
        BY <1>1, <3>2 DEF TickPilot, TickReport, Ticks
      <3>3. QED
        BY <1>6, <3>1, <3>2
    <2>3. QED
      BY <1>2, <2>1, <2>2 DEF Flies, Clears
  <1>7. CASE TickLanding \/ TickTouch \/ TickCancel \/ TickCap
    <2>1. tick.owes = "none" /\ flew' = flew
      BY <1>7 DEF TickLanding, TickTouch, TickCancel, TickCap
    <2>2. \/ flags' = flags /\ tick'.owes = "none"
          \/ flags' = Exchange(flags) /\ tick'.owes \in {"still", "landed"}
          \/ flags' = Exchange(flags) /\ flags.phase = "none"
          \/ flags.phase = "none" /\ flags' = [flags EXCEPT !.phase = "landing"]
      BY <1>1, <1>7 DEF TickLanding, TickTouch, TickCancel, TickCap, TickAt, Ticks
    <2>3. /\ flags' = Exchange(flags) => flags'.phase = "none" /\ flags'.boundary = flags.boundary
          /\ flags' = [flags EXCEPT !.phase = "landing"] =>
               flags'.phase = "landing" /\ flags'.boundary = flags.boundary
      BY <1>1 DEF Exchange, Flags
    <2>4. QED
      BY <1>2, <1>3, <2>1, <2>2, <2>3 DEF Flies, Clears
  <1>8. CASE TickFeels \/ TickLifts \/ TickStill \/ TickThump
    <2>1. flew' = flew
      BY <1>8 DEF TickFeels, TickLifts, TickStill, TickThump
    <2>2. flags'.phase = flags.phase /\ (flags'.boundary => flags.boundary)
      BY <1>1, <1>8 DEF TickFeels, TickLifts, TickStill, TickThump, Still, Reset, Flags
    <2>3. tick.owes \in {"still", "landed"} => ~flags'.boundary
      BY <1>1, <1>8 DEF TickFeels, TickLifts, TickStill, TickThump, Still, Reset, Flags
    <2>4. QED
      BY <1>2, <1>3, <2>1, <2>2, <2>3 DEF Flies, Clears
  <1>9. QED
    BY <1>4, <1>5, <1>6, <1>7, <1>8 DEF Tick

LEMMA GameFlies ==
  ASSUME Typed, Flies, Fly \/ Dock \/ ChangeSeat
  PROVE  Flies'
  <1>1. flags' = flags /\ sink' = sink /\ tick' = tick
    BY DEF Fly, Dock, ChangeSeat, GameMoves
  <1>2. CASE Fly
    <2>1. place' \in {"air", "ground"} /\ flew' = (flew \/ place' = "air")
      BY <1>2, Zenon DEF Fly
    <2>2. QED
      BY <1>1, <2>1 DEF Flies, Clears
  <1>3. CASE Dock \/ ChangeSeat
    <2>1. flew' = flew /\ (place' = place \/ place # "ground")
      BY <1>3 DEF Dock, ChangeSeat
    <2>2. QED
      BY <1>1, <2>1 DEF Flies, Clears
  <1>4. QED
    BY <1>2, <1>3

LEMMA NextFlies ==
  ASSUME ~Concurrent, Inv, Kinds, Seats, Flies, [Next]_vars
  PROVE  Flies'
  <1>1. Typed /\ Alone /\ Follows
    BY DEF Inv
  <1>2. CASE UNCHANGED vars
    BY <1>2 DEF vars, game, Flies, Clears
  <1>3. ASSUME NEW m \in Events, MenuEvent(m) PROVE Flies'
    <2>1. /\ flags' = flags /\ tick' = tick /\ place' = place /\ flew' = flew
          /\ sink.at = "idle"
      BY <1>3 DEF MenuEvent
    <2>2. QED
      BY <2>1 DEF Flies, Clears
  <1>4. ASSUME NEW c \in {"poll", "cap", "max", "tail", "post"}, Elapse(c) PROVE Flies'
    <2>1. sink' = sink /\ tick' = tick /\ place' = place /\ flew' = flew
      BY <1>4 DEF Elapse, game
    <2>2. flags'.phase = flags.phase /\ flags'.boundary = flags.boundary
      BY <1>1, <1>4 DEF Elapse, Typed, Flags
    <2>3. QED
      BY <2>1, <2>2 DEF Flies, Clears
  <1>5. CASE Next
    BY <1>1, <1>3, <1>4, <1>5, SinkFlies, TickFlies, GameFlies DEF Next
  <1>6. QED
    BY <1>2, <1>5

LEMMA InitFlies == Init => Flies
  BY DEF Init, Flies

\* The body and the triggers of a takeoff wait for the ship's own flight: when the
\* HUD of a ship is open only for its pilot and an event does not overlap the task,
\* for any menus, however the ship moves and however seldom it is sampled.
THEOREM TakeoffsFly == ~Concurrent /\ ~Unconfirmed => (Spec => []TakeoffLeavesGround)
  <1> SUFFICES ASSUME ~Concurrent, ~Unconfirmed PROVE Spec => []TakeoffLeavesGround
    OBVIOUS
  <1> DEFINE I == Inv /\ Kinds /\ Seats /\ Flies
  <1>1. Init => I
    BY InitInv, InitTypes, TypesMeet, InitSeats, InitFlies
  <1>2. I /\ [Next]_vars => I'
    BY NextInv, NextKinds, NextSeats, NextFlies
  <1>3. I => TakeoffLeavesGround
    BY DEF Inv, Owned, Flies, TakeoffLeavesGround
  <1> HIDE DEF I
  <1>4. QED
    BY <1>1, <1>2, <1>3, PTL DEF Spec

-----------------------------------------------------------------------------
(* The touchdown: one that was felt leaves nothing a second one is made of. *)

\* What the probe knows of the seat and of the ship, and what a turn of the task
\* keeps of it.
Probed ==
  /\ sink.at = "pilot" => flags.sampled = "none" /\ flags.pilot = (sink.seat = "entered")
  /\ sink.at # "pilot" => probe.pilot = flags.pilot
  /\ probe.prev # "none" => probe.prev = probe.last
  /\ probe.seq.on => ~probe.blocked
  /\ tick.precise /\ tick.at \in {"landing", "arm", "poll", "touch"} => Precise(probe)
  /\ tick.at = "idle" => ~tick.precise

\* A touchdown is felt or about to be.
Touched == thump >= 1 \/ tick.owes \in {"landed", "thump"}

\* The ship then rests on the ground and no landing awaits it.  A pilot's probe
\* that last saw it in the air is one whose new pilot has not been sampled yet.
Once ==
  /\ thump <= 1
  /\ tick.owes \in {"landed", "thump"} => thump = 0
  /\ Touched => place = "ground" /\ (probe.seq.on => probe.seq.touchdown)
  /\ Touched /\ probe.pilot /\ probe.last = "air" =>
       sink.at \in {"idle", "tell"} /\ flags.sampled = "none" /\ ~probe.blocked /\ flags.pilot

LEMMA MenuEventOnce ==
  ASSUME Prompt, ~Concurrent, Probed, Once, NEW m \in Events, MenuEvent(m)
  PROVE  Probed' /\ Once'
  <1>1. /\ flags' = flags /\ tick' = tick /\ place' = place /\ probe' = probe /\ thump' = thump
        /\ sink.at = "idle" /\ tick.at = "idle"
        /\ flags.pilot => flags.sampled # "none"
    BY DEF MenuEvent
  <1>2. sink'.at = "probe"
    BY Zenon DEF MenuEvent
  <1>3. Probed'
    BY <1>1, <1>2 DEF Probed, Precise
  <1>4. Once'
    BY <1>1, <1>2 DEF Once, Touched
  <1>5. QED
    BY <1>3, <1>4

\* A step of an event that leaves the probe, or only goes on with its landing.
LEMMA SinkContinues ==
  ASSUME Typed, Kinds, Alone, Probed, Once, Sink, sink.at \notin {"seat", "pilot"},
         Continues(probe, probe'), flags'.pilot = flags.pilot, flags'.sampled = flags.sampled
  PROVE  Probed' /\ Once'
  <1>1. sink \in Sinks /\ flags \in Flags
    BY DEF Typed
  <1>2. /\ tick' = tick /\ place' = place /\ thump' = thump /\ tick.at = "idle"
        /\ sink.at # "idle" /\ sink'.at # "pilot" /\ (sink.at = "tell" => sink'.at = "idle")
    BY <1>1, SinkGoes DEF Alone, Before, Sinks
  <1>3. tick.owes = "none"
    BY <1>2 DEF Alone
  <1>4. Probed'
    BY <1>2 DEF Probed, Continues, Alike
  <1>5. Touched' = Touched
    BY <1>2, <1>3 DEF Touched
  <1>6. sink.at = "tell" => probe' = probe
    BY DEF Sink, SinkProbe, SinkPhase, SinkStop, SinkStill, SinkMask, SinkBlocked, SinkSeat,
       SinkPilot, SinkTell
  <1>7. ~Touched \/ sink.at = "tell" \/ ~(probe.pilot /\ probe.last = "air")
    BY <1>2 DEF Once
  <1>8. Once'
    BY <1>2, <1>3, <1>5, <1>6, <1>7 DEF Once, Probed, Continues, Alike
  <1>9. QED
    BY <1>4, <1>8

LEMMA SinkOnce ==
  ASSUME Typed, Kinds, Alone, Seats, Probed, Once, Sink
  PROVE  Probed' /\ Once'
  <1>1. sink \in Sinks /\ flags \in Flags /\ probe \in Probes
    BY DEF Typed, Kinds
  <1>2. /\ tick' = tick /\ place' = place /\ thump' = thump /\ tick.at = "idle"
        /\ tick.owes = "none" /\ sink'.seat = sink.seat
    BY <1>1, SinkGoes DEF Alone
  <1>3. CASE SinkProbe
    <2>1. sink.menu \in Menus /\ sink.opening \in BOOLEAN
      BY <1>1 DEF Sinks
    <2>2. probe' = ObserveMenu(probe, sink.menu, sink.opening) /\ flags' = flags
          /\ sink.at = "probe"
      BY <1>3 DEF SinkProbe
    <2>3. QED
      BY <1>1, <2>1, <2>2, ObserveContinues, SinkContinues
  <1>4. CASE SinkPhase \/ SinkStop \/ SinkStill \/ SinkMask \/ SinkTell
    <2>1. probe' = probe /\ sink.at \notin {"seat", "pilot"}
      BY <1>4 DEF SinkPhase, SinkStop, SinkStill, SinkMask, SinkTell
    <2>2. flags'.pilot = flags.pilot /\ flags'.sampled = flags.sampled
      BY <1>1, <2>1, SinkPilots DEF SinkSeat
    <2>3. QED
      BY <1>1, <2>1, <2>2, ContinuesSame, SinkContinues
  <1>5. CASE SinkBlocked
    <2>1. probe' = SetMenuBlocked(probe, flags.mask) /\ flags' = flags /\ sink.at = "blocked"
      BY <1>5 DEF SinkBlocked
    <2>2. flags.mask \in BOOLEAN
      BY <1>1 DEF Flags
    <2>3. /\ probe'.pilot = probe.pilot /\ probe'.blocked = flags.mask
          /\ probe'.last = probe.last
          /\ \/ probe'.prev = probe.prev /\ probe'.seq = probe.seq /\ (flags.mask => probe.blocked)
             \/ probe'.prev = "none" /\ ~probe'.seq.on
      BY <1>1, <2>1, <2>2, BlockedSets
    <2>4. sink'.at = "seat"
      BY <1>1, <1>5 DEF SinkBlocked, SinkAt, Sinks
    <2>5. Probed'
      BY <1>2, <2>1, <2>3, <2>4 DEF Probed
    <2>6. Once'
      BY <1>2, <2>1, <2>3, <2>4 DEF Once, Touched
    <2>7. QED
      BY <2>5, <2>6
  <1>6. CASE SinkSeat
    <2>1. sink.at = "seat" /\ probe' = probe
      BY <1>6 DEF SinkSeat
    <2>2. sink'.at = IF sink.seat # "none" THEN "pilot" ELSE "idle"
      BY <1>1, <2>1, SinkGoes
    <2>3. Probed'
      BY <1>1, <1>2, <1>6, <2>1, <2>2, SinkPilots DEF Probed
    <2>4. Once'
      BY <1>2, <2>1, <2>2 DEF Once, Touched
    <2>5. QED
      BY <2>3, <2>4
  <1>7. CASE SinkPilot
    <2> DEFINE entered == sink.seat = "entered"
    <2>1. sink.at = "pilot" /\ flags' = flags /\ probe' = SetPilotActive(probe, entered)
      BY <1>7, Zenon DEF SinkPilot
    <2>2. entered \in BOOLEAN /\ flags.pilot = entered /\ flags.sampled = "none"
      BY <2>1 DEF Probed
    <2> HIDE DEF entered
    <2>3. /\ probe'.pilot = entered /\ probe'.blocked = probe.blocked
          /\ \/ probe' = probe
             \/ probe'.prev = "none" /\ probe'.last = probe.last /\ probe'.seq = probe.seq
                /\ probe.seq.on
             \/ probe'.prev = "none" /\ probe'.last = "none" /\ ~probe'.seq.on
      BY <1>1, <2>1, <2>2, PilotSets
    <2>4. sink'.at = "tell"
      BY <1>1, <2>1, SinkGoes
    <2>5. Probed'
      BY <1>2, <2>1, <2>2, <2>3, <2>4 DEF Probed
    <2>6. Once'
      BY <1>2, <2>1, <2>2, <2>3, <2>4 DEF Once, Touched, Probed
    <2>7. QED
      BY <2>5, <2>6
  <1>8. QED
    BY <1>3, <1>4, <1>5, <1>6, <1>7 DEF Sink

\* A state of the ship, seen by its pilot or from the ground after a touchdown.
LEMMA StateProbed ==
  ASSUME Typed, Kinds, Probed, probe' = ShipState(place).probe, flags'.pilot = flags.pilot,
         sink.at # "pilot"
  PROVE  /\ probe'.pilot = flags'.pilot
         /\ probe'.prev # "none" => probe'.prev = probe'.last
         /\ probe'.seq.on => ~probe'.blocked
  <1>1. probe \in Probes /\ place \in Places
    BY DEF Typed, Kinds
  <1>2. QED
    BY <1>1, ShipStateKeeps DEF Probed

LEMMA PollOnce ==
  ASSUME Typed, Kinds, Alone, Seats, Probed, Once, TickPoll
  PROVE  Probed' /\ Once'
  <1>1. probe \in Probes /\ place \in Places /\ tick \in Ticks
    BY DEF Typed, Kinds
  <1>2. /\ tick.at = "poll" /\ tick.owes = "none" /\ thump' = thump /\ place' = place
        /\ sink' = sink /\ sink.at = "idle"
    BY DEF TickPoll, TickStays, game, Alone
  <1>3. /\ flags'.pilot = flags.pilot
        /\ flags'.sampled = (IF Polls THEN Sample ELSE flags.sampled)
    BY PollFlags
  <1>4. /\ tick'.at = "touch" /\ tick'.owes \in {"none", "body"} /\ tick'.precise = tick.precise
    BY <1>1 DEF TickPoll, TickAt, Ticks
  <1>5. probe' = IF Polls /\ ~tick.precise THEN ShipState(Sample).probe ELSE probe
    BY DEF TickPoll, Polls
  <1>6. Touched' = Touched
    BY <1>2, <1>4 DEF Touched
  <1>7. tick.precise => Precise(probe) /\ ~Touched
    BY <1>2 DEF Probed, Once, Precise
  <1>8. CASE Polls /\ ~tick.precise
    <2>1. Sample = place
      BY <1>2, <1>8, PilotSamples DEF Polls
    <2>2. probe' = ShipState(place).probe
      BY <1>5, <1>8, <2>1
    <2>3. Probed'
      BY <1>2, <1>3, <1>4, <1>8, <2>2, StateProbed DEF Probed
    <2>4. /\ probe'.pilot = probe.pilot
          /\ probe'.seq.on => probe.seq.on /\ (probe.seq.touchdown => probe'.seq.touchdown)
          /\ probe'.last = probe.last \/ probe'.last = place
          /\ ~probe.blocked /\ probe.pilot => probe'.last = place
      BY <1>1, <2>2, ShipStateKeeps
    <2>5. Touched => ~(probe'.pilot /\ probe'.last = "air")
      BY <2>4 DEF Once
    <2>6. Once'
      BY <1>2, <1>4, <1>6, <2>4, <2>5 DEF Once
    <2>7. QED
      BY <2>3, <2>6
  <1>9. CASE ~(Polls /\ ~tick.precise)
    <2>1. probe' = probe
      BY <1>5, <1>9
    <2>2. Probed'
      BY <1>2, <1>3, <1>4, <2>1 DEF Probed, Precise
    <2>3. Touched => flags'.sampled = flags.sampled
      BY <1>3, <1>7, <1>9
    <2>4. Once'
      BY <1>2, <1>3, <1>4, <1>6, <2>1, <2>3 DEF Once
    <2>5. QED
      BY <2>2, <2>4
  <1>10. QED
    BY <1>8, <1>9

\* A touchdown is reported of a ship on the ground whose landing was proven, so none
\* was felt before.
LEMMA TouchOnce ==
  ASSUME Typed, Kinds, Alone, Probed, Once, TickTouch
  PROVE  Probed' /\ Once'
  <1> DEFINE sees == /\ seated
                     /\ \/ tick.precise
                        \/ ~tick.precise /\ ~tick.pilot /\ probe.seq.on /\ poll # "running"
             lands == tick.precise /\ sees /\ ShipState(place).boundary = "touchdown"
  <1>1. probe \in Probes /\ place \in Places /\ tick \in Ticks /\ flags \in Flags
    BY DEF Typed, Kinds
  <1>2. /\ tick.at = "touch" /\ tick.owes = "none" /\ thump' = thump /\ place' = place
        /\ sink' = sink /\ sink.at = "idle"
    BY DEF TickTouch, TickStays, game, Alone
  <1>3. flags'.pilot = flags.pilot /\ flags'.sampled = flags.sampled
    BY <1>1 DEF TickTouch, Exchange, Flags
  <1>4. /\ tick'.at = "cancel" /\ tick'.precise = tick.precise
        /\ lands => tick'.owes \in {"landed", "thump"}
        /\ ~lands => tick'.owes = "none"
    BY <1>1 DEF TickTouch, TickAt, Ticks
  <1>5. probe' = IF sees THEN ShipState(place).probe ELSE probe
    BY DEF TickTouch
  <1>6. /\ lands => sees /\ tick.precise /\ ShipState(place).boundary = "touchdown"
        /\ lands \in BOOLEAN
    OBVIOUS
  <1> HIDE DEF lands, sees
  <1>7. tick.precise => ~Touched
    BY <1>2 DEF Probed, Once, Precise
  <1>8. Touched' <=> Touched \/ lands
    BY <1>2, <1>4 DEF Touched
  <1>9. CASE sees
    <2>1. probe' = ShipState(place).probe
      BY <1>5, <1>9
    <2>2. Probed'
      BY <1>2, <1>3, <1>4, <2>1, StateProbed DEF Probed
    <2>3. /\ probe'.pilot = probe.pilot
          /\ probe'.seq.on => probe.seq.on /\ (probe.seq.touchdown => probe'.seq.touchdown)
          /\ probe'.last = probe.last \/ probe'.last = place
          /\ probe'.blocked = probe.blocked
          /\ ~probe.blocked /\ probe.pilot => probe'.last = place
          /\ lands => /\ place = "ground" /\ ~probe.blocked
                      /\ probe'.seq.on => probe'.seq.touchdown
      BY <1>1, <1>6, <2>1, ShipStateKeeps
    <2>4. CASE lands
      <3>1. ~Touched /\ thump = 0 /\ ~(probe'.pilot /\ probe'.last = "air")
        BY <1>2, <1>6, <1>7, <2>3, <2>4 DEF Touched, Once, Kinds
      <3>2. QED
        BY <1>2, <2>2, <2>3, <2>4, <3>1 DEF Once
    <2>5. CASE ~lands
      <3>1. Once'
        BY <1>2, <1>3, <1>4, <1>8, <2>3, <2>5 DEF Once
      <3>2. QED
        BY <2>2, <3>1
    <2>6. QED
      BY <2>4, <2>5
  <1>10. CASE ~sees
    <2>1. probe' = probe /\ ~lands
      BY <1>5, <1>6, <1>10
    <2>2. Probed'
      BY <1>2, <1>3, <1>4, <2>1 DEF Probed
    <2>3. Once'
      BY <1>2, <1>3, <1>4, <1>8, <2>1 DEF Once
    <2>4. QED
      BY <2>2, <2>3
  <1>11. QED
    BY <1>9, <1>10

\* The other steps of the task leave the probe or drop its landing.
LEMMA TickOnce ==
  ASSUME ~Concurrent, Typed, Kinds, Alone, Seats, Probed, Once, Tick
  PROVE  Probed' /\ Once'
  <1>1. probe \in Probes /\ tick \in Ticks /\ flags \in Flags /\ thump \in Nat
    BY DEF Typed, Kinds
  <1>2. CASE TickPoll
    BY <1>2, PollOnce
  <1>3. CASE TickTouch
    BY <1>3, TouchOnce
  <1>4. CASE ~TickPoll /\ ~TickTouch
    <2>1. place' = place /\ sink' = sink /\ flags'.pilot = flags.pilot
      BY TickGoes
    <2>2. sink.at = "idle"
      BY DEF Alone, Tick, TickPilot, TickPrecise, TickLanding, TickArm, TickPoll,
         TickTouch, TickCancel, TickCap, TickReport, TickFeels, TickLifts, TickStill, TickThump
    <2>3. flags'.sampled = flags.sampled
      BY <1>1, <1>4, TickFlags DEF Flags, Exchange, Reset
    <2>4. probe' \in {probe, Expire(probe)} /\ (~TickReport => probe' = probe)
      BY <1>4 DEF Tick, TickPilot, TickPrecise, TickLanding, TickArm,
         TickCancel, TickCap, TickReport, TickFeels, TickLifts, TickStill, TickThump
    <2>5. Alike(probe, probe') /\ (probe'.seq.on => probe' = probe)
      BY <1>1, <2>4, ExpireKeeps DEF Alike
    <2>6. Probed'
      <3>1. CASE TickPrecise
        <4> DEFINE precise == Precise(probe)
        <4>1. tick' = [tick EXCEPT !.at = "landing", !.precise = precise] /\ probe' = probe
          BY <3>1 DEF TickPrecise
        <4>2. precise \in BOOLEAN
          BY DEF Precise
        <4> HIDE DEF precise
        <4>3. tick'.at = "landing" /\ tick'.precise = precise
          BY <1>1, <4>1 DEF Ticks
        <4>4. QED
          BY <2>1, <2>2, <2>3, <4>1, <4>3 DEF Probed, precise, Precise
      <3>2. CASE TickReport
        <4>1. tick'.at = "idle" /\ ~tick'.precise
          BY <1>1, <3>2 DEF TickReport, Ticks
        <4>2. QED
          BY <2>1, <2>2, <2>3, <2>5, <4>1 DEF Probed, Alike
      <3>3. CASE TickPilot
        <4>1. tick'.at = "precise" /\ probe' = probe
          BY <1>1, <3>3 DEF TickPilot, Ticks
        <4>2. QED
          BY <2>1, <2>2, <2>3, <4>1 DEF Probed
      <3>4. CASE ~TickPrecise /\ ~TickReport /\ ~TickPilot
        <4>1. /\ tick'.precise = tick.precise /\ tick'.at # "idle" /\ tick.at # "idle"
              /\ \/ tick'.at = tick.at
                 \/ tick.at = "landing" /\ tick'.at = "arm"
                 \/ tick.at = "arm" /\ tick'.at = "poll"
                 \/ tick'.at \in {"cap", "report"}
          BY <1>1, <1>4, <3>4 DEF Tick, TickLanding, TickArm, TickCancel, TickCap, TickFeels,
             TickLifts, TickStill, TickThump, TickAt, Ticks, Alone
        <4>2. QED
          BY <2>1, <2>2, <2>3, <2>4, <3>4, <4>1 DEF Probed, Precise
      <3>5. QED
        BY <3>1, <3>2, <3>3, <3>4
    <2>7. /\ thump' <= 1
          /\ tick'.owes \in {"landed", "thump"} => thump' = 0
          /\ Touched' => Touched
      <3>1. CASE TickThump
        <4>1. thump' = thump + 1 /\ tick.owes = "thump" /\ tick'.owes = "none"
          BY <1>1, <3>1 DEF TickThump, TickAt, Ticks
        <4>2. QED
          BY <4>1 DEF Once, Touched
      <3>2. CASE ~TickThump
        <4>1. thump' = thump
          BY <1>4, <3>2 DEF Tick, TickPilot, TickPrecise, TickLanding, TickArm,
             TickCancel, TickCap, TickReport, TickFeels, TickLifts, TickStill
        <4>2. tick'.owes \in {"landed", "thump"} => tick.owes \in {"landed", "thump"}
          <5>1. CASE TickPrecise
            <6> DEFINE precise == Precise(probe)
            <6>1. tick' = [tick EXCEPT !.at = "landing", !.precise = precise]
              BY <5>1 DEF TickPrecise
            <6> HIDE DEF precise
            <6>2. QED
              BY <1>1, <6>1 DEF Ticks
          <5>2. CASE ~TickPrecise
            BY <1>1, <1>4, <3>2, <5>2 DEF Tick, TickPilot, TickLanding, TickArm,
               TickCancel, TickCap, TickReport, TickFeels, TickLifts, TickStill, TickAt, Ticks
          <5>3. QED
            BY <5>1, <5>2
        <4>3. QED
          BY <4>1, <4>2 DEF Once, Touched
      <3>3. QED
        BY <3>1, <3>2
    <2>8. Once'
      BY <2>1, <2>2, <2>3, <2>5, <2>7 DEF Once, Alike
    <2>9. QED
      BY <2>6, <2>8
  <1>5. QED
    BY <1>2, <1>3, <1>4

\* A ship that leaves the ground ends what was felt of its touchdown.
LEMMA GameOnce ==
  ASSUME ~Concurrent, Typed, Kinds, Alone, Probed, Once, Fly \/ Dock \/ ChangeSeat
  PROVE  Probed' /\ Once'
  <1>1. flags' = flags /\ sink' = sink /\ tick' = tick /\ probe' = probe
        /\ tick.at = "idle" /\ tick.owes = "none"
    BY DEF Fly, Dock, ChangeSeat, GameMoves, Alone
  <1>2. Probed'
    BY <1>1 DEF Probed, Precise
  <1>3. CASE Fly
    <2>1. thump' = IF place' = "air" THEN 0 ELSE thump
      BY <1>3, Zenon DEF Fly
    <2>2. place' = IF place = "air" THEN "ground" ELSE "air"
      BY <1>3, Zenon DEF Fly
    <2>3. Touched => place = "ground"
      BY DEF Once
    <2>4. ~Touched'
      BY <1>1, <2>1, <2>2, <2>3 DEF Touched
    <2>5. thump' <= 1
      BY <2>1 DEF Once
    <2>6. QED
      BY <1>1, <1>2, <2>4, <2>5 DEF Once
  <1>4. CASE Dock \/ ChangeSeat
    <2>1. thump' = thump /\ (place' = place \/ place = "air")
      BY <1>4 DEF Dock, ChangeSeat
    <2>2. Touched' = Touched
      BY <1>1, <2>1 DEF Touched
    <2>3. Once'
      BY <1>1, <2>1, <2>2 DEF Once
    <2>4. QED
      BY <1>2, <2>3
  <1>5. QED
    BY <1>3, <1>4

LEMMA ElapseOnce ==
  ASSUME ~Concurrent, Typed, Kinds, Alone, Probed, Once,
         NEW c \in {"poll", "cap", "max", "tail", "post"}, Elapse(c)
  PROVE  Probed' /\ Once'
  <1>1. /\ sink' = sink /\ tick' = tick /\ place' = place /\ thump' = thump
        /\ tick.at = "idle" /\ sink.at = "idle"
    BY DEF Elapse, game
  <1>2. flags'.pilot = flags.pilot /\ flags'.sampled = flags.sampled
    BY DEF Elapse, Typed, Flags
  <1>3. /\ probe'.pilot = probe.pilot /\ probe'.blocked = probe.blocked
        /\ probe'.prev = probe.prev /\ probe'.last = probe.last
        /\ probe'.seq.on = probe.seq.on /\ probe'.seq.touchdown = probe.seq.touchdown
    <2> DEFINE s == [probe.seq EXCEPT ![c] = "due"]
    <2>1. CASE c \in {"max", "tail", "post"}
      <3>1. probe' = [probe EXCEPT !.seq = s]
        BY <2>1 DEF Elapse
      <3>2. s \in Sequences /\ s.on = probe.seq.on /\ s.touchdown = probe.seq.touchdown
        BY <2>1 DEF Kinds, Probes, Sequences, Times
      <3> HIDE DEF s
      <3>3. QED
        BY <3>1, <3>2, Resequenced DEF Kinds, Alike
    <2>2. CASE c \notin {"max", "tail", "post"}
      BY <2>2 DEF Elapse
    <2>3. QED
      BY <2>1, <2>2
  <1>4. Probed'
    BY <1>1, <1>2, <1>3 DEF Probed
  <1>5. Once'
    BY <1>1, <1>2, <1>3 DEF Once, Touched
  <1>6. QED
    BY <1>4, <1>5

LEMMA NextOnce ==
  ASSUME Prompt, ~Concurrent, Inv, Kinds, Seats, Probed, Once, [Next]_vars
  PROVE  Probed' /\ Once'
  <1>1. Typed /\ Alone
    BY DEF Inv
  <1>2. CASE UNCHANGED vars
    BY <1>2 DEF vars, game, Probed, Once, Touched, Precise
  <1>3. CASE Next
    BY <1>1, <1>3, MenuEventOnce, SinkOnce, TickOnce, GameOnce, ElapseOnce DEF Next
  <1>4. QED
    BY <1>2, <1>3

LEMMA InitOnce == Init => Probed /\ Once
  BY NoSequenceTyped DEF Init, Probed, Once, Touched

\* A touchdown is felt once until the ship has flown again: when a pilot is sampled
\* before the next menu event, the HUD of a ship is open only for its pilot and an
\* event does not overlap the task, for any menus and any moves of the ship.
THEOREM TouchdownsOnce ==
  Prompt /\ ~Concurrent /\ ~Unconfirmed => (Spec => []OneThump)
  <1> SUFFICES ASSUME Prompt, ~Concurrent, ~Unconfirmed PROVE Spec => []OneThump
    OBVIOUS
  <1> DEFINE I == Inv /\ Kinds /\ Seats /\ Probed /\ Once
  <1>1. Init => I
    BY InitInv, InitTypes, TypesMeet, InitSeats, InitOnce
  <1>2. I /\ [Next]_vars => I'
    BY NextInv, NextKinds, NextSeats, NextOnce
  <1>3. I => OneThump
    BY DEF Once, OneThump
  <1> HIDE DEF I
  <1>4. QED
    BY <1>1, <1>2, <1>3, PTL DEF Spec
=============================================================================
