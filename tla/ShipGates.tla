----------------------------- MODULE ShipGates -----------------------------
(***************************************************************************)
(* The ship's fire gates.  A gate turns a Wwise post into a shot only when *)
(* the player is in the pilot's seat, no menu is open and the post agrees  *)
(* with a real sample of R2: it follows a press, it continues the stream   *)
(* of one weapon object while R2 is held, or it comes first and a press    *)
(* within Forward releases it.  The gates of the five weapon families are  *)
(* copies of each other; ballistic posts may also match after the release. *)
(*                                                                         *)
(* Three threads share the atomics of a gate: the game's thread (seat and  *)
(* menus), the controller worker (R2, only when its bucket changes) and    *)
(* the Wwise callback.  Each load and each store is a step; a spin lock    *)
(* guards only the post that came first.  What a shot does is HapticLeases *)
(* and the trigger effects.                                                *)
(***************************************************************************)
EXTENDS Naturals, Sequences

CONSTANTS
  Families,   \* weapon families in use
  Objects,    \* Wwise objects of the ship's weapons
  Duplicate,  \* kDuplicateWindow
  Skew,       \* kMaxPostEventSkew
  Before,     \* kMaxPreEventAge
  Forward,    \* kFirstShotForwardCorrelationWindow
  Menus,      \* menus that block the gates: DataMenu and PauseMenu
  MaxTime     \* bound of the clock

AllFamilies == {"ballistic", "laser", "particle", "missile", "em"}

ASSUME FamiliesAssumption == Families \subseteq AllFamilies
ASSUME WindowsAssumption == {Duplicate, Skew, Before, Forward, MaxTime} \subseteq Nat
ASSUME NoObjectAssumption == "none" \notin Objects

Threads == {"game", "worker", "wwise"}
Nothing == [at |-> 0, object |-> "none"]

VARIABLES
  family,   \* the gate this behaviour is about
  seat,     \* ShipPilotContext
  menus,    \* g_shipBallisticBlockingMenuMask
  gate,     \* the atomics of the gate, the post that came first, and its lock
  my,       \* where each thread is and what it has read
  todo,     \* the stores it still makes
  seen,     \* the bucket of R2 the worker reported last: 0 is below the
            \* press threshold
  clock

vars == <<family, seat, menus, gate, my, todo, seen, clock>>
outside == <<family, seat, menus, seen, clock>>

NotSeen == 3
Blank == [at |-> "idle", when |-> 0, high |-> FALSE, object |-> "none", alias |-> FALSE, stream |-> FALSE]

Init ==
  /\ family \in Families
  /\ seat = [piloting |-> FALSE, loading |-> FALSE, hud |-> FALSE, invalidated |-> FALSE]
  /\ menus = {}
  /\ gate = [pilot |-> FALSE, menu |-> FALSE, r2 |-> FALSE, pressed |-> 0, last |-> 0,
             armed |-> FALSE, object |-> "none", first |-> Nothing, lock |-> "none"]
  /\ my = [t \in Threads |-> Blank]
  /\ todo = [t \in Threads |-> <<>>]
  /\ seen = NotSeen /\ clock = 1

Ready(t, step) == my[t].at = step /\ todo[t] = <<>>
Go(t, step) ==
  my' = [my EXCEPT ![t] = IF step = "idle" THEN Blank ELSE [@ EXCEPT !.at = step]]

-----------------------------------------------------------------------------
(* Stores.  To forget the first post is to take and leave the lock.        *)

Forget == <<"first", Nothing>>
Unlock == <<"lock", "none">>
ClearStream == << <<"last", 0>>, <<"armed", FALSE>>, <<"object", "none">> >>
EndStream == << <<"last", 0>>, <<"armed", FALSE>>, <<"object", "none">>, Forget >>
Wipe ==
  << <<"r2", FALSE>>, <<"pressed", 0>>, <<"last", 0>>, <<"armed", FALSE>>, <<"object", "none">> >>
ForgetAndWipe ==
  << Forget, <<"r2", FALSE>>, <<"pressed", 0>>, <<"last", 0>>, <<"armed", FALSE>>,
     <<"object", "none">> >>

Store(t) ==
  LET field == Head(todo[t])[1]
      value == Head(todo[t])[2]
  IN  /\ todo[t] # <<>>
      /\ field = "first" => gate.lock = "none"
      /\ gate' = [gate EXCEPT ![field] = value]
      /\ todo' = [todo EXCEPT ![t] = Tail(@)]
      /\ UNCHANGED <<outside, my>>

-----------------------------------------------------------------------------
(* The game's thread.                                                      *)

\* setPilotActive
SetPilotActive(on) ==
  /\ gate' = [gate EXCEPT !.pilot = on]
  /\ todo' = [todo EXCEPT !["game"] = IF on /\ gate.pilot THEN <<>> ELSE ForgetAndWipe]
  /\ UNCHANGED <<family, menus, my, seen, clock>>

\* setMenuBlocked
SetMenuBlocked(on) ==
  /\ gate' = [gate EXCEPT !.menu = on]
  /\ todo' = [todo EXCEPT !["game"] =
       IF on THEN IF gate.menu THEN Wipe ELSE ForgetAndWipe
       ELSE IF gate.menu THEN <<Forget>> ELSE <<>>]
  /\ UNCHANGED <<family, seat, my, seen, clock>>

SeatUnmoved == UNCHANGED <<family, menus, gate, my, todo, seen, clock>>

\* Mutant: the end of a load puts the player back where the load found him.
LoadingMenuResumes(opening) ==
  /\ Ready("game", "idle") /\ seat.loading # opening
  /\ LET on == ~opening /\ (seat.hud \/ seat.invalidated)
     IN  /\ seat' = [seat EXCEPT !.loading = opening, !.piloting = on,
                                 !.invalidated = opening /\ seat.piloting]
         /\ SetPilotActive(on)

\* ShipPilotContext::observeMenu of LoadingMenu: Invalidated, Resumed or
\* Entered, ExitedAfterLoad, and the gate follows.
LoadingMenu(opening) ==
  /\ Ready("game", "idle") /\ seat.loading # opening
  /\ LET load == [seat EXCEPT !.loading = opening]
     IN  \/ /\ opening /\ seat.piloting
            /\ seat' = [load EXCEPT !.piloting = FALSE, !.invalidated = TRUE]
            /\ SetPilotActive(FALSE)
         \/ opening /\ ~seat.piloting /\ seat' = load /\ SeatUnmoved
         \/ /\ ~opening /\ seat.hud
            /\ seat' = [load EXCEPT !.piloting = TRUE, !.invalidated = FALSE]
            /\ SetPilotActive(TRUE)
         \/ /\ ~opening /\ ~seat.hud /\ seat.invalidated
            /\ seat' = [load EXCEPT !.invalidated = FALSE]
            /\ SetPilotActive(FALSE)
         \/ ~opening /\ ~seat.hud /\ ~seat.invalidated /\ seat' = load /\ SeatUnmoved

\* ... and of SpaceshipHudMenu: Entered and Exited.
SpaceshipHudMenu(opening) ==
  /\ Ready("game", "idle") /\ seat.hud # opening
  /\ LET hud == [seat EXCEPT !.hud = opening]
     IN  \/ /\ opening /\ ~seat.loading /\ ~seat.piloting
            /\ seat' = [hud EXCEPT !.piloting = TRUE, !.invalidated = FALSE]
            /\ SetPilotActive(TRUE)
         \/ opening /\ (seat.loading \/ seat.piloting) /\ seat' = hud /\ SeatUnmoved
         \/ /\ ~opening /\ seat.piloting
            /\ seat' = [hud EXCEPT !.piloting = FALSE, !.invalidated = FALSE]
            /\ SetPilotActive(FALSE)
         \/ /\ ~opening /\ ~seat.piloting
            /\ seat' = [hud EXCEPT !.invalidated = @ /\ seat.loading]
            /\ SeatUnmoved

BlockingMenu(x) ==
  /\ Ready("game", "idle")
  /\ menus' = IF x \in menus THEN menus \ {x} ELSE menus \cup {x}
  /\ SetMenuBlocked(menus' # {})

-----------------------------------------------------------------------------
(* Both callbacks first look at the seat and the menus.                    *)

LookAtSeat(t) ==
  /\ Ready(t, "pilot")
  /\ Go(t, IF gate.pilot THEN "menu" ELSE "idle")
  /\ UNCHANGED <<outside, gate, todo>>

LookAtMenu(t) ==
  /\ Ready(t, "menu")
  /\ Go(t, IF gate.menu THEN "idle" ELSE "r2")
  /\ UNCHANGED <<outside, gate, todo>>

\* The lock is taken together with a look at the seat, and left with the step
\* that leaves the critical section.
Enter(t, step, next) ==
  /\ Ready(t, step) /\ gate.lock = "none"
  /\ gate' = [gate EXCEPT !.lock = IF gate.pilot THEN t ELSE @]
  /\ Go(t, IF gate.pilot THEN next ELSE "idle")
  /\ UNCHANGED <<outside, todo>>

\* Mutant: the early return does not leave the lock.
StillNoMenuLocked(t, step, next) ==
  /\ Ready(t, step)
  /\ gate' = gate
  /\ Go(t, IF gate.menu THEN "idle" ELSE next)
  /\ UNCHANGED <<outside, todo>>

StillNoMenu(t, step, next) ==
  /\ Ready(t, step)
  /\ gate' = [gate EXCEPT !.lock = IF gate.menu THEN "none" ELSE @]
  /\ Go(t, IF gate.menu THEN "idle" ELSE next)
  /\ UNCHANGED <<outside, todo>>

-----------------------------------------------------------------------------
(* The controller worker.                                                  *)

Observe(level, next) ==
  /\ Ready("worker", "idle")
  /\ seen' = next
  /\ my' = [my EXCEPT !["worker"] =
              [Blank EXCEPT !.at = "pilot", !.when = clock, !.high = level > 0]]
  /\ UNCHANGED <<family, seat, menus, gate, todo, clock>>

\* The observer hears of R2 when its bucket changes, and of a controller that
\* is gone.
Sample(level) == level # seen /\ Observe(level, level)
ControllerGone == seen # NotSeen /\ Observe(0, NotSeen)

\* observeRightTrigger, from its exchange of currentR2_.
ObserveRightTrigger ==
  LET high == my["worker"].high
  IN  /\ Ready("worker", "r2")
      /\ gate' = [gate EXCEPT !.r2 = high]
      /\ todo' = [todo EXCEPT !["worker"] =
           IF high THEN << <<"pressed", my["worker"].when>> >>
           ELSE IF gate.r2 THEN EndStream ELSE ClearStream]
      /\ Go("worker", IF high THEN "consume" ELSE "idle")
      /\ UNCHANGED outside

\* consumePendingFirstShot
Consume ==
  LET first == gate.first
      proven == /\ my["worker"].when >= first.at
                /\ my["worker"].when - first.at <= Forward
      took == gate.r2 /\ first.at # 0
  IN  /\ Ready("worker", "consumeR2")
      /\ gate' = [gate EXCEPT !.first = IF took THEN Nothing ELSE @,
                              !.lock = IF took /\ proven THEN @ ELSE "none"]
      /\ todo' = [todo EXCEPT !["worker"] =
           IF took /\ proven
           THEN << <<"last", first.at>>, <<"object", first.object>>, <<"armed", TRUE>>, Unlock >>
           ELSE <<>>]
      /\ Go("worker", "idle")
      /\ UNCHANGED outside

-----------------------------------------------------------------------------
(* The Wwise callback: authorizeWwiseFire.                                 *)

\* Ballistic posts of the catalog never make a stream; the event the hardware
\* tests found does.
Post(object, alias) ==
  /\ Ready("wwise", "idle")
  /\ family = "ballistic" \/ alias
  /\ my' = [my EXCEPT !["wwise"] =
              [Blank EXCEPT !.at = "pilot", !.when = clock, !.object = object, !.alias = alias]]
  /\ UNCHANGED <<outside, gate, todo>>

LookAtR2 ==
  /\ Ready("wwise", "r2")
  /\ my' = [my EXCEPT !["wwise"].high = gate.r2,
                      !["wwise"].at = IF gate.r2 /\ my["wwise"].alias THEN "armed"
                                      ELSE IF family = "ballistic" THEN "pressed"
                                      ELSE "remember"]
  /\ UNCHANGED <<outside, gate, todo>>

LookAtStream ==
  /\ Ready("wwise", "armed")
  /\ Go("wwise", IF gate.armed THEN "object" ELSE "pressed")
  /\ UNCHANGED <<outside, gate, todo>>

LookAtObject ==
  /\ Ready("wwise", "object")
  /\ my' = [my EXCEPT !["wwise"] =
              IF gate.object = @.object THEN [@ EXCEPT !.stream = TRUE, !.at = "claim"] ELSE Blank]
  /\ UNCHANGED <<outside, gate, todo>>

LookAtPress ==
  LET me == my["wwise"]
      near == gate.pressed # 0 /\ me.when + Skew >= gate.pressed
              /\ me.when <= gate.pressed + Before
  IN  /\ Ready("wwise", "pressed")
      /\ Go("wwise", IF near THEN "claim"
                     ELSE IF me.alias /\ ~me.high THEN "remember" ELSE "idle")
      /\ UNCHANGED <<outside, gate, todo>>

\* claimAuthorizedTimestamp, and what an authorised post stores after it.
Claim ==
  LET me == my["wwise"]
      again == gate.last # 0 /\ me.when >= gate.last /\ me.when - gate.last < Duplicate
  IN  /\ Ready("wwise", "claim")
      /\ gate' = [gate EXCEPT !.last = IF again THEN @ ELSE me.when]
      /\ todo' = [todo EXCEPT !["wwise"] =
           IF again THEN <<>>
           ELSE IF me.alias /\ me.high /\ ~me.stream
                THEN << Forget, <<"object", me.object>>, <<"armed", TRUE>> >>
           ELSE <<Forget>>]
      /\ Go("wwise", "idle")
      /\ UNCHANGED outside

\* Mutant: the post is remembered without a look at R2 under the lock.
RememberAnyway ==
  /\ Ready("wwise", "rememberR2")
  /\ gate' = [gate EXCEPT !.lock = "none",
                !.first = [at |-> my["wwise"].when, object |-> my["wwise"].object]]
  /\ Go("wwise", "idle")
  /\ UNCHANGED <<outside, todo>>

\* rememberPendingFirstShot: the earliest post that can still be proven stays.
Remember ==
  LET me == my["wwise"]
      live == /\ gate.first.at # 0 /\ me.when >= gate.first.at
              /\ me.when - gate.first.at <= Forward
  IN  /\ Ready("wwise", "rememberR2")
      /\ gate' = [gate EXCEPT !.lock = "none",
           !.first = IF gate.r2 \/ live THEN @
                     ELSE [at |-> me.when, object |-> me.object]]
      /\ Go("wwise", "idle")
      /\ UNCHANGED <<outside, todo>>

-----------------------------------------------------------------------------
Tick ==
  /\ clock < MaxTime /\ clock' = clock + 1
  /\ UNCHANGED <<family, seat, menus, gate, my, todo, seen>>

Game ==
  \/ \E opening \in BOOLEAN : LoadingMenu(opening) \/ SpaceshipHudMenu(opening)
  \/ \E x \in Menus : BlockingMenu(x)

Worker ==
  \/ \E level \in 0..2 : Sample(level)
  \/ ControllerGone \/ ObserveRightTrigger
  \/ Enter("worker", "consume", "consumeMenu")
  \/ StillNoMenu("worker", "consumeMenu", "consumeR2")
  \/ Consume

Wwise ==
  \/ \E object \in Objects, alias \in BOOLEAN : Post(object, alias)
  \/ LookAtR2 \/ LookAtStream \/ LookAtObject \/ LookAtPress \/ Claim
  \/ Enter("wwise", "remember", "rememberMenu")
  \/ StillNoMenu("wwise", "rememberMenu", "rememberR2")
  \/ Remember

Next ==
  \/ Game \/ Worker \/ Wwise
  \/ \E t \in Threads : Store(t)
  \/ \E t \in {"worker", "wwise"} : LookAtSeat(t) \/ LookAtMenu(t)
  \/ Tick

Spec == Init /\ [][Next]_vars

-----------------------------------------------------------------------------
(* Properties.                                                             *)

Quiet(t) == Ready(t, "idle")

Gates ==
  [pilot : BOOLEAN, menu : BOOLEAN, r2 : BOOLEAN, pressed : Nat, last : Nat,
   armed : BOOLEAN, object : Objects \cup {"none"},
   first : [at : Nat, object : Objects \cup {"none"}], lock : Threads \cup {"none"}]

Writes ==
  {Forget, Unlock, <<"r2", FALSE>>} \cup ({"armed"} \X BOOLEAN)
    \cup ({"pressed", "last"} \X Nat) \cup ({"object"} \X (Objects \cup {"none"}))

Steps == {"idle", "pilot", "menu", "r2", "consume", "consumeMenu", "consumeR2", "armed",
          "object", "pressed", "claim", "remember", "rememberMenu", "rememberR2"}

Inside(t) ==
  \/ my[t].at \in {"consumeMenu", "consumeR2", "rememberMenu", "rememberR2"}
  \/ \E i \in DOMAIN todo[t] : todo[t][i] = Unlock

\* Every variable has its type, and the spin lock belongs to the one thread
\* that is between its test_and_set and its clear: no early return forgets it.
TypeOK ==
  /\ family \in Families /\ menus \subseteq Menus /\ clock \in Nat /\ seen \in 0..NotSeen
  /\ seat \in [piloting : BOOLEAN, loading : BOOLEAN, hud : BOOLEAN, invalidated : BOOLEAN]
  /\ gate \in Gates
  /\ my \in [Threads -> [at : Steps, when : Nat, high : BOOLEAN,
                         object : Objects \cup {"none"}, alias : BOOLEAN, stream : BOOLEAN]]
  /\ todo \in [Threads -> Seq(Writes)]
  /\ \A t \in Threads : Inside(t) <=> gate.lock = t

\* Every gate opens for the seat the game shows, whatever order the HUD and
\* the loading screen came and went in (ShipPilotContext).
GateFollowsGame ==
  /\ gate.pilot <=> seat.hud /\ ~seat.loading
  /\ gate.menu <=> menus # {}

\* A post that came first waits only in an open seat, without a menu and
\* before the pull: whoever closes the gate or pulls the trigger finds it,
\* however the three threads interleave (the second look under the lock).
FirstPostIsGuarded ==
  gate.first # Nothing =>
    /\ Quiet("game") => gate.pilot /\ ~gate.menu
    /\ Quiet("game") /\ Quiet("worker") => ~gate.r2

\* "... but end the automatic stream immediately" (ShipBallisticFireGate.cpp:150).
\* Not kept by the code: a post past its look at R2 arms the stream anew.
StreamEndsWithTrigger ==
  (\A t \in Threads : Quiet(t)) /\ ~gate.r2 => ~gate.armed
=============================================================================
