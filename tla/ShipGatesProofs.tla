-------------------------- MODULE ShipGatesProofs --------------------------
(***************************************************************************)
(* Proofs about the ship's fire gates: types and the spin lock, the gates  *)
(* that follow the game, and the first post that nobody overlooks.         *)
(***************************************************************************)
EXTENDS ShipGates, TLAPS

Fields == {"pilot", "menu", "r2", "pressed", "last", "armed", "object", "first", "lock"}
Values == Writes \ {Unlock}

-----------------------------------------------------------------------------
(* Sequences of stores.                                                    *)

LEMMA NothingTyped == Nothing \in [at : Nat, object : Objects \cup {"none"}]
  BY DEF Nothing

LEMMA UnlockApart ==
  \A v : /\ Forget # Unlock /\ <<"r2", v>> # Unlock /\ <<"pressed", v>> # Unlock
         /\ <<"last", v>> # Unlock /\ <<"armed", v>> # Unlock /\ <<"object", v>> # Unlock
  BY DEF Forget, Unlock

\* The stores of the threads that never unlock.
LEMMA PlainWrites ==
  /\ Forget \in Values /\ <<"r2", FALSE>> \in Values
  /\ \A n \in Nat : <<"pressed", n>> \in Values /\ <<"last", n>> \in Values
  /\ \A b \in BOOLEAN : <<"armed", b>> \in Values
  /\ \A o \in Objects \cup {"none"} : <<"object", o>> \in Values
  BY UnlockApart DEF Values, Writes

LEMMA TuplesAreSequences ==
  ASSUME NEW S
  PROVE  /\ <<>> \in Seq(S)
         /\ \A a \in S : <<a>> \in Seq(S)
         /\ \A a, b, c \in S : <<a, b, c>> \in Seq(S)
         /\ \A a, b, c, d \in S : <<a, b, c, d>> \in Seq(S)
         /\ \A a, b, c, d, e \in S : <<a, b, c, d, e>> \in Seq(S)
         /\ \A a, b, c, d, e, f \in S : <<a, b, c, d, e, f>> \in Seq(S)
  OBVIOUS

LEMMA PlainSequences ==
  /\ <<>> \in Seq(Values) /\ <<Forget>> \in Seq(Values)
  /\ ClearStream \in Seq(Values) /\ EndStream \in Seq(Values)
  /\ Wipe \in Seq(Values) /\ ForgetAndWipe \in Seq(Values)
  <1> DEFINE last == <<"last", 0>>
             armed == <<"armed", FALSE>>
             object == <<"object", "none">>
             r2 == <<"r2", FALSE>>
             pressed == <<"pressed", 0>>
  <1>1. /\ last \in Values /\ armed \in Values /\ object \in Values
        /\ r2 \in Values /\ pressed \in Values /\ Forget \in Values
    BY PlainWrites
  <1>2. /\ ClearStream = <<last, armed, object>>
        /\ EndStream = <<last, armed, object, Forget>>
        /\ Wipe = <<r2, pressed, last, armed, object>>
        /\ ForgetAndWipe = <<Forget, r2, pressed, last, armed, object>>
    BY DEF ClearStream, EndStream, Wipe, ForgetAndWipe
  <1> HIDE DEF last, armed, object, r2, pressed
  <1>3. QED
    BY <1>1, <1>2, TuplesAreSequences

LEMMA TailOf ==
  ASSUME NEW S, NEW s \in Seq(S), s # <<>>
  PROVE  /\ Head(s) \in S /\ Tail(s) \in Seq(S) /\ Head(s) = s[1]
         /\ Len(Tail(s)) = Len(s) - 1 /\ DOMAIN s = 1..Len(s)
         /\ DOMAIN Tail(s) = 1..(Len(s) - 1)
         /\ \A i \in 1..(Len(s) - 1) : Tail(s)[i] = s[i + 1]
  OBVIOUS

LEMMA StoreTyped ==
  ASSUME gate \in Gates, NEW w \in Writes, gate' = [gate EXCEPT ![w[1]] = w[2]]
  PROVE  /\ gate' \in Gates
         /\ gate'.pilot = gate.pilot /\ gate'.menu = gate.menu
         /\ w # Unlock => gate'.lock = gate.lock
         /\ w = Unlock => gate'.lock = "none"
         /\ gate'.r2 => gate.r2
         /\ gate'.first # Nothing => gate'.first = gate.first
         /\ w = Forget => gate'.first = Nothing
  <1>1. CASE w = Forget
    BY <1>1, NothingTyped DEF Forget, Unlock, Gates
  <1>2. CASE w = Unlock
    BY <1>2 DEF Forget, Unlock, Gates
  <1>3. CASE w = <<"r2", FALSE>>
    BY <1>3 DEF Forget, Unlock, Gates
  <1>4. CASE w \in {"armed"} \X BOOLEAN
    BY <1>4 DEF Forget, Unlock, Gates
  <1>5. CASE w \in {"pressed", "last"} \X Nat
    BY <1>5 DEF Forget, Unlock, Gates
  <1>6. CASE w \in {"object"} \X (Objects \cup {"none"})
    BY <1>6 DEF Forget, Unlock, Gates
  <1>7. QED
    BY <1>1, <1>2, <1>3, <1>4, <1>5, <1>6 DEF Writes
-----------------------------------------------------------------------------
(* Types and the spin lock.                                                *)

Mine == [at : Steps, when : Nat, high : BOOLEAN, object : Objects \cup {"none"},
         alias : BOOLEAN, stream : BOOLEAN]
Critical == {"consumeMenu", "consumeR2", "rememberMenu", "rememberR2"}

Typed ==
  /\ family \in Families /\ menus \subseteq Menus /\ clock \in Nat /\ seen \in 0..NotSeen
  /\ seat \in [piloting : BOOLEAN, loading : BOOLEAN, hud : BOOLEAN, invalidated : BOOLEAN]
  /\ gate \in Gates
  /\ my \in [Threads -> Mine]
  /\ todo \in [Threads -> Seq(Writes)]

\* Whoever still has to unlock does nothing else after it, and has left the
\* handler; each thread of the lock has its own steps.
UnlockIsLast ==
  \A t \in Threads : \A i \in 1..Len(todo[t]) : todo[t][i] = Unlock =>
    i = Len(todo[t]) /\ my[t].at \notin Critical

Locked == \A t \in Threads : Inside(t) <=> gate.lock = t

Inv == Typed /\ UnlockIsLast /\ Locked

LEMMA TypeOKParts == TypeOK <=> Typed /\ Locked
  BY DEF TypeOK, Typed, Locked, Mine

LEMMA PlainIsWrite == Seq(Values) \subseteq Seq(Writes)
  BY DEF Values

LEMMA PlainHasNoUnlock ==
  ASSUME NEW s \in Seq(Values), NEW i \in DOMAIN s
  PROVE  s[i] # Unlock
  <1>1. DOMAIN s = 1..Len(s) /\ s[i] \in Values
    OBVIOUS
  <1>2. QED
    BY <1>1 DEF Values

LEMMA BlankTyped == Blank \in Mine
  BY DEF Blank, Mine, Steps

\* A thread outside the critical section that leaves the lock alone and does
\* not unlock later.
LEMMA LockKept ==
  ASSUME Inv, NEW t \in Threads, gate'.lock = gate.lock,
         my \in [Threads -> Mine], my' \in [Threads -> Mine],
         todo' \in [Threads -> Seq(Writes)],
         \A u \in Threads : u # t => my'[u].at = my[u].at /\ todo'[u] = todo[u],
         todo'[t] \in Seq(Values), my'[t].at \notin Critical,
         todo[t] = <<>>, my[t].at \notin Critical
  PROVE  UnlockIsLast' /\ Locked'
  <1>1. \A i \in DOMAIN todo'[t] : todo'[t][i] # Unlock
    BY PlainHasNoUnlock
  <1>2. DOMAIN todo'[t] = 1..Len(todo'[t])
    OBVIOUS
  <1>3. UnlockIsLast'
    BY <1>1, <1>2 DEF UnlockIsLast, Inv
  <1>4. ~Inside(t) /\ ~Inside(t)'
    BY <1>1 DEF Inside, Critical
  <1>5. Locked'
    BY <1>4 DEF Locked, Inside, Inv
  <1>6. QED
    BY <1>3, <1>5

LEMMA InitInv == Init => Inv
  <1> SUFFICES ASSUME Init PROVE Inv
    OBVIOUS
  <1>1. Typed
    <2>1. my \in [Threads -> Mine]
      BY BlankTyped DEF Init
    <2>2. todo \in [Threads -> Seq(Writes)]
      BY DEF Init
    <2>3. gate \in Gates
      BY NothingTyped DEF Init, Gates
    <2>4. QED
      BY <2>1, <2>2, <2>3 DEF Init, Typed, NotSeen
  <1>2. UnlockIsLast
    BY DEF Init, UnlockIsLast
  <1>3. Locked
    <2>1. \A t \in Threads : ~Inside(t)
      BY DEF Init, Inside, Blank
    <2>2. "none" \notin Threads /\ gate.lock = "none"
      BY DEF Init, Threads
    <2>3. QED
      BY <2>1, <2>2 DEF Locked
  <1>4. QED
    BY <1>1, <1>2, <1>3 DEF Inv

LEMMA StoreInv ==
  ASSUME Inv, NEW t \in Threads, Store(t)
  PROVE  Inv'
  <1> DEFINE s == todo[t]
  <1>1. s \in Seq(Writes) /\ s # <<>>
    BY DEF Store, Inv, Typed
  <1>2. /\ Head(s) \in Writes /\ Tail(s) \in Seq(Writes) /\ Head(s) = s[1]
        /\ Len(s) \in Nat /\ Len(s) > 0
        /\ Len(Tail(s)) = Len(s) - 1 /\ DOMAIN s = 1..Len(s)
        /\ DOMAIN Tail(s) = 1..(Len(s) - 1)
        /\ \A i \in 1..(Len(s) - 1) : Tail(s)[i] = s[i + 1]
    BY <1>1, TailOf
  <1>3. /\ todo' \in [Threads -> Seq(Writes)] /\ todo'[t] = Tail(s)
        /\ \A u \in Threads : u # t => todo'[u] = todo[u]
        /\ my' = my
    BY <1>2 DEF Store, Inv, Typed
  <1>4. gate' = [gate EXCEPT ![Head(s)[1]] = Head(s)[2]]
    BY DEF Store
  <1>5. /\ gate' \in Gates
        /\ Head(s) # Unlock => gate'.lock = gate.lock
        /\ Head(s) = Unlock => gate'.lock = "none"
    BY <1>2, <1>4, StoreTyped DEF Inv, Typed
  <1>6. Typed'
    BY <1>3, <1>5 DEF Store, Inv, Typed, outside
  <1>7. UnlockIsLast'
    <2> SUFFICES ASSUME NEW u \in Threads, NEW i \in 1..Len(todo'[u]), todo'[u][i] = Unlock
                 PROVE  i = Len(todo'[u]) /\ my'[u].at \notin Critical
      BY DEF UnlockIsLast
    <2>1. CASE u = t
      <3>0. todo'[u] = Tail(s) /\ Len(todo'[u]) = Len(s) - 1
        <4>1. todo'[u] = Tail(s)
          BY <1>3, <2>1
        <4>2. QED
          BY <1>2, <4>1
      <3>1. i \in 1..(Len(s) - 1) /\ s[i + 1] = Unlock /\ i + 1 \in 1..Len(s)
        BY <1>2, <3>0
      <3>2. i + 1 = Len(s) /\ my[t].at \notin Critical
        BY <3>1 DEF UnlockIsLast, Inv
      <3>3. QED
        <4>1. i = Len(todo'[u])
          BY <1>2, <3>0, <3>1, <3>2
        <4>2. QED
          BY <1>3, <2>1, <3>2, <4>1
    <2>2. CASE u # t
      BY <1>3, <2>2 DEF UnlockIsLast, Inv
    <2>3. QED
      BY <2>1, <2>2
  <1>8. Locked'
    <2>1. CASE Head(s) = Unlock
      <3>1. Len(s) = 1 /\ my[t].at \notin Critical
        <4>1. 1 \in 1..Len(s) /\ s[1] = Unlock
          BY <1>2, <2>1
        <4>2. QED
          BY <4>1 DEF UnlockIsLast, Inv
      <3>2. ~Inside(t)'
        BY <1>2, <1>3, <3>1 DEF Inside, Critical
      <3>3. Inside(t)
        BY <1>2, <2>1 DEF Inside
      <3>4. \A u \in Threads : u # t => ~Inside(u)
        BY <3>3 DEF Locked, Inv
      <3>5. \A u \in Threads : u # t => ~Inside(u)'
        BY <3>4, <1>3 DEF Inside
      <3>6. "none" \notin Threads
        BY DEF Threads
      <3>7. QED
        BY <3>2, <3>5, <3>6, <1>5, <2>1 DEF Locked
    <2>2. CASE Head(s) # Unlock
      <3>1. Inside(t)' <=> Inside(t)
        <4>1. (\E i \in DOMAIN Tail(s) : Tail(s)[i] = Unlock)
                <=> (\E i \in DOMAIN s : s[i] = Unlock)
          <5>1. ASSUME NEW i \in DOMAIN s, s[i] = Unlock
                PROVE  \E j \in DOMAIN Tail(s) : Tail(s)[j] = Unlock
            <6>1. i # 1 /\ i \in 1..Len(s)
              BY <1>2, <2>2, <5>1
            <6>2. i - 1 \in DOMAIN Tail(s) /\ Tail(s)[i - 1] = Unlock
              BY <1>2, <6>1, <5>1
            <6>3. QED
              BY <6>2
          <5>2. ASSUME NEW i \in DOMAIN Tail(s), Tail(s)[i] = Unlock
                PROVE  \E j \in DOMAIN s : s[j] = Unlock
            <6>1. i + 1 \in DOMAIN s /\ s[i + 1] = Unlock
              BY <1>2, <5>2
            <6>2. QED
              BY <6>1
          <5>3. QED
            BY <5>1, <5>2
        <4>2. QED
          BY <4>1, <1>3 DEF Inside
      <3>2. \A u \in Threads : u # t => (Inside(u)' <=> Inside(u))
        BY <1>3 DEF Inside
      <3>3. QED
        BY <3>1, <3>2, <1>5, <2>2 DEF Locked, Inv
    <2>3. QED
      BY <2>1, <2>2
  <1>9. QED
    BY <1>6, <1>7, <1>8 DEF Inv


\* What is outside the gate, after a step.
OutsideTyped ==
  /\ family \in Families /\ menus \subseteq Menus /\ clock \in Nat /\ seen \in 0..NotSeen
  /\ seat \in [piloting : BOOLEAN, loading : BOOLEAN, hud : BOOLEAN, invalidated : BOOLEAN]

\* A thread that is not inside goes on with stores that do not unlock.
LEMMA PlainStep ==
  ASSUME Inv, NEW t \in Threads, NEW s \in Seq(Values), NEW m \in Mine,
         todo[t] = <<>>, my[t].at \notin Critical, m.at \notin Critical,
         gate' \in Gates, gate'.lock = gate.lock, OutsideTyped',
         todo' = [todo EXCEPT ![t] = s], my' = [my EXCEPT ![t] = m]
  PROVE  Inv'
  <1>1. my' \in [Threads -> Mine] /\ my'[t] = m /\ \A u \in Threads : u # t => my'[u] = my[u]
    BY DEF Inv, Typed
  <1>2. /\ todo' \in [Threads -> Seq(Writes)] /\ todo'[t] = s
        /\ \A u \in Threads : u # t => todo'[u] = todo[u]
    BY PlainIsWrite DEF Inv, Typed
  <1>3. UnlockIsLast' /\ Locked'
    BY <1>1, <1>2, LockKept DEF Inv, Typed
  <1>4. QED
    BY <1>1, <1>2, <1>3 DEF Inv, Typed, OutsideTyped

LEMMA SameStep ==
  ASSUME NEW t \in Threads, Inv
  PROVE  /\ my = [my EXCEPT ![t] = my[t]] /\ my[t] \in Mine
         /\ todo[t] = <<>> => /\ todo = [todo EXCEPT ![t] = <<>>]
                               /\ <<>> \in Seq(Values)
  BY DEF Inv, Typed

LEMMA GameInv ==
  ASSUME Inv, Game
  PROVE  Inv'
  <1> DEFINE t == "game"
  <1>1. t \in Threads
    BY DEF Threads
  <1>2. my[t].at = "idle" /\ todo[t] = <<>>
    BY DEF Game, LoadingMenu, SpaceshipHudMenu, BlockingMenu, Ready
  <1>3. OutsideTyped'
    <2>1. ASSUME NEW opening \in BOOLEAN, LoadingMenu(opening)
          PROVE  OutsideTyped'
      BY <2>1 DEF LoadingMenu, SetPilotActive, SeatUnmoved, OutsideTyped, Inv, Typed
    <2>2. ASSUME NEW opening \in BOOLEAN, SpaceshipHudMenu(opening)
          PROVE  OutsideTyped'
      BY <2>2 DEF SpaceshipHudMenu, SetPilotActive, SeatUnmoved, OutsideTyped, Inv, Typed
    <2>3. ASSUME NEW x \in Menus, BlockingMenu(x)
          PROVE  OutsideTyped'
      BY <2>3 DEF BlockingMenu, SetMenuBlocked, OutsideTyped, Inv, Typed
    <2>4. QED
      BY <2>1, <2>2, <2>3 DEF Game
  <1>4. PICK s \in Seq(Values) : todo' = [todo EXCEPT ![t] = s]
    <2>1. ASSUME NEW on \in BOOLEAN, SetPilotActive(on)
          PROVE  \E s \in Seq(Values) : todo' = [todo EXCEPT ![t] = s]
      BY <2>1, PlainSequences DEF SetPilotActive
    <2>2. ASSUME NEW on \in BOOLEAN, SetMenuBlocked(on)
          PROVE  \E s \in Seq(Values) : todo' = [todo EXCEPT ![t] = s]
      BY <2>2, PlainSequences DEF SetMenuBlocked
    <2>3. ASSUME SeatUnmoved
          PROVE  \E s \in Seq(Values) : todo' = [todo EXCEPT ![t] = s]
      BY <2>3, <1>1, <1>2, SameStep DEF SeatUnmoved
    <2>4. QED
      BY <2>1, <2>2, <2>3 DEF Game, LoadingMenu, SpaceshipHudMenu, BlockingMenu
  <1>5. gate' \in Gates /\ gate'.lock = gate.lock /\ my' = my
    BY DEF Game, LoadingMenu, SpaceshipHudMenu, BlockingMenu, SetPilotActive, SetMenuBlocked,
           SeatUnmoved, Gates, Inv, Typed
  <1>6. my' = [my EXCEPT ![t] = my[t]] /\ my[t] \in Mine
    BY <1>1, <1>5, SameStep
  <1>7. QED
    BY <1>1, <1>2, <1>3, <1>4, <1>5, <1>6, PlainStep DEF Critical

\* Steps of one thread that leave the gate and the game alone.
LEMMA LookInv ==
  ASSUME Inv, NEW t \in Threads, NEW m \in Mine, todo[t] = <<>>,
         my[t].at \notin Critical, m.at \notin Critical,
         my' = [my EXCEPT ![t] = m], UNCHANGED <<outside, gate, todo>>
  PROVE  Inv'
  <1>1. OutsideTyped' /\ gate' \in Gates /\ gate'.lock = gate.lock
    BY DEF OutsideTyped, Inv, Typed, outside
  <1>2. todo' = [todo EXCEPT ![t] = <<>>] /\ <<>> \in Seq(Values)
    BY SameStep
  <1>3. QED
    BY <1>1, <1>2, PlainStep

\* The lock is taken, or left, together with what is seen of the seat or of a
\* menu.
LEMMA LockInv ==
  ASSUME Inv, NEW t \in Threads, NEW m \in Mine, todo[t] = <<>>, gate' \in Gates,
         my' = [my EXCEPT ![t] = m], UNCHANGED <<outside, todo>>,
         gate.lock \in {"none", t},
         gate'.lock = IF m.at \in Critical THEN t ELSE "none"
  PROVE  Inv'
  <1>1. /\ my' \in [Threads -> Mine] /\ my'[t] = m
        /\ \A u \in Threads : u # t => my'[u] = my[u]
    BY DEF Inv, Typed
  <1>2. Typed'
    BY <1>1 DEF Inv, Typed, outside
  <1>3. UnlockIsLast'
    BY <1>1 DEF UnlockIsLast, Inv
  <1>4. Inside(t)' <=> m.at \in Critical
    BY <1>1 DEF Inside, Critical
  <1>5. \A u \in Threads : u # t => ~Inside(u)' /\ gate'.lock # u
    <2>1. "none" \notin Threads
      BY DEF Threads
    <2>2. QED
      BY <1>1, <2>1 DEF Inside, Locked, Inv
  <1>6. Locked'
    <2>1. "none" \notin Threads
      BY DEF Threads
    <2>2. QED
      BY <1>4, <1>5, <2>1 DEF Locked
  <1>7. QED
    BY <1>2, <1>3, <1>6 DEF Inv

LEMMA GoTyped ==
  ASSUME Inv, NEW t \in Threads, NEW step \in Steps, Go(t, step)
  PROVE  \E m \in Mine : m.at = step /\ my' = [my EXCEPT ![t] = m]
  <1>1. my[t] \in Mine
    BY DEF Inv, Typed
  <1>2. CASE step = "idle"
    BY <1>2, BlankTyped DEF Go, Blank
  <1>3. CASE step # "idle"
    <2>1. [my[t] EXCEPT !.at = step] \in Mine /\ [my[t] EXCEPT !.at = step].at = step
      BY <1>1 DEF Mine
    <2>2. QED
      BY <1>3, <2>1 DEF Go
  <1>4. QED
    BY <1>2, <1>3

LEMMA EnterInv ==
  ASSUME Inv, NEW t \in Threads, NEW step \in Steps \ Critical,
         NEW next \in Steps \cap Critical, Enter(t, step, next)
  PROVE  Inv'
  <1>1. PICK m \in Mine : /\ m.at = IF gate.pilot THEN next ELSE "idle"
                          /\ my' = [my EXCEPT ![t] = m]
    <2> DEFINE step2 == IF gate.pilot THEN next ELSE "idle"
    <2>1. step2 \in Steps /\ Go(t, step2)
      BY DEF Enter, Steps
    <2> HIDE DEF step2
    <2>2. PICK m \in Mine : m.at = step2 /\ my' = [my EXCEPT ![t] = m]
      BY <2>1, GoTyped
    <2>3. QED
      BY <2>2 DEF step2
  <1>2. gate' \in Gates /\ gate'.lock = IF gate.pilot THEN t ELSE "none"
    BY DEF Enter, Gates, Inv, Typed
  <1>3. QED
    BY <1>1, <1>2, LockInv DEF Enter, Ready, Critical

LEMMA StillNoMenuInv ==
  ASSUME Inv, NEW t \in Threads, NEW step \in Steps \cap Critical,
         NEW next \in Steps \cap Critical, StillNoMenu(t, step, next)
  PROVE  Inv'
  <1>1. PICK m \in Mine : /\ m.at = IF gate.menu THEN "idle" ELSE next
                          /\ my' = [my EXCEPT ![t] = m]
    <2> DEFINE step2 == IF gate.menu THEN "idle" ELSE next
    <2>1. step2 \in Steps /\ Go(t, step2)
      BY DEF StillNoMenu, Steps
    <2> HIDE DEF step2
    <2>2. PICK m \in Mine : m.at = step2 /\ my' = [my EXCEPT ![t] = m]
      BY <2>1, GoTyped
    <2>3. QED
      BY <2>2 DEF step2
  <1>2. gate.lock = t
    BY DEF StillNoMenu, Ready, Inside, Critical, Locked, Inv
  <1>3. gate' \in Gates /\ gate'.lock = IF gate.menu THEN "none" ELSE t
    BY <1>2 DEF StillNoMenu, Gates, Inv, Typed
  <1>4. QED
    BY <1>1, <1>2, <1>3, LockInv DEF StillNoMenu, Ready, Critical

LEMMA SeatAndMenuInv ==
  ASSUME Inv, NEW t \in Threads, LookAtSeat(t) \/ LookAtMenu(t)
  PROVE  Inv'
  <1>1. PICK m \in Mine : /\ m.at \in {"menu", "r2", "idle"}
                          /\ my' = [my EXCEPT ![t] = m]
    BY GoTyped DEF LookAtSeat, LookAtMenu, Steps
  <1>2. QED
    BY <1>1, LookInv DEF LookAtSeat, LookAtMenu, Ready, Critical

LEMMA ObserveInv ==
  ASSUME Inv, NEW level \in 0..2, NEW next \in 0..NotSeen, Observe(level, next)
  PROVE  Inv'
  <1> DEFINE m == [Blank EXCEPT !.at = "pilot", !.when = clock, !.high = level > 0]
  <1>1. m \in Mine /\ m.at = "pilot"
    <2>1. \A h \in BOOLEAN, n \in Nat :
            LET x == [Blank EXCEPT !.at = "pilot", !.when = n, !.high = h]
            IN  x \in Mine /\ x.at = "pilot"
      BY DEF Blank, Mine, Steps
    <2>2. (level > 0) \in BOOLEAN /\ clock \in Nat
      BY DEF Inv, Typed
    <2>3. QED
      BY <2>1, <2>2
  <1>2. my' = [my EXCEPT !["worker"] = m] /\ "worker" \in Threads
    BY DEF Observe, Threads
  <1> HIDE DEF m
  <1>3. todo' = [todo EXCEPT !["worker"] = <<>>] /\ <<>> \in Seq(Values)
    BY <1>2, SameStep DEF Observe, Ready
  <1>4. OutsideTyped' /\ gate' = gate /\ gate \in Gates
    BY DEF Observe, OutsideTyped, Inv, Typed
  <1>5. my["worker"].at = "idle" /\ todo["worker"] = <<>>
    BY DEF Observe, Ready
  <1>6. QED
    BY <1>1, <1>2, <1>3, <1>4, <1>5, PlainStep DEF Critical

LEMMA ObserveRightTriggerInv ==
  ASSUME Inv, ObserveRightTrigger
  PROVE  Inv'
  <1> DEFINE t == "worker"
             step == IF my[t].high THEN "consume" ELSE "idle"
             s == IF my[t].high THEN << <<"pressed", my[t].when>> >>
                  ELSE IF gate.r2 THEN EndStream ELSE ClearStream
  <1>1. t \in Threads /\ my[t] \in Mine
    BY DEF Threads, Inv, Typed
  <1>2. step \in Steps /\ Go(t, step) /\ step \notin Critical
    BY DEF ObserveRightTrigger, Steps, Critical
  <1>3. s \in Seq(Values) /\ todo' = [todo EXCEPT ![t] = s]
    <2>1. <<"pressed", my[t].when>> \in Values
      BY <1>1, PlainWrites DEF Mine
    <2>2. << <<"pressed", my[t].when>> >> \in Seq(Values)
      BY <2>1, TuplesAreSequences
    <2>3. QED
      BY <2>2, PlainSequences DEF ObserveRightTrigger
  <1>4. gate' \in Gates /\ gate'.lock = gate.lock
    BY <1>1 DEF ObserveRightTrigger, Gates, Mine, Inv, Typed
  <1>5. my[t].at = "r2" /\ todo[t] = <<>> /\ OutsideTyped'
    BY DEF ObserveRightTrigger, Ready, OutsideTyped, outside, Inv, Typed
  <1> HIDE DEF step, s
  <1>6. PICK m \in Mine : m.at = step /\ my' = [my EXCEPT ![t] = m]
    BY <1>1, <1>2, GoTyped
  <1>7. my[t].at \notin Critical
    BY <1>5 DEF Critical
  <1>8. QED
    BY <1>1, <1>2, <1>3, <1>4, <1>5, <1>6, <1>7, PlainStep

\* What the worker still stores before it unlocks.
LEMMA UnlockAtEnd ==
  ASSUME NEW a \in Values, NEW b \in Values, NEW c \in Values
  PROVE  LET s == <<a, b, c, Unlock>>
         IN  /\ s \in Seq(Writes) /\ Len(s) = 4 /\ s[4] = Unlock
             /\ \A i \in 1..3 : s[i] # Unlock
  <1>1. {a, b, c, Unlock} \subseteq Writes /\ a # Unlock /\ b # Unlock /\ c # Unlock
    BY DEF Values, Writes
  <1>2. <<a, b, c, Unlock>> \in Seq(Writes)
    BY <1>1
  <1>3. QED
    BY <1>1, <1>2

LEMMA ConsumeInv ==
  ASSUME Inv, Consume
  PROVE  Inv'
  <1> DEFINE t == "worker"
             first == gate.first
             proven == my[t].when >= first.at /\ my[t].when - first.at <= Forward
             took == gate.r2 /\ first.at # 0
             s == << <<"last", first.at>>, <<"object", first.object>>, <<"armed", TRUE>>, Unlock >>
  <1>1. /\ t \in Threads /\ my[t] \in Mine /\ first.at \in Nat
        /\ first.object \in Objects \cup {"none"}
    BY DEF Threads, Gates, Inv, Typed
  <1>2. my[t].at = "consumeR2" /\ todo[t] = <<>> /\ gate.lock = t
    BY <1>1 DEF Consume, Ready, Inside, Locked, Inv
  <1>3. gate' \in Gates
    BY NothingTyped DEF Consume, Gates, Inv, Typed
  <1>4. PICK m \in Mine : m.at = "idle" /\ my' = [my EXCEPT ![t] = m]
    BY <1>1, GoTyped DEF Consume, Steps
  <1>5. CASE ~(took /\ proven)
    <2>1. gate'.lock = "none" /\ todo' = [todo EXCEPT ![t] = <<>>]
      BY <1>5 DEF Consume, Gates, Inv, Typed
    <2>2. todo' = todo
      BY <1>1, <1>2, <2>1, SameStep
    <2>3. UNCHANGED outside
      BY DEF Consume
    <2>4. QED
      BY <1>1, <1>2, <1>3, <1>4, <2>1, <2>2, <2>3, LockInv DEF Critical
  <1>6. CASE took /\ proven
    <2>1. gate'.lock = t /\ todo' = [todo EXCEPT ![t] = s]
      BY <1>2, <1>6 DEF Consume, Gates, Inv, Typed
    <2>2. s \in Seq(Writes) /\ Len(s) = 4 /\ s[4] = Unlock /\ \A i \in 1..3 : s[i] # Unlock
      <3> DEFINE a == <<"last", first.at>>
                 b == <<"object", first.object>>
                 c == <<"armed", TRUE>>
      <3>1. a \in Values /\ b \in Values /\ c \in Values
        BY <1>1, PlainWrites
      <3>2. s = <<a, b, c, Unlock>>
        OBVIOUS
      <3> HIDE DEF a, b, c, s
      <3>3. QED
        BY <3>1, <3>2, UnlockAtEnd
    <2> HIDE DEF s, took, proven
    <2>3. /\ todo' \in [Threads -> Seq(Writes)] /\ todo'[t] = s
          /\ my' \in [Threads -> Mine] /\ my'[t] = m
          /\ \A u \in Threads : u # t => todo'[u] = todo[u] /\ my'[u] = my[u]
      BY <1>1, <1>4, <2>1, <2>2 DEF Inv, Typed
    <2>4. Typed'
      BY <1>3, <2>3 DEF Consume, outside, Inv, Typed
    <2>5. UnlockIsLast'
      <3> SUFFICES ASSUME NEW u \in Threads, NEW i \in 1..Len(todo'[u]), todo'[u][i] = Unlock
                   PROVE  i = Len(todo'[u]) /\ my'[u].at \notin Critical
        BY DEF UnlockIsLast
      <3>1. CASE u = t
        <4>1. todo'[u] = s /\ i \in 1..4
          BY <2>2, <2>3, <3>1
        <4>2. i = 4
          BY <2>2, <4>1
        <4>3. QED
          BY <1>4, <2>2, <2>3, <3>1, <4>1, <4>2 DEF Critical
      <3>2. CASE u # t
        BY <2>3, <3>2 DEF UnlockIsLast, Inv
      <3>3. QED
        BY <3>1, <3>2
    <2>6. Inside(t)'
      <3>1. 4 \in DOMAIN s
        BY <2>2
      <3>2. QED
        BY <2>2, <2>3, <3>1 DEF Inside
    <2>7. \A u \in Threads : u # t => (Inside(u)' <=> Inside(u))
      BY <2>3 DEF Inside
    <2>8. Locked'
      BY <1>2, <2>1, <2>6, <2>7 DEF Locked, Inv
    <2>9. QED
      BY <2>4, <2>5, <2>8 DEF Inv
  <1>7. QED
    BY <1>5, <1>6

LEMMA PostInv ==
  ASSUME Inv, NEW object \in Objects, NEW alias \in BOOLEAN, Post(object, alias)
  PROVE  Inv'
  <1> DEFINE m == [Blank EXCEPT !.at = "pilot", !.when = clock, !.object = object, !.alias = alias]
  <1>1. m \in Mine /\ m.at = "pilot"
    BY DEF Blank, Mine, Steps, Inv, Typed
  <1>2. my' = [my EXCEPT !["wwise"] = m] /\ "wwise" \in Threads
    BY DEF Post, Threads
  <1> HIDE DEF m
  <1>3. QED
    BY <1>1, <1>2, LookInv DEF Post, Ready, Critical

\* The looks of the callback, on the way to its decision.
LEMMA WwiseLookInv ==
  ASSUME Inv, LookAtR2 \/ LookAtStream \/ LookAtObject \/ LookAtPress
  PROVE  Inv'
  <1> DEFINE t == "wwise"
  <1>1. t \in Threads /\ my[t] \in Mine /\ gate \in Gates
    BY DEF Threads, Inv, Typed
  <1>2. CASE LookAtR2
    <2> DEFINE step == IF gate.r2 /\ my[t].alias THEN "armed"
                       ELSE IF family = "ballistic" THEN "pressed" ELSE "remember"
    <2>1. my' = [my EXCEPT ![t] = [@ EXCEPT !.high = gate.r2, !.at = step]]
      BY <1>1, <1>2 DEF LookAtR2, Inv, Typed
    <2>2. step \in Steps /\ step \notin Critical
      BY DEF Steps, Critical
    <2> HIDE DEF step
    <2>3. gate.r2 \in BOOLEAN
      BY <1>1 DEF Gates
    <2>4. [my[t] EXCEPT !.high = gate.r2, !.at = step] \in Mine
      BY <1>1, <2>2, <2>3 DEF Mine
    <2>5. [my[t] EXCEPT !.high = gate.r2, !.at = step].at \notin Critical
      BY <1>1, <2>2 DEF Mine
    <2>6. my[t].at \notin Critical /\ todo[t] = <<>> /\ UNCHANGED <<outside, gate, todo>>
      BY <1>2 DEF LookAtR2, Ready, Critical
    <2>7. QED
      BY <1>1, <2>1, <2>4, <2>5, <2>6, LookInv
  <1>3. CASE LookAtObject
    <2> DEFINE m == [my[t] EXCEPT !.stream = TRUE, !.at = "claim"]
    <2>1. m \in Mine /\ m.at = "claim"
      BY <1>1 DEF Mine, Steps
    <2>2. my' = [my EXCEPT ![t] = IF gate.object = my[t].object THEN m ELSE Blank]
      BY <1>1, <1>3 DEF LookAtObject, Inv, Typed
    <2> HIDE DEF m
    <2>3. Blank.at = "idle"
      BY DEF Blank
    <2>4. PICK n \in {m, Blank} : my' = [my EXCEPT ![t] = n]
      BY <2>2
    <2>5. n \in Mine /\ n.at \notin Critical
      BY <2>1, <2>3, <2>4, BlankTyped DEF Critical
    <2>6. my[t].at \notin Critical /\ todo[t] = <<>> /\ UNCHANGED <<outside, gate, todo>>
      BY <1>3 DEF LookAtObject, Ready, Critical
    <2>7. QED
      BY <1>1, <2>4, <2>5, <2>6, LookInv
  <1>4. CASE LookAtStream \/ LookAtPress
    <2>1. PICK step \in {"object", "pressed", "claim", "remember", "idle"} : Go(t, step)
      BY <1>4 DEF LookAtStream, LookAtPress
    <2>2. step \in Steps /\ step \notin Critical
      BY <2>1 DEF Steps, Critical
    <2>3. PICK m \in Mine : m.at = step /\ my' = [my EXCEPT ![t] = m]
      BY <1>1, <2>1, <2>2, GoTyped
    <2>4. my[t].at \notin Critical /\ todo[t] = <<>> /\ UNCHANGED <<outside, gate, todo>>
      BY <1>4 DEF LookAtStream, LookAtPress, Ready, Critical
    <2>5. QED
      BY <1>1, <2>2, <2>3, <2>4, LookInv
  <1>5. QED
    BY <1>2, <1>3, <1>4

LEMMA ClaimInv ==
  ASSUME Inv, Claim
  PROVE  Inv'
  <1> DEFINE t == "wwise"
  <1>1. t \in Threads /\ my[t] \in Mine
    BY DEF Threads, Inv, Typed
  <1>2. PICK m \in Mine : m.at = "idle" /\ my' = [my EXCEPT ![t] = m]
    BY <1>1, GoTyped DEF Claim, Steps
  <1>3. PICK s \in Seq(Values) : todo' = [todo EXCEPT ![t] = s]
    <2> DEFINE a == <<"object", my[t].object>>
               b == <<"armed", TRUE>>
    <2>1. a \in Values /\ b \in Values /\ Forget \in Values
      BY <1>1, PlainWrites DEF Mine
    <2>2. \E s \in {<<>>, <<Forget>>, <<Forget, a, b>>} : todo' = [todo EXCEPT ![t] = s]
      BY DEF Claim
    <2> HIDE DEF a, b
    <2>3. QED
      BY <2>1, <2>2, TuplesAreSequences
  <1>4. gate' \in Gates /\ gate'.lock = gate.lock
    BY <1>1 DEF Claim, Gates, Mine, Inv, Typed
  <1>5. my[t].at \notin Critical /\ todo[t] = <<>> /\ OutsideTyped'
    BY DEF Claim, Ready, Critical, OutsideTyped, outside, Inv, Typed
  <1>6. QED
    BY <1>1, <1>2, <1>3, <1>4, <1>5, PlainStep DEF Critical

LEMMA RememberInv ==
  ASSUME Inv, Remember
  PROVE  Inv'
  <1> DEFINE t == "wwise"
  <1>1. t \in Threads /\ my[t] \in Mine
    BY DEF Threads, Inv, Typed
  <1>2. my[t].at = "rememberR2" /\ todo[t] = <<>> /\ gate.lock = t
    BY <1>1 DEF Remember, Ready, Inside, Locked, Inv
  <1>3. PICK m \in Mine : m.at = "idle" /\ my' = [my EXCEPT ![t] = m]
    BY <1>1, GoTyped DEF Remember, Steps
  <1>4. [at |-> my[t].when, object |-> my[t].object] \in [at : Nat, object : Objects \cup {"none"}]
    BY <1>1 DEF Mine
  <1>5. gate' \in Gates /\ gate'.lock = "none"
    BY <1>4 DEF Remember, Gates, Inv, Typed
  <1>6. QED
    BY <1>1, <1>2, <1>3, <1>5, LockInv DEF Remember, Critical

LEMMA NextInv == Inv /\ [Next]_vars => Inv'
  <1> SUFFICES ASSUME Inv, [Next]_vars PROVE Inv'
    OBVIOUS
  <1>1. CASE Game
    BY <1>1, GameInv
  <1>2. CASE Worker
    <2>1. ASSUME NEW level \in 0..2, Sample(level) PROVE Inv'
      <3>1. level \in 0..NotSeen
        BY DEF NotSeen
      <3>2. QED
        BY <2>1, <3>1, ObserveInv DEF Sample
    <2>2. CASE ControllerGone
      <3>1. 0 \in 0..2 /\ NotSeen \in 0..NotSeen
        BY DEF NotSeen
      <3>2. QED
        BY <2>2, <3>1, ObserveInv DEF ControllerGone
    <2>3. "worker" \in Threads
      BY DEF Threads
    <2>4. CASE Enter("worker", "consume", "consumeMenu")
      <3>1. "consume" \in Steps \ Critical /\ "consumeMenu" \in Steps \cap Critical
        BY DEF Steps, Critical
      <3>2. QED
        BY <2>3, <2>4, <3>1, EnterInv
    <2>5. CASE StillNoMenu("worker", "consumeMenu", "consumeR2")
      <3>1. "consumeMenu" \in Steps \cap Critical /\ "consumeR2" \in Steps \cap Critical
        BY DEF Steps, Critical
      <3>2. QED
        BY <2>3, <2>5, <3>1, StillNoMenuInv
    <2>6. QED
      BY <1>2, <2>1, <2>2, <2>4, <2>5, ObserveRightTriggerInv, ConsumeInv DEF Worker
  <1>3. CASE Wwise
    <2>1. "wwise" \in Threads
      BY DEF Threads
    <2>2. CASE Enter("wwise", "remember", "rememberMenu")
      <3>1. "remember" \in Steps \ Critical /\ "rememberMenu" \in Steps \cap Critical
        BY DEF Steps, Critical
      <3>2. QED
        BY <2>1, <2>2, <3>1, EnterInv
    <2>3. CASE StillNoMenu("wwise", "rememberMenu", "rememberR2")
      <3>1. "rememberMenu" \in Steps \cap Critical /\ "rememberR2" \in Steps \cap Critical
        BY DEF Steps, Critical
      <3>2. QED
        BY <2>1, <2>3, <3>1, StillNoMenuInv
    <2>4. QED
      BY <1>3, <2>2, <2>3, PostInv, WwiseLookInv, ClaimInv, RememberInv DEF Wwise
  <1>4. ASSUME NEW t \in Threads, Store(t) PROVE Inv'
    BY <1>4, StoreInv
  <1>5. ASSUME NEW t \in {"worker", "wwise"}, LookAtSeat(t) \/ LookAtMenu(t) PROVE Inv'
    BY <1>5, SeatAndMenuInv DEF Threads
  <1>6. CASE Tick \/ UNCHANGED vars
    <2>1. Typed'
      BY <1>6 DEF Tick, vars, Inv, Typed
    <2>2. UnlockIsLast'
      BY <1>6 DEF Tick, vars, Inv, UnlockIsLast
    <2>3. Locked'
      BY <1>6 DEF Tick, vars, Inv, Locked, Inside
    <2>4. QED
      BY <2>1, <2>2, <2>3 DEF Inv
  <1>7. QED
    BY <1>1, <1>2, <1>3, <1>4, <1>5, <1>6 DEF Next

\* Types hold, and the spin lock belongs to the thread that is inside.
THEOREM Typing == Spec => []TypeOK
  <1>1. Inv => TypeOK
    BY TypeOKParts DEF Inv
  <1>2. QED
    BY <1>1, InitInv, NextInv, PTL DEF Spec

-----------------------------------------------------------------------------
(* The gate follows the game.                                              *)

Seat ==
  /\ seat.piloting <=> seat.hud /\ ~seat.loading
  /\ gate.pilot <=> seat.piloting
  /\ gate.menu <=> menus # {}

\* The stores of a thread do not reach the seat and the menus.
LEMMA StoreKeeps ==
  ASSUME Inv, NEW t \in Threads, Store(t)
  PROVE  /\ gate'.pilot = gate.pilot /\ gate'.menu = gate.menu
         /\ gate'.r2 => gate.r2
         /\ gate'.first # Nothing => gate'.first = gate.first
         /\ Head(todo[t]) = Forget => gate'.first = Nothing
  <1> DEFINE w == Head(todo[t])
  <1>1. w \in Writes
    BY TailOf DEF Store, Inv, Typed
  <1>2. gate \in Gates /\ gate' = [gate EXCEPT ![w[1]] = w[2]]
    BY DEF Store, Inv, Typed
  <1> HIDE DEF w
  <1>3. QED
    BY <1>1, <1>2, StoreTyped DEF w

LEMMA CallbacksKeep ==
  ASSUME Inv, \/ Worker \/ Wwise \/ Tick
              \/ \E t \in {"worker", "wwise"} : LookAtSeat(t) \/ LookAtMenu(t)
  PROVE  UNCHANGED <<seat, menus>> /\ gate'.pilot = gate.pilot /\ gate'.menu = gate.menu
  <1>1. gate \in Gates
    BY DEF Inv, Typed
  <1>2. CASE Worker
    BY <1>1, <1>2 DEF Worker, Sample, ControllerGone, Observe, ObserveRightTrigger, Enter,
                      StillNoMenu, Consume, outside, Gates
  <1>3. CASE Wwise
    BY <1>1, <1>3 DEF Wwise, Post, LookAtR2, LookAtStream, LookAtObject, LookAtPress, Claim,
                      Enter, StillNoMenu, Remember, outside, Gates
  <1>4. CASE Tick
    BY <1>4 DEF Tick
  <1>5. ASSUME NEW t \in {"worker", "wwise"}, LookAtSeat(t) \/ LookAtMenu(t)
        PROVE  UNCHANGED <<seat, menus>> /\ gate'.pilot = gate.pilot /\ gate'.menu = gate.menu
    BY <1>5 DEF LookAtSeat, LookAtMenu, outside
  <1>6. QED
    BY <1>2, <1>3, <1>4, <1>5

LEMMA GameSeat ==
  ASSUME Inv, Seat, Game
  PROVE  Seat'
  <1>1. /\ seat \in [piloting : BOOLEAN, loading : BOOLEAN, hud : BOOLEAN, invalidated : BOOLEAN]
        /\ gate \in Gates
    BY DEF Inv, Typed
  <1>2. ASSUME NEW opening \in BOOLEAN, LoadingMenu(opening)
        PROVE  Seat'
    BY <1>1, <1>2 DEF LoadingMenu, SetPilotActive, SeatUnmoved, Seat, Gates
  <1>3. ASSUME NEW opening \in BOOLEAN, SpaceshipHudMenu(opening)
        PROVE  Seat'
    BY <1>1, <1>3 DEF SpaceshipHudMenu, SetPilotActive, SeatUnmoved, Seat, Gates
  <1>4. ASSUME NEW x \in Menus, BlockingMenu(x)
        PROVE  Seat'
    <2> DEFINE on == menus' # {}
    <2>1. SetMenuBlocked(on)
      BY <1>4 DEF BlockingMenu
    <2>2. on \in BOOLEAN
      OBVIOUS
    <2> HIDE DEF on
    <2>3. gate'.menu = on /\ gate'.pilot = gate.pilot /\ UNCHANGED seat
      BY <1>1, <2>1 DEF SetMenuBlocked, Gates
    <2>4. gate'.menu <=> menus' # {}
      BY <2>3 DEF on
    <2>5. QED
      BY <2>3, <2>4 DEF Seat
  <1>5. QED
    BY <1>2, <1>3, <1>4 DEF Game

LEMMA SeatStep == Inv /\ Seat /\ [Next]_vars => Seat'
  <1> SUFFICES ASSUME Inv, Seat, [Next]_vars PROVE Seat'
    OBVIOUS
  <1>1. ASSUME NEW t \in Threads, Store(t) PROVE Seat'
    BY <1>1, StoreKeeps DEF Seat, Store, outside
  <1>2. CASE UNCHANGED vars
    BY <1>2 DEF Seat, vars
  <1>3. QED
    BY <1>1, <1>2, GameSeat, CallbacksKeep DEF Next, Seat

\* Whatever order the HUD and the loading screen come and go in, the gate is
\* open exactly for the seat the game shows.
THEOREM GateFollows == Spec => []GateFollowsGame
  <1>1. Init => Seat
    <2> SUFFICES ASSUME Init PROVE Seat
      OBVIOUS
    <2>1. ~gate.menu /\ menus = {} /\ ~gate.pilot /\ ~seat.piloting /\ ~seat.hud
      BY DEF Init
    <2>2. QED
      BY <2>1 DEF Seat
  <1>2. Seat => GateFollowsGame
    BY DEF Seat, GateFollowsGame
  <1>3. QED
    BY <1>1, <1>2, InitInv, NextInv, SeatStep, PTL DEF Spec

-----------------------------------------------------------------------------
(* The post that came first.                                               *)

\* The game's thread is about to forget it.
Forgetting == todo["game"] # <<>> /\ Head(todo["game"]) = Forget

Consuming == {"consume", "consumeMenu", "consumeR2"}
Remembering == {"rememberMenu", "rememberR2"}

Guarded ==
  /\ clock # 0
  /\ my["wwise"].at # "idle" => my["wwise"].when # 0
  /\ gate.first # Nothing => gate.first.at # 0
  /\ gate.first # Nothing => (gate.pilot /\ ~gate.menu) \/ Forgetting
  /\ my["wwise"].at \in Remembering => gate.pilot \/ Forgetting
  /\ my["wwise"].at = "rememberR2" => ~gate.menu \/ Forgetting
  /\ gate.first # Nothing /\ gate.r2 => my["worker"].at \in Consuming \/ Forgetting

LEMMA InitGuarded == Init => Guarded
  <1> SUFFICES ASSUME Init PROVE Guarded
    OBVIOUS
  <1>1. my["wwise"].at = "idle" /\ gate.first = Nothing /\ clock = 1
    BY DEF Init, Threads, Blank
  <1>2. QED
    BY <1>1 DEF Guarded, Remembering

LEMMA StoreGuarded ==
  ASSUME Inv, Guarded, NEW t \in Threads, Store(t)
  PROVE  Guarded'
  <1>1. /\ gate'.pilot = gate.pilot /\ gate'.menu = gate.menu
        /\ gate'.r2 => gate.r2
        /\ gate'.first # Nothing => gate'.first = gate.first
        /\ Head(todo[t]) = Forget => gate'.first = Nothing
    BY StoreKeeps
  <1>2. my' = my /\ clock' = clock /\ \A u \in Threads : u # t => todo'[u] = todo[u]
    BY DEF Store, outside, Inv, Typed
  <1>3. "game" \in Threads /\ "wwise" \in Threads
    BY DEF Threads
  <1>4. CASE t = "game" /\ Head(todo[t]) = Forget
    <2>1. gate.lock = "none" /\ "none" \notin Threads
      BY <1>4 DEF Store, Forget, Threads
    <2>2. my["wwise"].at \notin Remembering
      BY <2>1, <1>3 DEF Locked, Inside, Remembering, Inv
    <2>3. QED
      BY <1>1, <1>2, <1>4, <2>2 DEF Guarded, Remembering
  <1>5. CASE t = "game" /\ Head(todo[t]) # Forget
    <2>1. ~Forgetting
      BY <1>5 DEF Forgetting
    <2>2. QED
      BY <1>1, <1>2, <2>1 DEF Guarded
  <1>6. CASE t # "game"
    <2>1. Forgetting' <=> Forgetting
      BY <1>2, <1>3, <1>6 DEF Forgetting
    <2>2. QED
      BY <1>1, <1>2, <2>1 DEF Guarded
  <1>7. QED
    BY <1>4, <1>5, <1>6

LEMMA GameGuarded ==
  ASSUME Inv, Guarded, Game
  PROVE  Guarded'
  <1>1. todo["game"] = <<>> /\ ~Forgetting
    BY DEF Game, LoadingMenu, SpaceshipHudMenu, BlockingMenu, Ready, Forgetting
  <1>2. ForgetAndWipe # <<>> /\ Head(ForgetAndWipe) = Forget
        /\ <<Forget>> # <<>> /\ Head(<<Forget>>) = Forget
    BY DEF ForgetAndWipe
  <1>3. "game" \in Threads /\ gate \in Gates /\ todo \in [Threads -> Seq(Writes)]
    BY DEF Threads, Inv, Typed
  <1>4. ASSUME NEW on \in BOOLEAN, SetPilotActive(on)
        PROVE  Guarded'
    <2>1. CASE on /\ gate.pilot
      <3>1. gate' = gate
        BY <1>3, <1>4, <2>1 DEF SetPilotActive, Gates
      <3>2. QED
        BY <1>1, <1>4, <3>1 DEF SetPilotActive, Guarded
    <2>2. CASE ~(on /\ gate.pilot)
      <3>1. todo'["game"] = ForgetAndWipe
        BY <1>3, <1>4, <2>2 DEF SetPilotActive
      <3>2. Forgetting'
        BY <3>1, <1>2 DEF Forgetting
      <3>3. UNCHANGED <<my, clock>> /\ gate'.first = gate.first /\ gate'.r2 = gate.r2
        BY <1>3, <1>4 DEF SetPilotActive, Gates
      <3>4. QED
        BY <3>2, <3>3 DEF Guarded
    <2>3. QED
      BY <2>1, <2>2
  <1>5. ASSUME NEW on \in BOOLEAN, SetMenuBlocked(on)
        PROVE  Guarded'
    <2>1. /\ UNCHANGED <<my, clock>> /\ gate'.first = gate.first /\ gate'.r2 = gate.r2
          /\ gate'.pilot = gate.pilot /\ gate'.menu = on
      BY <1>3, <1>5 DEF SetMenuBlocked, Gates
    <2>2. CASE on = gate.menu
      BY <1>1, <2>1, <2>2 DEF Guarded
    <2>3. CASE on # gate.menu
      <3>1. todo'["game"] = IF on THEN ForgetAndWipe ELSE <<Forget>>
        BY <1>3, <1>5, <2>3 DEF SetMenuBlocked, Gates
      <3>2. Forgetting'
        BY <3>1, <1>2 DEF Forgetting
      <3>3. QED
        BY <2>1, <3>2 DEF Guarded
    <2>4. QED
      BY <2>2, <2>3
  <1>6. ASSUME SeatUnmoved
        PROVE  Guarded'
    BY <1>6 DEF SeatUnmoved, Guarded, Forgetting
  <1>7. QED
    BY <1>4, <1>5, <1>6 DEF Game, LoadingMenu, SpaceshipHudMenu, BlockingMenu

\* The game is about to forget as long as its next store is untouched.
LEMMA ForgettingKept ==
  ASSUME Inv, todo'["game"] = todo["game"]
  PROVE  Forgetting' <=> Forgetting
  BY DEF Forgetting

LEMMA GoAt ==
  ASSUME Inv, NEW t \in Threads, NEW step, Go(t, step)
  PROVE  /\ my'[t].at = step
         /\ step # "idle" => my'[t].when = my[t].when
         /\ \A u \in Threads : u # t => my'[u] = my[u]
  BY DEF Go, Blank, Mine, Inv, Typed

LEMMA WorkerGuarded ==
  ASSUME Inv, Guarded, Worker
  PROVE  Guarded'
  <1>1. /\ "worker" \in Threads /\ "wwise" \in Threads /\ "game" \in Threads
        /\ gate \in Gates /\ my["worker"] \in Mine /\ todo \in [Threads -> Seq(Writes)]
        /\ my \in [Threads -> Mine]
    BY DEF Threads, Inv, Typed
  <1>2. todo'["game"] = todo["game"] /\ clock' = clock /\ my'["wwise"] = my["wwise"]
    BY <1>1 DEF Worker, Sample, ControllerGone, Observe, ObserveRightTrigger, Enter, StillNoMenu,
                Consume, Go, outside
  <1>3. gate'.pilot = gate.pilot /\ gate'.menu = gate.menu /\ (Forgetting' <=> Forgetting)
    BY <1>2, CallbacksKeep, ForgettingKept
  <1>4. ASSUME NEW level, NEW next, Observe(level, next)
        PROVE  Guarded'
    <2>1. gate' = gate /\ my["worker"].at = "idle"
      BY <1>4 DEF Observe, Ready
    <2>2. QED
      BY <1>2, <1>3, <2>1 DEF Guarded, Consuming
  <1>5. CASE ObserveRightTrigger
    <2>1. gate'.first = gate.first /\ gate'.r2 = my["worker"].high
      BY <1>1, <1>5 DEF ObserveRightTrigger, Gates
    <2>2. my["worker"].high => my'["worker"].at \in Consuming
      BY <1>1, <1>5, GoAt DEF ObserveRightTrigger, Consuming
    <2>3. QED
      BY <1>2, <1>3, <2>1, <2>2 DEF Guarded
  <1>6. CASE Enter("worker", "consume", "consumeMenu")
    <2>1. gate'.first = gate.first /\ gate'.r2 = gate.r2
      BY <1>1, <1>6 DEF Enter, Gates
    <2>2. my'["worker"].at = IF gate.pilot THEN "consumeMenu" ELSE "idle"
      BY <1>1, <1>6, GoAt DEF Enter
    <2>3. QED
      BY <1>2, <1>3, <2>1, <2>2 DEF Guarded, Consuming
  <1>7. CASE StillNoMenu("worker", "consumeMenu", "consumeR2")
    <2>1. gate'.first = gate.first /\ gate'.r2 = gate.r2
      BY <1>1, <1>7 DEF StillNoMenu, Gates
    <2>2. my'["worker"].at = IF gate.menu THEN "idle" ELSE "consumeR2"
      BY <1>1, <1>7, GoAt DEF StillNoMenu
    <2>3. QED
      BY <1>2, <1>3, <2>1, <2>2 DEF Guarded, Consuming
  <1>8. CASE Consume
    <2>1. gate'.r2 = gate.r2 /\ gate'.first = IF gate.r2 /\ gate.first.at # 0 THEN Nothing
                                             ELSE gate.first
      BY <1>1, <1>8 DEF Consume, Gates
    <2>2. gate'.first # Nothing /\ gate'.r2 => FALSE
      BY <2>1 DEF Guarded
    <2>3. gate'.first # Nothing => gate'.first = gate.first
      BY <2>1
    <2>4. QED
      BY <1>2, <1>3, <2>2, <2>3 DEF Guarded
  <1>9. QED
    BY <1>4, <1>5, <1>6, <1>7, <1>8 DEF Worker, Sample, ControllerGone

LEMMA WwiseGuarded ==
  ASSUME Inv, Guarded, Wwise
  PROVE  Guarded'
  <1>1. /\ "worker" \in Threads /\ "wwise" \in Threads /\ "game" \in Threads
        /\ gate \in Gates /\ my["wwise"] \in Mine /\ todo \in [Threads -> Seq(Writes)]
        /\ my \in [Threads -> Mine] /\ clock \in Nat
    BY DEF Threads, Inv, Typed
  <1>2. todo'["game"] = todo["game"] /\ clock' = clock /\ my'["worker"] = my["worker"]
    BY <1>1 DEF Wwise, Post, LookAtR2, LookAtStream, LookAtObject, LookAtPress, Claim, Enter,
                StillNoMenu, Remember, Go, outside
  <1>3. gate'.pilot = gate.pilot /\ gate'.menu = gate.menu /\ (Forgetting' <=> Forgetting)
    BY <1>2, CallbacksKeep, ForgettingKept
  <1>4. ASSUME NEW object, NEW alias, Post(object, alias)
        PROVE  Guarded'
    <2>1. gate' = gate /\ my'["wwise"].at = "pilot" /\ my'["wwise"].when = clock
      BY <1>1, <1>4 DEF Post, Blank
    <2>2. QED
      BY <1>2, <1>3, <2>1 DEF Guarded, Remembering
  <1>5. CASE LookAtR2 \/ LookAtStream \/ LookAtObject \/ LookAtPress
    <2>1. /\ gate' = gate
          /\ my'["wwise"].at \notin Remembering
          /\ my["wwise"].at # "idle"
          /\ my'["wwise"].at # "idle" => my'["wwise"].when = my["wwise"].when
      <3>1. CASE LookAtR2
        BY <1>1, <3>1 DEF LookAtR2, Ready, Remembering, Mine
      <3>2. CASE LookAtObject
        <4>1. my'["wwise"] = IF gate.object = my["wwise"].object
                             THEN [my["wwise"] EXCEPT !.stream = TRUE, !.at = "claim"] ELSE Blank
          BY <1>1, <3>2 DEF LookAtObject
        <4>2. CASE gate.object = my["wwise"].object
          BY <1>1, <3>2, <4>1, <4>2 DEF LookAtObject, Ready, Remembering, Mine
        <4>3. CASE gate.object # my["wwise"].object
          BY <3>2, <4>1, <4>3 DEF LookAtObject, Ready, Remembering, Blank
        <4>4. QED
          BY <4>2, <4>3
      <3>3. CASE LookAtStream
        BY <1>1, <3>3, GoAt DEF LookAtStream, Ready, Remembering
      <3>4. CASE LookAtPress
        BY <1>1, <3>4, GoAt DEF LookAtPress, Ready, Remembering
      <3>5. QED
        BY <1>5, <3>1, <3>2, <3>3, <3>4
    <2>2. QED
      BY <1>2, <1>3, <2>1 DEF Guarded, Remembering
  <1>6. CASE Claim
    <2>1. my'["wwise"].at = "idle" /\ gate'.first = gate.first /\ gate'.r2 = gate.r2
      BY <1>1, <1>6, GoAt DEF Claim, Gates
    <2>2. QED
      BY <1>2, <1>3, <2>1 DEF Guarded, Remembering
  <1>7. CASE Enter("wwise", "remember", "rememberMenu")
    <2>1. gate'.first = gate.first /\ gate'.r2 = gate.r2
      BY <1>1, <1>7 DEF Enter, Gates
    <2>2. /\ my'["wwise"].at = IF gate.pilot THEN "rememberMenu" ELSE "idle"
          /\ my["wwise"].at # "idle"
          /\ my'["wwise"].at # "idle" => my'["wwise"].when = my["wwise"].when
      BY <1>1, <1>7, GoAt DEF Enter, Ready
    <2>3. QED
      BY <1>2, <1>3, <2>1, <2>2 DEF Guarded, Remembering
  <1>8. CASE StillNoMenu("wwise", "rememberMenu", "rememberR2")
    <2>1. gate'.first = gate.first /\ gate'.r2 = gate.r2
      BY <1>1, <1>8 DEF StillNoMenu, Gates
    <2>2. /\ my'["wwise"].at = IF gate.menu THEN "idle" ELSE "rememberR2"
          /\ my["wwise"].at = "rememberMenu"
          /\ my'["wwise"].at # "idle" => my'["wwise"].when = my["wwise"].when
      BY <1>1, <1>8, GoAt DEF StillNoMenu, Ready
    <2>3. QED
      BY <1>2, <1>3, <2>1, <2>2 DEF Guarded, Remembering
  <1>9. CASE Remember
    <2>1. my["wwise"].at = "rememberR2" /\ my'["wwise"].at = "idle"
      BY <1>1, <1>9, GoAt DEF Remember, Ready
    <2>2. (gate.pilot /\ ~gate.menu) \/ Forgetting
      BY <2>1 DEF Guarded, Remembering
    <2>3. /\ gate'.r2 = gate.r2
          /\ \/ gate'.first = gate.first
             \/ ~gate.r2 /\ gate'.first = [at |-> my["wwise"].when, object |-> my["wwise"].object]
      BY <1>1, <1>9 DEF Remember, Gates
    <2>4. my["wwise"].when # 0
      BY <2>1 DEF Guarded
    <2>5. CASE gate'.first = gate.first
      BY <1>2, <1>3, <2>1, <2>3, <2>5 DEF Guarded, Remembering
    <2>6. CASE ~gate.r2 /\ gate'.first.at = my["wwise"].when
      BY <1>2, <1>3, <2>1, <2>2, <2>3, <2>4, <2>6 DEF Guarded, Remembering
    <2>7. QED
      BY <2>3, <2>5, <2>6
  <1>10. QED
    BY <1>4, <1>5, <1>6, <1>7, <1>8, <1>9 DEF Wwise

LEMMA LookGuarded ==
  ASSUME Inv, Guarded, NEW t \in {"worker", "wwise"}, LookAtSeat(t) \/ LookAtMenu(t)
  PROVE  Guarded'
  <1>1. t \in Threads /\ "worker" \in Threads /\ "wwise" \in Threads
    BY DEF Threads
  <1>2. PICK step \in {"idle", "menu", "r2"} : Go(t, step)
    BY DEF LookAtSeat, LookAtMenu
  <1>3. /\ my'[t].at = step /\ \A u \in Threads : u # t => my'[u] = my[u]
        /\ step # "idle" => my'[t].when = my[t].when
    BY <1>1, <1>2, GoAt
  <1>4. /\ UNCHANGED <<gate, todo, clock>> /\ (Forgetting' <=> Forgetting)
        /\ my[t].at \in {"pilot", "menu"}
    BY DEF LookAtSeat, LookAtMenu, Ready, outside, Forgetting
  <1>5. QED
    BY <1>1, <1>2, <1>3, <1>4 DEF Guarded, Consuming, Remembering

LEMMA GuardedStep == Inv /\ Guarded /\ [Next]_vars => Guarded'
  <1> SUFFICES ASSUME Inv, Guarded, [Next]_vars PROVE Guarded'
    OBVIOUS
  <1>1. CASE Tick
    <2>1. clock \in Nat /\ clock' = clock + 1
      BY <1>1 DEF Tick, Inv, Typed
    <2>2. QED
      BY <1>1, <2>1 DEF Tick, Guarded, Forgetting
  <1>2. CASE UNCHANGED vars
    BY <1>2 DEF vars, Guarded, Forgetting
  <1>3. QED
    BY <1>1, <1>2, GameGuarded, WorkerGuarded, WwiseGuarded, LookGuarded, StoreGuarded DEF Next

\* A post that came first never outlives the seat, a menu or the pull that
\* should have found it, however the three threads interleave.
THEOREM FirstPost == Spec => []FirstPostIsGuarded
  <1>1. Guarded => FirstPostIsGuarded
    BY DEF Guarded, FirstPostIsGuarded, Quiet, Ready, Forgetting, Consuming
  <1>2. QED
    BY <1>1, InitInv, NextInv, InitGuarded, GuardedStep, PTL DEF Spec
=============================================================================
