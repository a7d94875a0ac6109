-------------------------- MODULE SpeakerLocksProofs --------------------------
(***************************************************************************)
(* Theorems about SpeakerLocks, whatever the clients, links and settings.   *)
(* Each program is annotated with the set of mutexes its thread holds       *)
(* before each step; the discipline of the code is a condition on a step    *)
(* and that set, so it is shown once for each program and carries over to   *)
(* every interleaving.                                                      *)
(***************************************************************************)
EXTENDS SpeakerLocks, TLAPS

\* The order in which a thread takes the mutexes.
Rank(l) ==
  CASE l = "playback"  -> 1
    [] l = "rover"     -> 2
    [] l = "state"     -> 3
    [] l = "transport" -> 4
    [] l = "client"    -> 5
    [] OTHER           -> 6

Steps == [op : {"lock", "unlock", "report", "join", "start"}, on : Locks]

\* What a step s demands of the mutexes h its thread holds, and what it makes of
\* them.
Disciplined(s, h, next) ==
  CASE s.op = "lock"   -> /\ s.on \notin h /\ next = h \cup {s.on}
                          /\ \A k \in h : Rank(k) < Rank(s.on)
    [] s.op = "unlock" -> s.on \in h /\ next = h \ {s.on}
    [] s.op = "report" -> /\ "client" \notin h /\ "speaker" \notin h /\ s.on = "playback"
                          /\ "state" \in h \/ h = {}
                          /\ next = h
    [] s.op = "join"   -> "state" \in h /\ next = h
    [] OTHER           -> next = h

\* a names, before each step of the program p and after the last, the mutexes held.
Annotates(a, p) ==
  /\ a \in [1..(Len(p) + 1) -> SUBSET Locks]
  /\ \A i \in 1..Len(p) : Disciplined(p[i], a[i], a[i + 1])

\* A program that may run with h held and gives back what it takes.
Safe(p, h) ==
  /\ p \in Seq(Steps)
  /\ \E a : Annotates(a, p) /\ a[1] = h /\ a[Len(p) + 1] = h

LEMMA EmptySafe == ASSUME NEW h \in SUBSET Locks PROVE Safe(<<>>, h)
<1> DEFINE a == [i \in 1..1 |-> h]
<1>1. Annotates(a, <<>>) /\ a[1] = h /\ a[Len(<<>>) + 1] = h
  BY DEF Annotates
<1> QED BY <1>1 DEF Safe

\* A step that leaves what is held.
LEMMA StepSafe ==
  ASSUME NEW h \in SUBSET Locks, NEW s \in Steps, Disciplined(s, h, h)
  PROVE  Safe(<<s>>, h)
<1> DEFINE a == [i \in 1..2 |-> h]
<1>1. Annotates(a, <<s>>)
  BY DEF Annotates
<1>2. a[1] = h /\ a[Len(<<s>>) + 1] = h
  OBVIOUS
<1>3. <<s>> \in Seq(Steps)
  OBVIOUS
<1> HIDE DEF a
<1> QED BY <1>1, <1>2, <1>3 DEF Safe

LEMMA ConcatSafe ==
  ASSUME NEW h \in SUBSET Locks, NEW p, NEW q, Safe(p, h), Safe(q, h)
  PROVE  Safe(p \o q, h)
<1>1. PICK a : Annotates(a, p) /\ a[1] = h /\ a[Len(p) + 1] = h
  BY DEF Safe
<1>2. PICK b : Annotates(b, q) /\ b[1] = h /\ b[Len(q) + 1] = h
  BY DEF Safe
<1>3. p \in Seq(Steps) /\ q \in Seq(Steps) /\ p \o q \in Seq(Steps)
      /\ Len(p) \in Nat /\ Len(q) \in Nat /\ Len(p \o q) = Len(p) + Len(q)
  BY DEF Safe
<1> DEFINE n == Len(p)
           m == Len(q)
           c == [i \in 1..(n + m + 1) |-> IF i <= n THEN a[i] ELSE b[i - n]]
<1>4. /\ \A i \in 1..n : (p \o q)[i] = p[i]
      /\ \A i \in (n + 1)..(n + m) : (p \o q)[i] = q[i - n]
  BY <1>3
<1>5. a \in [1..(n + 1) -> SUBSET Locks] /\ b \in [1..(m + 1) -> SUBSET Locks]
      /\ a[n + 1] = h /\ b[1] = h
  BY <1>1, <1>2 DEF Annotates
<1>6. c \in [1..(n + m + 1) -> SUBSET Locks]
  <2>1. ASSUME NEW i \in 1..(n + m + 1)
        PROVE  (IF i <= n THEN a[i] ELSE b[i - n]) \in SUBSET Locks
    <3>1. CASE i <= n
      <4>1. i \in 1..(n + 1)
        BY <1>3, <3>1
      <4> QED BY <1>5, <3>1, <4>1
    <3>2. CASE ~(i <= n)
      <4>1. i - n \in 1..(m + 1)
        BY <1>3, <3>2
      <4> QED BY <1>5, <3>2, <4>1
    <3> QED BY <3>1, <3>2
  <2> QED BY <2>1
<1>7. ASSUME NEW i \in 1..(n + m)
      PROVE  Disciplined((p \o q)[i], c[i], c[i + 1])
  <2>1. CASE i <= n
    <3>1. (p \o q)[i] = p[i] /\ c[i] = a[i] /\ c[i + 1] = a[i + 1]
      BY <1>3, <1>4, <1>5, <2>1
    <3> QED BY <1>1, <1>3, <2>1, <3>1 DEF Annotates
  <2>2. CASE i > n
    <3>1. (p \o q)[i] = q[i - n] /\ c[i] = b[i - n] /\ c[i + 1] = b[(i - n) + 1]
          /\ i - n \in 1..m
      BY <1>3, <1>4, <2>2
    <3> QED BY <1>2, <3>1 DEF Annotates
  <2> QED BY <1>3, <2>1, <2>2
<1>8. c[1] = h /\ c[n + m + 1] = h
  BY <1>1, <1>2, <1>3, <1>5
<1> HIDE DEF c
<1>9. Annotates(c, p \o q)
  BY <1>3, <1>6, <1>7 DEF Annotates
<1> QED BY <1>3, <1>8, <1>9 DEF Safe

\* A critical section takes a mutex that ranks above what is held.
LEMMA HoldingSafe ==
  ASSUME NEW h \in SUBSET Locks, NEW l \in Locks, NEW p, Safe(p, h \cup {l}),
         \A k \in h : Rank(k) < Rank(l), l \notin h
  PROVE  Safe(Holding(l, p), h)
<1>1. PICK a : Annotates(a, p) /\ a[1] = h \cup {l} /\ a[Len(p) + 1] = h \cup {l}
  BY DEF Safe
<1> DEFINE n == Len(p)
           q == Holding(l, p)
           c == [i \in 1..(n + 3) |-> IF i \in 2..(n + 2) THEN a[i - 1] ELSE h]
           on == [op |-> "lock", on |-> l]
           off == [op |-> "unlock", on |-> l]
<1>2. p \in Seq(Steps) /\ n \in Nat /\ on \in Steps /\ off \in Steps
  BY DEF Safe, Steps
<1>3. q = <<on>> \o p \o <<off>>
  BY DEF Holding, Lock, Unlock
<1> HIDE DEF q, on, off
<1>4. /\ q \in Seq(Steps) /\ Len(q) = n + 2
      /\ q[1] = on /\ q[n + 2] = off
      /\ \A i \in 2..(n + 1) : q[i] = p[i - 1]
  BY <1>2, <1>3
<1>5. a \in [1..(n + 1) -> SUBSET Locks]
  BY <1>1 DEF Annotates
<1>6. c \in [1..(n + 3) -> SUBSET Locks]
  <2>1. ASSUME NEW i \in 1..(n + 3)
        PROVE  (IF i \in 2..(n + 2) THEN a[i - 1] ELSE h) \in SUBSET Locks
    BY <1>2, <1>5
  <2> QED BY <2>1
<1>7. /\ c[1] = h /\ c[2] = h \cup {l} /\ c[n + 2] = h \cup {l} /\ c[n + 3] = h
      /\ \A i \in 2..(n + 2) : c[i] = a[i - 1]
  BY <1>1, <1>2
<1> HIDE DEF c
<1>8. Disciplined(q[1], c[1], c[2])
  BY <1>4, <1>7 DEF Disciplined, on
<1>9. Disciplined(q[n + 2], c[n + 2], c[n + 3])
  BY <1>4, <1>7 DEF Disciplined, off
<1>10. ASSUME NEW i \in 2..(n + 1) PROVE Disciplined(q[i], c[i], c[i + 1])
  <2>1. q[i] = p[i - 1] /\ c[i] = a[i - 1] /\ c[i + 1] = a[(i - 1) + 1] /\ i - 1 \in 1..n
    BY <1>2, <1>4, <1>7
  <2> QED BY <1>1, <2>1 DEF Annotates
<1>11. \A i \in 1..(n + 2) : Disciplined(q[i], c[i], c[i + 1])
  <2>1. \A i \in 1..(n + 2) : i = 1 \/ i = n + 2 \/ i \in 2..(n + 1)
    BY <1>2
  <2>2. (n + 2) + 1 = n + 3
    BY <1>2
  <2> QED BY <1>8, <1>9, <1>10, <2>1, <2>2
<1>12. Annotates(c, q)
  <2>1. Len(q) + 1 = n + 3
    BY <1>2, <1>4
  <2> QED BY <1>4, <1>6, <1>11, <2>1 DEF Annotates
<1>13. c[1] = h /\ c[Len(q) + 1] = h
  <2>1. Len(q) + 1 = n + 3
    BY <1>2, <1>4
  <2> QED BY <1>7, <2>1
<1> QED BY <1>4, <1>12, <1>13 DEF Safe, q
-------------------------------------------------------------------------------
(* The programs, from the inside out.  A call is safe under every set of    *)
(* mutexes that its callers hold.                                          *)

\* What is held by the callers of a transport call.
Above(l) == {k \in Locks : Rank(k) < Rank(l)}

LEMMA Ranks ==
  /\ Rank("playback") = 1 /\ Rank("rover") = 2 /\ Rank("state") = 3
  /\ Rank("transport") = 4 /\ Rank("client") = 5 /\ Rank("speaker") = 6
  BY DEF Rank

\* Entering a critical section from above it.
LEMMA EnterSafe ==
  ASSUME NEW l \in Locks, NEW h \in SUBSET Above(l), NEW p, Safe(p, h \cup {l})
  PROVE  Safe(Holding(l, p), h)
<1>1. Rank(l) \in Nat
  BY Ranks DEF Locks
<1>2. h \in SUBSET Locks /\ l \notin h /\ \A k \in h : Rank(k) < Rank(l)
  BY <1>1 DEF Above
<1> QED BY <1>2, HoldingSafe

LEMMA ReportSafe ==
  ASSUME NEW h \in SUBSET Locks, "client" \notin h, "speaker" \notin h,
         "state" \in h \/ h = {}
  PROVE  Safe(Report, h)
<1> DEFINE s == [op |-> "report", on |-> "playback"]
<1>1. s \in Steps /\ s.op = "report" /\ s.on = "playback"
  BY DEF Steps, Locks
<1>2. Report = <<s>>
  BY DEF Report
<1> HIDE DEF s
<1> QED BY <1>1, <1>2, StepSafe DEF Disciplined

LEMMA JoinSafe ==
  ASSUME NEW h \in SUBSET Locks, "state" \in h
  PROVE  Safe(Join, h) /\ Safe(Start, h)
<1> DEFINE j == [op |-> "join", on |-> "playback"]
           s == [op |-> "start", on |-> "playback"]
<1>1. j \in Steps /\ j.op = "join" /\ s \in Steps /\ s.op = "start"
  BY DEF Steps, Locks
<1>2. Join = <<j>> /\ Start = <<s>>
  BY DEF Join, Start
<1> HIDE DEF j, s
<1> QED BY <1>1, <1>2, StepSafe DEF Disciplined

\* Sets of callers' mutexes that do not reach into the transport.
Outer == {h \in SUBSET Locks : "client" \notin h /\ "speaker" \notin h}

LEMMA AboveFacts ==
  /\ Above("speaker") = Locks \ {"speaker"}
  /\ Above("client") = Locks \ {"client", "speaker"}
  /\ Above("transport") = {"playback", "rover", "state"}
  /\ Above("state") = {"playback", "rover"}
  /\ Above("rover") = {"playback"} /\ Above("playback") = {}
  BY Ranks DEF Above, Locks

LEMMA ClearSafe ==
  ASSUME NEW h \in SUBSET Locks, "speaker" \notin h
  PROVE  Safe(ClearSpeakerState, h) /\ Safe(RenderOneBlock, h)
<1>1. Safe(<<>>, h \cup {"speaker"}) /\ h \in SUBSET Above("speaker") /\ "speaker" \in Locks
  BY EmptySafe, AboveFacts DEF Locks
<1> QED BY <1>1, EnterSafe DEF ClearSpeakerState, RenderOneBlock

LEMMA ClearPlaybackSafe ==
  ASSUME NEW h \in Outer, "state" \in h \/ h = {}
  PROVE  Safe(ClearSpeakerPlayback, h) /\ Safe(TeardownTransport, h)
  BY ClearSafe, ReportSafe, ConcatSafe DEF Outer, ClearSpeakerPlayback, TeardownTransport

\* Under the manager's mutex, which every change of a client needs.
LEMMA ClientSafe ==
  ASSUME NEW h \in Outer, "state" \in h
  PROVE  /\ Safe(StopSpeakerClient, h) /\ Safe(StartSpeakerClient, h)
         /\ Safe(PostUpdate, h)
<1> DEFINE g == h \cup {"client"}
<1>1. g \in SUBSET Locks /\ "speaker" \notin g /\ "state" \in g
      /\ h \in SUBSET Above("client") /\ "client" \in Locks /\ h \in SUBSET Locks
  BY AboveFacts DEF Outer, Locks
<1> HIDE DEF g
<1>2. Safe(ClearSpeakerState, g) /\ Safe(<<>>, g) /\ Safe(Join, g) /\ Safe(Start, g)
  BY <1>1, ClearSafe, EmptySafe, JoinSafe
<1>3. Safe(StopWorker, g)
  BY <1>1, <1>2, ConcatSafe DEF StopWorker
<1>4. Safe(ClearSpeakerState \o (IF HapticsClient THEN <<>> ELSE StopWorker), g)
  BY <1>1, <1>2, <1>3, ConcatSafe
<1>5. Safe(IF HapticsClient THEN <<>> ELSE Start, g)
  BY <1>2
<1>6. /\ Safe(Holding("client", ClearSpeakerState \o (IF HapticsClient THEN <<>> ELSE StopWorker)), h)
      /\ Safe(StartSpeakerClient, h) /\ Safe(Holding("client", <<>>), h)
  BY <1>1, <1>2, <1>4, <1>5, EnterSafe DEF g, StartSpeakerClient
<1>7. Safe(Report, h) /\ Safe(ClearSpeakerState, h)
  BY <1>1, ReportSafe, ClearSafe DEF Outer
<1>8. Safe(StopSpeakerClient, h)
  BY <1>1, <1>6, <1>7, ConcatSafe DEF StopSpeakerClient
<1>9. Safe(PostUpdate, h)
  BY <1>1, <1>6, <1>7, ConcatSafe DEF PostUpdate, ClearSpeakerState
<1> QED BY <1>6, <1>8, <1>9

\* What holds state and not transport: the calls of the manager.
Managed == {h \in SUBSET {"playback", "rover", "state"} : "state" \in h}

LEMMA TransportSafe ==
  ASSUME NEW h \in Managed, NEW p, Safe(p, h \cup {"transport"})
  PROVE  Safe(Holding("transport", p), h)
<1>1. h \in SUBSET Above("transport") /\ "transport" \in Locks
  BY AboveFacts DEF Managed, Locks
<1> QED BY <1>1, EnterSafe

LEMMA DualModeSafe ==
  ASSUME NEW h \in Managed
  PROVE  /\ \A change : Safe(Synchronize(change), h)
         /\ Safe(Holding("transport", <<>>), h)
         /\ Safe(Holding("transport", StopSpeakerClient), h)
         /\ Safe(Holding("transport", StartSpeakerClient), h)
         /\ Safe(Holding("transport", ClearSpeakerPlayback), h)
<1> DEFINE g == h \cup {"transport"}
<1>1. g \in Outer /\ "state" \in g /\ g \in SUBSET Locks
  BY DEF Managed, Outer, Locks
<1> HIDE DEF g
<1>2. /\ Safe(<<>>, g) /\ Safe(StopSpeakerClient, g) /\ Safe(StartSpeakerClient, g)
      /\ Safe(ClearSpeakerPlayback, g)
  BY <1>1, EmptySafe, ClientSafe, ClearPlaybackSafe
<1>3. Safe(ClearSpeakerPlayback \o StopSpeakerClient, g)
  BY <1>1, <1>2, ConcatSafe
<1>4. ASSUME NEW change PROVE Safe(Synchronize(change), h)
  <2> DEFINE p == CASE change = "leave" -> ClearSpeakerPlayback \o StopSpeakerClient
                    [] change = "enter" -> StartSpeakerClient
                    [] OTHER            -> <<>>
  <2>1. Safe(p, g)
    BY <1>2, <1>3
  <2> HIDE DEF p
  <2>2. Safe(Holding("transport", p), h)
    BY <2>1, TransportSafe DEF g
  <2> QED BY <2>2 DEF Synchronize, p
<1> QED BY <1>2, <1>4, TransportSafe DEF g

LEMMA StateSafe ==
  ASSUME NEW h \in SUBSET {"playback", "rover"}, NEW p, Safe(p, h \cup {"state"})
  PROVE  Safe(Holding("state", p), h)
<1>1. h \in SUBSET Above("state") /\ "state" \in Locks
  BY AboveFacts DEF Locks
<1> QED BY <1>1, EnterSafe

LEMMA ManagerSafe ==
  ASSUME NEW h \in SUBSET {"playback", "rover"}, NEW change
  PROVE  /\ Safe(Submit(change), h) /\ Safe(Poll(change), h) /\ Safe(Disable(change), h)
         /\ Safe(Enable, h) /\ Safe(ChangePolicy, h)
<1> DEFINE g == h \cup {"state"}
<1>1. g \in Managed /\ g \in SUBSET Locks /\ g \in Outer /\ "state" \in g
  BY DEF Managed, Outer, Locks
<1> HIDE DEF g
<1>2. /\ Safe(Synchronize(change), g) /\ Safe(Synchronize("same"), g)
      /\ Safe(Holding("transport", <<>>), g)
      /\ Safe(Holding("transport", StopSpeakerClient), g)
      /\ Safe(Holding("transport", StartSpeakerClient), g)
      /\ Safe(Holding("transport", ClearSpeakerPlayback), g)
      /\ Safe(PostUpdate, g)
  BY <1>1, DualModeSafe, ClientSafe
<1>3. Safe(Synchronize(change) \o Synchronize("same"), g)
  BY <1>1, <1>2, ConcatSafe
<1>4. Safe(Synchronize(change) \o Synchronize("same") \o PostUpdate, g)
  BY <1>1, <1>2, <1>3, ConcatSafe
<1>5. Safe(Synchronize(change) \o Holding("transport", StopSpeakerClient), g)
  BY <1>1, <1>2, ConcatSafe
<1>6. Safe(Holding("transport", <<>>) \o Holding("transport", StartSpeakerClient), g)
  BY <1>1, <1>2, ConcatSafe
<1> QED BY <1>2, <1>4, <1>5, <1>6, StateSafe DEF g, Submit, Poll, Disable, Enable, ChangePolicy

LEMMA OutermostSafe ==
  ASSUME NEW l \in {"playback", "rover"}, NEW p, Safe(p, {l})
  PROVE  Safe(Holding(l, p), {})
<1>1. {} \in SUBSET Above(l) /\ l \in Locks /\ {} \cup {l} = {l}
  BY DEF Locks
<1> QED BY <1>1, EnterSafe

\* Every thread keeps the discipline, whatever it runs.
LEMMA ProgramsSafe == ASSUME NEW t \in Threads, NEW p \in Programs(t) PROVE Safe(p, {})
<1>1. CASE t = "wwise"
  <2>1. p \in WwisePrograms
    BY <1>1 DEF Programs
  <2>2. CASE \E change \in Changes : p = Holding("playback", Submit(change))
    BY <2>2, ManagerSafe, OutermostSafe
  <2>3. CASE p = Holding("playback", <<>>)
    <3>1. Safe(<<>>, {"playback"})
      BY EmptySafe DEF Locks
    <3> QED BY <2>3, <3>1, OutermostSafe
  <2> QED BY <2>1, <2>2, <2>3 DEF WwisePrograms
<1>2. CASE t = "motion"
  <2>1. p \in MotionPrograms
    BY <1>2 DEF Programs
  <2>2. CASE \E change \in Changes : p = Holding("rover", Submit(change))
    BY <2>2, ManagerSafe, OutermostSafe
  <2>3. CASE \E change \in Changes : p = Poll(change)
    BY <2>3, ManagerSafe
  <2> QED BY <2>1, <2>2, <2>3 DEF MotionPrograms
<1>3. CASE t = "menu"
  <2>1. p \in MenuPrograms
    BY <1>3 DEF Programs
  <2>2. \/ \E change \in Changes : p = Disable(change) \/ p = Poll(change)
        \/ p = Enable \/ p = ChangePolicy
    BY <2>1 DEF MenuPrograms
  <2> QED BY <2>2, ManagerSafe
<1>4. CASE t = "boostpack"
  <2>1. {} \in Outer
    BY DEF Outer
  <2> QED BY <1>4, <2>1, ClearPlaybackSafe DEF Programs, BoostpackPrograms
<1>5. CASE t = "worker"
  <2>1. {} \in Outer
    BY DEF Outer
  <2>2. p \in {RenderOneBlock, TeardownTransport}
    BY <1>5 DEF Programs, WorkerPrograms
  <2> QED BY <2>1, <2>2, ClearPlaybackSafe, ClearSafe
<1> QED BY <1>1, <1>2, <1>3, <1>4, <1>5 DEF Threads
-------------------------------------------------------------------------------
(* The threads together.                                                   *)

Held(t) == {l \in Locks : owner[l] = t}

\* The rest of a program, run with h held, keeps the discipline and ends with
\* nothing held.
Continues(p, h) ==
  /\ p \in Seq(Steps)
  /\ \E a : Annotates(a, p) /\ a[1] = h /\ a[Len(p) + 1] = {}

\* The inductive invariant: the owners are what the programs account for.
Inv ==
  /\ todo \in [Threads -> Seq(Steps)]
  /\ owner \in [Locks -> Threads \cup {Nobody}]
  /\ \A t \in Threads : Continues(todo[t], Held(t))

LEMMA HeadContinues ==
  ASSUME NEW p, NEW h, Continues(p, h), p # <<>>
  PROVE  /\ Head(p) \in Steps
         /\ \E next : Disciplined(Head(p), h, next) /\ Continues(Tail(p), next)
<1>1. PICK a : Annotates(a, p) /\ a[1] = h /\ a[Len(p) + 1] = {}
  BY DEF Continues
<1> DEFINE n == Len(p)
           b == [i \in 1..n |-> a[i + 1]]
<1>2. /\ p \in Seq(Steps) /\ n \in Nat /\ n >= 1 /\ Tail(p) \in Seq(Steps)
      /\ Len(Tail(p)) = n - 1 /\ Head(p) = p[1] /\ Head(p) \in Steps
      /\ \A i \in 1..(n - 1) : Tail(p)[i] = p[i + 1]
  BY DEF Continues
<1>3. a \in [1..(n + 1) -> SUBSET Locks] /\ \A i \in 1..n : Disciplined(p[i], a[i], a[i + 1])
  BY <1>1 DEF Annotates
<1>4. b \in [1..((n - 1) + 1) -> SUBSET Locks] /\ b[1] = a[2] /\ b[n] = {}
  BY <1>1, <1>2, <1>3
<1>5. ASSUME NEW i \in 1..(n - 1) PROVE Disciplined(Tail(p)[i], b[i], b[i + 1])
  <2>1. i + 1 \in 1..n /\ b[i] = a[i + 1] /\ b[i + 1] = a[(i + 1) + 1] /\ Tail(p)[i] = p[i + 1]
    BY <1>2
  <2> QED BY <1>3, <2>1
<1> HIDE DEF b
<1>6. Annotates(b, Tail(p))
  BY <1>2, <1>4, <1>5 DEF Annotates
<1>7. (n - 1) + 1 = n
  BY <1>2
<1>8. Continues(Tail(p), a[2])
  BY <1>2, <1>4, <1>6, <1>7 DEF Continues
<1>9. Disciplined(p[1], a[1], a[2])
  BY <1>2, <1>3
<1> QED BY <1>1, <1>2, <1>8, <1>9

\* What the discipline says of the next step of a thread.
LEMMA NextStep ==
  ASSUME Inv, NEW t \in Threads, todo[t] # <<>>
  PROVE  /\ Head(todo[t]) \in Steps
         /\ Tail(todo[t]) \in Seq(Steps)
         /\ \E next : /\ Disciplined(Head(todo[t]), Held(t), next)
                      /\ Continues(Tail(todo[t]), next)
<1>1. Continues(todo[t], Held(t))
  BY DEF Inv
<1>2. /\ Head(todo[t]) \in Steps
      /\ \E next : /\ Disciplined(Head(todo[t]), Held(t), next)
                   /\ Continues(Tail(todo[t]), next)
  BY <1>1, HeadContinues
<1> QED BY <1>2 DEF Continues

LEMMA NobodyFacts == Nobody \notin Threads
  BY DEF Nobody, Threads

\* A step of one thread leaves what the others hold and have to do.
LEMMA OneThread ==
  ASSUME Inv, NEW t \in Threads, NEW p, todo' = [todo EXCEPT ![t] = p],
         owner' \in [Locks -> Threads \cup {Nobody}],
         \A u \in Threads \ {t} : Held(u)' = Held(u),
         Continues(p, Held(t)')
  PROVE  Inv'
<1>1. p \in Seq(Steps)
  BY DEF Continues
<1>2. todo' \in [Threads -> Seq(Steps)]
  BY <1>1 DEF Inv
<1>3. ASSUME NEW u \in Threads PROVE Continues(todo'[u], Held(u)')
  <2>1. CASE u = t
    <3>1. todo'[u] = p
      BY <2>1 DEF Inv
    <3> QED BY <2>1, <3>1
  <2>2. CASE u # t
    <3>1. todo'[u] = todo[u] /\ Held(u)' = Held(u)
      BY <2>2 DEF Inv
    <3> QED BY <3>1 DEF Inv
  <2> QED BY <2>1, <2>2
<1>4. \A u \in Threads : Continues(todo'[u], Held(u)')
  BY <1>3
<1> QED BY <1>2, <1>4 DEF Inv

LEMMA NextInv == ASSUME Inv, [Next]_vars PROVE Inv'
<1>1. CASE UNCHANGED vars
  BY <1>1 DEF vars, Inv, Held
<1>2. ASSUME NEW t \in Threads, Begin(t) PROVE Inv'
  <2>1. PICK p \in Programs(t) : todo' = [todo EXCEPT ![t] = p]
    BY <1>2 DEF Begin
  <2>2. UNCHANGED owner /\ todo[t] = <<>>
    BY <1>2 DEF Begin
  <2>3. Held(t) = {}
    <3>1. PICK a : Annotates(a, todo[t]) /\ a[1] = Held(t) /\ a[Len(todo[t]) + 1] = {}
      BY DEF Inv, Continues
    <3>2. Len(todo[t]) + 1 = 1
      BY <2>2
    <3> QED BY <3>1, <3>2
  <2>4. Continues(p, Held(t)')
    <3>1. Held(t)' = {}
      BY <2>2, <2>3 DEF Held
    <3> QED BY <3>1, ProgramsSafe DEF Safe, Continues
  <2>5. \A u \in Threads : Held(u)' = Held(u)
    BY <2>2 DEF Held
  <2> QED BY <2>1, <2>2, <2>4, <2>5, OneThread DEF Inv
<1>3. ASSUME NEW t \in Threads, Notify(t) \/ JoinWorker(t) \/ StartWorker(t) PROVE Inv'
  <2>1. /\ UNCHANGED owner /\ todo[t] # <<>> /\ todo' = [todo EXCEPT ![t] = Tail(todo[t])]
        /\ Head(todo[t]).op \in {"report", "join", "start"}
    BY <1>3 DEF Notify, JoinWorker, StartWorker, Running, Continue
  <2>2. Continues(Tail(todo[t]), Held(t))
    BY <2>1, NextStep DEF Disciplined
  <2>3. \A u \in Threads : Held(u)' = Held(u)
    BY <2>1 DEF Held
  <2> QED BY <2>1, <2>2, <2>3, OneThread DEF Inv
<1>4. ASSUME NEW t \in Threads, Acquire(t) PROVE Inv'
  <2> DEFINE l == Target(t)
  <2>1. /\ todo[t] # <<>> /\ Head(todo[t]).op = "lock" /\ owner[l] = Nobody
        /\ owner' = [owner EXCEPT ![l] = t] /\ todo' = [todo EXCEPT ![t] = Tail(todo[t])]
    BY <1>4 DEF Acquire, Running, Continue
  <2>2. l \in Locks
    BY <2>1, NextStep DEF Target, Steps
  <2>3. Continues(Tail(todo[t]), Held(t) \cup {l})
    BY <2>1, NextStep DEF Disciplined, Target
  <2> HIDE DEF l
  <2>4. Held(t)' = Held(t) \cup {l} /\ \A u \in Threads \ {t} : Held(u)' = Held(u)
    BY <2>1, <2>2, NobodyFacts DEF Held, Inv
  <2>5. owner' \in [Locks -> Threads \cup {Nobody}]
    BY <2>1 DEF Inv
  <2> QED BY <2>1, <2>3, <2>4, <2>5, OneThread
<1>5. ASSUME NEW t \in Threads, Release(t) PROVE Inv'
  <2> DEFINE l == Target(t)
  <2>1. /\ todo[t] # <<>> /\ Head(todo[t]).op = "unlock"
        /\ owner' = [owner EXCEPT ![l] = Nobody] /\ todo' = [todo EXCEPT ![t] = Tail(todo[t])]
    BY <1>5 DEF Release, Running, Continue
  <2>2. l \in Held(t) /\ Continues(Tail(todo[t]), Held(t) \ {l})
    BY <2>1, NextStep DEF Disciplined, Target
  <2> HIDE DEF l
  <2>3. l \in Locks /\ owner[l] = t
    BY <2>2 DEF Held
  <2>4. Held(t)' = Held(t) \ {l} /\ \A u \in Threads \ {t} : Held(u)' = Held(u)
    BY <2>1, <2>3, NobodyFacts DEF Held, Inv
  <2>5. owner' \in [Locks -> Threads \cup {Nobody}]
    BY <2>1 DEF Inv
  <2> QED BY <2>1, <2>2, <2>4, <2>5, OneThread
<1> QED BY <1>1, <1>2, <1>3, <1>4, <1>5 DEF Next

LEMMA InitInv == ASSUME Init PROVE Inv
<1>1. todo \in [Threads -> Seq(Steps)] /\ owner \in [Locks -> Threads \cup {Nobody}]
  BY DEF Init
<1>2. ASSUME NEW t \in Threads PROVE Continues(todo[t], Held(t))
  <2>1. Held(t) = {} /\ todo[t] = <<>>
    BY NobodyFacts DEF Init, Held
  <2> QED BY <2>1, EmptySafe DEF Safe, Continues
<1> QED BY <1>1, <1>2 DEF Inv

LEMMA Invariance == Spec => []Inv
  BY InitInv, NextInv, PTL DEF Spec
-------------------------------------------------------------------------------
\* The invalidation callback is called after the transport has let go of its
\* mutexes, whichever thread tears the voice down (reportPersistentInvalidation
\* in stopSpeakerClient, clearSpeakerPlayback and teardownTransport).
THEOREM CallbackOutside == Spec => []CallbackOutsideTransportLocks
<1>1. ASSUME Inv, NEW t \in Threads, Running(t, "report")
      PROVE  owner["client"] # t /\ owner["speaker"] # t
  <2>1. "client" \notin Held(t) /\ "speaker" \notin Held(t)
    BY <1>1, NextStep DEF Running, Disciplined
  <2> QED BY <2>1 DEF Held, Locks
<1>2. Inv => CallbackOutsideTransportLocks
  BY <1>1 DEF CallbackOutsideTransportLocks
<1> QED BY <1>2, Invariance, PTL

\* What a thread waits for, as a place in the order.
Awaited(t) == Rank(Target(t))

\* The threads t waits for, in a circle where no thread that holds _stateMutex
\* reports or joins, wait for a mutex that ranks above t's.
LEMMA Ascends ==
  ASSUME Inv, NEW S \in SUBSET Threads, Circular(S),
         \A t \in S : ~(owner["state"] = t /\ (Running(t, "report") \/ Running(t, "join"))),
         NEW t \in S
  PROVE  /\ Awaited(t) \in 1..6
         /\ \E u \in S : Awaited(t) < Awaited(u)
<1>1. ASSUME NEW x \in S
      PROVE  /\ todo[x] # <<>> /\ Target(x) \in Locks
             /\ \/ Running(x, "lock") /\ \A k \in Held(x) : Rank(k) < Awaited(x)
                \/ Running(x, "report") /\ Held(x) = {} /\ Target(x) = "playback"
             /\ \E y \in S : owner[Target(x)] = y
  <2>1. x \in Threads
    OBVIOUS
  <2>2. PICK y \in S : WaitsFor(x, y)
    BY DEF Circular
  <2>3. todo[x] # <<>>
    BY <2>2 DEF WaitsFor, Running
  <2>4. PICK next : Disciplined(Head(todo[x]), Held(x), next)
    BY <2>1, <2>3, NextStep
  <2>5. Head(todo[x]) \in Steps
    BY <2>1, <2>3, NextStep
  <2>6. Target(x) \in Locks
    BY <2>5 DEF Target, Steps
  <2>7. "state" \in Held(x) <=> owner["state"] = x
    BY DEF Held, Locks
  <2>8. ~Running(x, "join")
    <3>1. SUFFICES ASSUME Running(x, "join") PROVE FALSE
      OBVIOUS
    <3>2. "state" \in Held(x)
      BY <2>4, <3>1 DEF Running, Disciplined
    <3> QED BY <2>7, <3>1, <3>2
  <2>9. CASE Running(x, "lock") /\ owner[Target(x)] = y
    <3>1. \A k \in Held(x) : Rank(k) < Rank(Target(x))
      BY <2>4, <2>9 DEF Running, Disciplined, Target
    <3> QED BY <2>3, <2>6, <2>9, <3>1 DEF Awaited
  <2>10. CASE Running(x, "report") /\ owner["playback"] = y
    <3>1. /\ Target(x) = "playback"
          /\ "state" \in Held(x) \/ Held(x) = {}
      BY <2>4, <2>10 DEF Running, Disciplined, Target
    <3> QED BY <2>3, <2>6, <2>7, <2>10, <3>1
  <2> QED BY <2>2, <2>8, <2>9, <2>10 DEF WaitsFor
<1>2. Awaited(t) \in 1..6
  BY <1>1, Ranks DEF Awaited, Locks
<1>3. PICK u \in S : owner[Target(t)] = u
  BY <1>1
<1>4. Target(t) \in Held(u)
  BY <1>1, <1>3 DEF Held
<1>5. Rank(Target(t)) < Awaited(u)
  BY <1>1, <1>4
<1> QED BY <1>2, <1>5 DEF Awaited

\* A circle of waiting threads always passes through a thread that holds the
\* manager's _stateMutex while it reports or joins the audio thread: no other
\* nesting of the six mutexes can stop the program, for any number of clients,
\* link changes and settings.
THEOREM CirclesInTeardown == Spec => []CirclesOnlyInTeardown
<1>1. ASSUME Inv, NEW S \in SUBSET Threads, S # {}, Circular(S),
             \A t \in S : ~(owner["state"] = t /\ (Running(t, "report") \/ Running(t, "join")))
      PROVE  FALSE
  <2>1. \A t \in S : Awaited(t) \in 1..6 /\ \E u \in S : Awaited(t) < Awaited(u)
    BY <1>1, Ascends
  <2>2. \A t \in S : Awaited(t) < 6
    BY <2>1
  <2>3. \A t \in S : Awaited(t) < 5
    BY <2>1, <2>2
  <2>4. \A t \in S : Awaited(t) < 4
    BY <2>1, <2>3
  <2>5. \A t \in S : Awaited(t) < 3
    BY <2>1, <2>4
  <2>6. \A t \in S : Awaited(t) < 2
    BY <2>1, <2>5
  <2> QED BY <1>1, <2>1, <2>6
<1>2. Inv => CirclesOnlyInTeardown
  BY <1>1 DEF CirclesOnlyInTeardown
<1> QED BY <1>2, Invariance, PTL
=============================================================================
