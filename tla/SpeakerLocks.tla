----------------------------- MODULE SpeakerLocks -----------------------------
(***************************************************************************)
(* Who waits for whom while a persistent voice is set, cleared, revoked or *)
(* torn down.  Each thread runs straight-line programs of mutex            *)
(* operations, in the order in which the calls nest in the code:           *)
(*   playback   WeaponSpeakerPlayback::_mutex                              *)
(*   rover      g_landVehicleSpeakerMutex                                  *)
(*   state      ControllerSpeakerManager::_stateMutex                      *)
(*   transport  DualModeSpeakerBackend::_transportMutex                    *)
(*   client     DualSenseAudioTransport::Impl::clientMutex                 *)
(*   speaker    speakerQueueMutex and speakerMixerMutex (std::scoped_lock) *)
(* What the calls do to the voice is the subject of SustainedVoice.        *)
(***************************************************************************)
EXTENDS Sequences, Integers

CONSTANTS
  HapticsClient,   \* TRUE when the haptics client keeps the WASAPI worker
  LinkChanges,     \* TRUE when the controller changes between USB and Bluetooth
  SettingsApplied  \* TRUE when live settings are applied during play

ASSUME FlagAssumption == {HapticsClient, LinkChanges, SettingsApplied} \subseteq BOOLEAN

VARIABLES
  todo,   \* the rest of the program of each thread
  owner,  \* the thread that holds each mutex
  up      \* the WASAPI worker thread exists

vars == <<todo, owner, up>>

Threads == {"wwise", "motion", "menu", "boostpack", "worker"}
Locks   == {"playback", "rover", "state", "transport", "client", "speaker"}
Nobody  == "nobody"

Lock(l)   == <<[op |-> "lock", on |-> l]>>
Unlock(l) == <<[op |-> "unlock", on |-> l]>>
Holding(l, program) == Lock(l) \o program \o Unlock(l)

\* observeBackendInvalidation takes playback._mutex, writes and returns.
Report == <<[op |-> "report", on |-> "playback"]>>
Join   == <<[op |-> "join", on |-> "playback"]>>
Start  == <<[op |-> "start", on |-> "playback"]>>

-------------------------------------------------------------------------------
(* DualSenseAudioTransport.                                                *)

ClearSpeakerState == Holding("speaker", <<>>)

ClearSpeakerPlayback == ClearSpeakerState \o Report

StopWorker == ClearSpeakerState \o Join

\* Mutant: the report is made inside clientMutex.
StopSpeakerClientReporting == Holding("client", ClearSpeakerState \o Report)

\* The last client joins the worker inside clientMutex.
StopSpeakerClient ==
  Holding("client", ClearSpeakerState \o (IF HapticsClient THEN <<>> ELSE StopWorker))
    \o Report

StartSpeakerClient == Holding("client", IF HapticsClient THEN <<>> ELSE Start)

\* setPersistentPreparedPcm, clearPersistentPreparedPcm and the finite queues.
PostUpdate == Holding("client", <<>>) \o Holding("speaker", <<>>)

\* renderOneBlock, and teardownTransport(true) after a failed block.
RenderOneBlock == Holding("speaker", <<>>)

\* Mutant: the report is made under the speaker mutexes.
TeardownUnderLock == Holding("speaker", Report)

TeardownTransport == ClearSpeakerState \o Report

-------------------------------------------------------------------------------
(* DualModeSpeakerBackend.                                                 *)

\* change: the link is the same, has left the wired side, or has come to it.
Changes == IF LinkChanges THEN {"same", "leave", "enter"} ELSE {"same"}

Synchronize(change) ==
  Holding("transport",
    CASE change = "leave" -> ClearSpeakerPlayback \o StopSpeakerClient
      [] change = "enter" -> StartSpeakerClient
      [] OTHER            -> <<>>)

(* ControllerSpeakerManager.                                               *)

\* active() and the submission each synchronize the backend.
Submit(change) == Holding("state", Synchronize(change) \o Synchronize("same") \o PostUpdate)

Poll(change) == Holding("state", Synchronize(change))

\* A backend that is not active is not stopped: that is Poll.
Disable(change) ==
  Holding("state", Synchronize(change) \o Holding("transport", StopSpeakerClient))

Enable == Holding("state", Holding("transport", <<>>) \o Holding("transport", StartSpeakerClient))

\* clearPlayback: an output mode, comms or language change.
ChangePolicy == Holding("state", Holding("transport", ClearSpeakerPlayback))

-------------------------------------------------------------------------------
(* The programs of the threads.                                            *)

\* The Wwise callbacks, the event router and the input thread call the playback.
WwisePrograms == {Holding("playback", Submit(change)) : change \in Changes}
                   \cup {Holding("playback", <<>>)}

\* The land-vehicle tick and its Wwise events.
MotionPrograms == {Holding("rover", Submit(change)) : change \in Changes}
                    \cup {Poll(change) : change \in Changes}

MenuPrograms ==
  IF SettingsApplied
  THEN {Disable(change) : change \in Changes} \cup {Poll(change) : change \in Changes}
         \cup {Enable, ChangePolicy}
  ELSE {}

BoostpackPrograms == {ClearSpeakerPlayback}

WorkerPrograms == IF up THEN {RenderOneBlock, TeardownTransport} ELSE {}

Programs(t) ==
  CASE t = "wwise"     -> WwisePrograms
    [] t = "motion"    -> MotionPrograms
    [] t = "menu"      -> MenuPrograms
    [] t = "boostpack" -> BoostpackPrograms
    [] t = "worker"    -> WorkerPrograms

Init ==
  /\ todo = [t \in Threads |-> <<>>]
  /\ owner = [l \in Locks |-> Nobody]
  /\ up = TRUE

Begin(t) ==
  /\ todo[t] = <<>>
  /\ \E program \in Programs(t) : todo' = [todo EXCEPT ![t] = program]
  /\ UNCHANGED <<owner, up>>

Running(t, op) == todo[t] # <<>> /\ Head(todo[t]).op = op
Target(t)      == Head(todo[t]).on
Continue(t)    == todo' = [todo EXCEPT ![t] = Tail(todo[t])]

Acquire(t) ==
  /\ Running(t, "lock") /\ owner[Target(t)] = Nobody
  /\ owner' = [owner EXCEPT ![Target(t)] = t]
  /\ Continue(t)
  /\ UNCHANGED up

Release(t) ==
  /\ Running(t, "unlock")
  /\ owner' = [owner EXCEPT ![Target(t)] = Nobody]
  /\ Continue(t)
  /\ UNCHANGED up

\* A thread that already holds the mutex is not stopped by it: std::mutex counts
\* the second lock or throws, which reportPersistentInvalidation swallows.
Notify(t) ==
  /\ Running(t, "report") /\ owner["playback"] \in {Nobody, t}
  /\ Continue(t)
  /\ UNCHANGED <<owner, up>>

\* The worker leaves its loop between two programs.
JoinWorker(t) ==
  /\ Running(t, "join") /\ todo["worker"] = <<>>
  /\ up' = FALSE
  /\ Continue(t)
  /\ UNCHANGED owner

StartWorker(t) ==
  /\ Running(t, "start")
  /\ up' = TRUE
  /\ Continue(t)
  /\ UNCHANGED owner

Next ==
  \E t \in Threads :
    Begin(t) \/ Acquire(t) \/ Release(t) \/ Notify(t) \/ JoinWorker(t) \/ StartWorker(t)

Spec == Init /\ [][Next]_vars
-------------------------------------------------------------------------------
\* t cannot go on before u has.
WaitsFor(t, u) ==
  /\ t # u
  /\ \/ Running(t, "lock") /\ owner[Target(t)] = u
     \/ Running(t, "report") /\ owner["playback"] = u
     \/ Running(t, "join") /\ u = "worker" /\ todo[u] # <<>>

Circular(S) == \A t \in S : \E u \in S : WaitsFor(t, u)

\* Where threads wait for each other in a circle, one of them holds the manager's
\* _stateMutex and is reporting an invalidation or joining the audio thread: no
\* other nesting of the playback, manager and transport mutexes can stop the
\* program.
CirclesOnlyInTeardown ==
  \A S \in (SUBSET Threads) \ {{}} :
    Circular(S) =>
      \E t \in S : owner["state"] = t /\ (Running(t, "report") \/ Running(t, "join"))

\* The invalidation callback never runs under a mutex of the transport, which the
\* worker needs to finish (stopSpeakerClient, teardownTransport).
CallbackOutsideTransportLocks ==
  \A t \in Threads : Running(t, "report") => owner["client"] # t /\ owner["speaker"] # t

\* The thread of a Wwise callback never waits for the audio thread to end.  Not
\* kept by the code when the callback notices a link change.
WwiseNeverWaitsOnAudioThread == ~(Running("wwise", "join") /\ todo["worker"] # <<>>)
=============================================================================
