------------------------------ MODULE MusicHaptics ------------------------------
(***************************************************************************)
(* Music haptics: a Wwise callback says which media the game's music plays *)
(* (Selected) and when it ends (Ended); Plugin.cpp keeps the playing ids   *)
(* that may be felt, WeaponAudioPipeline decodes the media on its worker,  *)
(* the runtime tick hands decoded voices to DualSenseAudioTransport, whose *)
(* render worker mixes them.  Menus, the settings page and the haptics     *)
(* client take the authority away again.                                   *)
(*                                                                         *)
(* Five handlers run on threads of their own and share only atomics and    *)
(* the queue under musicQueueMutex, so each is a sequence of steps, one    *)
(* per access that another handler can separate from the next.  Overlapping*)
(* says which handlers may be in progress at the same time.                *)
(***************************************************************************)
EXTENDS Integers, Sequences, FiniteSets

CONSTANTS
  Ids,            \* Wwise playing ids of the session
  Menus,          \* blocking menus that open and close
  MaxSel,         \* bound on the Selected callbacks of a behaviour
  Slots,          \* kMusicHapticsAuthoritySlots
  RequestCap,     \* kMusicHapticsQueueCapacity
  ResultCap,      \* kMusicHapticsResultCapacity
  QueueCap,       \* kMaxMusicControlCommands
  MixerCap,       \* kMaxMusicHapticVoices
  Overlapping     \* handlers that may be in progress together

Handlers == {"wwise", "menu", "settings", "tick", "client"}

ASSUME IdsAssumption == Ids \subseteq Nat \ {0}
ASSUME BoundsAssumption ==
  {MaxSel, Slots, RequestCap, ResultCap, QueueCap, MixerCap} \subseteq Nat \ {0}
ASSUME OverlappingAssumption == Overlapping \subseteq Handlers

\* A voice is the media of one Selected callback; sel counts the callbacks.
Voices == [id : Ids, sel : 1..MaxSel]

\* musicCommands: at is the position in the deque.
Commands == [at : Nat, kind : {"add", "stop", "clear"}, id : Ids \cup {0}, sel : 0..MaxSel]

VARIABLES
  enabled,   \* g_musicHapticsEnabled
  menus,     \* g_musicHapticsBlockingMenuMask
  slots,     \* g_musicHapticsPlayingIds
  requests,  \* WeaponAudioPipeline::_musicHapticsQueue
  results,   \* WeaponAudioPipeline::_musicHapticsResults
  client,    \* the haptics client of the transport is registered
  speaker,   \* the speaker client is registered
  endpoint,  \* transportActive
  queue,     \* musicCommands
  tail,      \* position the next command of the deque gets
  voices,    \* musicMixer
  pc,        \* where each handler stands
  at,        \* the voice or id the Wwise callback is about
  batch,     \* results the tick has taken and not yet handed over
  playing,   \* the game's music: "new", "playing" or "ended"
  sels,      \* Selected callbacks so far
  opened     \* value of sels when a blocking menu opened last

authority == <<enabled, menus, slots>>
pipeline  == <<requests, results>>
transport == <<client, speaker, endpoint, queue, tail, voices>>
locals    == <<at, batch>>
game      == <<playing, sels, opened>>
vars == <<authority, pipeline, transport, pc, locals, game>>

\* initializeMusicHapticsMenuMask has stored which menus are open.
Init ==
  /\ enabled \in BOOLEAN
  /\ menus \in SUBSET Menus
  /\ slots = {}
  /\ requests = <<>> /\ results = <<>>
  /\ client \in BOOLEAN /\ speaker \in BOOLEAN
  /\ endpoint = FALSE
  /\ queue = {} /\ tail = 0 /\ voices = {}
  /\ pc = [h \in Handlers |-> "idle"]
  /\ at = [id |-> 0, sel |-> 0]
  /\ batch = <<>>
  /\ playing = [i \in Ids |-> "new"]
  /\ sels = 0 /\ opened = 0

MayStart(h) ==
  \A g \in Handlers : pc[g] # "idle" => g # h /\ {g, h} \subseteq Overlapping

Goto(h, label) == pc' = [pc EXCEPT ![h] = label]

-------------------------------------------------------------------------------
(* The control queue of DualSenseAudioTransport, under musicQueueMutex.    *)

Append1(q, kind, v) ==
  /\ queue' = q \cup {[at |-> tail, kind |-> kind, id |-> v.id, sel |-> v.sel]}
  /\ tail' = tail + 1

\* Mutant: a full queue takes one more.
PushAddUnbounded(v) == Append1(queue, "add", v)

\* enqueueMusicHaptic after its look at the clients.
PushAdd(v) ==
  IF Cardinality(queue) < QueueCap
  THEN Append1(queue, "add", v)
  ELSE UNCHANGED <<queue, tail>>

PendingAdds(q) == {c \in q : c.kind = "add"}

\* Mutant: the pending Adds of the id stay in the queue.
StopWithoutErase(id) ==
  IF Cardinality(queue) < QueueCap
  THEN Append1(queue, "stop", [id |-> id, sel |-> 0])
  ELSE UNCHANGED <<queue, tail>>

\* stopMusicHapticsPlayingId: a full queue gives up its oldest Add, and refuses
\* the stop when it holds none.
PushStop(id) ==
  LET kept == {c \in queue : ~(c.kind = "add" /\ c.id = id)}
      stop == [id |-> id, sel |-> 0]
  IN  \/ /\ Cardinality(kept) < QueueCap
         /\ Append1(kept, "stop", stop)
      \/ /\ Cardinality(kept) >= QueueCap
         /\ \E c \in PendingAdds(kept) :
              /\ \A d \in PendingAdds(kept) : c.at <= d.at
              /\ Append1(kept \ {c}, "stop", stop)
      \/ /\ Cardinality(kept) >= QueueCap
         /\ PendingAdds(kept) = {}
         /\ queue' = kept
         /\ UNCHANGED tail

\* Mutant: what the mixer plays already goes on.
ClearPendingOnly == queue' = {} /\ tail' = 0

\* queueMusicClear.
ClearQueue ==
  /\ queue' = {[at |-> 0, kind |-> "clear", id |-> 0, sel |-> 0]}
  /\ tail' = 1

\* clearMusicState, which the worker runs when it starts or tears down.
ClearMusicState == queue' = {} /\ tail' = 0 /\ voices' = {}

VoiceOf(c) == [id |-> c.id, sel |-> c.sel]
Ends(d, id) == d.kind = "clear" \/ (d.kind = "stop" /\ d.id = id)

\* What the mixer holds after the commands are applied in order, when it has
\* room for all of it.
Surviving == {v \in voices : \A d \in queue : ~Ends(d, v.id)}
Added == {VoiceOf(c) : c \in {c \in PendingAdds(queue) :
                                \A d \in queue : Ends(d, c.id) => d.at < c.at}}
Due == Surviving \cup Added

\* renderOneBlock: the mixer refuses an Add when it is full, and forgets the
\* voices whose PCM is exhausted.
Render ==
  /\ endpoint
  /\ \E refused \in SUBSET Added : \E finished \in SUBSET (Due \ refused) :
       /\ refused # {} =>
            Cardinality(voices \cup {VoiceOf(c) : c \in PendingAdds(queue)}) > MixerCap
       /\ Cardinality(Due \ refused) <= MixerCap
       /\ voices' = (Due \ refused) \ finished
  /\ queue' = {} /\ tail' = 0
  /\ UNCHANGED <<authority, pipeline, client, speaker, endpoint, pc, locals, game>>

\* initializeSelected, which tears down first.
EndpointOpen ==
  /\ client \/ speaker
  /\ ~endpoint
  /\ endpoint' = TRUE
  /\ ClearMusicState
  /\ UNCHANGED <<authority, pipeline, client, speaker, pc, locals, game>>

\* teardownTransport after a failed block.
EndpointLost ==
  /\ endpoint
  /\ endpoint' = FALSE
  /\ ClearMusicState
  /\ UNCHANGED <<authority, pipeline, client, speaker, pc, locals, game>>

-------------------------------------------------------------------------------
(* The two clients of the audio worker, under clientMutex.                 *)

\* startHapticsClient; a failing startWorker has cleared and takes the client
\* back.
StartClient ==
  /\ MayStart("client")
  /\ ~client
  /\ \/ speaker /\ client' = TRUE /\ UNCHANGED <<queue, tail, voices>>
     \/ ~speaker /\ client' \in BOOLEAN /\ ClearMusicState
  /\ UNCHANGED <<authority, pipeline, speaker, endpoint, pc, locals, game>>

\* Mutant: the music of the client goes on under the speaker client.
StopClientOnly ==
  /\ MayStart("client")
  /\ client
  /\ client' = FALSE
  /\ UNCHANGED <<authority, pipeline, speaker, endpoint, queue, tail, voices, pc, locals, game>>

\* stopHapticsClient; the last client to leave joins the worker.
StopClient ==
  /\ MayStart("client")
  /\ client
  /\ client' = FALSE
  /\ \/ speaker /\ ClearQueue /\ UNCHANGED <<endpoint, voices>>
     \/ ~speaker /\ ClearMusicState /\ endpoint' = FALSE
  /\ UNCHANGED <<authority, pipeline, speaker, pc, locals, game>>

\* startSpeakerClient
StartSpeaker ==
  /\ MayStart("client")
  /\ ~speaker
  /\ \/ client /\ speaker' = TRUE /\ UNCHANGED <<queue, tail, voices>>
     \/ ~client /\ speaker' \in BOOLEAN /\ ClearMusicState
  /\ UNCHANGED <<authority, pipeline, client, endpoint, pc, locals, game>>

\* stopSpeakerClient
StopSpeaker ==
  /\ MayStart("client")
  /\ speaker
  /\ speaker' = FALSE
  /\ \/ client /\ UNCHANGED <<endpoint, queue, tail, voices>>
     \/ ~client /\ ClearMusicState /\ endpoint' = FALSE
  /\ UNCHANGED <<authority, pipeline, client, pc, locals, game>>

-------------------------------------------------------------------------------
(* The Wwise callback.                                                     *)

\* Mutant: the voice is numbered before it is counted.
SelectBeginUncounted(id) ==
  /\ MayStart("wwise")
  /\ sels < MaxSel
  /\ playing[id] # "ended"
  /\ playing' = [playing EXCEPT ![id] = "playing"]
  /\ sels' = sels + 1
  /\ at' = [id |-> id, sel |-> sels]
  /\ Goto("wwise", IF enabled THEN "check" ELSE "idle")
  /\ UNCHANGED <<authority, pipeline, transport, batch, opened>>

SelectBegin(id) ==
  /\ MayStart("wwise")
  /\ sels < MaxSel
  /\ playing[id] # "ended"
  /\ playing' = [playing EXCEPT ![id] = "playing"]
  /\ sels' = sels + 1
  /\ at' = [id |-> id, sel |-> sels + 1]
  /\ Goto("wwise", IF enabled THEN "check" ELSE "idle")
  /\ UNCHANGED <<authority, pipeline, transport, batch, opened>>

\* musicHapticsBlocked
SelectCheck ==
  /\ pc["wwise"] = "check"
  /\ Goto("wwise", IF menus = {} THEN "mark" ELSE "idle")
  /\ UNCHANGED <<authority, pipeline, transport, locals, game>>

\* musicHapticsMarkPlayingIdActive: fails when every slot is taken.
SelectMark ==
  /\ pc["wwise"] = "mark"
  /\ \/ /\ at.id \in slots \/ Cardinality(slots) < Slots
        /\ slots' = slots \cup {at.id}
        /\ Goto("wwise", "request")
     \/ /\ at.id \notin slots /\ Cardinality(slots) >= Slots
        /\ Goto("wwise", "idle")
        /\ UNCHANGED slots
  /\ UNCHANGED <<enabled, menus, pipeline, transport, locals, game>>

\* tryEnqueueMusicHaptics drops when the queue is full or its mutex is taken.
SelectRequest ==
  /\ pc["wwise"] = "request"
  /\ \/ Len(requests) < RequestCap /\ requests' = Append(requests, at)
     \/ UNCHANGED requests
  /\ Goto("wwise", "idle")
  /\ UNCHANGED <<authority, results, transport, locals, game>>

\* Mutant: the end stops the voices and keeps the id authorised.
EndKeepingSlot(id) ==
  /\ MayStart("wwise")
  /\ playing[id] = "playing"
  /\ playing' = [playing EXCEPT ![id] = "ended"]
  /\ at' = [id |-> id, sel |-> 0]
  /\ Goto("wwise", IF enabled THEN "stop" ELSE "idle")
  /\ UNCHANGED <<authority, pipeline, transport, batch, sels, opened>>

\* A disabled callback ignores the end.
EndBegin(id) ==
  /\ MayStart("wwise")
  /\ playing[id] = "playing"
  /\ playing' = [playing EXCEPT ![id] = "ended"]
  /\ at' = [id |-> id, sel |-> 0]
  /\ slots' = IF enabled THEN slots \ {id} ELSE slots
  /\ Goto("wwise", IF enabled THEN "stop" ELSE "idle")
  /\ UNCHANGED <<enabled, menus, pipeline, transport, batch, sels, opened>>

EndStop ==
  /\ pc["wwise"] = "stop"
  /\ PushStop(at.id)
  /\ Goto("wwise", "idle")
  /\ UNCHANGED <<authority, pipeline, client, speaker, endpoint, voices, locals, game>>

-------------------------------------------------------------------------------
(* Menus and settings; both take the authority away with                   *)
(* musicHapticsClearAuthority, first the slots and then the queue.         *)

\* Mutant: the mask is set and nothing is taken away.
MenuOpenedMaskOnly(m) ==
  /\ MayStart("menu")
  /\ m \notin menus
  /\ menus' = menus \cup {m}
  /\ opened' = sels
  /\ UNCHANGED <<enabled, slots, pipeline, transport, pc, locals, playing, sels>>

MenuOpened(m) ==
  /\ MayStart("menu")
  /\ m \notin menus
  /\ menus' = menus \cup {m}
  /\ opened' = sels
  /\ Goto("menu", "slots")
  /\ UNCHANGED <<enabled, slots, pipeline, transport, locals, playing, sels>>

MenuClosed(m) ==
  /\ MayStart("menu")
  /\ m \in menus
  /\ menus' = menus \ {m}
  /\ UNCHANGED <<enabled, slots, pipeline, transport, pc, locals, game>>

\* Mutant: the switch only stops new callbacks.
ApplySettingsFlagOnly(on) ==
  /\ MayStart("settings")
  /\ on # enabled
  /\ enabled' = on
  /\ UNCHANGED <<menus, slots, pipeline, transport, pc, locals, game>>

ApplySettings(on) ==
  /\ MayStart("settings")
  /\ on # enabled
  /\ enabled' = on
  /\ Goto("settings", IF on THEN "idle" ELSE "slots")
  /\ UNCHANGED <<menus, slots, pipeline, transport, locals, game>>

ClearSlots(h) ==
  /\ pc[h] = "slots"
  /\ slots' = {}
  /\ Goto(h, "queue")
  /\ UNCHANGED <<enabled, menus, pipeline, transport, locals, game>>

ClearMusicHaptics(h) ==
  /\ pc[h] = "queue"
  /\ ClearQueue
  /\ Goto(h, "idle")
  /\ UNCHANGED <<authority, pipeline, client, speaker, endpoint, voices, locals, game>>

-------------------------------------------------------------------------------
(* The pipeline worker and the runtime tick.                               *)

\* One request is resolved; it fails, finds the result queue full or publishes.
Resolve ==
  /\ requests # <<>>
  /\ requests' = Tail(requests)
  /\ \/ Len(results) < ResultCap /\ results' = Append(results, Head(requests))
     \/ UNCHANGED results
  /\ UNCHANGED <<authority, transport, pc, locals, game>>

\* The setting is read once for the whole batch.
TickBegin ==
  /\ MayStart("tick")
  /\ enabled
  /\ results # <<>>
  /\ batch' = results
  /\ results' = <<>>
  /\ Goto("tick", "check")
  /\ UNCHANGED <<authority, requests, transport, at, game>>

TickEnd ==
  /\ pc["tick"] = "check"
  /\ batch = <<>>
  /\ Goto("tick", "idle")
  /\ UNCHANGED <<authority, pipeline, transport, locals, game>>

\* Blocked, inactive, or so old that nothing of its PCM is left.
TickSkip ==
  /\ pc["tick"] = "check"
  /\ batch # <<>>
  /\ batch' = Tail(batch)
  /\ UNCHANGED <<authority, pipeline, transport, pc, at, game>>

TickCheck ==
  /\ pc["tick"] = "check"
  /\ batch # <<>>
  /\ menus = {}
  /\ Head(batch).id \in slots
  /\ Goto("tick", "admit")
  /\ UNCHANGED <<authority, pipeline, transport, locals, game>>

\* enqueueMusicHaptic looks at the clients and lets go of clientMutex.
TickAdmit ==
  /\ pc["tick"] = "admit"
  /\ \/ client /\ Goto("tick", "push") /\ UNCHANGED batch
     \/ ~client /\ Goto("tick", "check") /\ batch' = Tail(batch)
  /\ UNCHANGED <<authority, pipeline, transport, at, game>>

TickPush ==
  /\ pc["tick"] = "push"
  /\ PushAdd(Head(batch))
  /\ batch' = Tail(batch)
  /\ Goto("tick", "check")
  /\ UNCHANGED <<authority, pipeline, client, speaker, endpoint, voices, at, game>>

-------------------------------------------------------------------------------
WwiseStep ==
  \/ \E id \in Ids : SelectBegin(id) \/ EndBegin(id)
  \/ SelectCheck \/ SelectMark \/ SelectRequest \/ EndStop

Revoking == \E h \in {"menu", "settings"} : ClearSlots(h) \/ ClearMusicHaptics(h)

UserStep ==
  \/ \E m \in Menus : MenuOpened(m) \/ MenuClosed(m)
  \/ \E on \in BOOLEAN : ApplySettings(on)
  \/ Revoking

TickStep == TickBegin \/ TickEnd \/ TickSkip \/ TickCheck \/ TickAdmit \/ TickPush

TransportStep ==
  \/ Render \/ EndpointOpen \/ EndpointLost
  \/ StartClient \/ StopClient \/ StartSpeaker \/ StopSpeaker

Next == WwiseStep \/ UserStep \/ TickStep \/ Resolve \/ TransportStep

Spec == Init /\ [][Next]_vars

\* A handler that has begun goes on, and the worker of an open endpoint takes what
\* is queued; that a voice ends by itself is not assumed.
FairSpec == Spec /\ WF_vars(queue # {} /\ Render) /\ WF_vars(Revoking)

-------------------------------------------------------------------------------
TypeOK ==
  /\ {enabled, client, speaker, endpoint} \subseteq BOOLEAN
  /\ menus \subseteq Menus
  /\ slots \subseteq Ids
  /\ requests \in Seq(Voices) /\ results \in Seq(Voices) /\ batch \in Seq(Voices)
  /\ queue \subseteq Commands /\ tail \in Nat
  /\ voices \subseteq Voices
  /\ pc \in [Handlers -> {"idle", "check", "mark", "request", "stop", "slots", "queue",
                          "admit", "push"}]
  /\ at \in [id : Ids \cup {0}, sel : 0..MaxSel]
  /\ playing \in [Ids -> {"new", "playing", "ended"}]
  /\ sels \in 0..MaxSel /\ opened \in 0..MaxSel

\* The queue, the mixer, the slots and the two pipeline queues stay within the
\* capacities the code gives them, whatever overlaps.
Bounded ==
  /\ Cardinality(queue) <= QueueCap
  /\ Cardinality(voices) <= MixerCap
  /\ Cardinality(slots) <= Slots
  /\ Len(requests) <= RequestCap /\ Len(results) <= ResultCap

\* What waits to be added was handed over after the last clear and after the
\* last end of its playing id: no stop is pending behind it
\* (stopMusicHapticsPlayingId erases, queueMusicClear empties).
PendingIsCurrent ==
  \A c \in PendingAdds(queue) : \A d \in queue : Ends(d, c.id) => d.at < c.at

\* Nothing may be felt, now or from what is pending, while a blocking menu is
\* open (syncMusicHapticsForMenu).
NoMusicInMenu ==
  menus # {} /\ pc["menu"] = "idle" => slots = {} /\ Due = {}

\* The settings page has the same effect (applyLiveSettings of Plugin.cpp).
NoMusicWhenDisabled ==
  ~enabled /\ pc["settings"] = "idle" => slots = {} /\ Due = {}

\* Music whose playing id ended is neither authorised nor felt, a decode that
\* finishes later included (the Ended observation).
NoMusicAfterEnd ==
  \A id \in Ids : playing[id] = "ended" /\ pc["wwise"] = "idle" =>
    id \notin slots /\ \A v \in Due : v.id # id

\* A transport that serves only the speaker plays no music (stopHapticsClient).
NoMusicWithoutClient == ~client => Due = {}

\* A voice selected before a blocking menu opened is not felt after it.  Not kept
\* by the code when the same id is authorised again.
NoStaleVoice == pc["menu"] = "idle" => \A v \in Due : v.sel > opened

\* An open blocking menu silences the mixer, or closes again.
MenuSilences == menus # {} ~> (voices = {} \/ menus = {})
=============================================================================
