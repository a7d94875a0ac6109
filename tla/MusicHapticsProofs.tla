-------------------------- MODULE MusicHapticsProofs --------------------------
(***************************************************************************)
(* Theorems about MusicHaptics for every number of playing ids, menus and  *)
(* selections and every capacity.  Menus and settings are two revokers of  *)
(* the same authority, and each theorem names the handlers that have to    *)
(* run by themselves; everything else may overlap.                         *)
(***************************************************************************)
EXTENDS MusicHaptics, FiniteSetTheorems, TLAPS

\* The labels each handler uses, and what the deque holds: commands below the tail,
\* Adds of selected voices.
Labels ==
  /\ pc["wwise"] \in {"idle", "check", "mark", "request", "stop"}
  /\ pc["menu"] \in {"idle", "slots", "queue"}
  /\ pc["settings"] \in {"idle", "slots", "queue"}
  /\ pc["tick"] \in {"idle", "check", "admit", "push"}
  /\ pc["client"] = "idle"

Deque ==
  \A c \in queue : c.at < tail /\ (c.kind = "add" => VoiceOf(c) \in Voices)

\* What makes TypeOK inductive: the locals mean what their labels say.
Locals ==
  /\ pc["wwise"] \in {"check", "mark", "request"} => at \in Voices
  /\ pc["wwise"] = "stop" => at.id \in Ids /\ at.sel = 0
  /\ pc["tick"] \in {"admit", "push"} => batch # <<>>

Base == TypeOK /\ Labels /\ Locals /\ Deque /\ PendingIsCurrent

Alone(h) ==
  /\ pc[h] # "idle" => \A g \in Handlers \ {h} : pc[g] = "idle"
  /\ pc[h] = "queue" => slots = {}

\* An open menu finds no handler past its look at the mask.
MenuInv ==
  /\ NoMusicInMenu
  /\ Alone("menu")
  /\ menus # {} => pc["tick"] \notin {"admit", "push"} /\ pc["wwise"] # "mark"

\* A disabled switch finds no callback and no tick at work.
SettingsInv ==
  /\ NoMusicWhenDisabled
  /\ Alone("settings")
  /\ ~enabled => pc["tick"] = "idle" /\ pc["wwise"] = "idle"

LEMMA HandlerFacts ==
  /\ Handlers = {"wwise", "menu", "settings", "tick", "client"}
  /\ MaxSel \in Nat \ {0} /\ QueueCap \in Nat \ {0}
  BY BoundsAssumption DEF Handlers
-------------------------------------------------------------------------------
(* What the queue operations do to the voices that are due.                *)

LEMMA StopQuietens ==
  ASSUME TypeOK, NEW id \in Ids, PushStop(id), voices' = voices
  PROVE  Due' \subseteq Due
<1>1. \A d \in queue : d.kind # "add" => d \in queue'
  BY DEF PushStop, Append1, PendingAdds
<1>2. \A c \in PendingAdds(queue') : c \in PendingAdds(queue)
  BY DEF PushStop, Append1, PendingAdds
<1>3. \A d \in queue, i \in Ids : Ends(d, i) => d \in queue'
  BY <1>1 DEF Ends
<1>4. Surviving' \subseteq Surviving
  BY <1>3 DEF Surviving, TypeOK, Voices
<1>5. \A c \in PendingAdds(queue) : c.id \in Ids \cup {0}
  BY DEF PendingAdds, TypeOK, Commands
<1>6. \A d \in queue, i \in Ids \cup {0} : Ends(d, i) => d \in queue'
  BY <1>1 DEF Ends
<1>7. Added' \subseteq Added
  BY <1>2, <1>5, <1>6 DEF Added
<1> QED BY <1>4, <1>7 DEF Due

LEMMA ClearSilences ==
  ASSUME ClearQueue PROVE Due' = {}
  BY DEF ClearQueue, Due, Surviving, Added, PendingAdds, Ends

LEMMA StateClearSilences ==
  ASSUME ClearMusicState PROVE Due' = {}
  BY DEF ClearMusicState, Due, Surviving, Added, PendingAdds

LEMMA RenderQuietens ==
  ASSUME Render PROVE Due' \subseteq Due
<1>1. queue' = {} /\ voices' \subseteq Due
  BY DEF Render
<1>2. Due' = voices'
  BY <1>1 DEF Due, Surviving, Added, PendingAdds
<1> QED BY <1>1, <1>2

LEMMA SameDue ==
  ASSUME queue' = queue, voices' = voices PROVE Due' = Due
  BY DEF Due, Surviving, Added

LEMMA OnlyPushAdds ==
  ASSUME Base, WwiseStep \/ UserStep \/ Resolve \/ TransportStep
  PROVE  Due' \subseteq Due
<1>1. CASE EndStop
  <2>1. at.id \in Ids
    BY <1>1 DEF Base, Locals, EndStop
  <2> QED BY <1>1, <2>1, StopQuietens DEF EndStop, Base
<1>2. CASE \E h \in {"menu", "settings"} : ClearMusicHaptics(h)
  BY <1>2, ClearSilences DEF ClearMusicHaptics
<1>3. CASE StopClient \/ StopSpeaker
  BY <1>3, SameDue, ClearSilences, StateClearSilences DEF StopClient, StopSpeaker
<1>4. CASE StartClient \/ StartSpeaker
  BY <1>4, SameDue, StateClearSilences DEF StartClient, StartSpeaker
<1>5. CASE EndpointOpen \/ EndpointLost
  BY <1>5, StateClearSilences DEF EndpointOpen, EndpointLost
<1>6. CASE Render
  BY <1>6, RenderQuietens
<1>7. CASE UNCHANGED <<queue, voices>>
  BY <1>7, SameDue
<1> QED
  BY <1>1, <1>2, <1>3, <1>4, <1>5, <1>6, <1>7
  DEF WwiseStep, UserStep, Revoking, TransportStep, transport, SelectBegin, EndBegin,
      SelectCheck, SelectMark, SelectRequest, MenuOpened, MenuClosed, ApplySettings,
      ClearSlots, Resolve
-------------------------------------------------------------------------------
(* Types, and what is pending is current.                                  *)

LEMMA SeqFacts ==
  /\ <<>> \in Seq(Voices)
  /\ \A s \in Seq(Voices), v \in Voices : Append(s, v) \in Seq(Voices)
  /\ \A s \in Seq(Voices) : s # <<>> => Head(s) \in Voices /\ Tail(s) \in Seq(Voices)
  OBVIOUS

LEMMA InitBase == ASSUME Init PROVE Base
<1>1. TypeOK
  <2>1. at \in [id : Ids \cup {0}, sel : 0..MaxSel]
    BY HandlerFacts DEF Init
  <2> QED BY <2>1, SeqFacts, HandlerFacts DEF Init, TypeOK
<1>2. Labels /\ Locals /\ Deque /\ PendingIsCurrent
  BY HandlerFacts DEF Init, Labels, Locals, Deque, PendingIsCurrent, PendingAdds
<1> QED BY <1>1, <1>2 DEF Base

\* Appending a command of an id keeps the queue typed, below the tail, and
\* current unless it ends an Add that stays.
LEMMA AppendBase ==
  ASSUME Base, NEW q, q \subseteq queue,
         NEW kind \in {"add", "stop"}, NEW v \in [id : Ids \cup {0}, sel : 0..MaxSel],
         Append1(q, kind, v),
         kind = "add" => v \in Voices,
         kind = "stop" => \A c \in PendingAdds(q) : c.id # v.id
  PROVE  queue' \subseteq Commands /\ tail' \in Nat /\ Deque' /\ PendingIsCurrent'
<1> DEFINE new == [at |-> tail, kind |-> kind, id |-> v.id, sel |-> v.sel]
<1>1. new \in Commands
  BY DEF Base, TypeOK, Commands
<1>2. queue' = q \cup {new} /\ tail' = tail + 1
  BY DEF Append1
<1>3. \A c \in queue : c.at \in Nat /\ c.at < tail
  BY DEF Base, TypeOK, Deque, Commands
<1>4. new.at = tail /\ new.kind = kind /\ new.id = v.id /\ tail \in Nat
  BY DEF Base, TypeOK
<1>7. kind = "add" => VoiceOf(new) \in Voices
  BY DEF VoiceOf, Voices
<1>5. queue' \subseteq Commands /\ tail' \in Nat /\ Deque'
  <2> HIDE DEF new
  <2> QED BY <1>1, <1>2, <1>3, <1>4, <1>7 DEF Base, TypeOK, Deque
<1> HIDE DEF new
<1>6. ASSUME NEW c \in PendingAdds(queue'), NEW d \in queue', Ends(d, c.id)
      PROVE  d.at < c.at
  <2>1. CASE d = new
    BY <1>2, <1>4, <1>6, <2>1 DEF Ends, PendingAdds
  <2>2. CASE d # new /\ c = new
    BY <1>2, <1>3, <1>4, <2>2
  <2>3. CASE d # new /\ c # new
    BY <1>2, <1>6, <2>3 DEF Base, PendingIsCurrent, PendingAdds
  <2> QED BY <2>1, <2>2, <2>3
<1> QED BY <1>5, <1>6 DEF PendingIsCurrent

LEMMA PushAddBase ==
  ASSUME Base, NEW v \in Voices, PushAdd(v)
  PROVE  queue' \subseteq Commands /\ tail' \in Nat /\ Deque' /\ PendingIsCurrent'
<1>1. CASE Append1(queue, "add", v)
  <2>1. v \in [id : Ids \cup {0}, sel : 0..MaxSel]
    BY HandlerFacts DEF Voices
  <2> QED BY <1>1, <2>1, AppendBase
<1>2. CASE UNCHANGED <<queue, tail>>
  BY <1>2 DEF Base, TypeOK, Deque, PendingIsCurrent, PendingAdds, Ends
<1> QED BY <1>1, <1>2 DEF PushAdd

LEMMA PushStopBase ==
  ASSUME Base, NEW id \in Ids, PushStop(id)
  PROVE  queue' \subseteq Commands /\ tail' \in Nat /\ Deque' /\ PendingIsCurrent'
<1> DEFINE kept == {c \in queue : ~(c.kind = "add" /\ c.id = id)}
           stop == [id |-> id, sel |-> 0]
<1>1. stop \in [id : Ids \cup {0}, sel : 0..MaxSel] /\ stop.id = id
  BY HandlerFacts
<1>2. kept \subseteq queue /\ \A c \in PendingAdds(kept) : c.id # id
  BY DEF PendingAdds
<1>3. CASE Append1(kept, "stop", stop)
  <2> HIDE DEF kept, stop
  <2> QED BY <1>1, <1>2, <1>3, AppendBase
<1>4. CASE \E c \in PendingAdds(kept) : Append1(kept \ {c}, "stop", stop)
  <2>1. PICK c \in PendingAdds(kept) : Append1(kept \ {c}, "stop", stop)
    BY <1>4
  <2>2. kept \ {c} \subseteq queue /\ \A d \in PendingAdds(kept \ {c}) : d.id # id
    BY <1>2 DEF PendingAdds
  <2> HIDE DEF kept, stop
  <2> QED BY <1>1, <2>1, <2>2, AppendBase
<1>5. CASE queue' = kept /\ UNCHANGED tail
  BY <1>5 DEF Base, TypeOK, Deque, PendingIsCurrent, PendingAdds, Ends
<1> QED BY <1>3, <1>4, <1>5 DEF PushStop

LEMMA ClearBase ==
  ASSUME ClearQueue
  PROVE  queue' \subseteq Commands /\ tail' \in Nat /\ Deque' /\ PendingIsCurrent'
  BY HandlerFacts DEF ClearQueue, Commands, Deque, PendingIsCurrent, PendingAdds

LEMMA EmptyBase ==
  ASSUME queue' = {}, tail' = 0
  PROVE  queue' \subseteq Commands /\ tail' \in Nat /\ Deque' /\ PendingIsCurrent'
  BY DEF Deque, PendingIsCurrent, PendingAdds

LEMMA DueTyped == ASSUME Base PROVE Due \subseteq Voices
  BY DEF Base, Deque, TypeOK, Due, Surviving, Added, PendingAdds

\* Nothing of Base but the named variables changes.
LEMMA QueueStepBase ==
  ASSUME Base, queue' \subseteq Commands /\ tail' \in Nat /\ Deque' /\ PendingIsCurrent',
         {client', speaker', endpoint'} \subseteq BOOLEAN, voices' \subseteq Voices,
         UNCHANGED <<authority, pipeline, pc, locals, game>>
  PROVE  Base'
  BY DEF Base, TypeOK, Labels, Locals, authority, pipeline, locals, game

LEMMA SameQueueBase ==
  ASSUME Base, UNCHANGED <<queue, tail>>
  PROVE  queue' \subseteq Commands /\ tail' \in Nat /\ Deque' /\ PendingIsCurrent'
  BY DEF Base, TypeOK, Deque, PendingIsCurrent, PendingAdds, Ends, VoiceOf

LEMMA TransportBase == ASSUME Base, TransportStep PROVE Base'
<1>1. CASE Render
  <2>1. voices' \subseteq Due
    BY <1>1 DEF Render
  <2>2. voices' \subseteq Voices
    BY <2>1, DueTyped
  <2> QED BY <1>1, <2>2, EmptyBase, QueueStepBase DEF Render, Base, TypeOK
<1>2. CASE EndpointOpen \/ EndpointLost
  BY <1>2, EmptyBase, QueueStepBase DEF EndpointOpen, EndpointLost, ClearMusicState, Base, TypeOK
<1>3. CASE StartClient \/ StartSpeaker
  BY <1>3, EmptyBase, SameQueueBase, QueueStepBase
  DEF StartClient, StartSpeaker, ClearMusicState, Base, TypeOK
<1>4. CASE StopClient \/ StopSpeaker
  BY <1>4, EmptyBase, ClearBase, SameQueueBase, QueueStepBase
  DEF StopClient, StopSpeaker, ClearMusicState, Base, TypeOK
<1> QED BY <1>1, <1>2, <1>3, <1>4 DEF TransportStep

LEMMA WwiseBase == ASSUME Base, WwiseStep PROVE Base'
<1>1. CASE EndStop
  <2>1. at.id \in Ids
    BY <1>1 DEF Base, Locals, EndStop
  <2>2. queue' \subseteq Commands /\ tail' \in Nat /\ Deque' /\ PendingIsCurrent'
    BY <1>1, <2>1, PushStopBase DEF EndStop
  <2> QED BY <1>1, <2>2, HandlerFacts
          DEF EndStop, Goto, Base, TypeOK, Labels, Locals, authority, pipeline, locals, game
<1>2. ASSUME NEW id \in Ids, SelectBegin(id) PROVE Base'
  <2>1. at' \in Voices /\ sels' \in 0..MaxSel
    BY <1>2, HandlerFacts DEF SelectBegin, Voices, Base, TypeOK
  <2> QED BY <1>2, <2>1, HandlerFacts, SameQueueBase
          DEF SelectBegin, Goto, MayStart, Base, TypeOK, Labels, Locals, Voices,
              authority, pipeline, transport
<1>3. ASSUME NEW id \in Ids, EndBegin(id) PROVE Base'
  BY <1>3, HandlerFacts, SameQueueBase
  DEF EndBegin, Goto, MayStart, Base, TypeOK, Labels, Locals, pipeline, transport
<1>4. CASE SelectCheck \/ SelectMark
  BY <1>4, HandlerFacts, SameQueueBase
  DEF SelectCheck, SelectMark, Goto, Base, TypeOK, Labels, Locals, Voices,
      authority, pipeline, transport, locals, game
<1>5. CASE SelectRequest
  <2>1. requests' \in Seq(Voices)
    BY <1>5, SeqFacts DEF SelectRequest, Base, TypeOK, Locals
  <2>2. at' = at /\ at \in [id : Ids \cup {0}, sel : 0..MaxSel]
    BY <1>5 DEF SelectRequest, locals, Base, TypeOK
  <2> QED BY <1>5, <2>1, <2>2, HandlerFacts, SameQueueBase
          DEF SelectRequest, Goto, Base, TypeOK, Labels, Locals, authority, transport, locals, game
<1> QED BY <1>1, <1>2, <1>3, <1>4, <1>5 DEF WwiseStep

LEMMA UserBase == ASSUME Base, UserStep PROVE Base'
<1>1. ASSUME NEW h \in {"menu", "settings"}, ClearMusicHaptics(h) PROVE Base'
  BY <1>1, ClearBase, HandlerFacts
  DEF ClearMusicHaptics, Goto, Base, TypeOK, Labels, Locals, authority, pipeline, locals, game
<1>2. ASSUME NEW h \in {"menu", "settings"}, ClearSlots(h) PROVE Base'
  BY <1>2, SameQueueBase, HandlerFacts
  DEF ClearSlots, Goto, Base, TypeOK, Labels, Locals, pipeline, transport, locals, game
<1>3. ASSUME NEW m \in Menus, MenuOpened(m) \/ MenuClosed(m) PROVE Base'
  BY <1>3, SameQueueBase, HandlerFacts
  DEF MenuOpened, MenuClosed, Goto, Base, TypeOK, Labels, Locals, pipeline, transport, locals, game
<1>4. ASSUME NEW on \in BOOLEAN, ApplySettings(on) PROVE Base'
  BY <1>4, SameQueueBase, HandlerFacts
  DEF ApplySettings, Goto, Base, TypeOK, Labels, Locals, pipeline, transport, locals, game
<1> QED BY <1>1, <1>2, <1>3, <1>4 DEF UserStep, Revoking

LEMMA TickBase == ASSUME Base, TickStep PROVE Base'
<1>1. CASE TickPush
  <2>1. batch # <<>> /\ Head(batch) \in Voices /\ Tail(batch) \in Seq(Voices)
    BY <1>1 DEF TickPush, Base, Locals, TypeOK
  <2>2. queue' \subseteq Commands /\ tail' \in Nat /\ Deque' /\ PendingIsCurrent'
    BY <1>1, <2>1, PushAddBase DEF TickPush
  <2> QED BY <1>1, <2>1, <2>2, HandlerFacts
          DEF TickPush, Goto, Base, TypeOK, Labels, Locals, authority, pipeline, game
<1>2. CASE TickBegin
  BY <1>2, SameQueueBase, SeqFacts, HandlerFacts
  DEF TickBegin, Goto, MayStart, Base, TypeOK, Labels, Locals, authority, transport, game
<1>3. CASE TickEnd \/ TickCheck
  BY <1>3, SameQueueBase, HandlerFacts
  DEF TickEnd, TickCheck, Goto, Base, TypeOK, Labels, Locals,
      authority, pipeline, transport, locals, game
<1>4. CASE TickSkip \/ TickAdmit
  <2>1. batch' \in Seq(Voices) /\ (pc'["tick"] \in {"admit", "push"} => batch' # <<>>)
    BY <1>4, SeqFacts, HandlerFacts DEF TickSkip, TickAdmit, Goto, Base, TypeOK, Locals
  <2> QED BY <1>4, <2>1, SameQueueBase, HandlerFacts
          DEF TickSkip, TickAdmit, Goto, Base, TypeOK, Labels, Locals,
              authority, pipeline, transport, game
<1> QED BY <1>1, <1>2, <1>3, <1>4 DEF TickStep

LEMMA ResolveBase == ASSUME Base, Resolve PROVE Base'
<1>1. requests' \in Seq(Voices) /\ results' \in Seq(Voices)
  <2>1. requests \in Seq(Voices) /\ results \in Seq(Voices) /\ requests # <<>>
    BY DEF Resolve, Base, TypeOK
  <2>2. Head(requests) \in Voices /\ Tail(requests) \in Seq(Voices)
    BY <2>1, SeqFacts
  <2>3. Append(results, Head(requests)) \in Seq(Voices)
    BY <2>1, <2>2, SeqFacts
  <2>4. requests' = Tail(requests) /\ results' \in {results, Append(results, Head(requests))}
    BY DEF Resolve
  <2> QED BY <2>1, <2>2, <2>3, <2>4
<1> QED BY <1>1, SameQueueBase
        DEF Resolve, Base, TypeOK, Labels, Locals, authority, transport, locals, game

LEMMA NextBase == ASSUME Base, [Next]_vars PROVE Base'
<1>1. CASE UNCHANGED vars
  BY <1>1, SameQueueBase
  DEF vars, Base, TypeOK, Labels, Locals, authority, pipeline, transport, locals, game
<1> QED BY <1>1, WwiseBase, UserBase, TickBase, ResolveBase, TransportBase DEF Next

LEMMA BaseInvariant == Spec => []Base
  BY InitBase, NextBase, PTL DEF Spec

\* Every variable keeps its type.
THEOREM MusicTypes == Spec => []TypeOK
  BY BaseInvariant, PTL DEF Base

\* Whatever overlaps, an Add that waits for the next block was handed over after
\* the last clear and after the last end of its playing id.
THEOREM MusicPending == Spec => []PendingIsCurrent
  BY BaseInvariant, PTL DEF Base
-------------------------------------------------------------------------------
(* A revoker that runs by itself leaves nothing to feel.                   *)

LEMMA Serial ==
  ASSUME NEW r \in Handlers, r \notin Overlapping, NEW h \in Handlers, MayStart(h)
  PROVE  /\ pc[h] = "idle" /\ pc[r] = "idle"
         /\ h = r => \A g \in Handlers : pc[g] = "idle"
  BY DEF MayStart

LEMMA MenuInit == ASSUME Init PROVE MenuInv
  BY HandlerFacts
  DEF Init, MenuInv, NoMusicInMenu, Alone, Due, Surviving, Added, PendingAdds

LEMMA MenuWwise ==
  ASSUME Base, MenuInv, "menu" \notin Overlapping, WwiseStep
  PROVE  MenuInv'
<1>1. Due' \subseteq Due
  BY OnlyPushAdds
<1>2. CASE \E id \in Ids : SelectBegin(id) \/ EndBegin(id)
  BY <1>1, <1>2, Serial, HandlerFacts
  DEF SelectBegin, EndBegin, Goto, MenuInv, NoMusicInMenu, Alone, Base, TypeOK, authority
<1>3. CASE SelectCheck \/ SelectMark \/ SelectRequest \/ EndStop
  BY <1>1, <1>3, HandlerFacts
  DEF SelectCheck, SelectMark, SelectRequest, EndStop, Goto, MenuInv, NoMusicInMenu,
      Alone, Base, TypeOK, authority
<1> QED BY <1>2, <1>3 DEF WwiseStep

LEMMA MenuUser ==
  ASSUME Base, MenuInv, "menu" \notin Overlapping, UserStep
  PROVE  MenuInv'
<1>1. Due' \subseteq Due
  BY OnlyPushAdds
<1>2. ASSUME NEW m \in Menus, MenuOpened(m) PROVE MenuInv'
  BY <1>2, Serial, HandlerFacts
  DEF MenuOpened, Goto, MenuInv, NoMusicInMenu, Alone, Base, TypeOK
<1>3. ASSUME NEW m \in Menus, MenuClosed(m) PROVE MenuInv'
  BY <1>1, <1>3, Serial, HandlerFacts
  DEF MenuClosed, MenuInv, NoMusicInMenu, Alone, Base, TypeOK
<1>4. ASSUME NEW on \in BOOLEAN, ApplySettings(on) PROVE MenuInv'
  BY <1>1, <1>4, Serial, HandlerFacts
  DEF ApplySettings, Goto, MenuInv, NoMusicInMenu, Alone, Base, TypeOK
<1>5. ASSUME NEW h \in {"menu", "settings"}, ClearSlots(h) PROVE MenuInv'
  BY <1>1, <1>5, HandlerFacts
  DEF ClearSlots, Goto, MenuInv, NoMusicInMenu, Alone, Base, TypeOK
<1>6. ASSUME NEW h \in {"menu", "settings"}, ClearMusicHaptics(h) PROVE MenuInv'
  BY <1>6, ClearSilences, HandlerFacts
  DEF ClearMusicHaptics, Goto, MenuInv, NoMusicInMenu, Alone, Base, TypeOK, authority
<1> QED BY <1>2, <1>3, <1>4, <1>5, <1>6 DEF UserStep, Revoking

LEMMA MenuTick ==
  ASSUME Base, MenuInv, "menu" \notin Overlapping, TickStep
  PROVE  MenuInv'
<1>1. CASE TickPush
  BY <1>1, HandlerFacts
  DEF TickPush, Goto, MenuInv, NoMusicInMenu, Alone, Base, TypeOK, authority
<1>2. CASE TickBegin
  BY <1>2, SameDue, Serial, HandlerFacts
  DEF TickBegin, Goto, MenuInv, NoMusicInMenu, Alone, Base, TypeOK, authority, transport
<1>3. CASE TickEnd \/ TickSkip \/ TickCheck \/ TickAdmit
  BY <1>3, SameDue, HandlerFacts
  DEF TickEnd, TickSkip, TickCheck, TickAdmit, Goto, MenuInv, NoMusicInMenu, Alone,
      Base, TypeOK, authority, transport
<1> QED BY <1>1, <1>2, <1>3 DEF TickStep

LEMMA MenuRest ==
  ASSUME Base, MenuInv, Resolve \/ TransportStep
  PROVE  MenuInv'
<1>1. Due' \subseteq Due
  BY OnlyPushAdds
<1>2. UNCHANGED <<authority, pc>>
  BY DEF Resolve, TransportStep, Render, EndpointOpen, EndpointLost, StartClient, StopClient,
     StartSpeaker, StopSpeaker
<1> QED BY <1>1, <1>2 DEF MenuInv, NoMusicInMenu, Alone, authority

LEMMA MenuNext ==
  ASSUME Base, MenuInv, "menu" \notin Overlapping, [Next]_vars
  PROVE  MenuInv'
<1>1. CASE UNCHANGED vars
  BY <1>1, SameDue DEF vars, MenuInv, NoMusicInMenu, Alone, authority, transport
<1> QED BY <1>1, MenuWwise, MenuUser, MenuTick, MenuRest DEF Next

\* When the handler of a menu event runs by itself, no playing id is authorised
\* and nothing can be felt behind an open blocking menu, whatever the settings,
\* the client, the callbacks and the tick do in between.
THEOREM MenuSilence ==
  "menu" \notin Overlapping => (Spec => []NoMusicInMenu)
<1> SUFFICES ASSUME "menu" \notin Overlapping PROVE Spec => []NoMusicInMenu
  OBVIOUS
<1>1. Init => MenuInv
  BY MenuInit
<1>2. Base /\ MenuInv /\ [Next]_vars => MenuInv'
  BY MenuNext
<1>3. MenuInv => NoMusicInMenu
  BY DEF MenuInv
<1> QED BY <1>1, <1>2, <1>3, BaseInvariant, PTL DEF Spec
-------------------------------------------------------------------------------
LEMMA SettingsInit == ASSUME Init PROVE SettingsInv
  BY HandlerFacts
  DEF Init, SettingsInv, NoMusicWhenDisabled, Alone, Due, Surviving, Added, PendingAdds

LEMMA SettingsWwise ==
  ASSUME Base, SettingsInv, "settings" \notin Overlapping, WwiseStep
  PROVE  SettingsInv'
<1>1. Due' \subseteq Due
  BY OnlyPushAdds
<1>2. CASE \E id \in Ids : SelectBegin(id) \/ EndBegin(id)
  BY <1>1, <1>2, Serial, HandlerFacts
  DEF SelectBegin, EndBegin, Goto, SettingsInv, NoMusicWhenDisabled, Alone, Base, TypeOK, authority
<1>3. CASE SelectCheck \/ SelectMark \/ SelectRequest \/ EndStop
  BY <1>1, <1>3, HandlerFacts
  DEF SelectCheck, SelectMark, SelectRequest, EndStop, Goto, SettingsInv, NoMusicWhenDisabled,
      Alone, Base, TypeOK, authority
<1> QED BY <1>2, <1>3 DEF WwiseStep

LEMMA SettingsUser ==
  ASSUME Base, SettingsInv, "settings" \notin Overlapping, UserStep
  PROVE  SettingsInv'
<1>1. Due' \subseteq Due
  BY OnlyPushAdds
<1>2. ASSUME NEW m \in Menus, MenuOpened(m) PROVE SettingsInv'
  BY <1>1, <1>2, Serial, HandlerFacts
  DEF MenuOpened, Goto, SettingsInv, NoMusicWhenDisabled, Alone, Base, TypeOK
<1>3. ASSUME NEW m \in Menus, MenuClosed(m) PROVE SettingsInv'
  BY <1>1, <1>3, Serial, HandlerFacts
  DEF MenuClosed, SettingsInv, NoMusicWhenDisabled, Alone, Base, TypeOK
<1>4. ASSUME NEW on \in BOOLEAN, ApplySettings(on) PROVE SettingsInv'
  BY <1>1, <1>4, Serial, HandlerFacts
  DEF ApplySettings, Goto, SettingsInv, NoMusicWhenDisabled, Alone, Base, TypeOK
<1>5. ASSUME NEW h \in {"menu", "settings"}, ClearSlots(h) PROVE SettingsInv'
  BY <1>1, <1>5, HandlerFacts
  DEF ClearSlots, Goto, SettingsInv, NoMusicWhenDisabled, Alone, Base, TypeOK
<1>6. ASSUME NEW h \in {"menu", "settings"}, ClearMusicHaptics(h) PROVE SettingsInv'
  BY <1>6, ClearSilences, HandlerFacts
  DEF ClearMusicHaptics, Goto, SettingsInv, NoMusicWhenDisabled, Alone, Base, TypeOK, authority
<1> QED BY <1>2, <1>3, <1>4, <1>5, <1>6 DEF UserStep, Revoking

LEMMA SettingsTick ==
  ASSUME Base, SettingsInv, "settings" \notin Overlapping, TickStep
  PROVE  SettingsInv'
<1>1. CASE TickPush
  BY <1>1, HandlerFacts
  DEF TickPush, Goto, SettingsInv, NoMusicWhenDisabled, Alone, Base, TypeOK, authority
<1>2. CASE TickBegin
  BY <1>2, SameDue, Serial, HandlerFacts
  DEF TickBegin, Goto, SettingsInv, NoMusicWhenDisabled, Alone, Base, TypeOK, authority, transport
<1>3. CASE TickEnd \/ TickSkip \/ TickCheck \/ TickAdmit
  BY <1>3, SameDue, HandlerFacts
  DEF TickEnd, TickSkip, TickCheck, TickAdmit, Goto, SettingsInv, NoMusicWhenDisabled, Alone,
      Base, TypeOK, authority, transport
<1> QED BY <1>1, <1>2, <1>3 DEF TickStep

LEMMA SettingsRest ==
  ASSUME Base, SettingsInv, Resolve \/ TransportStep
  PROVE  SettingsInv'
<1>1. Due' \subseteq Due
  BY OnlyPushAdds
<1>2. UNCHANGED <<authority, pc>>
  BY DEF Resolve, TransportStep, Render, EndpointOpen, EndpointLost, StartClient, StopClient,
     StartSpeaker, StopSpeaker
<1> QED BY <1>1, <1>2 DEF SettingsInv, NoMusicWhenDisabled, Alone, authority

LEMMA SettingsNext ==
  ASSUME Base, SettingsInv, "settings" \notin Overlapping, [Next]_vars
  PROVE  SettingsInv'
<1>1. CASE UNCHANGED vars
  BY <1>1, SameDue DEF vars, SettingsInv, NoMusicWhenDisabled, Alone, authority, transport
<1> QED BY <1>1, SettingsWwise, SettingsUser, SettingsTick, SettingsRest DEF Next

\* When the handler of a settings change runs by itself, no playing id is
\* authorised and nothing can be felt while music haptics are switched off,
\* whatever the menus, the client, the callbacks and the tick do in between.
THEOREM SwitchSilence ==
  "settings" \notin Overlapping => (Spec => []NoMusicWhenDisabled)
<1> SUFFICES ASSUME "settings" \notin Overlapping PROVE Spec => []NoMusicWhenDisabled
  OBVIOUS
<1>1. Init => SettingsInv
  BY SettingsInit
<1>2. Base /\ SettingsInv /\ [Next]_vars => SettingsInv'
  BY SettingsNext
<1>3. SettingsInv => NoMusicWhenDisabled
  BY DEF SettingsInv
<1> QED BY <1>1, <1>2, <1>3, BaseInvariant, PTL DEF Spec
-------------------------------------------------------------------------------
(* Capacities.                                                             *)

Sized(S, n) == IsFiniteSet(S) /\ Cardinality(S) <= n

Capacities ==
  /\ Sized(queue, QueueCap) /\ Sized(voices, MixerCap) /\ Sized(slots, Slots)
  /\ Len(requests) <= RequestCap /\ Len(results) <= ResultCap

LEMMA CapFacts ==
  /\ QueueCap \in Nat \ {0} /\ MixerCap \in Nat \ {0} /\ Slots \in Nat \ {0}
  /\ RequestCap \in Nat \ {0} /\ ResultCap \in Nat \ {0}
  BY BoundsAssumption

LEMMA EmptySized == ASSUME NEW n \in Nat PROVE Sized({}, n)
  BY FS_EmptySet DEF Sized

LEMMA SubsetSized ==
  ASSUME NEW S, NEW n \in Nat, Sized(S, n), NEW T, T \subseteq S
  PROVE  Sized(T, n)
<1>1. IsFiniteSet(T) /\ Cardinality(T) <= Cardinality(S)
  BY FS_Subset DEF Sized
<1>2. Cardinality(T) \in Nat /\ Cardinality(S) \in Nat
  BY <1>1, FS_CardinalityType DEF Sized
<1> QED BY <1>1, <1>2 DEF Sized

LEMMA AddSized ==
  ASSUME NEW S, NEW n \in Nat, IsFiniteSet(S), Cardinality(S) < n, NEW x
  PROVE  Sized(S \cup {x}, n)
<1>1. Cardinality(S) \in Nat
  BY FS_CardinalityType
<1>2. IsFiniteSet(S \cup {x}) /\ Cardinality(S \cup {x}) \in {Cardinality(S), Cardinality(S) + 1}
  BY FS_AddElement
<1> QED BY <1>1, <1>2 DEF Sized

\* Evicting one makes room for one.
LEMMA SwapSized ==
  ASSUME NEW S, NEW n \in Nat, Sized(S, n), NEW x \in S, NEW y
  PROVE  Sized((S \ {x}) \cup {y}, n)
<1>1. IsFiniteSet(S \ {x}) /\ Cardinality(S \ {x}) = Cardinality(S) - 1
  BY FS_RemoveElement DEF Sized
<1>2. Cardinality(S) \in Nat /\ Cardinality(S \ {x}) \in Nat
  BY <1>1, FS_CardinalityType DEF Sized
<1>3. Cardinality(S \ {x}) < n
  BY <1>1, <1>2 DEF Sized
<1> QED BY <1>1, <1>3, AddSized

LEMMA PushAddSized ==
  ASSUME Capacities, NEW v, PushAdd(v)
  PROVE  Sized(queue', QueueCap)
<1> DEFINE new == [at |-> tail, kind |-> "add", id |-> v.id, sel |-> v.sel]
<1>1. CASE Cardinality(queue) < QueueCap
  <2>1. queue' = queue \cup {new}
    BY <1>1 DEF PushAdd, Append1
  <2> HIDE DEF new
  <2> QED BY <1>1, <2>1, AddSized, CapFacts DEF Capacities, Sized
<1>2. CASE ~(Cardinality(queue) < QueueCap)
  BY <1>2 DEF PushAdd, Capacities
<1> QED BY <1>1, <1>2

LEMMA PushStopSized ==
  ASSUME Capacities, NEW id, PushStop(id)
  PROVE  Sized(queue', QueueCap)
<1> DEFINE kept == {c \in queue : ~(c.kind = "add" /\ c.id = id)}
           stop == [id |-> id, sel |-> 0]
           new == [at |-> tail, kind |-> "stop", id |-> stop.id, sel |-> stop.sel]
<1>1. Sized(kept, QueueCap)
  BY SubsetSized, CapFacts DEF Capacities
<1>2. CASE Cardinality(kept) < QueueCap /\ Append1(kept, "stop", stop)
  <2>1. queue' = kept \cup {new}
    BY <1>2 DEF Append1
  <2> HIDE DEF kept, new
  <2> QED BY <1>1, <1>2, <2>1, AddSized, CapFacts DEF Sized
<1>3. CASE \E c \in PendingAdds(kept) : Append1(kept \ {c}, "stop", stop)
  <2>1. PICK c \in kept : queue' = (kept \ {c}) \cup {new}
    BY <1>3 DEF Append1, PendingAdds
  <2> HIDE DEF kept, new
  <2> QED BY <1>1, <2>1, SwapSized, CapFacts
<1>4. CASE queue' = kept
  BY <1>1, <1>4
<1> QED BY <1>2, <1>3, <1>4 DEF PushStop

LEMMA ClearSized == ASSUME ClearQueue PROVE Sized(queue', QueueCap)
<1> DEFINE clear == [at |-> 0, kind |-> "clear", id |-> 0, sel |-> 0]
<1>1. queue' = {clear}
  BY DEF ClearQueue
<1> HIDE DEF clear
<1>2. IsFiniteSet({clear}) /\ Cardinality({clear}) = 1
  BY FS_Singleton
<1> QED BY <1>1, <1>2, CapFacts DEF Sized

LEMMA RenderSized ==
  ASSUME Capacities, Render
  PROVE  Sized(voices', MixerCap)
<1>1. IsFiniteSet(Surviving)
  BY FS_Subset DEF Surviving, Capacities, Sized
<1>2. IsFiniteSet(Added)
  <2> DEFINE C == {c \in PendingAdds(queue) : \A d \in queue : Ends(d, c.id) => d.at < c.at}
  <2>1. IsFiniteSet(C)
    BY FS_Subset DEF PendingAdds, Capacities, Sized
  <2>2. Added = {VoiceOf(c) : c \in C}
    BY DEF Added
  <2> DEFINE f == [c \in C |-> VoiceOf(c)]
  <2> HIDE DEF C
  <2>3. f \in Surjection(C, Added)
    BY <2>2 DEF Surjection
  <2> HIDE DEF f
  <2> QED BY <2>1, <2>3, FS_Surjection
<1>3. IsFiniteSet(Due)
  BY <1>1, <1>2, FS_Union DEF Due
<1>4. PICK refused \in SUBSET Added :
        Cardinality(Due \ refused) <= MixerCap /\ voices' \subseteq Due \ refused
  BY DEF Render
<1>5. Sized(Due \ refused, MixerCap)
  BY <1>3, <1>4, FS_Subset DEF Sized
<1> QED BY <1>4, <1>5, SubsetSized, CapFacts

LEMMA InitCapacities == ASSUME Init PROVE Capacities
  BY EmptySized, CapFacts DEF Init, Capacities

LEMMA TransportCapacities == ASSUME Capacities, TransportStep PROVE Capacities'
<1>1. CASE Render
  BY <1>1, RenderSized, EmptySized, CapFacts DEF Render, Capacities, authority, pipeline
<1>2. CASE EndpointOpen \/ EndpointLost
  BY <1>2, EmptySized, CapFacts
  DEF EndpointOpen, EndpointLost, ClearMusicState, Capacities, authority, pipeline
<1>3. CASE StartClient \/ StartSpeaker
  BY <1>3, EmptySized, CapFacts
  DEF StartClient, StartSpeaker, ClearMusicState, Capacities, authority, pipeline
<1>4. CASE StopClient \/ StopSpeaker
  BY <1>4, EmptySized, ClearSized, CapFacts
  DEF StopClient, StopSpeaker, ClearMusicState, Capacities, authority, pipeline
<1> QED BY <1>1, <1>2, <1>3, <1>4 DEF TransportStep

LEMMA WwiseCapacities == ASSUME Base, Capacities, WwiseStep PROVE Capacities'
<1>1. CASE EndStop
  BY <1>1, PushStopSized DEF EndStop, Capacities, authority, pipeline
<1>2. ASSUME NEW id \in Ids, SelectBegin(id) PROVE Capacities'
  BY <1>2 DEF SelectBegin, Capacities, authority, pipeline, transport
<1>3. ASSUME NEW id \in Ids, EndBegin(id) PROVE Capacities'
  <2>1. slots' \subseteq slots
    BY <1>3 DEF EndBegin
  <2> QED BY <1>3, <2>1, SubsetSized, CapFacts DEF EndBegin, Capacities, pipeline, transport
<1>4. CASE SelectCheck
  BY <1>4 DEF SelectCheck, Capacities, authority, pipeline, transport
<1>5. CASE SelectMark
  <2>1. Sized(slots', Slots)
    <3>1. CASE slots' = slots
      BY <3>1 DEF Capacities
    <3>2. CASE slots' = slots \cup {at.id} /\ at.id \in slots
      BY <3>2 DEF Capacities
    <3>3. CASE slots' = slots \cup {at.id} /\ Cardinality(slots) < Slots
      BY <3>3, AddSized, CapFacts DEF Capacities, Sized
    <3> QED BY <1>5, <3>1, <3>2, <3>3 DEF SelectMark
  <2> QED BY <1>5, <2>1 DEF SelectMark, Capacities, pipeline, transport
<1>6. CASE SelectRequest
  <2>1. Len(requests') <= RequestCap
    BY <1>6, CapFacts DEF SelectRequest, Capacities, Base, TypeOK
  <2> QED BY <1>6, <2>1 DEF SelectRequest, Capacities, authority, transport
<1> QED BY <1>1, <1>2, <1>3, <1>4, <1>5, <1>6 DEF WwiseStep

LEMMA RestCapacities ==
  ASSUME Base, Capacities, UserStep \/ TickStep \/ Resolve
  PROVE  Capacities'
<1>1. CASE TickPush
  BY <1>1, PushAddSized DEF TickPush, Capacities, authority, pipeline
<1>2. CASE TickBegin
  BY <1>2, CapFacts DEF TickBegin, Capacities, authority, transport
<1>3. CASE TickEnd \/ TickSkip \/ TickCheck \/ TickAdmit
  BY <1>3 DEF TickEnd, TickSkip, TickCheck, TickAdmit, Capacities, authority, pipeline, transport
<1>4. CASE Resolve
  <2>1. Len(requests') <= RequestCap
    BY <1>4, CapFacts DEF Resolve, Capacities, Base, TypeOK
  <2>2. Len(results') <= ResultCap
    <3>1. CASE results' = results
      BY <3>1 DEF Capacities
    <3>2. CASE Len(results) < ResultCap /\ results' = Append(results, Head(requests))
      BY <1>4, <3>2, SeqFacts, CapFacts DEF Resolve, Base, TypeOK
    <3> QED BY <1>4, <3>1, <3>2 DEF Resolve
  <2> QED BY <1>4, <2>1, <2>2 DEF Resolve, Capacities, authority, transport
<1>5. CASE UserStep
  <2>1. ASSUME NEW h \in {"menu", "settings"}, ClearMusicHaptics(h) PROVE Capacities'
    BY <2>1, ClearSized DEF ClearMusicHaptics, Capacities, authority, pipeline
  <2>2. ASSUME NEW h \in {"menu", "settings"}, ClearSlots(h) PROVE Capacities'
    BY <2>2, EmptySized, CapFacts DEF ClearSlots, Capacities, pipeline, transport
  <2>3. ASSUME NEW m \in Menus, MenuOpened(m) \/ MenuClosed(m) PROVE Capacities'
    BY <2>3 DEF MenuOpened, MenuClosed, Capacities, pipeline, transport
  <2>4. ASSUME NEW on \in BOOLEAN, ApplySettings(on) PROVE Capacities'
    BY <2>4 DEF ApplySettings, Capacities, pipeline, transport
  <2> QED BY <1>5, <2>1, <2>2, <2>3, <2>4 DEF UserStep, Revoking
<1> QED BY <1>1, <1>2, <1>3, <1>4, <1>5 DEF TickStep

LEMMA CapacitiesInvariant == Spec => []Capacities
<1>1. Base /\ Capacities /\ [Next]_vars => Capacities'
  <2>1. CASE UNCHANGED vars
    BY <2>1 DEF vars, Capacities, authority, pipeline, transport
  <2> QED BY <2>1, TransportCapacities, WwiseCapacities, RestCapacities DEF Next
<1> QED BY <1>1, InitCapacities, BaseInvariant, PTL DEF Spec

\* The deque, the mixer, the slots and the pipeline queues never outgrow their
\* constants, whatever overlaps and however full they are.
THEOREM MusicBounded == Spec => []Bounded
<1>1. Capacities => Bounded
  BY DEF Capacities, Sized, Bounded
<1> QED BY <1>1, CapacitiesInvariant, PTL
-------------------------------------------------------------------------------
(* The callback and the tick by themselves; menus, settings and the client *)
(* may overlap each other.                                                 *)

\* A handler at work has found the switch on, and past its look at the mask no menu
\* open; a revoker past its slots has left none taken.
Working ==
  /\ Alone("wwise") /\ Alone("tick")
  /\ \A h \in {"menu", "settings"} : pc[h] = "queue" => slots = {}
  /\ pc["wwise"] # "idle" \/ pc["tick"] # "idle" => enabled
  /\ pc["wwise"] = "mark" => menus = {}
  /\ pc["tick"] \in {"admit", "push"} => menus = {} /\ Head(batch).id \in slots

SoloInv == NoMusicInMenu /\ NoMusicWhenDisabled /\ Working

Solo == {"wwise", "tick"} \cap Overlapping = {}

LEMMA SoloStart ==
  ASSUME Solo, NEW h \in Handlers, MayStart(h)
  PROVE  /\ pc[h] = "idle" /\ pc["wwise"] = "idle" /\ pc["tick"] = "idle"
         /\ h \in {"wwise", "tick"} => \A g \in Handlers : pc[g] = "idle"
  BY DEF MayStart, Solo, Handlers

LEMMA SoloInit == ASSUME Init PROVE SoloInv
  BY HandlerFacts
  DEF Init, SoloInv, NoMusicInMenu, NoMusicWhenDisabled, Working, Alone, Due, Surviving, Added,
      PendingAdds

LEMMA SoloWwise ==
  ASSUME Base, SoloInv, Solo, WwiseStep
  PROVE  SoloInv'
<1>1. Due' \subseteq Due
  BY OnlyPushAdds
<1>2. ASSUME NEW id \in Ids, SelectBegin(id) \/ EndBegin(id) PROVE SoloInv'
  <2>1. \A g \in Handlers : pc[g] = "idle"
    BY <1>2, SoloStart, HandlerFacts DEF SelectBegin, EndBegin
  <2>2. /\ pc'["wwise"] \in {"idle", "check", "stop"} /\ (pc'["wwise"] # "idle" => enabled)
        /\ \A g \in Handlers \ {"wwise"} : pc'[g] = "idle"
    BY <1>2, <2>1, HandlerFacts DEF SelectBegin, EndBegin, Goto, Base, TypeOK
  <2>3. slots' \subseteq slots /\ menus' = menus /\ enabled' = enabled
    BY <1>2 DEF SelectBegin, EndBegin, authority
  <2> QED BY <1>1, <2>1, <2>2, <2>3, HandlerFacts
          DEF SoloInv, NoMusicInMenu, NoMusicWhenDisabled, Working, Alone
<1>3. CASE SelectCheck \/ SelectMark \/ SelectRequest \/ EndStop
  BY <1>1, <1>3, HandlerFacts
  DEF SelectCheck, SelectMark, SelectRequest, EndStop, Goto, SoloInv, NoMusicInMenu,
      NoMusicWhenDisabled, Working, Alone, Base, TypeOK, Labels, authority
<1> QED BY <1>2, <1>3 DEF WwiseStep

LEMMA SoloUser ==
  ASSUME Base, SoloInv, Solo, UserStep
  PROVE  SoloInv'
<1>1. Due' \subseteq Due
  BY OnlyPushAdds
<1>2. ASSUME NEW m \in Menus, MenuOpened(m) PROVE SoloInv'
  BY <1>1, <1>2, SoloStart, HandlerFacts
  DEF MenuOpened, Goto, SoloInv, NoMusicInMenu, NoMusicWhenDisabled, Working, Alone, Base, TypeOK
<1>3. ASSUME NEW m \in Menus, MenuClosed(m) PROVE SoloInv'
  BY <1>1, <1>3, SoloStart, HandlerFacts
  DEF MenuClosed, SoloInv, NoMusicInMenu, NoMusicWhenDisabled, Working, Alone, Base, TypeOK
<1>4. ASSUME NEW on \in BOOLEAN, ApplySettings(on) PROVE SoloInv'
  BY <1>1, <1>4, SoloStart, HandlerFacts
  DEF ApplySettings, Goto, SoloInv, NoMusicInMenu, NoMusicWhenDisabled, Working, Alone, Base, TypeOK
<1>5. ASSUME NEW h \in {"menu", "settings"}, ClearSlots(h) PROVE SoloInv'
  BY <1>1, <1>5, HandlerFacts
  DEF ClearSlots, Goto, SoloInv, NoMusicInMenu, NoMusicWhenDisabled, Working, Alone, Base, TypeOK
<1>6. ASSUME NEW h \in {"menu", "settings"}, ClearMusicHaptics(h) PROVE SoloInv'
  BY <1>6, ClearSilences, HandlerFacts
  DEF ClearMusicHaptics, Goto, SoloInv, NoMusicInMenu, NoMusicWhenDisabled, Working, Alone, Base,
      TypeOK, authority
<1> QED BY <1>2, <1>3, <1>4, <1>5, <1>6 DEF UserStep, Revoking

LEMMA SoloTick ==
  ASSUME Base, SoloInv, Solo, TickStep
  PROVE  SoloInv'
<1>1. CASE TickPush
  BY <1>1, HandlerFacts
  DEF TickPush, Goto, SoloInv, NoMusicInMenu, NoMusicWhenDisabled, Working, Alone, Base, TypeOK,
      authority
<1>2. CASE TickBegin
  BY <1>2, SameDue, SoloStart, HandlerFacts
  DEF TickBegin, Goto, SoloInv, NoMusicInMenu, NoMusicWhenDisabled, Working, Alone, Base, TypeOK,
      authority, transport
<1>3. CASE TickEnd \/ TickSkip \/ TickCheck \/ TickAdmit
  BY <1>3, SameDue, HandlerFacts
  DEF TickEnd, TickSkip, TickCheck, TickAdmit, Goto, SoloInv, NoMusicInMenu, NoMusicWhenDisabled,
      Working, Alone, Base, TypeOK, authority, transport, locals
<1> QED BY <1>1, <1>2, <1>3 DEF TickStep

LEMMA SoloRest ==
  ASSUME Base, SoloInv, Resolve \/ TransportStep
  PROVE  SoloInv'
<1>1. Due' \subseteq Due
  BY OnlyPushAdds
<1>2. UNCHANGED <<authority, pc, batch>>
  BY DEF Resolve, TransportStep, Render, EndpointOpen, EndpointLost, StartClient, StopClient,
     StartSpeaker, StopSpeaker, locals
<1> QED BY <1>1, <1>2
        DEF SoloInv, NoMusicInMenu, NoMusicWhenDisabled, Working, Alone, authority

LEMMA SoloNext ==
  ASSUME Base, SoloInv, Solo, [Next]_vars
  PROVE  SoloInv'
<1>1. CASE UNCHANGED vars
  BY <1>1, SameDue
  DEF vars, SoloInv, NoMusicInMenu, NoMusicWhenDisabled, Working, Alone, authority, transport, locals
<1> QED BY <1>1, SoloWwise, SoloUser, SoloTick, SoloRest DEF Next

LEMMA SoloInvariant == Solo => (Spec => []SoloInv)
<1> SUFFICES ASSUME Solo PROVE Spec => []SoloInv
  OBVIOUS
<1>1. Init => SoloInv
  BY SoloInit
<1>2. Base /\ SoloInv /\ [Next]_vars => SoloInv'
  BY SoloNext
<1> QED BY <1>1, <1>2, BaseInvariant, PTL DEF Spec

\* When the callback and the tick run by themselves, neither revoker leaves anything
\* to feel, however menus, settings and the client overlap.
THEOREM SoloSilence ==
  Solo => (Spec => [](NoMusicInMenu /\ NoMusicWhenDisabled))
<1> SUFFICES ASSUME Solo PROVE Spec => [](NoMusicInMenu /\ NoMusicWhenDisabled)
  OBVIOUS
<1>1. SoloInv => NoMusicInMenu /\ NoMusicWhenDisabled
  BY DEF SoloInv
<1>2. Spec => []SoloInv
  BY SoloInvariant
<1> QED BY <1>1, <1>2, PTL
-------------------------------------------------------------------------------
(* A transport without its haptics client.                                 *)

ClientInv ==
  /\ NoMusicWithoutClient
  /\ pc["tick"] = "push" => client

\* An Add is the only command that makes a voice due.
LEMMA OnlyTickPushes ==
  ASSUME Base, [Next]_vars, ~TickPush
  PROVE  Due' \subseteq Due
<1>1. CASE UNCHANGED vars
  BY <1>1, SameDue DEF vars, transport
<1>2. CASE TickStep
  BY <1>2, SameDue DEF TickStep, TickBegin, TickEnd, TickSkip, TickCheck, TickAdmit, transport
<1> QED BY <1>1, <1>2, OnlyPushAdds DEF Next

LEMMA ClientNext ==
  ASSUME Base, ClientInv, ~({"tick", "client"} \subseteq Overlapping), [Next]_vars
  PROVE  ClientInv'
<1>1. ~TickPush => Due' \subseteq Due
  BY OnlyTickPushes
<1>2. CASE TickPush
  BY <1>2, HandlerFacts DEF TickPush, Goto, ClientInv, NoMusicWithoutClient, Base, TypeOK
<1>3. CASE StopClient
  <2>1. Due' = {}
    BY <1>3, ClearSilences, StateClearSilences DEF StopClient
  <2>2. pc' = pc /\ pc["tick"] = "idle"
    BY <1>3, HandlerFacts DEF StopClient, MayStart
  <2> QED BY <2>1, <2>2 DEF ClientInv, NoMusicWithoutClient
<1>4. CASE StartClient
  <2>1. pc' = pc /\ pc["tick"] = "idle"
    BY <1>4, HandlerFacts DEF StartClient, MayStart
  <2> QED BY <1>1, <1>4, <2>1 DEF ClientInv, NoMusicWithoutClient, StartClient, TickPush
<1>5. CASE client' = client /\ ~TickPush
  <2>1. pc'["tick"] = "push" => pc["tick"] = "push" \/ TickAdmit
    BY <1>5, HandlerFacts
    DEF Next, WwiseStep, UserStep, Revoking, TickStep, TransportStep, SelectBegin, EndBegin,
        SelectCheck, SelectMark, SelectRequest, EndStop, MenuOpened, MenuClosed, ApplySettings,
        ClearSlots, ClearMusicHaptics, TickBegin, TickEnd, TickSkip, TickCheck, Resolve, Render,
        EndpointOpen, EndpointLost, StartClient, StopClient, StartSpeaker, StopSpeaker, vars,
        Goto, Base, TypeOK
  <2>2. TickAdmit /\ pc'["tick"] = "push" => client
    BY HandlerFacts DEF TickAdmit, Goto, Base, TypeOK
  <2> QED BY <1>1, <1>5, <2>1, <2>2 DEF ClientInv, NoMusicWithoutClient
<1>6. TickPush \/ StopClient \/ StartClient \/ client' = client
  BY DEF Next, WwiseStep, UserStep, Revoking, TickStep, TransportStep, SelectBegin, EndBegin,
     SelectCheck, SelectMark, SelectRequest, EndStop, MenuOpened, MenuClosed, ApplySettings,
     ClearSlots, ClearMusicHaptics, TickBegin, TickEnd, TickSkip, TickCheck, TickAdmit, Resolve,
     Render, EndpointOpen, EndpointLost, StartSpeaker, StopSpeaker, vars, transport
<1> QED BY <1>2, <1>3, <1>4, <1>5, <1>6

LEMMA ClientInit == ASSUME Init PROVE ClientInv
  BY HandlerFacts
  DEF Init, ClientInv, NoMusicWithoutClient, Due, Surviving, Added, PendingAdds

\* Unless the tick is between its look at the client and its push when the client
\* leaves, a transport that serves only the speaker plays no music, whatever else
\* overlaps.
THEOREM ClientSilence ==
  ~({"tick", "client"} \subseteq Overlapping) => (Spec => []NoMusicWithoutClient)
<1> SUFFICES ASSUME ~({"tick", "client"} \subseteq Overlapping)
             PROVE  Spec => []NoMusicWithoutClient
  OBVIOUS
<1>1. Init => ClientInv
  BY ClientInit
<1>2. Base /\ ClientInv /\ [Next]_vars => ClientInv'
  BY ClientNext
<1>3. ClientInv => NoMusicWithoutClient
  BY DEF ClientInv
<1> QED BY <1>1, <1>2, <1>3, BaseInvariant, PTL DEF Spec
-------------------------------------------------------------------------------
(* Music whose playing id has ended.                                       *)

\* The queue has room for a stop: it is not full, or it holds an Add to evict, or a
\* clear that silences more than the stop would.
StopsFit == Cardinality(queue) >= QueueCap => \E c \in queue : c.kind # "stop"

\* Between the end of an id and its stop only the mixer and the queue still know it.
EndedInv ==
  /\ pc["wwise"] \in {"check", "mark", "request"} => playing[at.id] = "playing"
  /\ \A id \in Ids : playing[id] = "ended" =>
       /\ id \notin slots
       /\ ~(pc["wwise"] = "stop" /\ at.id = id) => \A v \in Due : v.id # id

LEMMA StopSilences ==
  ASSUME Base, Capacities, StopsFit, NEW id \in Ids, PushStop(id), voices' = voices
  PROVE  \A v \in Due' : v.id # id
<1> DEFINE kept == {c \in queue : ~(c.kind = "add" /\ c.id = id)}
           stop == [id |-> id, sel |-> 0]
           new == [at |-> tail, kind |-> "stop", id |-> stop.id, sel |-> stop.sel]
<1>1. \A c \in PendingAdds(kept) : c.id # id
  BY DEF PendingAdds
<1>2. CASE \E q \in SUBSET kept : Append1(q, "stop", stop)
  <2>1. PICK q \in SUBSET kept : queue' = q \cup {new}
    BY <1>2 DEF Append1
  <2>2. new.kind = "stop" /\ new.id = id
    OBVIOUS
  <2> HIDE DEF kept, stop, new
  <2>3. new \in queue' /\ Ends(new, id)
    BY <2>1, <2>2 DEF Ends
  <2>4. \A v \in Surviving' : v.id # id
    BY <2>3 DEF Surviving
  <2>5. \A c \in PendingAdds(queue') : c.id # id
    BY <1>1, <2>1, <2>2 DEF PendingAdds
  <2>6. \A v \in Added' : v.id # id
    BY <2>5 DEF Added, VoiceOf
  <2> QED BY <2>4, <2>6 DEF Due
<1>3. CASE ~\E q \in SUBSET kept : Append1(q, "stop", stop)
  <2>1. Cardinality(kept) >= QueueCap /\ PendingAdds(kept) = {} /\ queue' = kept
    <3>1. \A c \in PendingAdds(kept) : kept \ {c} \in SUBSET kept
      OBVIOUS
    <3>2. kept \in SUBSET kept
      OBVIOUS
    <3>3. PushStop(id) => \/ Append1(kept, "stop", stop)
                          \/ \E c \in PendingAdds(kept) : Append1(kept \ {c}, "stop", stop)
                          \/ /\ Cardinality(kept) >= QueueCap /\ PendingAdds(kept) = {}
                             /\ queue' = kept
      BY DEF PushStop
    <3> HIDE DEF kept, stop
    <3> QED BY <1>3, <3>1, <3>2, <3>3
  <2>2. Cardinality(queue) >= QueueCap
    <3>1. kept \subseteq queue /\ IsFiniteSet(queue)
      BY DEF Capacities, Sized
    <3> HIDE DEF kept
    <3>2. Cardinality(kept) <= Cardinality(queue) /\ IsFiniteSet(kept)
      BY <3>1, FS_Subset
    <3>3. Cardinality(kept) \in Nat /\ Cardinality(queue) \in Nat
      BY <3>1, <3>2, FS_CardinalityType
    <3> QED BY <2>1, <3>2, <3>3, CapFacts
  <2>3. PICK c \in queue : c.kind # "stop"
    BY <2>2 DEF StopsFit
  <2>4. IsFiniteSet(queue) /\ IsFiniteSet(kept) /\ kept \subseteq queue
    BY FS_Subset DEF Capacities, Sized
  <2>5. kept = queue
    <3> HIDE DEF kept
    <3>1. Cardinality(queue) <= QueueCap
      BY DEF Capacities, Sized
    <3>2. Cardinality(kept) = Cardinality(queue)
      BY <2>1, <2>4, <3>1, FS_Subset, FS_CardinalityType, CapFacts
    <3> QED BY <2>4, <3>2, FS_Subset
  <2>6. c.kind = "clear"
    <3>1. c.kind \in {"add", "stop", "clear"}
      BY DEF Base, TypeOK, Commands
    <3>2. c.kind # "add"
      BY <2>1, <2>5 DEF PendingAdds
    <3> QED BY <2>3, <3>1, <3>2
  <2>7. c \in queue' /\ PendingAdds(queue') = {}
    BY <2>1, <2>5
  <2>8. Due' = {}
    BY <2>6, <2>7 DEF Due, Surviving, Added, Ends
  <2> QED BY <2>8
<1> QED BY <1>2, <1>3

LEMMA EndedInit == ASSUME Init PROVE EndedInv
  BY HandlerFacts DEF Init, EndedInv

LEMMA EndedWwise ==
  ASSUME Base, Capacities, SoloInv, EndedInv, StopsFit, Solo, WwiseStep
  PROVE  EndedInv'
<1>1. Due' \subseteq Due
  BY OnlyPushAdds
<1>2. ASSUME NEW id \in Ids, SelectBegin(id) PROVE EndedInv'
  <2>1. pc["wwise"] = "idle"
    BY <1>2, SoloStart, HandlerFacts DEF SelectBegin
  <2>2. /\ playing' = [playing EXCEPT ![id] = "playing"] /\ slots' = slots /\ at'.id = id
        /\ pc'["wwise"] \in {"check", "idle"}
    BY <1>2, HandlerFacts DEF SelectBegin, authority, Goto, Base, TypeOK
  <2>3. playing'[id] = "playing" /\ \A i \in Ids : playing'[i] = "ended" => playing[i] = "ended"
    BY <2>2 DEF Base, TypeOK
  <2> QED BY <1>1, <2>1, <2>2, <2>3 DEF EndedInv
<1>3. ASSUME NEW id \in Ids, EndBegin(id) PROVE EndedInv'
  <2>1. pc["wwise"] = "idle" /\ pc["settings"] = "idle"
    BY <1>3, SoloStart, HandlerFacts DEF EndBegin
  <2>2. /\ playing' = [playing EXCEPT ![id] = "ended"] /\ at'.id = id
        /\ pc'["wwise"] = (IF enabled THEN "stop" ELSE "idle")
        /\ slots' = IF enabled THEN slots \ {id} ELSE slots
    BY <1>3, HandlerFacts DEF EndBegin, Goto, Base, TypeOK
  <2>3. \A i \in Ids : playing'[i] = "ended" => i = id \/ playing[i] = "ended"
    BY <2>2 DEF Base, TypeOK
  <2>4. ~enabled => slots = {} /\ Due = {}
    BY <2>1 DEF SoloInv, NoMusicWhenDisabled
  <2>5. CASE enabled
    BY <1>1, <2>1, <2>2, <2>3, <2>5 DEF EndedInv
  <2>6. CASE ~enabled
    BY <1>1, <2>2, <2>4, <2>6 DEF EndedInv
  <2> QED BY <2>5, <2>6
<1>4. CASE SelectCheck \/ SelectRequest
  <2>1. /\ playing' = playing /\ slots' = slots /\ at' = at
        /\ pc["wwise"] \in {"check", "request"} /\ pc'["wwise"] \in {"mark", "idle"}
    BY <1>4, HandlerFacts DEF SelectCheck, SelectRequest, Goto, game, locals, authority, Base, TypeOK
  <2> QED BY <1>1, <2>1 DEF EndedInv
<1>5. CASE SelectMark
  <2>1. /\ playing' = playing /\ slots' \subseteq slots \cup {at.id} /\ at' = at
        /\ pc["wwise"] = "mark" /\ pc'["wwise"] \in {"request", "idle"}
    BY <1>5, HandlerFacts DEF SelectMark, Goto, game, locals, Base, TypeOK
  <2> QED BY <1>1, <2>1 DEF EndedInv
<1>6. CASE EndStop
  <2>1. /\ playing' = playing /\ slots' = slots /\ at' = at /\ at.id \in Ids
        /\ pc["wwise"] = "stop" /\ pc'["wwise"] = "idle" /\ PushStop(at.id) /\ voices' = voices
    BY <1>6, HandlerFacts DEF EndStop, Goto, game, locals, authority, Base, TypeOK, Locals
  <2>2. \A v \in Due' : v.id # at.id
    BY <2>1, StopSilences
  <2> QED BY <1>1, <2>1, <2>2 DEF EndedInv
<1> QED BY <1>2, <1>3, <1>4, <1>5, <1>6 DEF WwiseStep

LEMMA EndedRest ==
  ASSUME Base, EndedInv, UserStep \/ Resolve \/ TransportStep
  PROVE  EndedInv'
<1>1. Due' \subseteq Due
  BY OnlyPushAdds
<1>2. slots' \subseteq slots /\ playing' = playing /\ at' = at /\ pc'["wwise"] = pc["wwise"]
  BY HandlerFacts
  DEF UserStep, Revoking, Resolve, TransportStep, MenuOpened, MenuClosed, ApplySettings,
      ClearSlots, ClearMusicHaptics, Render, EndpointOpen, EndpointLost, StartClient, StopClient,
      StartSpeaker, StopSpeaker, Goto, authority, locals, game, Base, TypeOK
<1> QED BY <1>1, <1>2 DEF EndedInv

\* The tick hands over authorised ids alone.
LEMMA EndedTick ==
  ASSUME Base, SoloInv, EndedInv, TickStep
  PROVE  EndedInv'
<1>1. playing' = playing /\ slots' = slots /\ at' = at /\ pc'["wwise"] = pc["wwise"]
  BY HandlerFacts
  DEF TickStep, TickBegin, TickEnd, TickSkip, TickCheck, TickAdmit, TickPush, Goto, authority,
      locals, game, Base, TypeOK
<1>2. CASE TickPush
  <2> DEFINE v == Head(batch)
  <2>1. v.id \in slots /\ PushAdd(v) /\ voices' = voices
    BY <1>2 DEF TickPush, SoloInv, Working
  <2>2. Due' \subseteq Due \cup {VoiceOf([at |-> tail, kind |-> "add", id |-> v.id, sel |-> v.sel])}
    <3> DEFINE new == [at |-> tail, kind |-> "add", id |-> v.id, sel |-> v.sel]
    <3>1. queue' \in {queue, queue \cup {new}}
      BY <2>1 DEF PushAdd, Append1
    <3>2. \A i : ~Ends(new, i)
      BY DEF Ends
    <3> HIDE DEF new, v
    <3>3. Surviving' \subseteq Surviving
      BY <2>1, <3>1 DEF Surviving
    <3>4. Added' \subseteq Added \cup {VoiceOf(new)}
      BY <3>1 DEF Added, PendingAdds
    <3>5. Due' \subseteq Due \cup {VoiceOf(new)}
      BY <3>3, <3>4 DEF Due
    <3> QED BY <3>5 DEF new
  <2>3. VoiceOf([at |-> tail, kind |-> "add", id |-> v.id, sel |-> v.sel]).id = v.id
    BY DEF VoiceOf
  <2> HIDE DEF v
  <2> QED BY <1>1, <2>1, <2>2, <2>3 DEF EndedInv
<1>3. CASE ~TickPush
  <2>1. Due' \subseteq Due
    BY <1>3, SameDue DEF TickStep, TickBegin, TickEnd, TickSkip, TickCheck, TickAdmit, transport
  <2> QED BY <1>1, <2>1 DEF EndedInv
<1> QED BY <1>2, <1>3

LEMMA EndedNext ==
  ASSUME Base, Capacities, SoloInv, EndedInv, StopsFit, Solo, [Next]_vars
  PROVE  EndedInv'
<1>1. CASE UNCHANGED vars
  BY <1>1, SameDue DEF vars, EndedInv, authority, transport, locals, game
<1> QED BY <1>1, EndedWwise, EndedTick, EndedRest DEF Next

\* When the callback and the tick run by themselves and the queue never fills with
\* stops, music whose playing id ended is neither authorised nor felt, a decode that
\* finishes later included, for any number of ids, menus and selections.
THEOREM EndSilence ==
  Solo => (Spec /\ []StopsFit => []NoMusicAfterEnd)
<1> SUFFICES ASSUME Solo PROVE Spec /\ []StopsFit => []NoMusicAfterEnd
  OBVIOUS
<1>1. Init => EndedInv
  BY EndedInit
<1>2. Base /\ Capacities /\ SoloInv /\ EndedInv /\ StopsFit /\ [Next]_vars => EndedInv'
  BY EndedNext
<1>3. EndedInv => NoMusicAfterEnd
  BY DEF EndedInv, NoMusicAfterEnd
<1>4. Spec => []SoloInv
  BY SoloInvariant
<1> QED BY <1>1, <1>2, <1>3, <1>4, BaseInvariant, CapacitiesInvariant, PTL DEF Spec

\* An id ends once, so the queue holds at most one stop of each.
Stops ==
  /\ pc["wwise"] = "stop" => playing[at.id] = "ended"
  /\ \A c \in queue : c.kind = "stop" =>
       /\ c.id \in Ids /\ playing[c.id] = "ended"
       /\ ~(pc["wwise"] = "stop" /\ at.id = c.id)
       /\ \A d \in queue : d.kind = "stop" /\ d.id = c.id => d = c

LEMMA NoNewStops ==
  ASSUME Base, [Next]_vars, ~EndStop
  PROVE  \A c \in queue' : c.kind = "stop" => c \in queue
<1>1. CASE UNCHANGED queue
  BY <1>1
<1>2. CASE TickPush
  BY <1>2 DEF TickPush, PushAdd, Append1
<1>3. CASE \E h \in {"menu", "settings"} : ClearMusicHaptics(h)
  BY <1>3 DEF ClearMusicHaptics, ClearQueue
<1>4. CASE TransportStep
  BY <1>4 DEF TransportStep, Render, EndpointOpen, EndpointLost, StartClient, StopClient,
     StartSpeaker, StopSpeaker, ClearMusicState, ClearQueue
<1> QED
  BY <1>1, <1>2, <1>3, <1>4
  DEF Next, WwiseStep, UserStep, Revoking, TickStep, SelectBegin, EndBegin, SelectCheck,
      SelectMark, SelectRequest, MenuOpened, MenuClosed, ApplySettings, ClearSlots, TickBegin,
      TickEnd, TickSkip, TickCheck, TickAdmit, Resolve, vars, transport

LEMMA StopsWwise ==
  ASSUME Base, Stops, WwiseStep
  PROVE  Stops'
<1>1. CASE EndStop
  <2> DEFINE new == [at |-> tail, kind |-> "stop", id |-> at.id, sel |-> 0]
  <2>1. /\ playing' = playing /\ at' = at /\ at.id \in Ids /\ pc["wwise"] = "stop"
        /\ pc'["wwise"] = "idle" /\ PushStop(at.id)
    BY <1>1, HandlerFacts DEF EndStop, Goto, game, locals, Base, TypeOK, Locals
  <2>2. queue' \subseteq queue \cup {new}
    BY <2>1 DEF PushStop, Append1
  <2>3. new.id = at.id
    OBVIOUS
  <2> HIDE DEF new
  <2>4. \A c \in queue : c.kind = "stop" => c.id # new.id
    BY <2>1, <2>3 DEF Stops
  <2> QED BY <2>1, <2>2, <2>3, <2>4 DEF Stops
<1>2. ASSUME NEW id \in Ids, SelectBegin(id) PROVE Stops'
  <2>1. /\ playing' = [playing EXCEPT ![id] = "playing"] /\ playing[id] # "ended"
        /\ pc'["wwise"] \in {"check", "idle"} /\ queue' = queue
    BY <1>2, HandlerFacts DEF SelectBegin, transport, Goto, Base, TypeOK
  <2>2. \A i \in Ids : playing[i] = "ended" => playing'[i] = "ended"
    BY <2>1 DEF Base, TypeOK
  <2> QED BY <2>1, <2>2 DEF Stops
<1>3. ASSUME NEW id \in Ids, EndBegin(id) PROVE Stops'
  <2>1. /\ playing' = [playing EXCEPT ![id] = "ended"] /\ playing[id] # "ended"
        /\ at'.id = id /\ queue' = queue
    BY <1>3 DEF EndBegin, transport
  <2>2. playing'[id] = "ended" /\ \A i \in Ids : playing[i] = "ended" => playing'[i] = "ended"
    BY <2>1 DEF Base, TypeOK
  <2> QED BY <2>1, <2>2 DEF Stops
<1>4. CASE SelectCheck \/ SelectMark \/ SelectRequest
  <2>1. playing' = playing /\ queue' = queue /\ at' = at /\ pc'["wwise"] # "stop"
    BY <1>4, HandlerFacts
    DEF SelectCheck, SelectMark, SelectRequest, Goto, game, locals, transport, Base, TypeOK
  <2> QED BY <2>1 DEF Stops
<1> QED BY <1>1, <1>2, <1>3, <1>4 DEF WwiseStep

LEMMA StopsNext ==
  ASSUME Base, Stops, [Next]_vars
  PROVE  Stops'
<1>1. CASE WwiseStep
  BY <1>1, StopsWwise
<1>2. CASE ~WwiseStep
  <2>1. playing' = playing /\ at' = at /\ pc'["wwise"] = pc["wwise"]
    BY <1>2, HandlerFacts
    DEF Next, UserStep, Revoking, Resolve, TransportStep, TickStep, MenuOpened, MenuClosed,
        ApplySettings, ClearSlots, ClearMusicHaptics, Render, EndpointOpen, EndpointLost,
        StartClient, StopClient, StartSpeaker, StopSpeaker, TickBegin, TickEnd, TickSkip,
        TickCheck, TickAdmit, TickPush, vars, Goto, authority, locals, game, Base, TypeOK
  <2>2. \A c \in queue' : c.kind = "stop" => c \in queue
    BY <1>2, NoNewStops DEF WwiseStep
  <2> QED BY <2>1, <2>2 DEF Stops
<1> QED BY <1>1, <1>2

LEMMA FewStopsFit ==
  ASSUME Capacities, Stops, IsFiniteSet(Ids), Cardinality(Ids) < QueueCap
  PROVE  StopsFit
<1> SUFFICES ASSUME Cardinality(queue) >= QueueCap, \A c \in queue : c.kind = "stop"
             PROVE  FALSE
  BY DEF StopsFit
<1> DEFINE f == [c \in queue |-> c.id]
<1>1. f \in Injection(queue, Ids)
  BY DEF Stops, Injection, IsInjective
<1> HIDE DEF f
<1>2. Cardinality(queue) <= Cardinality(Ids)
  BY <1>1, FS_Injection
<1>3. Cardinality(queue) \in Nat /\ Cardinality(Ids) \in Nat
  BY FS_CardinalityType DEF Capacities, Sized
<1> QED BY <1>2, <1>3, CapFacts

\* With fewer playing ids than the queue holds commands, stops never fill it: the
\* music of an ended id is then silent without a condition on the behaviour.
THEOREM FewEndsSilence ==
  Solo /\ IsFiniteSet(Ids) /\ Cardinality(Ids) < QueueCap => (Spec => []NoMusicAfterEnd)
<1> SUFFICES ASSUME Solo, IsFiniteSet(Ids), Cardinality(Ids) < QueueCap
             PROVE  Spec => []NoMusicAfterEnd
  OBVIOUS
<1>1. Init => Stops
  BY HandlerFacts DEF Init, Stops
<1>2. Base /\ Stops /\ [Next]_vars => Stops'
  BY StopsNext
<1>3. Capacities /\ Stops => StopsFit
  BY FewStopsFit
<1>4. Spec /\ []StopsFit => []NoMusicAfterEnd
  BY EndSilence
<1> QED BY <1>1, <1>2, <1>3, <1>4, BaseInvariant, CapacitiesInvariant, PTL DEF Spec
-------------------------------------------------------------------------------
(* The next rendered block.                                                *)

\* Once its handler is done, an open blocking menu silences the mixer with the next block:
\* what MenuSilences needs of Render, and a queue that makes Render due.
THEOREM NextBlockSilences ==
  Solo => (Spec => /\ [](menus # {} /\ pc["menu"] = "idle" /\ voices # {} => queue # {})
                   /\ [][menus # {} /\ pc["menu"] = "idle" /\ Render => voices' = {}]_vars)
<1> SUFFICES ASSUME Solo
             PROVE  Spec => /\ [](menus # {} /\ pc["menu"] = "idle" /\ voices # {} => queue # {})
                            /\ [][menus # {} /\ pc["menu"] = "idle" /\ Render => voices' = {}]_vars
  OBVIOUS
<1>1. SoloInv => (menus # {} /\ pc["menu"] = "idle" /\ voices # {} => queue # {})
  <2> SUFFICES ASSUME Due = {}, queue = {} PROVE voices = {}
    BY DEF SoloInv, NoMusicInMenu
  <2> QED BY DEF Due, Surviving
<1>2. SoloInv => [menus # {} /\ pc["menu"] = "idle" /\ Render => voices' = {}]_vars
  BY DEF SoloInv, NoMusicInMenu, Render
<1>3. Spec => []SoloInv
  BY SoloInvariant
<1> QED BY <1>1, <1>2, <1>3, PTL
=============================================================================
