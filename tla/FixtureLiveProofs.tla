-------------------------- MODULE FixtureLiveProofs --------------------------
(***************************************************************************)
(* Of the fixture's set, for any slots, beats, values and notes, and any   *)
(* number of operations: the two records of what plays agree, the types,   *)
(* that a clip of the arrangement is where its id says until one is        *)
(* deleted, that moves keep the clips and splits what is heard, and that   *)
(* what changes is told.                                                   *)
(*                                                                         *)
(* Two invariants carry them.  Inv is about what plays.  Shape says what   *)
(* every record holds: the keys of the tracks count up, a slot has one     *)
(* clip, a clip of the arrangement has its id for an index.                *)
(***************************************************************************)
EXTENDS FixtureLive, FiltersProofs, FiniteSetTheorems, TLAPS

TrackFields == {"clips", "arrangement", "playing", "fired", "level", "monitor", "routing",
                "sends", "devices"}
ClipFields == {"slot", "name", "length", "notes", "steps", "on"}

\* The slots whose clips say that they play.
Lit(clips) == {c.slot : c \in {d \in clips : d.on}}

SessionClips(clips) == \A c \in clips : DOMAIN c = ClipFields /\ c.slot \in Nat

Sound(track) ==
  /\ DOMAIN track = TrackFields
  /\ SessionClips(track.clips)
  /\ track.playing = track.fired
  /\ Lit(track.clips) = {track.playing} \ {None}

Inv == \A t \in DOMAIN tracks : Sound(tracks[t])

-----------------------------------------------------------------------------
(* What the helpers make of a track. *)

\* A track that is changed elsewhere.
LEMMA Elsewhere ==
  ASSUME NEW track, Sound(track), NEW new, DOMAIN new = TrackFields,
         new.clips = track.clips, new.playing = track.playing, new.fired = track.fired
  PROVE  Sound(new)
  BY DEF Sound

LEMMA EmptyIsSound ==
  ASSUME NEW sends, NEW level
  PROVE  Sound(EmptyTrack(sends, level))
<1> DEFINE track == EmptyTrack(sends, level)
<1>1. DOMAIN track = TrackFields
  BY DEF EmptyTrack, TrackFields
<1>2. track.clips = {} /\ track.playing = None /\ track.fired = None
  BY DEF EmptyTrack
<1> HIDE DEF track
<1> QED
  BY <1>1, <1>2 DEF Sound, SessionClips, Lit, track

\* One more clip, which does not play.
LEMMA AddedIsSound ==
  ASSUME NEW track, Sound(track), NEW slot \in Nat,
         NEW name, NEW length, NEW notes, NEW steps
  PROVE  Sound([track EXCEPT !.clips = @ \cup {SessionClip(slot, name, length, notes, steps)}])
<1> DEFINE clip == SessionClip(slot, name, length, notes, steps)
           new == [track EXCEPT !.clips = @ \cup {clip}]
<1>1. DOMAIN clip = ClipFields /\ clip.slot = slot /\ clip.on = FALSE
  BY DEF SessionClip, ClipFields
<1>2. /\ DOMAIN new = TrackFields /\ new.clips = track.clips \cup {clip}
      /\ new.playing = track.playing /\ new.fired = track.fired
  BY DEF Sound, TrackFields
<1> HIDE DEF clip, new
<1>3. SessionClips(new.clips)
  BY <1>1, <1>2 DEF Sound, SessionClips
<1>4. Lit(new.clips) = Lit(track.clips)
  BY <1>1, <1>2 DEF Lit
<1>5. Sound(new)
  BY <1>2, <1>3, <1>4 DEF Sound
<1> QED
  BY <1>5 DEF new, clip

\* A clip replaced by one of the same slot that plays if it did.
LEMMA ReplacedIsSound ==
  ASSUME NEW track, Sound(track), NEW old \in track.clips, NEW clip,
         DOMAIN clip = ClipFields, clip.slot = old.slot, clip.on = old.on
  PROVE  Sound([track EXCEPT !.clips = (@ \ {old}) \cup {clip}])
<1> DEFINE new == [track EXCEPT !.clips = (@ \ {old}) \cup {clip}]
<1>2. /\ DOMAIN new = TrackFields /\ new.clips = (track.clips \ {old}) \cup {clip}
      /\ new.playing = track.playing /\ new.fired = track.fired
  BY DEF Sound, TrackFields
<1> HIDE DEF new
<1>3. SessionClips(new.clips)
  BY <1>2 DEF Sound, SessionClips
<1>4. Lit(new.clips) = Lit(track.clips)
  BY <1>2 DEF Lit
<1>5. Sound(new)
  BY <1>2, <1>3, <1>4 DEF Sound
<1> QED
  BY <1>5 DEF new

LEMMA WithoutIsSound ==
  ASSUME NEW track, Sound(track), NEW slot \in Nat
  PROVE  Sound(WithoutSlot(track, slot))
<1> DEFINE new == WithoutSlot(track, slot)
<1>1. /\ DOMAIN new = TrackFields /\ new.clips = {c \in track.clips : c.slot # slot}
      /\ new.playing = (IF track.playing = slot THEN None ELSE track.playing)
      /\ new.fired = (IF track.fired = slot THEN None ELSE track.fired)
  BY DEF Sound, TrackFields, WithoutSlot
<1> HIDE DEF new
<1>2. SessionClips(new.clips) /\ new.playing = new.fired
  BY <1>1 DEF Sound, SessionClips
<1>3. Lit(new.clips) = Lit(track.clips) \ {slot}
  BY <1>1 DEF Lit
<1>4. Lit(new.clips) = {new.playing} \ {None}
  BY <1>1, <1>3 DEF Sound
<1> QED
  BY <1>1, <1>2, <1>4 DEF Sound, new

\* A slot is launched that has a clip, or none is.
LEMMA PlayingIsSound ==
  ASSUME NEW track, Sound(track), NEW slot,
         slot = None \/ \E c \in track.clips : c.slot = slot
  PROVE  Sound(Playing(track, slot))
<1> DEFINE new == Playing(track, slot)
           Set(c) == [c EXCEPT !.on = (c.slot = slot)]
<1>1. /\ DOMAIN new = TrackFields /\ new.clips = {Set(c) : c \in track.clips}
      /\ new.playing = slot /\ new.fired = slot
  BY DEF Sound, TrackFields, Playing
<1>2. \A c \in track.clips : /\ DOMAIN Set(c) = ClipFields /\ Set(c).slot = c.slot
                             /\ Set(c).on = (c.slot = slot) /\ c.slot \in Nat
  BY DEF Sound, SessionClips, ClipFields
<1> HIDE DEF new, Set
<1>3. SessionClips(new.clips)
  BY <1>1, <1>2 DEF SessionClips
<1>4. Lit(new.clips) = {slot} \ {None}
  <2>1. ASSUME NEW c \in track.clips, Set(c).on PROVE Set(c).slot = slot /\ slot # None
    <3>1. c.slot = slot
      BY <1>2, <2>1, Zenon
    <3> QED
      BY <1>2, <3>1 DEF None
  <2>2. Lit(new.clips) \subseteq {slot} \ {None}
    BY <1>1, <2>1 DEF Lit
  <2>3. ASSUME slot # None PROVE slot \in Lit(new.clips)
    <3>1. PICK c \in track.clips : c.slot = slot
      BY <2>3
    <3>2. Set(c) \in new.clips /\ Set(c).on /\ Set(c).slot = slot
      BY <1>1, <1>2, <3>1
    <3> QED
      BY <3>2 DEF Lit
  <2> QED
    BY <2>2, <2>3
<1> QED
  BY <1>1, <1>3, <1>4 DEF Sound, new
-----------------------------------------------------------------------------
(* Where the helpers look. *)
LEMMA SessionClipFound ==
  ASSUME Inv, NEW id \in SessionIds
  PROVE  /\ id.track \in Visible /\ id.track \in DOMAIN tracks /\ id.place = "session"
         /\ id.n \in Nat
         /\ findClip(id) \in tracks[id.track].clips /\ findClip(id).slot = id.n
<1>1. PICK t \in Visible : \E c \in tracks[t].clips : id = InSession(t, c.slot)
  BY DEF SessionIds
<1>2. PICK c \in tracks[t].clips : id = InSession(t, c.slot)
  BY <1>1
<1>3. id.track = t /\ id.place = "session" /\ id.n = c.slot
  BY <1>2 DEF InSession
<1>4. t \in DOMAIN tracks /\ c.slot \in Nat
  BY DEF Visible, Inv, Sound, SessionClips
<1>5. findClip(id) = CHOOSE d \in tracks[t].clips : d.slot = id.n
  BY <1>3 DEF findClip
<1> QED
  BY <1>3, <1>4, <1>5

LEMMA ArrangementClipFound ==
  ASSUME NEW id \in ArrangementIds
  PROVE  id.track \in Visible /\ id.track \in DOMAIN tracks /\ id.place = "arrangement"
  BY DEF ArrangementIds, InArrangement, Visible

\* One track changes, to a sound one.
LEMMA ChangeIsSound ==
  ASSUME Inv, NEW t \in DOMAIN tracks, NEW track, Sound(track), ChangeTrack(t, track)
  PROVE  Inv'
  BY DEF Inv, ChangeTrack

\* The tracks change in what has nothing to do with what plays.
Aside ==
  /\ DOMAIN tracks' = DOMAIN tracks
  /\ \A t \in DOMAIN tracks :
       /\ DOMAIN tracks'[t] = DOMAIN tracks[t]
       /\ tracks'[t].clips = tracks[t].clips
       /\ tracks'[t].playing = tracks[t].playing /\ tracks'[t].fired = tracks[t].fired

LEMMA AsideIsSound == Inv /\ Aside => Inv'
  BY DEF Inv, Aside, Sound

\* ... or one is new.
LEMMA PutIsSound ==
  ASSUME NEW f, \A u \in DOMAIN f : Sound(f[u]), NEW t, NEW track, Sound(track),
         tracks' = Put(f, t, track)
  PROVE  Inv'
  BY DEF Inv, Put

\* A clip changes in place: it keeps its slot, and plays if it did.
LEMMA EditIsSound ==
  ASSUME Inv, NEW id \in ClipIds, NEW clip,
         id.place = "session" => /\ DOMAIN clip = ClipFields
                                 /\ clip.slot = findClip(id).slot /\ clip.on = findClip(id).on
  PROVE  id.track \in DOMAIN tracks /\ Sound(WithClip(id, clip))
<1>1. CASE id \in SessionIds
  <2>1. /\ id.track \in DOMAIN tracks /\ id.place = "session"
        /\ findClip(id) \in tracks[id.track].clips
    BY <1>1, SessionClipFound
  <2>2. Sound(tracks[id.track])
    BY <2>1 DEF Inv
  <2> QED
    BY <2>1, <2>2, ReplacedIsSound DEF WithClip
<1>2. CASE id \in ArrangementIds
  <2>1. id.track \in DOMAIN tracks /\ id.place = "arrangement"
    BY <1>2, ArrangementClipFound
  <2> DEFINE new == WithClip(id, clip)
  <2>2. Sound(tracks[id.track])
    BY <2>1 DEF Inv
  <2>3. /\ DOMAIN new = TrackFields /\ new.clips = tracks[id.track].clips
        /\ new.playing = tracks[id.track].playing /\ new.fired = tracks[id.track].fired
    BY <2>1, <2>2 DEF WithClip, Sound, TrackFields
  <2> HIDE DEF new
  <2>4. Sound(new)
    BY <2>2, <2>3, Elsewhere
  <2> QED
    BY <2>1, <2>4 DEF new
<1> QED
  BY <1>1, <1>2 DEF ClipIds
-----------------------------------------------------------------------------
(* The operations. *)
LEMMA InitSound == Init => Inv
<1> SUFFICES ASSUME Init, NEW t \in DOMAIN tracks PROVE Sound(tracks[t])
  BY DEF Inv
<1>1. t \in {<<"visible", 1>>, <<"visible", 2>>, <<"return", 1>>}
  BY DEF Init
<1>2. Sound(EmptyTrack(<<>>, None)) /\ Sound(EmptyTrack(<<0>>, None))
  BY EmptyIsSound
<1>3. CASE t[1] = "return"
  <2>1. tracks[t] = [EmptyTrack(<<>>, None) EXCEPT !.devices = <<>>]
    BY <1>1, <1>3 DEF Init
  <2> QED
    BY <1>2, <2>1, Elsewhere DEF EmptyTrack, TrackFields
<1>4. CASE t[1] # "return"
  <2> DEFINE list == <<FixtureClip(t[2])>>
             beat == SessionClip(0, "a", 1, <<[at |-> 0, length |-> 1]>>, {})
             bare == [EmptyTrack(<<0>>, None) EXCEPT !.devices = <<1>>, !.arrangement = list]
  <2>1. bare.clips = {} /\ Sound(bare)
    <3> HIDE DEF list
    <3> QED
      BY <1>2, Elsewhere DEF EmptyTrack, TrackFields
  <2>2. Sound([bare EXCEPT !.clips = @ \cup {beat}])
    BY <2>1, AddedIsSound
  <2>3. CASE t[2] = 1
    <3>1. tracks[t] = [bare EXCEPT !.clips = @ \cup {beat}]
      <4> HIDE DEF list, beat
      <4>1. tracks[t] = [EmptyTrack(<<0>>, None) EXCEPT !.devices = <<1>>, !.arrangement = list,
                                                         !.clips = {beat}]
        BY <1>1, <1>4, <2>3 DEF Init, list, beat
      <4>2. [bare EXCEPT !.clips = @ \cup {beat}] = [bare EXCEPT !.clips = {beat}]
        BY <2>1
      <4> QED
        BY <4>1, <4>2 DEF EmptyTrack
    <3> QED
      BY <2>2, <3>1
  <2>4. CASE t[2] # 1
    <3> HIDE DEF list
    <3>1. tracks[t] = [EmptyTrack(<<0>>, None) EXCEPT !.devices = <<1>>, !.arrangement = list,
                                                       !.clips = {}]
      BY <1>1, <1>4, <2>4 DEF Init, list
    <3>2. /\ DOMAIN tracks[t] = TrackFields /\ tracks[t].clips = bare.clips
          /\ tracks[t].playing = bare.playing /\ tracks[t].fired = bare.fired
      BY <3>1 DEF EmptyTrack, TrackFields
    <3> HIDE DEF bare
    <3> QED
      BY <2>1, <3>2, Elsewhere
  <2> QED
    BY <2>3, <2>4
<1> QED
  BY <1>3, <1>4

LEMMA OnSongSound ==
  ASSUME Inv, OnSong
  PROVE  Inv'
<1>1. CASE \/ \E tempo \in Tempos : setTempo(tempo)
           \/ \E time \in Beats : setArrangementTransport(time)
           \/ \E playing \in BOOLEAN : transport(playing)
           \/ createScene
  <2>1. tracks' = tracks
    BY <1>1 DEF setTempo, setArrangementTransport, transport, createScene
  <2> QED
    BY <2>1 DEF Inv
<1>2. CASE createTrack
  <2>1. \E t, sends : tracks' = Put(tracks, t, EmptyTrack(sends, None))
    BY <1>2 DEF createTrack
  <2> QED
    BY <2>1, EmptyIsSound, PutIsSound DEF Inv
<1>3. CASE createReturnTrack
  <2> DEFINE WithSend == [u \in DOMAIN tracks |->
                 IF u \in Visible THEN [tracks[u] EXCEPT !.sends = Append(@, 0)] ELSE tracks[u]]
  <2>1. \E t : tracks' = Put(WithSend, t, EmptyTrack(<<>>, Top))
    BY <1>3 DEF createReturnTrack
  <2>2. ASSUME NEW u \in DOMAIN WithSend PROVE Sound(WithSend[u])
    <3> DEFINE new == WithSend[u]
    <3>1. Sound(tracks[u])
      BY DEF Inv
    <3>2. /\ DOMAIN new = TrackFields /\ new.clips = tracks[u].clips
          /\ new.playing = tracks[u].playing /\ new.fired = tracks[u].fired
      BY <3>1 DEF Sound, TrackFields
    <3> HIDE DEF new
    <3>3. Sound(new)
      BY <3>1, <3>2, Elsewhere
    <3> QED
      BY <3>3 DEF new
  <2> HIDE DEF WithSend
  <2> QED
    BY <2>1, <2>2, EmptyIsSound, PutIsSound
<1>4. CASE \E scene \in 1..scenes : fireScene(scene)
  <2>1. PICK scene \in 1..scenes : fireScene(scene)
    BY <1>4
  <2> DEFINE Slot(t) == IF \E c \in tracks[t].clips : c.slot = scene - 1 THEN scene - 1 ELSE None
  <2>2. tracks' = [t \in DOMAIN tracks |->
                     IF t \notin Visible THEN tracks[t] ELSE Playing(tracks[t], Slot(t))]
    BY <2>1 DEF fireScene
  <2>3. ASSUME NEW t \in DOMAIN tracks PROVE Sound(tracks'[t])
    <3>1. Sound(tracks[t])
      BY DEF Inv
    <3>2. Slot(t) = None \/ \E c \in tracks[t].clips : c.slot = Slot(t)
      OBVIOUS
    <3> HIDE DEF Slot
    <3>3. Sound(Playing(tracks[t], Slot(t)))
      BY <3>1, <3>2, PlayingIsSound
    <3> QED
      BY <2>2, <3>1, <3>3
  <2> QED
    BY <2>2, <2>3 DEF Inv
<1>5. CASE stopAllClips
  <2>1. tracks' = [t \in DOMAIN tracks |->
                     IF t \in Visible THEN Playing(tracks[t], None) ELSE tracks[t]]
    BY <1>5 DEF stopAllClips
  <2>2. ASSUME NEW t \in DOMAIN tracks PROVE Sound(tracks'[t])
    <3>1. Sound(tracks[t]) /\ Sound(Playing(tracks[t], None))
      BY PlayingIsSound DEF Inv
    <3> QED
      BY <2>1, <3>1
  <2> QED
    BY <2>1, <2>2 DEF Inv
<1> QED
  BY <1>1, <1>2, <1>3, <1>4, <1>5 DEF OnSong

LEMMA OnTrackSound ==
  ASSUME Inv, NEW t \in DOMAIN tracks,
         \/ \E value \in Values :
              \/ setTrackLevel(t, value)
              \/ \E i \in DOMAIN tracks[t].sends : setSendLevel(t, i, value)
              \/ \E i \in DOMAIN tracks[t].devices : setParameter(t, i, value)
         \/ \E state \in {2} : setMonitorState(t, state)
         \/ \E requested \in {"sends only", "other"} : setTrackRouting(t, requested)
         \/ loadBrowserItem(t)
         \/ stopTrackClips(t)
         \/ \E slot \in Slots : createClip(t, slot)
         \/ \E start \in Beats, length \in Lengths : createArrangementClip(t, start, length)
  PROVE  Inv'
<1>1. Sound(tracks[t])
  BY DEF Inv
<1>2. DOMAIN tracks[t] = TrackFields
  BY <1>1 DEF Sound
<1>3. ASSUME NEW value, setTrackLevel(t, value) PROVE Aside
  BY <1>2, <1>3 DEF setTrackLevel, UpdateTrack, ChangeTrack, Aside, TrackFields
<1>4. ASSUME NEW value, NEW i, setSendLevel(t, i, value) PROVE Aside
  BY <1>2, <1>4 DEF setSendLevel, UpdateTrack, ChangeTrack, Aside, TrackFields
<1>5. ASSUME NEW value, NEW i, setParameter(t, i, value) PROVE Aside
  BY <1>2, <1>5 DEF setParameter, ChangeTrack, Aside, TrackFields
<1>6. ASSUME NEW state, setMonitorState(t, state) PROVE Aside
  BY <1>2, <1>6 DEF setMonitorState, UpdateTrack, ChangeTrack, Aside, TrackFields
<1>7. ASSUME NEW requested, setTrackRouting(t, requested) PROVE Aside
  BY <1>2, <1>7 DEF setTrackRouting, UpdateTrack, ChangeTrack, Aside, TrackFields
<1>8. ASSUME loadBrowserItem(t) PROVE Aside
  BY <1>2, <1>8 DEF loadBrowserItem, UpdateTrack, ChangeTrack, Aside, TrackFields
<1>9. ASSUME NEW start, NEW length, createArrangementClip(t, start, length) PROVE Aside
  <2>1. \E list : ChangeTrack(t, [tracks[t] EXCEPT !.arrangement = list])
    BY <1>9 DEF createArrangementClip, AppendClip
  <2> QED
    BY <1>2, <2>1 DEF ChangeTrack, Aside, TrackFields
<1>10. CASE stopTrackClips(t)
  BY <1>1, <1>10, PlayingIsSound, ChangeIsSound DEF stopTrackClips
<1>11. ASSUME NEW slot \in Slots, createClip(t, slot) PROVE Inv'
  <2>1. PICK name \in Names :
          ChangeTrack(t, [tracks[t] EXCEPT !.clips = @ \cup {SessionClip(slot, name, 1, <<>>, {})}])
    BY <1>11 DEF createClip
  <2>2. slot \in Nat
    BY SlotAssumption
  <2> QED
    BY <1>1, <2>1, <2>2, AddedIsSound, ChangeIsSound
<1> QED
  BY <1>3, <1>4, <1>5, <1>6, <1>7, <1>8, <1>9, <1>10, <1>11, AsideIsSound

LEMMA OnSessionClipSound ==
  ASSUME Inv, NEW id \in SessionIds, NEW t \in DOMAIN tracks, NEW slot \in Slots,
         duplicateClip(id, t, slot) \/ moveSessionClip(id, t, slot)
  PROVE  Inv'
<1> DEFINE clip == Copy(findClip(id), slot)
           with == [tracks[t] EXCEPT !.clips = @ \cup {clip}]
<1>1. slot \in Nat /\ Sound(tracks[t])
  BY SlotAssumption DEF Inv
<1>2. Sound(with)
  BY <1>1, AddedIsSound DEF Copy
<1>3. CASE duplicateClip(id, t, slot)
  <2>1. ChangeTrack(t, with)
    BY <1>3 DEF duplicateClip
  <2> QED
    BY <1>2, <2>1, ChangeIsSound
<1>4. CASE moveSessionClip(id, t, slot)
  <2> DEFINE copied == [tracks EXCEPT ![t].clips = @ \cup {clip}]
  <2>1. tracks' = [copied EXCEPT ![id.track] = WithoutSlot(@, id.n)]
    BY <1>4 DEF moveSessionClip
  <2>2. copied = [tracks EXCEPT ![t] = with]
    OBVIOUS
  <2>3. id.track \in DOMAIN tracks /\ id.n \in Nat
    BY SessionClipFound
  <2> HIDE DEF with, clip
  <2>4. ASSUME NEW u \in DOMAIN tracks PROVE Sound(copied[u])
    BY <1>2, <2>2 DEF Inv
  <2>5. DOMAIN copied = DOMAIN tracks
    BY <2>2
  <2> HIDE DEF copied
  <2>6. Sound(WithoutSlot(copied[id.track], id.n))
    BY <2>3, <2>4, WithoutIsSound
  <2> QED
    BY <2>1, <2>3, <2>4, <2>5, <2>6 DEF Inv
<1> QED
  BY <1>3, <1>4

LEMMA OnArrangementClipSound ==
  ASSUME Inv, NEW id \in ArrangementIds, NEW at, NEW end,
         \/ moveArrangementClip(id, at)
         \/ splitArrangementClip(id, at)
         \/ setArrangementClipBounds(id, at, end)
  PROVE  Inv'
<1>1. id.track \in DOMAIN tracks
  BY ArrangementClipFound
<1>2. DOMAIN tracks[id.track] = TrackFields
  BY <1>1 DEF Inv, Sound
<1>3. \E list : ChangeTrack(id.track, [tracks[id.track] EXCEPT !.arrangement = list])
  <2>1. CASE moveArrangementClip(id, at)
    BY <2>1 DEF moveArrangementClip, WithEvery
  <2>2. CASE splitArrangementClip(id, at)
    BY <2>2 DEF splitArrangementClip
  <2>3. CASE setArrangementClipBounds(id, at, end)
    BY <2>3 DEF setArrangementClipBounds, WithEvery
  <2> QED
    BY <2>1, <2>2, <2>3
<1>4. Aside
  BY <1>1, <1>2, <1>3 DEF ChangeTrack, Aside, TrackFields
<1> QED
  BY <1>4, AsideIsSound

\* The record of a session clip that an operation finds.
LEMMA FoundClip ==
  ASSUME Inv, NEW id \in ClipIds, id.place = "session"
  PROVE  DOMAIN findClip(id) = ClipFields
<1>1. id \in SessionIds
  BY ArrangementClipFound DEF ClipIds
<1>2. Sound(tracks[id.track]) /\ findClip(id) \in tracks[id.track].clips
  BY <1>1, SessionClipFound DEF Inv
<1> QED
  BY <1>2 DEF Sound, SessionClips

LEMMA OnClipSound ==
  ASSUME Inv, NEW id \in ClipIds,
         \/ deleteClip(id) \/ selectClip(id) \/ fireClip(id) \/ clearAllClipEnvelopes(id)
         \/ \E name \in Names : renameClip(id, name)
         \/ \E length \in Lengths : setClipLoopOrLength(id, length)
         \/ \E notes \in NoteLists : insertNotes(id, notes) \/ replaceNotes(id, notes)
         \/ \E t \in Visible, start \in Beats : duplicateClipToArrangement(id, t, start)
         \/ \E shown \in BOOLEAN :
              \/ showClipEnvelope(id, shown)
              \/ \E p \in EnvelopeTargets :
                   selectClipEnvelopeParameter(id, p, shown) \/ setClipEnvelope(id, p, shown)
         \/ \E p \in EnvelopeTargets : clearClipEnvelope(id, p)
  PROVE  Inv'
<1> DEFINE Edited(clip) == /\ ChangeTrack(id.track, WithClip(id, clip))
                           /\ id.place = "session" =>
                                /\ DOMAIN clip = ClipFields
                                /\ clip.slot = findClip(id).slot /\ clip.on = findClip(id).on
<1>1. ASSUME NEW clip, Edited(clip) PROVE Inv'
  BY <1>1, EditIsSound, ChangeIsSound
<1>2. id.track \in DOMAIN tracks /\ Sound(tracks[id.track])
  BY SessionClipFound, ArrangementClipFound DEF ClipIds, Inv
<1>3. CASE deleteClip(id)
  <2>1. CASE id.place = "session"
    <3>1. id \in SessionIds
      BY <2>1, ArrangementClipFound DEF ClipIds
    <3>2. ChangeTrack(id.track, WithoutSlot(tracks[id.track], id.n))
      BY <1>3, <2>1 DEF deleteClip
    <3>3. id.n \in Nat
      BY <3>1, SessionClipFound
    <3> QED
      BY <1>2, <3>2, <3>3, WithoutIsSound, ChangeIsSound
  <2>2. CASE id.place # "session"
    <3>1. \E list : ChangeTrack(id.track, [tracks[id.track] EXCEPT !.arrangement = list])
      BY <1>3, <2>2 DEF deleteClip
    <3>2. Aside
      BY <1>2, <3>1 DEF ChangeTrack, Aside, Sound, TrackFields
    <3> QED
      BY <3>2, AsideIsSound
  <2> QED
    BY <2>1, <2>2
<1>4. CASE \/ selectClip(id)
           \/ \E shown \in BOOLEAN :
                \/ showClipEnvelope(id, shown)
                \/ \E p \in EnvelopeTargets : selectClipEnvelopeParameter(id, p, shown)
  <2>1. tracks' = tracks
    BY <1>4 DEF selectClip, showClipEnvelope, selectClipEnvelopeParameter
  <2> QED
    BY <2>1 DEF Inv
<1>5. CASE fireClip(id)
  <2>1. CASE id \in ArrangementIds
    <3>1. tracks' = tracks
      BY <1>5, <2>1, ArrangementClipFound DEF fireClip
    <3> QED
      BY <3>1 DEF Inv
  <2>2. CASE id \in SessionIds
    <3>1. /\ id.place = "session"
          /\ \E c \in tracks[id.track].clips : c.slot = id.n
      BY <2>2, SessionClipFound
    <3>2. tracks' = [tracks EXCEPT ![id.track] = Playing(@, id.n)]
      BY <1>5, <3>1 DEF fireClip
    <3>3. ChangeTrack(id.track, Playing(tracks[id.track], id.n))
      BY <3>2 DEF ChangeTrack
    <3> QED
      BY <1>2, <3>1, <3>3, PlayingIsSound, ChangeIsSound
  <2> QED
    BY <2>1, <2>2 DEF ClipIds
<1>6. ASSUME NEW name, renameClip(id, name) PROVE Inv'
  <2>1. Edited([findClip(id) EXCEPT !.name = name])
    BY <1>6, FoundClip DEF renameClip, EditClip, ClipFields
  <2> QED
    BY <1>1, <2>1
<1>7. ASSUME NEW length, setClipLoopOrLength(id, length) PROVE Inv'
  <2>1. Edited([findClip(id) EXCEPT !.length = length])
    BY <1>7, FoundClip DEF setClipLoopOrLength, EditClip, ClipFields
  <2> QED
    BY <1>1, <2>1
<1>8. ASSUME NEW notes, insertNotes(id, notes) \/ replaceNotes(id, notes) PROVE Inv'
  <2>1. PICK new : /\ new = findClip(id).notes \o notes \/ new = notes
                   /\ ChangeTrack(id.track, WithClip(id, [findClip(id) EXCEPT !.notes = new]))
    BY <1>8 DEF insertNotes, replaceNotes, EditClip
  <2>2. Edited([findClip(id) EXCEPT !.notes = new])
    BY <2>1, FoundClip DEF ClipFields
  <2> QED
    BY <1>1, <2>2
<1>9. ASSUME NEW steps, ChangeSteps(id, steps) PROVE Inv'
  <2>1. Edited([findClip(id) EXCEPT !.steps = steps])
    BY <1>9, FoundClip DEF ChangeSteps, ClipFields
  <2> QED
    BY <1>1, <2>1
<1>10. CASE \/ clearAllClipEnvelopes(id)
            \/ \E p \in EnvelopeTargets :
                 clearClipEnvelope(id, p) \/ \E shown \in BOOLEAN : setClipEnvelope(id, p, shown)
  BY <1>9, <1>10 DEF clearAllClipEnvelopes, clearClipEnvelope, setClipEnvelope
<1>11. ASSUME NEW t \in Visible, NEW start, duplicateClipToArrangement(id, t, start) PROVE Inv'
  <2>1. t \in DOMAIN tracks
    BY DEF Visible
  <2>2. \E list : ChangeTrack(t, [tracks[t] EXCEPT !.arrangement = list])
    BY <1>11 DEF duplicateClipToArrangement, AppendClip
  <2>3. Aside
    BY <2>1, <2>2 DEF ChangeTrack, Aside, Inv, Sound, TrackFields
  <2> QED
    BY <2>3, AsideIsSound
<1> QED
  BY <1>3, <1>4, <1>5, <1>6, <1>7, <1>8, <1>10, <1>11
-----------------------------------------------------------------------------
LEMMA SoundStep == Inv /\ [Next]_vars => Inv'
<1> SUFFICES ASSUME Inv, [Next]_vars PROVE Inv'
  OBVIOUS
<1>1. CASE OnSong
  BY <1>1, OnSongSound
<1>2. CASE OnTrack
  BY <1>2, OnTrackSound DEF OnTrack
<1>3. CASE OnSessionClip
  BY <1>3, OnSessionClipSound DEF OnSessionClip
<1>4. CASE OnArrangementClip
  BY <1>4, OnArrangementClipSound DEF OnArrangementClip
<1>5. CASE OnClip
  BY <1>5, OnClipSound DEF OnClip
<1>6. CASE UNCHANGED vars
  BY <1>6 DEF vars, Inv
<1> QED
  BY <1>1, <1>2, <1>3, <1>4, <1>5, <1>6 DEF Next

(* The slot that a track says is playing holds the one clip of the track that
   says so of itself, after any number of operations. *)
THEOREM PlayingAlwaysAgrees == Spec => []PlayingAgrees
<1>1. Inv => PlayingAgrees
  BY DEF Inv, Sound, Lit, PlayingAgrees
<1> QED
  BY <1>1, InitSound, SoundStep, PTL DEF Spec
-----------------------------------------------------------------------------
PlacedFields == {"id", "index", "start", "end", "name", "length", "notes", "steps"}
NoteSeqs == Seq([at : Int, length : Int])

SessionShape(c) ==
  DOMAIN c = ClipFields /\ c.slot \in Nat /\ c.length \in Int /\ c.notes \in NoteSeqs

PlacedShape(c) ==
  /\ DOMAIN c = PlacedFields /\ c.id \in Nat \ {0} /\ c.index = c.id
  /\ c.start \in Int /\ c.end \in Int /\ c.length \in Int /\ c.notes \in NoteSeqs

OnePerSlot(clips) == \A c, d \in clips : c.slot = d.slot => c = d

ClipsShaped(clips) ==
  IsFiniteSet(clips) /\ OnePerSlot(clips) /\ \A c \in clips : SessionShape(c)

ListShaped(list) == Listed(list) /\ \A c \in Range(list) : PlacedShape(c)

MixerShaped(track) ==
  /\ track.level \in {None} \cup 0..Top
  /\ track.sends \in Seq(0..Top) /\ track.devices \in Seq(0..Top)

Shaped(track) ==
  /\ DOMAIN track = TrackFields
  /\ ClipsShaped(track.clips) /\ ListShaped(track.arrangement) /\ MixerShaped(track)

\* The keys of the tracks count up, and each visible track has a send to each return.
Keyed(section, n) == {<<section, i>> : i \in 1..n}
Keys ==
  DOMAIN tracks = Keyed("visible", Cardinality(Visible)) \cup Keyed("return", Cardinality(Returns))
Finite == IsFiniteSet(Visible) /\ IsFiniteSet(Returns)
Sends == \A t \in Visible : Len(tracks[t].sends) = Cardinality(Returns)

TracksShaped == Keys /\ Finite /\ Sends /\ \A t \in DOMAIN tracks : Shaped(tracks[t])

RestShaped ==
  /\ song.playing \in BOOLEAN /\ song.tempo \in Tempos \cup {1} /\ song.time \in Beats
  /\ DOMAIN song = {"playing", "tempo", "time"}
  /\ scenes \in Nat /\ calls \in 0..MaxCalls

Shape == TracksShaped /\ RestShaped
-----------------------------------------------------------------------------
(* Clips of the session. *)
LEMMA AddedShaped ==
  ASSUME NEW clips, ClipsShaped(clips), NEW slot \in Nat, \A c \in clips : c.slot # slot,
         NEW name, NEW length \in Int, NEW notes \in NoteSeqs, NEW steps
  PROVE  ClipsShaped(clips \cup {SessionClip(slot, name, length, notes, steps)})
<1> DEFINE clip == SessionClip(slot, name, length, notes, steps)
<1>1. SessionShape(clip) /\ clip.slot = slot
  BY DEF SessionClip, SessionShape, ClipFields
<1> HIDE DEF clip
<1>2. IsFiniteSet(clips \cup {clip})
  BY FS_AddElement DEF ClipsShaped
<1>3. OnePerSlot(clips \cup {clip})
  BY <1>1 DEF ClipsShaped, OnePerSlot
<1>4. ClipsShaped(clips \cup {clip})
  BY <1>1, <1>2, <1>3 DEF ClipsShaped
<1> QED
  BY <1>4 DEF clip

LEMMA RemovedShaped ==
  ASSUME NEW clips, ClipsShaped(clips), NEW slot
  PROVE  ClipsShaped({c \in clips : c.slot # slot})
<1>1. IsFiniteSet({c \in clips : c.slot # slot})
  BY FS_Subset DEF ClipsShaped
<1> QED
  BY <1>1 DEF ClipsShaped, OnePerSlot

LEMMA ReplacedShaped ==
  ASSUME NEW clips, ClipsShaped(clips), NEW old \in clips,
         NEW clip, SessionShape(clip), clip.slot = old.slot
  PROVE  ClipsShaped((clips \ {old}) \cup {clip})
<1>1. IsFiniteSet((clips \ {old}) \cup {clip})
  BY FS_RemoveElement, FS_AddElement DEF ClipsShaped
<1>2. OnePerSlot((clips \ {old}) \cup {clip})
  BY DEF ClipsShaped, OnePerSlot
<1> QED
  BY <1>1, <1>2 DEF ClipsShaped

\* The slots keep their clips, with another state of each.
Relit(clips, slot) == {[c EXCEPT !.on = (c.slot = slot)] : c \in clips}

LEMMA LitShaped ==
  ASSUME NEW clips, ClipsShaped(clips), NEW slot
  PROVE  ClipsShaped(Relit(clips, slot))
<1> DEFINE Set(c) == [c EXCEPT !.on = (c.slot = slot)]
           new == {Set(c) : c \in clips}
<1>1. \A c \in clips : SessionShape(Set(c)) /\ Set(c).slot = c.slot
  BY DEF ClipsShaped, SessionShape, ClipFields
<1> HIDE DEF Set
<1>2. IsFiniteSet(new)
  <2> DEFINE f == [c \in clips |-> Set(c)]
  <2>1. f \in Surjection(clips, new)
    BY DEF Surjection
  <2> HIDE DEF f, new
  <2> QED
    BY <2>1, FS_Surjection DEF ClipsShaped
<1>3. OnePerSlot(new)
  <2> SUFFICES ASSUME NEW c \in clips, NEW d \in clips, Set(c).slot = Set(d).slot
               PROVE  Set(c) = Set(d)
    BY DEF OnePerSlot
  <2> QED
    BY <1>1 DEF ClipsShaped, OnePerSlot
<1>4. ClipsShaped(new)
  BY <1>1, <1>2, <1>3 DEF ClipsShaped
<1> QED
  BY <1>4 DEF Set, Relit

(* Clips of the arrangement. *)
LEMMA AppendedShaped ==
  ASSUME NEW list, ListShaped(list), NEW clip, PlacedShape(clip)
  PROVE  ListShaped(Append(list, clip))
BY AppendListed DEF ListShaped

\* Some clips are replaced.
LEMMA MappedShaped ==
  ASSUME NEW list, ListShaped(list), NEW new, DOMAIN new = DOMAIN list,
         new = [i \in DOMAIN new |-> new[i]],
         \A i \in DOMAIN list : PlacedShape(new[i])
  PROVE  ListShaped(new) /\ Len(new) = Len(list)
<1>1. DOMAIN list = 1..Len(list) /\ Len(list) \in Nat
  BY DEF ListShaped, Listed
<1>2. \A i \in 1..Len(list) : new[i] \in Range(new)
  BY <1>1 DEF Range
<1>3. new \in Seq(Range(new)) /\ Len(new) = Len(list)
  BY <1>1, <1>2
<1> QED
  BY <1>3 DEF ListShaped, Listed, Range

LEMMA FilteredShaped ==
  ASSUME NEW list, ListShaped(list), NEW P
  PROVE  ListShaped(Filter(list, P))
<1>1. Filter(list, P) \in Seq(Range(list)) /\ Range(Filter(list, P)) = Range(list) \cap P
  BY FilterFacts DEF ListShaped, Listed
<1> QED
  BY <1>1, ListedFacts DEF ListShaped
-----------------------------------------------------------------------------
(* The clip that an id finds. *)
LEMMA PlacedClipFound ==
  ASSUME NEW id \in ArrangementIds, ListShaped(tracks[id.track].arrangement)
  PROVE  /\ id.place = "arrangement" /\ id.track \in Visible /\ id.track \in DOMAIN tracks
         /\ id.n \in Nat \ {0} /\ IndexOf(id) \in DOMAIN tracks[id.track].arrangement
         /\ findClip(id) = tracks[id.track].arrangement[IndexOf(id)]
         /\ findClip(id) \in Range(tracks[id.track].arrangement)
         /\ findClip(id).id = id.n
<1> DEFINE list == tracks[id.track].arrangement
           I == {i \in 1..Len(list) : list[i].id = id.n}
<1>1. id.place = "arrangement" /\ id.track \in Visible /\ id.track \in DOMAIN tracks
  BY ArrangementClipFound
<1>2. PICK c \in Range(list) : c.id = id.n
  BY DEF ArrangementIds, InArrangement
<1>3. DOMAIN list = 1..Len(list) /\ Len(list) \in Nat
  BY DEF ListShaped, Listed
<1>4. I # {} /\ I \subseteq Nat
  BY <1>2, <1>3 DEF Range
<1>5. IndexOf(id) = Min(I)
  BY <1>4 DEF IndexOf, SelectInSeq
<1> HIDE DEF I
<1>6. \E x \in I : \A y \in I : x <= y
  BY <1>4, LeastNumber
<1>7. Min(I) \in I
  BY <1>6 DEF Min
<1>8. IndexOf(id) \in 1..Len(list) /\ list[IndexOf(id)].id = id.n
  BY <1>5, <1>7 DEF I
<1>9. findClip(id) = list[IndexOf(id)]
  BY <1>1 DEF findClip
<1>10. id.n \in Nat \ {0}
  BY <1>2 DEF ListShaped, PlacedShape
<1> QED
  BY <1>1, <1>3, <1>8, <1>9, <1>10 DEF Range

\* The length and the notes of a clip that is found, of either kind.
LEMMA FoundShaped ==
  ASSUME Inv, TracksShaped, NEW id \in ClipIds
  PROVE  /\ id.track \in Visible /\ id.track \in DOMAIN tracks /\ Shaped(tracks[id.track])
         /\ findClip(id).length \in Int /\ findClip(id).notes \in NoteSeqs
         /\ \/ /\ id \in SessionIds /\ id.place = "session" /\ id.n \in Nat
               /\ findClip(id) \in tracks[id.track].clips /\ findClip(id).slot = id.n
               /\ SessionShape(findClip(id))
            \/ /\ id \in ArrangementIds /\ id.place = "arrangement" /\ id.n \in Nat \ {0}
               /\ IndexOf(id) \in DOMAIN tracks[id.track].arrangement
               /\ findClip(id) = tracks[id.track].arrangement[IndexOf(id)]
               /\ findClip(id) \in Range(tracks[id.track].arrangement)
               /\ findClip(id).id = id.n /\ PlacedShape(findClip(id))
<1>1. id.track \in Visible /\ id.track \in DOMAIN tracks
  BY SessionClipFound, ArrangementClipFound DEF ClipIds
<1>2. Shaped(tracks[id.track])
  BY <1>1 DEF TracksShaped
<1>3. CASE id \in SessionIds
  BY <1>1, <1>2, <1>3, SessionClipFound DEF Shaped, ClipsShaped, SessionShape
<1>4. CASE id \in ArrangementIds
  BY <1>1, <1>2, <1>4, PlacedClipFound DEF Shaped, ListShaped, PlacedShape
<1> QED
  BY <1>1, <1>2, <1>3, <1>4 DEF ClipIds
-----------------------------------------------------------------------------
(* The parts of a clip that is split. *)
LEMMA SegmentNotesTyped ==
  ASSUME NEW clip, PlacedShape(clip), NEW from \in Int, NEW to \in Int
  PROVE  segmentArrangementNotes(clip, from, to) \in NoteSeqs
<1> DEFINE notes == IF clip.notes = NoNotes THEN <<>> ELSE clip.notes
           shift == clip.start - arrangementNoteBase(notes, clip.start)
           Start(note) == IF note.at + shift < from THEN from ELSE note.at + shift
           End(note) == IF note.at + shift + note.length > to THEN to ELSE note.at + shift + note.length
           inside == Filter(notes, {note \in Range(notes) : Start(note) < End(note)})
           cut == [i \in DOMAIN inside |-> [at |-> Start(inside[i]) - from,
                                            length |-> End(inside[i]) - Start(inside[i])]]
<1>1. segmentArrangementNotes(clip, from, to) = cut
  BY DEF segmentArrangementNotes
<1>2. notes \in Seq([at : Int, length : Int])
  BY DEF PlacedShape, NoteSeqs
<1>3. shift \in Int
  BY DEF PlacedShape, arrangementNoteBase
<1> HIDE DEF notes, shift
<1>4. inside \in Seq([at : Int, length : Int])
  BY <1>2, FilterFacts
<1> HIDE DEF inside
<1>5. ASSUME NEW i \in DOMAIN inside PROVE cut[i] \in [at : Int, length : Int]
  <2>1. inside[i].at \in Int /\ inside[i].length \in Int
    <3> DEFINE Note == [at : Int, length : Int]
    <3>1. inside \in Seq(Note)
      BY <1>4
    <3> HIDE DEF Note
    <3>2. inside[i] \in Note
      BY <3>1
    <3> QED
      BY <3>2 DEF Note
  <2>2. Start(inside[i]) \in Int /\ End(inside[i]) \in Int
    BY <1>3, <2>1
  <2> HIDE DEF Start, End
  <2>3. cut[i] = [at |-> Start(inside[i]) - from, length |-> End(inside[i]) - Start(inside[i])]
    OBVIOUS
  <2> HIDE DEF cut
  <2> QED
    BY <2>2, <2>3
<1>6. cut \in Seq([at : Int, length : Int])
  <2>1. DOMAIN cut = 1..Len(inside) /\ Len(inside) \in Nat /\ cut = [i \in DOMAIN cut |-> cut[i]]
    BY <1>4
  <2> HIDE DEF cut
  <2> QED
    BY <1>4, <1>5, <2>1
<1> QED
  BY <1>1, <1>6 DEF NoteSeqs

LEMMA SegmentShaped ==
  ASSUME NEW clip, PlacedShape(clip), NEW from \in Int, NEW to \in Int
  PROVE  PlacedShape(Segment(clip, from, to))
<1>1. segmentArrangementNotes(clip, from, to) \in NoteSeqs
  BY SegmentNotesTyped
<1> QED
  BY <1>1 DEF Segment, PlacedShape, PlacedFields

\* The list after a split, before it is renumbered.
Halved(list, clip, at) ==
  Before(list, clip.index - 1)
    \o <<Segment(clip, clip.start, at), Segment(clip, at, clip.end)>>
    \o SubSeq(list, clip.index + 1, Len(list))

LEMMA PartShaped ==
  ASSUME NEW list, ListShaped(list), NEW m \in Nat \ {0}, NEW n \in Nat, n <= Len(list)
  PROVE  /\ SubSeq(list, m, n) \in Seq(Range(list))
         /\ Range(SubSeq(list, m, n)) = {list[i] : i \in m..n}
<1>1. list \in Seq(Range(list)) /\ DOMAIN list = 1..Len(list) /\ Len(list) \in Nat
  BY DEF ListShaped, Listed
<1>2. SubSeq(list, m, n) = [i \in 1..(IF m <= n THEN n - m + 1 ELSE 0) |-> list[m + i - 1]]
  BY <1>1
<1>3. ASSUME NEW i \in m..n PROVE list[i] \in Range(SubSeq(list, m, n))
  <2>1. i - m + 1 \in 1..(IF m <= n THEN n - m + 1 ELSE 0) /\ m + (i - m + 1) - 1 = i
    OBVIOUS
  <2> QED
    BY <1>2, <2>1 DEF Range
<1>4. Range(SubSeq(list, m, n)) \subseteq {list[i] : i \in m..n}
  <2>1. \A i \in 1..(IF m <= n THEN n - m + 1 ELSE 0) : m + i - 1 \in m..n
    OBVIOUS
  <2> QED
    BY <1>2, <2>1 DEF Range
<1>5. \A i \in 1..(IF m <= n THEN n - m + 1 ELSE 0) : list[m + i - 1] \in Range(list)
  BY <1>1 DEF Range
<1>6. SubSeq(list, m, n) \in Seq(Range(list))
  BY <1>2, <1>5
<1> QED
  BY <1>3, <1>4, <1>6

\* What there is in it: all but the clip, and its halves.
LEMMA HalvedFacts ==
  ASSUME NEW list, ListShaped(list), NEW clip, PlacedShape(clip), NEW at \in Int
  PROVE  /\ ListShaped(Halved(list, clip, at))
         /\ Range(Halved(list, clip, at)) =
              {list[i] : i \in DOMAIN list \ {clip.index}}
                \cup {Segment(clip, clip.start, at), Segment(clip, at, clip.end)}
<1> DEFINE n == clip.index
           low == Segment(clip, clip.start, at)
           high == Segment(clip, at, clip.end)
           S == Range(list) \cup {low, high}
           last == IF n - 1 < Len(list) THEN n - 1 ELSE Len(list)
           front == SubSeq(list, 1, last)
           back == SubSeq(list, n + 1, Len(list))
<1>1. n \in Nat \ {0} /\ Len(list) \in Nat /\ last \in Nat /\ last <= Len(list) /\ DOMAIN list = 1..Len(list)
  BY DEF PlacedShape, ListShaped, Listed
<1>2. front \in Seq(Range(list)) /\ Range(front) = {list[i] : i \in 1..last}
  BY <1>1, PartShaped
<1>3. back \in Seq(Range(list)) /\ Range(back) = {list[i] : i \in n + 1..Len(list)}
  BY <1>1, PartShaped
<1>4. Halved(list, clip, at) = front \o <<low, high>> \o back
  BY DEF Halved, Before
<1>5. PlacedShape(low) /\ PlacedShape(high)
  BY SegmentShaped DEF PlacedShape
<1> HIDE DEF front, back, low, high
<1>6. front \in Seq(S) /\ back \in Seq(S) /\ <<low, high>> \in Seq(S)
  BY <1>2, <1>3
<1>7. Range(<<low, high>>) = {low, high}
  BY DEF Range
<1> HIDE DEF S
<1>8. front \o <<low, high>> \in Seq(S)
  BY <1>6, ConcatFacts
<1>9. /\ Halved(list, clip, at) \in Seq(S)
      /\ Range(Halved(list, clip, at)) = Range(front) \cup {low, high} \cup Range(back)
  <2>1. Range(front \o <<low, high>>) = Range(front) \cup {low, high}
    <3> DEFINE halves == <<low, high>>
    <3>1. halves \in Seq(S) /\ Range(halves) = {low, high}
      BY <1>6, <1>7
    <3> HIDE DEF halves
    <3>2. Range(front \o halves) = Range(front) \cup {low, high}
      BY <1>6, <3>1, ConcatFacts
    <3> QED
      BY <3>2 DEF halves
  <2> DEFINE most == front \o <<low, high>>
  <2>2. most \in Seq(S)
    BY <1>8
  <2> HIDE DEF most
  <2>3. most \o back \in Seq(S) /\ Range(most \o back) = Range(most) \cup Range(back)
    BY <1>6, <2>2, ConcatFacts
  <2> QED
    BY <1>4, <2>1, <2>3 DEF most
<1> HIDE DEF n, last
<1>10. {list[i] : i \in 1..last} \cup {list[i] : i \in n + 1..Len(list)}
        = {list[i] : i \in DOMAIN list \ {n}}
  <2>1. (1..last) \cup (n + 1..Len(list)) = DOMAIN list \ {n}
    BY <1>1 DEF last
  <2> HIDE DEF last, n
  <2> QED
    BY <2>1
<1>11. Range(Halved(list, clip, at)) = {list[i] : i \in DOMAIN list \ {n}} \cup {low, high}
  BY <1>2, <1>3, <1>9, <1>10
<1>12. \A c \in Range(Halved(list, clip, at)) : PlacedShape(c)
  <2>1. \A i \in DOMAIN list : PlacedShape(list[i])
    BY DEF ListShaped, Range
  <2> QED
    BY <1>5, <1>11, <2>1
<1>13. Listed(Halved(list, clip, at))
  BY <1>9, ListedFacts
<1> QED
  BY <1>11, <1>12, <1>13 DEF ListShaped, low, high, n

\* Every clip gets the number of its place.
LEMMA RenumberedShaped ==
  ASSUME NEW list, ListShaped(list)
  PROVE  /\ ListShaped(Renumbered(list)) /\ DOMAIN Renumbered(list) = DOMAIN list
         /\ \A i \in DOMAIN list :
              /\ Renumbered(list)[i] = [list[i] EXCEPT !.id = i, !.index = i]
              /\ Renumbered(list)[i].id = i
<1> DEFINE new == Renumbered(list)
<1>1. /\ DOMAIN new = DOMAIN list /\ new = [i \in DOMAIN new |-> new[i]]
      /\ \A i \in DOMAIN list : new[i] = [list[i] EXCEPT !.id = i, !.index = i]
  BY DEF Renumbered
<1>2. \A i \in DOMAIN list : PlacedShape(list[i]) /\ i \in Nat \ {0}
  BY DEF ListShaped, Listed, Range
<1> HIDE DEF new
<1>3. ASSUME NEW i \in DOMAIN list PROVE PlacedShape(new[i]) /\ new[i].id = i
  <2>1. PlacedShape(list[i]) /\ i \in Nat \ {0}
    BY <1>2
  <2>2. new[i] = [list[i] EXCEPT !.id = i, !.index = i]
    BY <1>1
  <2> QED
    BY <2>1, <2>2 DEF PlacedShape, PlacedFields
<1>4. ListShaped(new)
  BY <1>1, <1>3, MappedShaped
<1> QED
  BY <1>1, <1>3, <1>4 DEF new
-----------------------------------------------------------------------------
(* The tracks as a whole. *)
LEMMA SameKeysShape ==
  ASSUME TracksShaped, DOMAIN tracks' = DOMAIN tracks,
         \A t \in DOMAIN tracks : Shaped(tracks'[t]) /\ Len(tracks'[t].sends) = Len(tracks[t].sends)
  PROVE  TracksShaped'
<1>1. Visible' = Visible /\ Returns' = Returns
  BY DEF Visible, Returns
<1>2. Keys' /\ Finite'
  BY <1>1 DEF TracksShaped, Keys, Finite
<1>3. Sends'
  BY <1>1 DEF TracksShaped, Sends, Visible
<1> QED
  BY <1>2, <1>3 DEF TracksShaped

LEMMA ChangeShape ==
  ASSUME TracksShaped, NEW t \in DOMAIN tracks, NEW track, ChangeTrack(t, track),
         Shaped(track), track.sends = tracks[t].sends
  PROVE  TracksShaped'
<1>1. /\ DOMAIN tracks' = DOMAIN tracks
      /\ \A u \in DOMAIN tracks : tracks'[u] = IF u = t THEN track ELSE tracks[u]
  BY DEF ChangeTrack
<1> QED
  BY <1>1, SameKeysShape DEF TracksShaped

\* One track's clips change, or its arrangement, or what is mixed.
LEMMA ClipsChange ==
  ASSUME TracksShaped, NEW t \in DOMAIN tracks, NEW track, ChangeTrack(t, track),
         DOMAIN track = TrackFields, ClipsShaped(track.clips), ListShaped(track.arrangement),
         track.level = tracks[t].level, track.sends = tracks[t].sends,
         track.devices = tracks[t].devices
  PROVE  TracksShaped'
<1>1. Shaped(tracks[t])
  BY DEF TracksShaped
<1>2. Shaped(track)
  BY <1>1 DEF Shaped, MixerShaped
<1> QED
  BY <1>2, ChangeShape

LEMMA ListChange ==
  ASSUME TracksShaped, NEW t \in DOMAIN tracks, NEW list, ListShaped(list),
         ChangeTrack(t, [tracks[t] EXCEPT !.arrangement = list])
  PROVE  TracksShaped'
<1> DEFINE track == [tracks[t] EXCEPT !.arrangement = list]
<1>1. Shaped(tracks[t])
  BY DEF TracksShaped
<1>2. /\ DOMAIN track = TrackFields /\ track.clips = tracks[t].clips /\ track.arrangement = list
      /\ track.level = tracks[t].level /\ track.sends = tracks[t].sends
      /\ track.devices = tracks[t].devices
  BY <1>1 DEF Shaped, TrackFields
<1> HIDE DEF track
<1> QED
  BY <1>1, <1>2, ClipsChange DEF track, Shaped

LEMMA MixerChange ==
  ASSUME TracksShaped, NEW t \in DOMAIN tracks, NEW track, ChangeTrack(t, track),
         DOMAIN track = TrackFields, track.clips = tracks[t].clips,
         track.arrangement = tracks[t].arrangement, MixerShaped(track),
         Len(track.sends) = Len(tracks[t].sends)
  PROVE  TracksShaped'
<1>1. Shaped(tracks[t])
  BY DEF TracksShaped
<1>2. Shaped(track)
  BY <1>1 DEF Shaped
<1>3. /\ DOMAIN tracks' = DOMAIN tracks
      /\ \A u \in DOMAIN tracks : tracks'[u] = IF u = t THEN track ELSE tracks[u]
  BY DEF ChangeTrack
<1> QED
  BY <1>2, <1>3, SameKeysShape DEF TracksShaped

-----------------------------------------------------------------------------
(* New tracks. *)
LEMMA KeyedFacts ==
  ASSUME NEW section, NEW n \in Nat
  PROVE  /\ IsFiniteSet(Keyed(section, n)) /\ Cardinality(Keyed(section, n)) = n
         /\ Keyed(section, n + 1) = Keyed(section, n) \cup {<<section, n + 1>>}
         /\ <<section, n + 1>> \notin Keyed(section, n)
         /\ \A t \in Keyed(section, n) : t[1] = section
<1> DEFINE f == [i \in 1..n |-> <<section, i>>]
<1>1. f \in Bijection(1..n, Keyed(section, n))
  <2>1. f \in [1..n -> Keyed(section, n)]
    BY DEF Keyed
  <2>2. \A i, j \in 1..n : f[i] = f[j] => i = j
    OBVIOUS
  <2>3. \A t \in Keyed(section, n) : \E i \in 1..n : f[i] = t
    BY DEF Keyed
  <2> HIDE DEF f
  <2> QED
    BY <2>1, <2>2, <2>3 DEF Bijection, Injection, Surjection, IsInjective
<1>2. ExistsBijection(1..n, Keyed(section, n))
  BY <1>1 DEF ExistsBijection
<1>3. IsFiniteSet(Keyed(section, n)) /\ Cardinality(Keyed(section, n)) = n
  BY <1>2, FS_NatBijection, FS_CountingElements
<1>4. Keyed(section, n + 1) = Keyed(section, n) \cup {<<section, n + 1>>}
  <2>1. 1..n + 1 = 1..n \cup {n + 1}
    OBVIOUS
  <2> QED
    BY <2>1 DEF Keyed
<1>5. <<section, n + 1>> \notin Keyed(section, n)
  BY DEF Keyed
<1> QED
  BY <1>3, <1>4, <1>5 DEF Keyed

LEMMA SectionsFacts ==
  ASSUME TracksShaped
  PROVE  /\ Cardinality(Visible) \in Nat /\ Cardinality(Returns) \in Nat
         /\ Visible = Keyed("visible", Cardinality(Visible))
         /\ Returns = Keyed("return", Cardinality(Returns))
<1>1. Cardinality(Visible) \in Nat /\ Cardinality(Returns) \in Nat
  BY FS_CardinalityType DEF TracksShaped, Finite
<1>2. /\ \A t \in Keyed("visible", Cardinality(Visible)) : t[1] = "visible"
      /\ \A t \in Keyed("return", Cardinality(Returns)) : t[1] = "return"
  BY DEF Keyed
<1>3. Visible = Keyed("visible", Cardinality(Visible))
  BY <1>2 DEF TracksShaped, Keys, Visible
<1>4. Returns = Keyed("return", Cardinality(Returns))
  BY <1>2 DEF TracksShaped, Keys, Returns
<1> QED
  BY <1>1, <1>3, <1>4

LEMMA EmptyShaped ==
  ASSUME NEW sends \in Seq(0..Top), NEW level \in {None} \cup 0..Top
  PROVE  /\ Shaped(EmptyTrack(sends, level)) /\ EmptyTrack(sends, level).sends = sends
         /\ EmptyTrack(sends, level).clips = {}
<1> DEFINE track == EmptyTrack(sends, level)
<1>1. /\ DOMAIN track = TrackFields /\ track.clips = {} /\ track.arrangement = <<>>
      /\ track.level = level /\ track.sends = sends /\ track.devices = <<>>
  BY DEF EmptyTrack, TrackFields
<1> HIDE DEF track
<1>2. ClipsShaped(track.clips)
  BY <1>1, FS_EmptySet DEF ClipsShaped, OnePerSlot
<1>3. ListShaped(track.arrangement)
  BY <1>1 DEF ListShaped, Listed, Range
<1> QED
  BY <1>1, <1>2, <1>3 DEF Shaped, MixerShaped, track

LEMMA VisibleIsNew ==
  ASSUME TracksShaped, createTrack
  PROVE  TracksShaped'
<1> DEFINE n == Cardinality(Visible)
           m == Cardinality(Returns)
           new == <<"visible", n + 1>>
           sends == [i \in 1..m |-> 0]
           track == EmptyTrack(sends, None)
<1>1. n \in Nat /\ m \in Nat /\ Visible = Keyed("visible", n) /\ Returns = Keyed("return", m)
  BY SectionsFacts
<1>2. sends \in Seq(0..Top) /\ Len(sends) = m
  BY <1>1, InputAssumption
<1>3. Shaped(track) /\ track.sends = sends
  BY <1>2, EmptyShaped DEF None
<1>4. tracks' = Put(tracks, new, track)
  BY DEF createTrack
<1>5. new[1] = "visible" /\ new \notin Visible
  BY <1>1, KeyedFacts
<1> HIDE DEF n, m, new, sends, track
<1>6. /\ DOMAIN tracks' = DOMAIN tracks \cup {new} /\ tracks'[new] = track
      /\ \A t \in DOMAIN tracks : t # new => tracks'[t] = tracks[t]
  BY <1>4 DEF Put
<1>7. new \notin DOMAIN tracks
  BY <1>5 DEF Visible
<1>8. Visible' = Visible \cup {new} /\ Returns' = Returns
  BY <1>5, <1>6 DEF Visible, Returns
<1>9. Visible' = Keyed("visible", n + 1) /\ Cardinality(Visible') = n + 1
  <2>1. Keyed("visible", n + 1) = Keyed("visible", n) \cup {new}
    BY <1>1, KeyedFacts DEF new
  <2>2. n + 1 \in Nat
    BY <1>1
  <2>3. Cardinality(Keyed("visible", n + 1)) = n + 1
    BY <2>2, KeyedFacts
  <2> QED
    BY <1>1, <1>8, <2>1, <2>3
<1>10. DOMAIN tracks = Visible \cup Returns
  BY <1>1 DEF TracksShaped, Keys, n, m
<1>11. Keys'
  BY <1>1, <1>6, <1>8, <1>9, <1>10 DEF Keys, m
<1>12. Finite'
  BY <1>8, FS_AddElement DEF TracksShaped, Finite
<1>13. Sends'
  BY <1>2, <1>3, <1>6, <1>7, <1>8 DEF TracksShaped, Sends, Visible, m
<1>14. \A t \in DOMAIN tracks' : Shaped(tracks'[t])
  BY <1>3, <1>6, <1>7 DEF TracksShaped
<1> QED
  BY <1>11, <1>12, <1>13, <1>14 DEF TracksShaped

LEMMA ReturnIsNew ==
  ASSUME TracksShaped, createReturnTrack
  PROVE  TracksShaped'
<1> DEFINE n == Cardinality(Visible)
           m == Cardinality(Returns)
           new == <<"return", m + 1>>
           track == EmptyTrack(<<>>, Top)
           WithSend == [u \in DOMAIN tracks |->
                 IF u \in Visible THEN [tracks[u] EXCEPT !.sends = Append(@, 0)] ELSE tracks[u]]
<1>1. n \in Nat /\ m \in Nat /\ Visible = Keyed("visible", n) /\ Returns = Keyed("return", m)
  BY SectionsFacts
<1>2. Shaped(track)
  <2>1. <<>> \in Seq(0..Top) /\ Top \in {None} \cup 0..Top
    BY InputAssumption
  <2> QED
    BY <2>1, EmptyShaped
<1>3. tracks' = Put(WithSend, new, track)
  BY DEF createReturnTrack
<1>4. new[1] = "return" /\ new \notin Returns
  BY <1>1, KeyedFacts
<1>5. ASSUME NEW u \in DOMAIN tracks
      PROVE  /\ Shaped(WithSend[u])
             /\ u \in Visible => Len(WithSend[u].sends) = m + 1
  <2> DEFINE old == tracks[u]
             more == [old EXCEPT !.sends = Append(@, 0)]
  <2>1. Shaped(old)
    BY DEF TracksShaped
  <2>2. /\ DOMAIN more = TrackFields /\ more.clips = old.clips
        /\ more.arrangement = old.arrangement /\ more.level = old.level
        /\ more.sends = Append(old.sends, 0) /\ more.devices = old.devices
    BY <2>1 DEF Shaped, TrackFields
  <2> HIDE DEF more
  <2>3. more.sends \in Seq(0..Top) /\ Len(more.sends) = Len(old.sends) + 1
    BY <2>1, <2>2, InputAssumption DEF Shaped, MixerShaped
  <2>4. Shaped(more)
    BY <2>1, <2>2, <2>3 DEF Shaped, MixerShaped
  <2>5. u \in Visible => Len(old.sends) = m
    BY DEF TracksShaped, Sends
  <2>6. WithSend[u] = IF u \in Visible THEN more ELSE old
    BY DEF more
  <2> HIDE DEF WithSend
  <2> QED
    BY <2>1, <2>3, <2>4, <2>5, <2>6
<1>6. DOMAIN WithSend = DOMAIN tracks
  OBVIOUS
<1> HIDE DEF n, m, new, track, WithSend
<1>7. /\ DOMAIN tracks' = DOMAIN tracks \cup {new} /\ tracks'[new] = track
      /\ \A t \in DOMAIN tracks : t # new => tracks'[t] = WithSend[t]
  BY <1>3, <1>6 DEF Put
<1>8. new \notin DOMAIN tracks
  BY <1>4 DEF Returns
<1>9. Returns' = Returns \cup {new} /\ Visible' = Visible
  BY <1>4, <1>7 DEF Visible, Returns
<1>10. Returns' = Keyed("return", m + 1) /\ Cardinality(Returns') = m + 1
  <2>1. Keyed("return", m + 1) = Keyed("return", m) \cup {new}
    BY <1>1, KeyedFacts DEF new
  <2>2. m + 1 \in Nat
    BY <1>1
  <2>3. Cardinality(Keyed("return", m + 1)) = m + 1
    BY <2>2, KeyedFacts
  <2> QED
    BY <1>1, <1>9, <2>1, <2>3
<1>11. DOMAIN tracks = Visible \cup Returns
  BY <1>1 DEF TracksShaped, Keys, n, m
<1>12. Keys'
  BY <1>1, <1>7, <1>9, <1>10, <1>11 DEF Keys, n
<1>13. Finite'
  BY <1>9, FS_AddElement DEF TracksShaped, Finite
<1>14. Sends'
  BY <1>5, <1>7, <1>8, <1>9, <1>10 DEF Sends, Visible
<1>15. \A t \in DOMAIN tracks' : Shaped(tracks'[t])
  BY <1>2, <1>5, <1>7, <1>8
<1> QED
  BY <1>12, <1>13, <1>14, <1>15 DEF TracksShaped
-----------------------------------------------------------------------------
LEMMA InputTypes ==
  /\ \A at \in Beats : at \in Nat
  /\ \A length \in Lengths : length \in Int
  /\ \A value \in Values : value \in Int
  /\ \A notes \in NoteLists : notes \in NoteSeqs
  /\ <<>> \in NoteSeqs /\ Top \in Nat /\ 0 \in 0..Top /\ 1 \in 0..Top
<1>1. Beats \subseteq Nat /\ Lengths \subseteq Int /\ Values \subseteq Int /\ Top \in Nat \ {0}
  BY InputAssumption
<1>2. NoteLists \subseteq NoteSeqs
  BY InputAssumption, Zenon DEF NoteSeqs
<1>3. <<>> \in NoteSeqs
  <2> DEFINE S == [at : Int, length : Int]
  <2> HIDE DEF S
  <2>1. <<>> \in Seq(S)
    OBVIOUS
  <2> QED
    BY <2>1 DEF S, NoteSeqs
<1>4. \A notes \in NoteLists : notes \in NoteSeqs
  BY <1>2, Zenon
<1> QED
  BY <1>1, <1>3, <1>4

LEMMA Clamped ==
  ASSUME NEW value \in Values
  PROVE  Clamp(value, 0, Top) \in 0..Top
BY InputTypes DEF Clamp

LEMMA SetAt ==
  ASSUME NEW S, NEW s \in Seq(S), NEW i \in DOMAIN s, NEW x \in S
  PROVE  [s EXCEPT ![i] = x] \in Seq(S) /\ Len([s EXCEPT ![i] = x]) = Len(s)
OBVIOUS

LEMMA AppendIn ==
  ASSUME NEW S, NEW s \in Seq(S), NEW x \in S
  PROVE  Append(s, x) \in Seq(S)
OBVIOUS

\* A new clip of the arrangement, made from a clip or from nothing.
LEMMA NewClipShaped ==
  ASSUME NEW n \in Nat \ {0}, NEW start \in Int, NEW end \in Int, NEW clip,
         clip.length \in Int, clip.notes \in NoteSeqs
  PROVE  PlacedShape(ArrangementClip(n, start, end, clip))
BY DEF ArrangementClip, PlacedShape, PlacedFields

LEMMA AppendShape ==
  ASSUME TracksShaped, NEW t \in DOMAIN tracks, NEW start \in Int, NEW end \in Int, NEW clip,
         clip.length \in Int, clip.notes \in NoteSeqs, AppendClip(t, start, end, clip)
  PROVE  TracksShaped'
<1> DEFINE list == tracks[t].arrangement
           new == ArrangementClip(Len(list) + 1, start, end, clip)
<1>1. ListShaped(list) /\ Len(list) + 1 \in Nat \ {0}
  BY DEF TracksShaped, Shaped, ListShaped, Listed
<1>2. ListShaped(Append(list, new))
  BY <1>1, NewClipShaped, AppendedShaped
<1>3. ChangeTrack(t, [tracks[t] EXCEPT !.arrangement = Append(list, new)])
  BY DEF AppendClip
<1> QED
  BY <1>2, <1>3, ListChange

LEMMA PlayingShaped ==
  ASSUME NEW track, Shaped(track), NEW slot
  PROVE  Shaped(Playing(track, slot)) /\ Playing(track, slot).sends = track.sends
<1> DEFINE new == Playing(track, slot)
<1>1. /\ DOMAIN new = TrackFields
      /\ new.clips = Relit(track.clips, slot)
      /\ new.arrangement = track.arrangement /\ new.level = track.level
      /\ new.sends = track.sends /\ new.devices = track.devices
  BY DEF Shaped, TrackFields, Playing, Relit
<1> HIDE DEF new
<1>2. ClipsShaped(new.clips)
  BY <1>1, LitShaped DEF Shaped
<1> QED
  BY <1>1, <1>2 DEF Shaped, MixerShaped, new

LEMMA OnSongShape ==
  ASSUME TracksShaped, OnSong
  PROVE  TracksShaped'
<1>1. CASE \/ \E tempo \in Tempos : setTempo(tempo)
           \/ \E time \in Beats : setArrangementTransport(time)
           \/ \E playing \in BOOLEAN : transport(playing)
           \/ createScene
  <2>1. tracks' = tracks
    BY <1>1 DEF setTempo, setArrangementTransport, transport, createScene
  <2> QED
    BY <2>1 DEF TracksShaped, Keys, Finite, Sends, Visible, Returns
<1>2. CASE \E scene \in 1..scenes : fireScene(scene)
  <2>1. PICK scene \in 1..scenes : fireScene(scene)
    BY <1>2
  <2> DEFINE Slot(t) == IF \E c \in tracks[t].clips : c.slot = scene - 1 THEN scene - 1 ELSE None
  <2>2. tracks' = [t \in DOMAIN tracks |->
                     IF t \notin Visible THEN tracks[t] ELSE Playing(tracks[t], Slot(t))]
    BY <2>1 DEF fireScene
  <2> HIDE DEF Slot
  <2>3. ASSUME NEW t \in DOMAIN tracks
        PROVE  Shaped(tracks'[t]) /\ Len(tracks'[t].sends) = Len(tracks[t].sends)
    BY <2>2, PlayingShaped DEF TracksShaped
  <2> QED
    BY <2>2, <2>3, SameKeysShape
<1>3. CASE stopAllClips
  <2>1. tracks' = [t \in DOMAIN tracks |->
                     IF t \in Visible THEN Playing(tracks[t], None) ELSE tracks[t]]
    BY <1>3 DEF stopAllClips
  <2>2. ASSUME NEW t \in DOMAIN tracks
        PROVE  Shaped(tracks'[t]) /\ Len(tracks'[t].sends) = Len(tracks[t].sends)
    BY <2>1, PlayingShaped DEF TracksShaped
  <2> QED
    BY <2>1, <2>2, SameKeysShape
<1> QED
  BY <1>1, <1>2, <1>3, VisibleIsNew, ReturnIsNew DEF OnSong

LEMMA SetSendShape ==
  ASSUME NEW track, MixerShaped(track), NEW value \in Values, NEW i \in DOMAIN track.sends
  PROVE  /\ [track.sends EXCEPT ![i] = Clamp(value, 0, Top)] \in Seq(0..Top)
         /\ Len([track.sends EXCEPT ![i] = Clamp(value, 0, Top)]) = Len(track.sends)
<1>1. Clamp(value, 0, Top) \in 0..Top /\ track.sends \in Seq(0..Top)
  BY Clamped DEF MixerShaped
<1> QED
  BY <1>1, SetAt

LEMMA CreatedClipShape ==
  ASSUME TracksShaped, NEW t \in DOMAIN tracks, NEW slot \in Slots, createClip(t, slot)
  PROVE  TracksShaped'
<1> DEFINE track == tracks[t]
<1>1. Shaped(track) /\ DOMAIN track = TrackFields
  BY DEF TracksShaped, Shaped
<1>2. PICK name \in Names :
        ChangeTrack(t, [track EXCEPT !.clips = @ \cup {SessionClip(slot, name, 1, <<>>, {})}])
  BY DEF createClip
<1>3. slot \in Nat /\ \A c \in track.clips : c.slot # slot
  BY SlotAssumption DEF createClip, Free
<1> DEFINE clip == SessionClip(slot, name, 1, <<>>, {})
           new == [track EXCEPT !.clips = @ \cup {clip}]
<1>4. ClipsShaped(track.clips) /\ 1 \in Int /\ <<>> \in NoteSeqs
  BY <1>1, InputTypes DEF Shaped
<1>5. ClipsShaped(track.clips \cup {clip})
  BY <1>3, <1>4, AddedShaped, Zenon
<1>6. /\ DOMAIN new = TrackFields /\ new.clips = track.clips \cup {clip}
      /\ new.arrangement = track.arrangement /\ new.level = track.level
      /\ new.devices = track.devices /\ new.sends = track.sends
  BY <1>1 DEF TrackFields
<1>7. ChangeTrack(t, new)
  BY <1>2
<1>8. ListShaped(track.arrangement)
  BY <1>1 DEF Shaped
<1> HIDE DEF new, clip
<1> QED
  BY <1>5, <1>6, <1>7, <1>8, ClipsChange

LEMMA CreatedPlacedShape ==
  ASSUME TracksShaped, NEW t \in DOMAIN tracks, NEW start \in Beats, NEW length \in Lengths,
         createArrangementClip(t, start, length)
  PROVE  TracksShaped'
<1>1. PICK name \in Names :
        AppendClip(t, start, start + length, SessionClip(None, name, length, <<>>, {}))
  BY DEF createArrangementClip
<1> DEFINE clip == SessionClip(None, name, length, <<>>, {})
<1>2. start \in Int /\ length \in Int
  BY InputTypes
<1>3. start + length \in Int
  BY <1>2
<1>4. clip.length \in Int /\ clip.notes \in NoteSeqs
  BY <1>2, InputTypes DEF SessionClip
<1>5. AppendClip(t, start, start + length, clip)
  BY <1>1
<1> HIDE DEF clip
<1> QED
  BY <1>2, <1>3, <1>4, <1>5, AppendShape

LEMMA OnTrackShape ==
  ASSUME TracksShaped, NEW t \in DOMAIN tracks,
         \/ \E value \in Values :
              \/ setTrackLevel(t, value)
              \/ \E i \in DOMAIN tracks[t].sends : setSendLevel(t, i, value)
              \/ \E i \in DOMAIN tracks[t].devices : setParameter(t, i, value)
         \/ \E state \in {2} : setMonitorState(t, state)
         \/ \E requested \in {"sends only", "other"} : setTrackRouting(t, requested)
         \/ loadBrowserItem(t)
         \/ stopTrackClips(t)
         \/ \E slot \in Slots : createClip(t, slot)
         \/ \E start \in Beats, length \in Lengths : createArrangementClip(t, start, length)
  PROVE  TracksShaped'
<1> DEFINE track == tracks[t]
<1>1. Shaped(track)
  BY DEF TracksShaped
<1>2. /\ DOMAIN track = TrackFields /\ track.level \in {None} \cup 0..Top
      /\ track.sends \in Seq(0..Top) /\ track.devices \in Seq(0..Top)
  BY <1>1 DEF Shaped, MixerShaped
<1> HIDE DEF track
<1> DEFINE Mixed(new) == /\ DOMAIN new = TrackFields /\ new.clips = track.clips
                         /\ new.arrangement = track.arrangement /\ MixerShaped(new)
                         /\ Len(new.sends) = Len(track.sends)
<1>3. ASSUME NEW new, Mixed(new), ChangeTrack(t, new) PROVE TracksShaped'
  BY <1>3, MixerChange DEF track
<1>4. ASSUME NEW value \in Values, setTrackLevel(t, value) PROVE TracksShaped'
  <2>1. ChangeTrack(t, [track EXCEPT !.level = Clamp(value, 0, Top)])
    BY <1>4 DEF setTrackLevel, UpdateTrack, track
  <2>2. Mixed([track EXCEPT !.level = Clamp(value, 0, Top)])
    BY <1>2, Clamped DEF TrackFields, MixerShaped
  <2> QED
    BY <1>3, <2>1, <2>2
<1>5. ASSUME NEW value \in Values, NEW i \in DOMAIN tracks[t].sends, setSendLevel(t, i, value)
      PROVE  TracksShaped'
  <2> DEFINE new == [track EXCEPT !.sends[i] = Clamp(value, 0, Top)]
  <2>1. ChangeTrack(t, new)
    BY <1>5 DEF setSendLevel, UpdateTrack, track
  <2>2. [track.sends EXCEPT ![i] = Clamp(value, 0, Top)] \in Seq(0..Top)
        /\ Len([track.sends EXCEPT ![i] = Clamp(value, 0, Top)]) = Len(track.sends)
    BY <1>1, SetSendShape DEF Shaped, track
  <2>3. /\ DOMAIN new = TrackFields /\ new.clips = track.clips
        /\ new.arrangement = track.arrangement /\ new.level = track.level
        /\ new.sends = [track.sends EXCEPT ![i] = Clamp(value, 0, Top)]
        /\ new.devices = track.devices
    BY <1>2 DEF TrackFields
  <2> HIDE DEF new
  <2>4. Mixed(new)
    BY <1>2, <2>2, <2>3 DEF MixerShaped
  <2> QED
    BY <1>3, <2>1, <2>4
<1>6. ASSUME NEW value \in Values, NEW i \in DOMAIN tracks[t].devices, setParameter(t, i, value)
      PROVE  TracksShaped'
  <2> DEFINE new == [track EXCEPT !.devices[i] = Clamp(value, 0, Top)]
  <2>1. ChangeTrack(t, new)
    BY <1>6 DEF setParameter, track
  <2>2. [track.devices EXCEPT ![i] = Clamp(value, 0, Top)] \in Seq(0..Top)
    <3>1. i \in DOMAIN track.devices /\ Clamp(value, 0, Top) \in 0..Top
      BY Clamped DEF track
    <3> QED
      BY <1>2, <3>1, SetAt
  <2>3. /\ DOMAIN new = TrackFields /\ new.clips = track.clips
        /\ new.arrangement = track.arrangement /\ new.level = track.level
        /\ new.devices = [track.devices EXCEPT ![i] = Clamp(value, 0, Top)]
        /\ new.sends = track.sends
    BY <1>2 DEF TrackFields
  <2> HIDE DEF new
  <2>4. Mixed(new)
    BY <1>2, <2>2, <2>3 DEF MixerShaped
  <2> QED
    BY <1>3, <2>1, <2>4
<1>7. ASSUME NEW state, setMonitorState(t, state) PROVE TracksShaped'
  <2>1. Mixed([track EXCEPT !.monitor = state])
    BY <1>2 DEF TrackFields, MixerShaped
  <2> QED
    BY <1>3, <1>7, <2>1 DEF setMonitorState, UpdateTrack, track
<1>8. ASSUME NEW requested, setTrackRouting(t, requested) PROVE TracksShaped'
  <2>1. Mixed([track EXCEPT !.routing = resolveRoutingChoice(requested)])
    BY <1>2 DEF TrackFields, MixerShaped
  <2> QED
    BY <1>3, <1>8, <2>1 DEF setTrackRouting, UpdateTrack, track
<1>9. CASE loadBrowserItem(t)
  <2> DEFINE new == [track EXCEPT !.devices = Append(@, 1)]
  <2>1. ChangeTrack(t, new)
    BY <1>9 DEF loadBrowserItem, UpdateTrack, track
  <2>2. Append(track.devices, 1) \in Seq(0..Top)
    <3>1. 1 \in 0..Top
      BY InputTypes
    <3> QED
      BY <1>2, <3>1, AppendIn
  <2>3. /\ DOMAIN new = TrackFields /\ new.clips = track.clips
        /\ new.arrangement = track.arrangement /\ new.level = track.level
        /\ new.devices = Append(track.devices, 1) /\ new.sends = track.sends
    BY <1>2 DEF TrackFields
  <2> HIDE DEF new
  <2>4. Mixed(new)
    BY <1>2, <2>2, <2>3 DEF MixerShaped
  <2> QED
    BY <1>3, <2>1, <2>4
<1>10. CASE stopTrackClips(t)
  BY <1>1, <1>10, PlayingShaped, ChangeShape DEF stopTrackClips, track
<1>11. ASSUME NEW slot \in Slots, createClip(t, slot) PROVE TracksShaped'
  BY <1>11, CreatedClipShape
<1>12. ASSUME NEW start \in Beats, NEW length \in Lengths, createArrangementClip(t, start, length)
       PROVE  TracksShaped'
  BY <1>12, CreatedPlacedShape
<1> QED
  BY <1>4, <1>5, <1>6, <1>7, <1>8, <1>9, <1>10, <1>11, <1>12
-----------------------------------------------------------------------------
\* A copy of a session clip goes to a free slot.
LEMMA CopiedShape ==
  ASSUME Inv, TracksShaped, NEW id \in SessionIds, NEW t \in DOMAIN tracks, NEW slot \in Slots,
         Free(t, slot)
  PROVE  /\ DOMAIN [tracks[t] EXCEPT !.clips = @ \cup {Copy(findClip(id), slot)}] = TrackFields
         /\ Shaped([tracks[t] EXCEPT !.clips = @ \cup {Copy(findClip(id), slot)}])
<1> DEFINE clip == Copy(findClip(id), slot)
           new == [tracks[t] EXCEPT !.clips = @ \cup {clip}]
<1>1. findClip(id).length \in Int /\ findClip(id).notes \in NoteSeqs
  BY FoundShaped DEF ClipIds
<1>2. slot \in Nat /\ \A c \in tracks[t].clips : c.slot # slot
  BY SlotAssumption DEF Free
<1>3. Shaped(tracks[t]) /\ ClipsShaped(tracks[t].clips)
  BY DEF TracksShaped, Shaped
<1>4. ClipsShaped(tracks[t].clips \cup {clip})
  BY <1>1, <1>2, <1>3, AddedShaped DEF Copy
<1>5. /\ DOMAIN new = TrackFields /\ new.clips = tracks[t].clips \cup {clip}
      /\ new.arrangement = tracks[t].arrangement /\ new.level = tracks[t].level
      /\ new.devices = tracks[t].devices /\ new.sends = tracks[t].sends
  BY <1>3 DEF Shaped, TrackFields
<1> HIDE DEF new, clip
<1>6. DOMAIN new = TrackFields /\ Shaped(new)
  BY <1>3, <1>4, <1>5 DEF Shaped, MixerShaped
<1> QED
  BY <1>6 DEF new, clip

LEMMA WithoutShaped ==
  ASSUME NEW track, Shaped(track), NEW slot
  PROVE  Shaped(WithoutSlot(track, slot)) /\ WithoutSlot(track, slot).sends = track.sends
<1> DEFINE new == WithoutSlot(track, slot)
<1>1. /\ DOMAIN new = TrackFields /\ new.clips = {c \in track.clips : c.slot # slot}
      /\ new.arrangement = track.arrangement /\ new.level = track.level
      /\ new.sends = track.sends /\ new.devices = track.devices
  BY DEF Shaped, TrackFields, WithoutSlot
<1> HIDE DEF new
<1>2. ClipsShaped(new.clips)
  BY <1>1, RemovedShaped DEF Shaped
<1> QED
  BY <1>1, <1>2 DEF Shaped, MixerShaped, new

LEMMA OnSessionClipShape ==
  ASSUME Inv, TracksShaped, NEW id \in SessionIds, NEW t \in DOMAIN tracks, NEW slot \in Slots,
         duplicateClip(id, t, slot) \/ moveSessionClip(id, t, slot)
  PROVE  TracksShaped'
<1> DEFINE with == [tracks[t] EXCEPT !.clips = @ \cup {Copy(findClip(id), slot)}]
<1>1. Free(t, slot)
  BY DEF duplicateClip, moveSessionClip
<1>2. Shaped(with)
  BY <1>1, CopiedShape
<1>3. with.sends = tracks[t].sends
  BY DEF TracksShaped, Shaped, TrackFields
<1>4. CASE duplicateClip(id, t, slot)
  <2>1. ChangeTrack(t, with)
    BY <1>4 DEF duplicateClip
  <2> QED
    BY <1>2, <1>3, <2>1, ChangeShape
<1>5. CASE moveSessionClip(id, t, slot)
  <2> DEFINE copied == [tracks EXCEPT ![t].clips = @ \cup {Copy(findClip(id), slot)}]
  <2>1. tracks' = [copied EXCEPT ![id.track] = WithoutSlot(@, id.n)]
    BY <1>5 DEF moveSessionClip
  <2>2. copied = [tracks EXCEPT ![t] = with]
    OBVIOUS
  <2>3. id.track \in DOMAIN tracks
    BY SessionClipFound
  <2> HIDE DEF with
  <2>4. ASSUME NEW u \in DOMAIN tracks
        PROVE  Shaped(copied[u]) /\ copied[u].sends = tracks[u].sends
    BY <1>2, <1>3, <2>2 DEF TracksShaped
  <2>5. DOMAIN copied = DOMAIN tracks
    BY <2>2
  <2> HIDE DEF copied
  <2>6. Shaped(WithoutSlot(copied[id.track], id.n))
        /\ WithoutSlot(copied[id.track], id.n).sends = tracks[id.track].sends
    BY <2>3, <2>4, WithoutShaped
  <2>7. \A u \in DOMAIN tracks : Shaped(tracks'[u]) /\ Len(tracks'[u].sends) = Len(tracks[u].sends)
    BY <2>1, <2>4, <2>5, <2>6
  <2> QED
    BY <2>1, <2>5, <2>7, SameKeysShape
<1> QED
  BY <1>4, <1>5

\* A clip of the arrangement, and every other with its id, is replaced.
LEMMA EveryShape ==
  ASSUME TracksShaped, NEW id, id.track \in DOMAIN tracks, NEW clip, PlacedShape(clip),
         ChangeTrack(id.track, WithEvery(id, clip))
  PROVE  TracksShaped'
<1> DEFINE list == tracks[id.track].arrangement
           new == [i \in DOMAIN list |-> IF list[i].id = id.n THEN clip ELSE list[i]]
<1>1. ListShaped(list) /\ DOMAIN tracks[id.track] = TrackFields
  BY DEF TracksShaped, Shaped
<1>2. \A i \in DOMAIN list : PlacedShape(list[i])
  BY <1>1 DEF ListShaped, Range
<1>3. ListShaped(new)
  <2>1. \A i \in DOMAIN list : PlacedShape(new[i])
    BY <1>2
  <2>2. DOMAIN new = DOMAIN list /\ new = [i \in DOMAIN new |-> new[i]]
    OBVIOUS
  <2> HIDE DEF new, list
  <2> QED
    BY <1>1, <2>1, <2>2, MappedShaped
<1>4. ChangeTrack(id.track, [tracks[id.track] EXCEPT !.arrangement = new])
  BY <1>1 DEF WithEvery, TrackFields
<1> QED
  BY <1>3, <1>4, ListChange

LEMMA OnArrangementClipShape ==
  ASSUME Inv, TracksShaped, NEW id \in ArrangementIds, NEW at \in Beats, NEW end \in Beats,
         \/ moveArrangementClip(id, at)
         \/ splitArrangementClip(id, at)
         \/ setArrangementClipBounds(id, at, end)
  PROVE  TracksShaped'
<1> DEFINE clip == findClip(id)
           list == tracks[id.track].arrangement
<1>1. id.track \in DOMAIN tracks /\ Shaped(tracks[id.track]) /\ ListShaped(list)
  BY ArrangementClipFound DEF TracksShaped, Shaped
<1>2. PlacedShape(clip)
  BY <1>1, PlacedClipFound DEF ListShaped
<1>3. at \in Int /\ end \in Int
  BY InputTypes
<1> HIDE DEF clip
<1>4. CASE moveArrangementClip(id, at)
  <2> DEFINE new == [clip EXCEPT !.start = at, !.end = at + clip.length]
  <2>1. PlacedShape(new)
    <3>1. at + clip.length \in Int
      BY <1>2, <1>3 DEF PlacedShape
    <3> QED
      BY <1>2, <1>3, <3>1 DEF PlacedShape, PlacedFields
  <2>2. ChangeTrack(id.track, WithEvery(id, new))
    BY <1>4 DEF moveArrangementClip, clip
  <2> QED
    BY <1>1, <2>1, <2>2, EveryShape
<1>5. CASE setArrangementClipBounds(id, at, end)
  <2> DEFINE new == [clip EXCEPT !.start = at, !.end = end, !.length = end - at]
  <2>1. PlacedShape(new)
    <3>1. end - at \in Int
      BY <1>3
    <3> QED
      BY <1>2, <1>3, <3>1 DEF PlacedShape, PlacedFields
  <2>2. ChangeTrack(id.track, WithEvery(id, new))
    BY <1>5 DEF setArrangementClipBounds, clip
  <2> QED
    BY <1>1, <2>1, <2>2, EveryShape
<1>6. CASE splitArrangementClip(id, at)
  <2>1. ChangeTrack(id.track,
          [tracks[id.track] EXCEPT !.arrangement = Renumbered(Halved(list, clip, at))])
    BY <1>6 DEF splitArrangementClip, Halved, clip
  <2>2. ListShaped(Renumbered(Halved(list, clip, at)))
    BY <1>1, <1>2, <1>3, HalvedFacts, RenumberedShaped
  <2> QED
    BY <1>1, <2>1, <2>2, ListChange
<1> QED
  BY <1>4, <1>5, <1>6

\* A clip changes in place.
LEMMA EditShape ==
  ASSUME Inv, TracksShaped, NEW id \in ClipIds, NEW clip,
         ChangeTrack(id.track, WithClip(id, clip)),
         id.place = "session" => SessionShape(clip) /\ clip.slot = findClip(id).slot,
         id.place = "arrangement" => PlacedShape(clip)
  PROVE  TracksShaped'
<1> DEFINE track == tracks[id.track]
           new == WithClip(id, clip)
<1>1. id.track \in DOMAIN tracks /\ Shaped(track)
  BY FoundShaped
<1>2. CASE id \in SessionIds
  <2>1. id.place = "session" /\ findClip(id) \in track.clips
    BY <1>2, SessionClipFound
  <2>2. /\ DOMAIN new = TrackFields /\ new.clips = (track.clips \ {findClip(id)}) \cup {clip}
        /\ new.arrangement = track.arrangement /\ new.level = track.level
        /\ new.devices = track.devices /\ new.sends = track.sends
    BY <1>1, <2>1 DEF WithClip, Shaped, TrackFields
  <2> HIDE DEF new
  <2>3. ClipsShaped(new.clips)
    BY <1>1, <2>1, <2>2, ReplacedShaped DEF Shaped
  <2> QED
    BY <1>1, <2>2, <2>3, ClipsChange DEF Shaped, new
<1>3. CASE id \in ArrangementIds
  <2> DEFINE list == track.arrangement
             at == IndexOf(id)
  <2>1. id.place = "arrangement" /\ ListShaped(list) /\ at \in DOMAIN list
    BY <1>1, <1>3, PlacedClipFound DEF Shaped
  <2>2. ChangeTrack(id.track, [track EXCEPT !.arrangement = [list EXCEPT ![at] = clip]])
    BY <1>1, <2>1 DEF WithClip, Shaped, TrackFields
  <2> HIDE DEF at
  <2>3. \A i \in DOMAIN list : PlacedShape(list[i])
    BY <2>1 DEF ListShaped, Range
  <2>4. ListShaped([list EXCEPT ![at] = clip])
    <3> DEFINE changed == [list EXCEPT ![at] = clip]
    <3> HIDE DEF list
    <3>1. DOMAIN changed = DOMAIN list /\ changed = [i \in DOMAIN changed |-> changed[i]]
      OBVIOUS
    <3>2. \A i \in DOMAIN list : PlacedShape(changed[i])
      BY <2>1, <2>3
    <3> HIDE DEF changed
    <3>3. ListShaped(changed)
      BY <2>1, <3>1, <3>2, MappedShaped
    <3> QED
      BY <3>3 DEF changed
  <2> QED
    BY <1>1, <2>2, <2>4, ListChange
<1> QED
  BY <1>2, <1>3 DEF ClipIds
-----------------------------------------------------------------------------
\* One field of a clip changes, of either kind.
LEMMA FieldShape ==
  ASSUME Inv, TracksShaped, NEW id \in ClipIds, NEW clip,
         ChangeTrack(id.track, WithClip(id, clip)),
         DOMAIN clip = DOMAIN findClip(id), clip.length \in Int, clip.notes \in NoteSeqs,
         \A field \in {"slot", "id", "index", "start", "end"} : clip[field] = findClip(id)[field]
  PROVE  TracksShaped'
<1> DEFINE old == findClip(id)
<1>1. \/ id.place = "session" /\ SessionShape(old)
      \/ id.place = "arrangement" /\ PlacedShape(old)
  BY FoundShaped
<1> HIDE DEF old
<1>2. /\ DOMAIN clip = DOMAIN old /\ clip.slot = old.slot /\ clip.id = old.id
      /\ clip.index = old.index /\ clip.start = old.start /\ clip.end = old.end
  BY DEF old
<1>3. id.place = "session" => SessionShape(clip) /\ clip.slot = old.slot
  BY <1>1, <1>2 DEF SessionShape
<1>4. id.place = "arrangement" => PlacedShape(clip)
  BY <1>1, <1>2 DEF PlacedShape
<1> QED
  BY <1>3, <1>4, EditShape DEF old

\* ... with the parts of it that an edit sets.
LEMMA EditedFields ==
  ASSUME Inv, TracksShaped, NEW id \in ClipIds, NEW new
  PROVE  /\ ChangeTrack(id.track, WithClip(id, [findClip(id) EXCEPT !.name = new])) => TracksShaped'
         /\ ChangeTrack(id.track, WithClip(id, [findClip(id) EXCEPT !.steps = new])) => TracksShaped'
         /\ new \in Int =>
              (ChangeTrack(id.track, WithClip(id, [findClip(id) EXCEPT !.length = new])) => TracksShaped')
         /\ new \in NoteSeqs =>
              (ChangeTrack(id.track, WithClip(id, [findClip(id) EXCEPT !.notes = new])) => TracksShaped')
<1> DEFINE old == findClip(id)
           Fields == {"slot", "id", "index", "start", "end"}
<1>1. /\ DOMAIN old = ClipFields \/ DOMAIN old = PlacedFields
      /\ old.length \in Int /\ old.notes \in NoteSeqs
  BY FoundShaped DEF SessionShape, PlacedShape
<1>2. {"name", "steps", "length", "notes"} \subseteq DOMAIN old
  BY <1>1 DEF ClipFields, PlacedFields
<1> HIDE DEF old
<1>3. /\ DOMAIN [old EXCEPT !.name = new] = DOMAIN old
      /\ [old EXCEPT !.name = new].length = old.length /\ [old EXCEPT !.name = new].notes = old.notes
      /\ \A field \in Fields : [old EXCEPT !.name = new][field] = old[field]
  BY <1>1 DEF ClipFields, PlacedFields
<1>4. /\ DOMAIN [old EXCEPT !.steps = new] = DOMAIN old
      /\ [old EXCEPT !.steps = new].length = old.length /\ [old EXCEPT !.steps = new].notes = old.notes
      /\ \A field \in Fields : [old EXCEPT !.steps = new][field] = old[field]
  BY <1>1 DEF ClipFields, PlacedFields
<1>5. /\ DOMAIN [old EXCEPT !.length = new] = DOMAIN old
      /\ [old EXCEPT !.length = new].length = new /\ [old EXCEPT !.length = new].notes = old.notes
      /\ \A field \in Fields : [old EXCEPT !.length = new][field] = old[field]
  BY <1>1 DEF ClipFields, PlacedFields
<1>6. /\ DOMAIN [old EXCEPT !.notes = new] = DOMAIN old
      /\ [old EXCEPT !.notes = new].length = old.length /\ [old EXCEPT !.notes = new].notes = new
      /\ \A field \in Fields : [old EXCEPT !.notes = new][field] = old[field]
  BY <1>1 DEF ClipFields, PlacedFields
<1>7. ASSUME ChangeTrack(id.track, WithClip(id, [old EXCEPT !.name = new])) PROVE TracksShaped'
  BY <1>1, <1>3, <1>7, FieldShape DEF old
<1>8. ASSUME ChangeTrack(id.track, WithClip(id, [old EXCEPT !.steps = new])) PROVE TracksShaped'
  BY <1>1, <1>4, <1>8, FieldShape DEF old
<1>9. ASSUME new \in Int, ChangeTrack(id.track, WithClip(id, [old EXCEPT !.length = new]))
      PROVE  TracksShaped'
  BY <1>1, <1>5, <1>9, FieldShape DEF old
<1>10. ASSUME new \in NoteSeqs, ChangeTrack(id.track, WithClip(id, [old EXCEPT !.notes = new]))
       PROVE  TracksShaped'
  BY <1>1, <1>6, <1>10, FieldShape DEF old
<1> QED
  BY <1>7, <1>8, <1>9, <1>10 DEF old

LEMMA DeletedShape ==
  ASSUME Inv, TracksShaped, NEW id \in ClipIds, deleteClip(id)
  PROVE  TracksShaped'
<1> DEFINE track == tracks[id.track]
<1>1. id.track \in DOMAIN tracks /\ Shaped(track)
  BY FoundShaped
<1>2. CASE id.place = "session"
  <2>1. ChangeTrack(id.track, WithoutSlot(track, id.n))
    BY <1>2 DEF deleteClip
  <2> QED
    BY <1>1, <2>1, WithoutShaped, ChangeShape
<1>3. CASE id.place # "session"
  <2> DEFINE others == {c \in Range(track.arrangement) : c.id # id.n}
  <2>1. ChangeTrack(id.track, [track EXCEPT !.arrangement = Filter(track.arrangement, others)])
    BY <1>1, <1>3 DEF deleteClip, Shaped, TrackFields
  <2>2. ListShaped(Filter(track.arrangement, others))
    BY <1>1, FilteredShaped DEF Shaped
  <2> QED
    BY <1>1, <2>1, <2>2, ListChange
<1> QED
  BY <1>2, <1>3

LEMMA FiredShape ==
  ASSUME Inv, TracksShaped, NEW id \in ClipIds, fireClip(id)
  PROVE  TracksShaped'
<1>1. id.track \in DOMAIN tracks /\ Shaped(tracks[id.track])
  BY FoundShaped
<1>2. CASE id.place = "arrangement"
  <2>1. tracks' = tracks
    BY <1>2 DEF fireClip
  <2> QED
    BY <2>1, SameKeysShape DEF TracksShaped
<1>3. CASE id.place # "arrangement"
  <2>1. ChangeTrack(id.track, Playing(tracks[id.track], id.n))
    BY <1>3 DEF fireClip, ChangeTrack
  <2> QED
    BY <1>1, <2>1, PlayingShaped, ChangeShape
<1> QED
  BY <1>2, <1>3

LEMMA InArrangementShape ==
  ASSUME Inv, TracksShaped, NEW id \in ClipIds, NEW t \in Visible, NEW start \in Beats,
         duplicateClipToArrangement(id, t, start)
  PROVE  TracksShaped'
<1> DEFINE clip == findClip(id)
<1>1. clip.length \in Int /\ clip.notes \in NoteSeqs
  BY FoundShaped
<1>2. t \in DOMAIN tracks /\ start \in Int
  BY InputTypes DEF Visible
<1>3. start + clip.length \in Int
  BY <1>1, <1>2
<1>4. AppendClip(t, start, start + clip.length, clip)
  BY DEF duplicateClipToArrangement
<1> HIDE DEF clip
<1> QED
  BY <1>1, <1>2, <1>3, <1>4, AppendShape

LEMMA NotesShape ==
  ASSUME Inv, TracksShaped, NEW id \in ClipIds, NEW notes \in NoteLists,
         insertNotes(id, notes) \/ replaceNotes(id, notes)
  PROVE  TracksShaped'
<1>1. notes \in NoteSeqs /\ findClip(id).notes \in NoteSeqs
  BY InputTypes, FoundShaped
<1>2. findClip(id).notes \o notes \in NoteSeqs
  BY <1>1, ConcatFacts DEF NoteSeqs
<1>3. PICK new \in NoteSeqs : ChangeTrack(id.track, WithClip(id, [findClip(id) EXCEPT !.notes = new]))
  BY <1>1, <1>2 DEF insertNotes, replaceNotes, EditClip
<1> QED
  BY <1>3, EditedFields

LEMMA OnClipShape ==
  ASSUME Inv, TracksShaped, NEW id \in ClipIds,
         \/ deleteClip(id) \/ selectClip(id) \/ fireClip(id) \/ clearAllClipEnvelopes(id)
         \/ \E name \in Names : renameClip(id, name)
         \/ \E length \in Lengths : setClipLoopOrLength(id, length)
         \/ \E notes \in NoteLists : insertNotes(id, notes) \/ replaceNotes(id, notes)
         \/ \E t \in Visible, start \in Beats : duplicateClipToArrangement(id, t, start)
         \/ \E shown \in BOOLEAN :
              \/ showClipEnvelope(id, shown)
              \/ \E p \in EnvelopeTargets :
                   selectClipEnvelopeParameter(id, p, shown) \/ setClipEnvelope(id, p, shown)
         \/ \E p \in EnvelopeTargets : clearClipEnvelope(id, p)
  PROVE  TracksShaped'
<1>1. CASE \/ selectClip(id)
           \/ \E shown \in BOOLEAN :
                \/ showClipEnvelope(id, shown)
                \/ \E p \in EnvelopeTargets : selectClipEnvelopeParameter(id, p, shown)
  <2>1. tracks' = tracks
    BY <1>1 DEF selectClip, showClipEnvelope, selectClipEnvelopeParameter
  <2> QED
    BY <2>1, SameKeysShape DEF TracksShaped
<1>2. ASSUME NEW name, renameClip(id, name) PROVE TracksShaped'
  BY <1>2, EditedFields DEF renameClip, EditClip
<1>3. ASSUME NEW length \in Lengths, setClipLoopOrLength(id, length) PROVE TracksShaped'
  BY <1>3, EditedFields, InputTypes DEF setClipLoopOrLength, EditClip
<1>4. CASE \/ clearAllClipEnvelopes(id)
           \/ \E p \in EnvelopeTargets :
                clearClipEnvelope(id, p) \/ \E shown \in BOOLEAN : setClipEnvelope(id, p, shown)
  <2>1. \E steps : ChangeTrack(id.track, WithClip(id, [findClip(id) EXCEPT !.steps = steps]))
    BY <1>4 DEF clearAllClipEnvelopes, clearClipEnvelope, setClipEnvelope, ChangeSteps
  <2> QED
    BY <2>1, EditedFields
<1> QED
  BY <1>1, <1>2, <1>3, <1>4, DeletedShape, FiredShape, NotesShape, InArrangementShape
-----------------------------------------------------------------------------
(* The song, the scenes and the count of operations. *)
LEMMA StepOfRest ==
  ASSUME Next
  PROVE  /\ \E name : Asked(name)
         /\ scenes' = scenes \/ scenes' = scenes + 1
         /\ \/ song' = song
            \/ \E tempo \in Tempos : song' = [song EXCEPT !.tempo = tempo]
            \/ \E time \in Beats : song' = [song EXCEPT !.time = time]
            \/ \E playing \in BOOLEAN : song' = [song EXCEPT !.playing = playing]
<1> USE DEF Next, OnSong, OnTrack, OnSessionClip, OnArrangementClip, OnClip,
    setTempo, setArrangementTransport, transport, createTrack, createReturnTrack, createScene,
    fireScene, stopAllClips, setTrackLevel, setSendLevel, setParameter, setMonitorState,
    setTrackRouting, loadBrowserItem, UpdateTrack, stopTrackClips, createClip,
    createArrangementClip, duplicateClip, moveSessionClip, moveArrangementClip,
    splitArrangementClip, setArrangementClipBounds, deleteClip, selectClip, fireClip,
    clearAllClipEnvelopes, renameClip, setClipLoopOrLength, insertNotes, replaceNotes, EditClip,
    duplicateClipToArrangement, showClipEnvelope, selectClipEnvelopeParameter, setClipEnvelope,
    clearClipEnvelope
<1>1. \E name : Asked(name)
  OBVIOUS
<1>2. scenes' = scenes \/ scenes' = scenes + 1
  BY DEF ChangeSteps
<1>3. \/ song' = song
      \/ \E tempo \in Tempos : song' = [song EXCEPT !.tempo = tempo]
      \/ \E time \in Beats : song' = [song EXCEPT !.time = time]
      \/ \E playing \in BOOLEAN : song' = [song EXCEPT !.playing = playing]
  BY DEF ChangeSteps
<1> QED
  BY ONLY <1>1, <1>2, <1>3

LEMMA RestStep ==
  ASSUME RestShaped, [Next]_vars
  PROVE  RestShaped'
<1>1. CASE UNCHANGED vars
  BY <1>1 DEF vars, RestShaped
<1>2. CASE Next
  <2>1. calls' \in 0..MaxCalls
    BY <1>2, StepOfRest, InputAssumption DEF Asked, RestShaped
  <2> QED
    BY <1>2, <2>1, StepOfRest DEF RestShaped
<1> QED
  BY <1>1, <1>2
-----------------------------------------------------------------------------
LEMMA FixtureClipShaped ==
  ASSUME NEW n \in Int
  PROVE  PlacedShape(FixtureClip(n)) /\ FixtureClip(n).id = 1
<1>1. NoNotes \in NoteSeqs
  <2> DEFINE S == [at : Int, length : Int]
             note == [at |-> None, length |-> None]
  <2>1. note \in S
    BY DEF None
  <2> HIDE DEF S, note
  <2>2. <<note>> \in Seq(S)
    BY <2>1
  <2> QED
    BY <2>2 DEF note, S, NoteSeqs, NoNotes
<1>2. n - 1 \in Int /\ n + 1 \in Int
  OBVIOUS
<1> DEFINE clip == SessionClip(None, "a", 2, NoNotes, {})
<1>3. clip.length \in Int /\ clip.notes \in NoteSeqs
  BY <1>1 DEF SessionClip
<1> HIDE DEF clip
<1>4. PlacedShape(ArrangementClip(1, n - 1, n + 1, clip)) /\ ArrangementClip(1, n - 1, n + 1, clip).id = 1
  BY <1>2, <1>3, NewClipShaped DEF ArrangementClip
<1> QED
  BY <1>4 DEF FixtureClip, clip

LEMMA InitShape == Init => Shape
<1> SUFFICES ASSUME Init PROVE Shape
  OBVIOUS
<1>1. RestShaped
  BY InputAssumption DEF Init, RestShaped
<1>2. DOMAIN tracks = {<<"visible", 1>>, <<"visible", 2>>, <<"return", 1>>}
  BY DEF Init
<1>3. Visible = {<<"visible", 1>>, <<"visible", 2>>} /\ Returns = {<<"return", 1>>}
  <2>1. /\ <<"visible", 1>>[1] = "visible" /\ <<"visible", 2>>[1] = "visible"
        /\ <<"return", 1>>[1] = "return"
    OBVIOUS
  <2> QED
    BY <1>2, <2>1 DEF Visible, Returns
<1>4. Visible = Keyed("visible", 2) /\ Returns = Keyed("return", 1)
  <2>1. 1..2 = {1, 2} /\ 1..1 = {1}
    OBVIOUS
  <2>2. Keyed("visible", 2) = {<<"visible", 1>>, <<"visible", 2>>}
    BY <2>1 DEF Keyed
  <2>3. Keyed("return", 1) = {<<"return", 1>>}
    BY <2>1 DEF Keyed
  <2> QED
    BY <1>3, <2>2, <2>3
<1>5. /\ Cardinality(Visible) = 2 /\ Cardinality(Returns) = 1
      /\ IsFiniteSet(Visible) /\ IsFiniteSet(Returns)
  BY <1>4, KeyedFacts
<1>6. Keys
  <2>1. DOMAIN tracks = Visible \cup Returns
    BY <1>2, <1>3
  <2> QED
    BY <1>4, <1>5, <2>1 DEF Keys
<1>7. <<>> \in Seq(0..Top) /\ <<0>> \in Seq(0..Top) /\ <<1>> \in Seq(0..Top) /\ Len(<<0>>) = 1
  BY InputTypes
<1>8. ASSUME NEW t \in Returns
      PROVE  tracks[t] = [EmptyTrack(<<>>, None) EXCEPT !.devices = <<>>]
  BY <1>2, <1>8 DEF Init, Returns
<1>9. ASSUME NEW t \in Visible
      PROVE  tracks[t] = [EmptyTrack(<<0>>, None) EXCEPT
               !.devices = <<1>>,
               !.arrangement = <<FixtureClip(t[2])>>,
               !.clips = IF t[2] = 1 THEN {SessionClip(0, "a", 1, <<[at |-> 0, length |-> 1]>>, {})} ELSE {}]
  <2>1. t \in DOMAIN tracks /\ t[1] # "return"
    BY <1>9 DEF Visible
  <2> QED
    BY <2>1, <1>2 DEF Init
<1>10. ASSUME NEW t \in Returns PROVE Shaped(tracks[t])
  <2> DEFINE empty == EmptyTrack(<<>>, None)
  <2>1. Shaped(empty)
    BY <1>7, EmptyShaped
  <2>2. tracks[t] = [empty EXCEPT !.devices = <<>>]
    BY <1>8
  <2> HIDE DEF empty
  <2>3. /\ DOMAIN tracks[t] = TrackFields /\ tracks[t].clips = empty.clips
        /\ tracks[t].arrangement = empty.arrangement /\ tracks[t].level = empty.level
        /\ tracks[t].sends = empty.sends /\ tracks[t].devices = <<>>
    BY <2>1, <2>2 DEF Shaped, TrackFields
  <2> QED
    BY <1>7, <2>1, <2>3 DEF Shaped, MixerShaped
<1>11. ASSUME NEW t \in Visible PROVE Shaped(tracks[t]) /\ Len(tracks[t].sends) = 1
  <2> DEFINE empty == EmptyTrack(<<0>>, None)
             placed == FixtureClip(t[2])
             beat == SessionClip(0, "a", 1, <<[at |-> 0, length |-> 1]>>, {})
             clips == IF t[2] = 1 THEN {beat} ELSE {}
  <2>1. Shaped(empty) /\ empty.sends = <<0>> /\ empty.clips = {}
    BY <1>7, EmptyShaped
  <2>2. tracks[t] = [empty EXCEPT !.devices = <<1>>, !.arrangement = <<placed>>, !.clips = clips]
    BY <1>9
  <2>3. t[2] \in Int
    BY <1>3
  <2>4. PlacedShape(placed)
    BY <2>3, FixtureClipShaped
  <2>5. ClipsShaped({})
    BY FS_EmptySet DEF ClipsShaped, OnePerSlot
  <2>6. ClipsShaped({beat})
    <3> DEFINE notes == <<[at |-> 0, length |-> 1]>>
    <3>1. notes \in NoteSeqs
      <4> DEFINE S == [at : Int, length : Int]
                 note == [at |-> 0, length |-> 1]
      <4>1. note \in S
        OBVIOUS
      <4> HIDE DEF S, note
      <4>2. <<note>> \in Seq(S)
        BY <4>1
      <4> QED
        BY <4>2 DEF note, S, NoteSeqs
    <3> HIDE DEF notes
    <3>2. ClipsShaped({} \cup {SessionClip(0, "a", 1, notes, {})})
      BY <2>5, <3>1, AddedShaped
    <3>3. {} \cup {SessionClip(0, "a", 1, notes, {})} = {SessionClip(0, "a", 1, notes, {})}
      OBVIOUS
    <3> QED
      BY <3>2, <3>3 DEF notes
  <2>7. ListShaped(<<placed>>)
    <3> HIDE DEF placed
    <3>1. ListShaped(<<>>)
      BY DEF ListShaped, Listed, Range
    <3>2. ListShaped(Append(<<>>, placed))
      BY <2>4, <3>1, AppendedShaped
    <3> QED
      BY <3>2
  <2> HIDE DEF empty, placed, beat
  <2>8. ClipsShaped(clips)
    BY <2>5, <2>6
  <2> HIDE DEF clips
  <2>9. /\ DOMAIN tracks[t] = TrackFields /\ tracks[t].clips = clips
        /\ tracks[t].arrangement = <<placed>> /\ tracks[t].level = empty.level
        /\ tracks[t].sends = <<0>> /\ tracks[t].devices = <<1>>
    BY <2>1, <2>2 DEF Shaped, TrackFields
  <2> QED
    BY <1>7, <2>1, <2>7, <2>8, <2>9 DEF Shaped, MixerShaped
<1>12. Sends
  BY <1>5, <1>11 DEF Sends
<1>13. \A t \in DOMAIN tracks : t \in Visible \/ t \in Returns
  BY <1>2, <1>3
<1> QED
  BY <1>1, <1>5, <1>6, <1>10, <1>11, <1>12, <1>13 DEF Shape, TracksShaped, Finite
-----------------------------------------------------------------------------
LEMMA ShapeStep == Inv /\ Shape /\ [Next]_vars => Shape'
<1> SUFFICES ASSUME Inv, Shape, [Next]_vars PROVE TracksShaped'
  BY RestStep DEF Shape
<1>1. CASE OnSong
  BY <1>1, OnSongShape DEF Shape
<1>2. CASE OnTrack
  BY <1>2, OnTrackShape DEF OnTrack, Shape
<1>3. CASE OnSessionClip
  BY <1>3, OnSessionClipShape DEF OnSessionClip, Shape
<1>4. CASE OnArrangementClip
  <2>1. PICK id \in ArrangementIds, at \in Beats :
          \/ moveArrangementClip(id, at)
          \/ splitArrangementClip(id, at)
          \/ \E end \in Beats : setArrangementClipBounds(id, at, end)
    BY <1>4 DEF OnArrangementClip
  <2>2. 0 \in Beats
    BY InputAssumption
  <2> QED
    BY <2>1, <2>2, OnArrangementClipShape DEF Shape
<1>5. CASE OnClip
  BY <1>5, OnClipShape DEF OnClip, Shape
<1>6. CASE UNCHANGED vars
  <2>1. tracks' = tracks
    BY <1>6 DEF vars
  <2> QED
    BY <2>1, SameKeysShape DEF Shape, TracksShaped
<1> QED
  BY <1>1, <1>2, <1>3, <1>4, <1>5, <1>6 DEF Next

LEMMA ShapeTypes == Shape => TypeOK
<1> SUFFICES ASSUME Shape PROVE TypeOK
  OBVIOUS
<1> SUFFICES ASSUME NEW t \in DOMAIN tracks
             PROVE  /\ tracks[t].level \in {None} \cup 0..Top
                    /\ Range(tracks[t].sends) \cup Range(tracks[t].devices) \subseteq 0..Top
                    /\ t \in Visible => Len(tracks[t].sends) = Cardinality(Returns)
                    /\ \A c, d \in tracks[t].clips : c.slot = d.slot => c = d
                    /\ \A c \in Range(tracks[t].arrangement) : c.index = c.id /\ c.id \in Nat \ {0}
  BY DEF Shape, RestShaped, TypeOK
<1>1. Shaped(tracks[t])
  BY DEF Shape, TracksShaped
<1>2. Range(tracks[t].sends) \cup Range(tracks[t].devices) \subseteq 0..Top
  BY <1>1, ListedFacts DEF Shaped, MixerShaped
<1>3. t \in Visible => Len(tracks[t].sends) = Cardinality(Returns)
  BY DEF Shape, TracksShaped, Sends
<1> QED
  BY <1>1, <1>2, <1>3 DEF Shaped, MixerShaped, ClipsShaped, OnePerSlot, ListShaped, PlacedShape

(* Song, scenes, tracks, clips and selection keep the shape the runtime gives
   them: a slot holds one clip at most, a clip of the arrangement is indexed by its id. *)
THEOREM AlwaysShaped == Spec => [](Inv /\ Shape)
<1>1. Init => Inv /\ Shape
  BY InitSound, InitShape
<1>2. (Inv /\ Shape) /\ [Next]_vars => (Inv /\ Shape)'
  BY SoundStep, ShapeStep
<1> QED
  BY <1>1, <1>2, PTL DEF Spec

(* No operation stores a value of another type, or a clip in a slot there is not. *)
THEOREM TypesHold == Spec => []TypeOK
BY AlwaysShaped, ShapeTypes, PTL
-----------------------------------------------------------------------------
\* What may become of the arrangement of a track: a clip more, one replaced at its
\* place or wherever its id is, or two halves for a clip; deletions apart.
Longer(list, new) ==
  \E clip : clip.id = Len(list) + 1 /\ new = Append(list, clip)
Replaced(list, new) ==
  \E i \in DOMAIN list : \E clip : clip.id = list[i].id /\ new = [list EXCEPT ![i] = clip]
EveryReplaced(list, new) ==
  \E clip : new = [i \in DOMAIN list |-> IF list[i].id = clip.id THEN clip ELSE list[i]]
Split(list, new) ==
  \E clip, at : /\ new = Renumbered(Halved(list, clip, at))
                /\ ListShaped(Halved(list, clip, at))

Edited(list, new) ==
  \/ new = list
  \/ Longer(list, new) \/ Replaced(list, new) \/ EveryReplaced(list, new) \/ Split(list, new)

LEMMA EditKeepsNumbers ==
  ASSUME NEW list, ListShaped(list), NEW new, Edited(list, new),
         \A i \in DOMAIN list : list[i].id = i
  PROVE  \A i \in DOMAIN new : new[i].id = i
<1>1. CASE Longer(list, new)
  <2>1. PICK clip : clip.id = Len(list) + 1 /\ new = Append(list, clip)
    BY <1>1 DEF Longer
  <2>2. list \in Seq(Range(list) \cup {clip})
    BY DEF ListShaped, Listed
  <2> QED
    BY <2>1, <2>2
<1>2. CASE Replaced(list, new)
  BY <1>2 DEF Replaced
<1>3. CASE EveryReplaced(list, new)
  <2>1. PICK clip : new = [i \in DOMAIN list |-> IF list[i].id = clip.id THEN clip ELSE list[i]]
    BY <1>3 DEF EveryReplaced
  <2>2. \A i \in DOMAIN new : new[i] = list[i] \/ (new[i] = clip /\ list[i].id = clip.id)
    BY <2>1
  <2>3. DOMAIN new = DOMAIN list
    BY <2>1
  <2>4. ASSUME NEW i \in DOMAIN list PROVE new[i].id = i
    <3>1. list[i].id = i
      OBVIOUS
    <3>2. CASE new[i] = list[i]
      BY <3>1, <3>2
    <3>3. CASE new[i] = clip /\ list[i].id = clip.id
      BY <3>1, <3>3
    <3> QED
      BY <2>2, <2>3, <3>2, <3>3
  <2> QED
    BY <2>3, <2>4, Zenon
<1>4. CASE Split(list, new)
  <2>1. PICK clip, at : /\ new = Renumbered(Halved(list, clip, at))
                        /\ ListShaped(Halved(list, clip, at))
    BY <1>4 DEF Split
  <2> DEFINE halved == Halved(list, clip, at)
  <2> HIDE DEF halved
  <2>2. new = Renumbered(halved) /\ ListShaped(halved)
    BY <2>1 DEF halved
  <2>3. DOMAIN new = DOMAIN halved /\ \A i \in DOMAIN halved : new[i].id = i
    BY <2>2, RenumberedShaped
  <2> QED
    BY <2>3, Zenon
<1>5. CASE new = list
  BY <1>5
<1> QED
  BY <1>1, <1>2, <1>3, <1>4, <1>5, Zenon DEF Edited

\* The arrangements of the tracks that are there, after an operation.
ListsEdited == \A t \in DOMAIN tracks : Edited(tracks[t].arrangement, tracks'[t].arrangement)

LEMMA SameLists ==
  ASSUME \A t \in DOMAIN tracks : tracks'[t].arrangement = tracks[t].arrangement
  PROVE  ListsEdited
BY DEF ListsEdited, Edited

LEMMA OneList ==
  ASSUME NEW t, NEW track, ChangeTrack(t, track), Edited(tracks[t].arrangement, track.arrangement)
  PROVE  ListsEdited
<1>1. \A u \in DOMAIN tracks : tracks'[u] = IF u = t THEN track ELSE tracks[u]
  BY DEF ChangeTrack
<1>2. ASSUME NEW u \in DOMAIN tracks, u # t
      PROVE  tracks'[u].arrangement = tracks[u].arrangement
  BY <1>1, <1>2
<1> QED
  BY <1>1, <1>2 DEF ListsEdited, Edited

LEMMA OneSameList ==
  ASSUME NEW t, NEW track, ChangeTrack(t, track), tracks[t].arrangement = track.arrangement
  PROVE  ListsEdited
BY OneList DEF Edited

LEMMA PlayingElsewhere ==
  ASSUME NEW track, DOMAIN track = TrackFields, NEW slot
  PROVE  /\ Playing(track, slot).arrangement = track.arrangement
         /\ WithoutSlot(track, slot).arrangement = track.arrangement
BY DEF TrackFields, Playing, WithoutSlot

LEMMA OnSongLists ==
  ASSUME TracksShaped, OnSong
  PROVE  ListsEdited
<1>1. \A t \in DOMAIN tracks : DOMAIN tracks[t] = TrackFields
  BY DEF TracksShaped, Shaped
<1>2. CASE \/ \E tempo \in Tempos : setTempo(tempo)
           \/ \E time \in Beats : setArrangementTransport(time)
           \/ \E playing \in BOOLEAN : transport(playing)
           \/ createScene
  BY <1>2, SameLists DEF setTempo, setArrangementTransport, transport, createScene
<1>3. CASE \E scene \in 1..scenes : fireScene(scene)
  <2>1. ASSUME NEW t \in DOMAIN tracks
        PROVE  tracks'[t] = tracks[t] \/ \E slot : tracks'[t] = Playing(tracks[t], slot)
    BY <1>3 DEF fireScene
  <2> QED
    BY <1>1, <2>1, PlayingElsewhere, SameLists
<1>4. CASE stopAllClips
  <2>1. ASSUME NEW t \in DOMAIN tracks
        PROVE  tracks'[t] = tracks[t] \/ \E slot : tracks'[t] = Playing(tracks[t], slot)
    BY <1>4 DEF stopAllClips
  <2> QED
    BY <1>1, <2>1, PlayingElsewhere, SameLists
<1>5. CASE createTrack
  <2> DEFINE n == Cardinality(Visible) + 1
             new == <<"visible", n>>
  <2>1. new \notin DOMAIN tracks
    <3>1. /\ Visible = Keyed("visible", Cardinality(Visible)) /\ Cardinality(Visible) \in Nat
          /\ <<"visible", n>>[1] = "visible"
      BY SectionsFacts
    <3> QED
      BY <3>1, KeyedFacts DEF Visible
  <2>2. \E track : tracks' = Put(tracks, new, track)
    BY <1>5 DEF createTrack
  <2> HIDE DEF new
  <2>3. \A t \in DOMAIN tracks : tracks'[t] = tracks[t]
    BY <2>1, <2>2 DEF Put
  <2> QED
    BY <2>3, SameLists
<1>6. CASE createReturnTrack
  <2> DEFINE n == Cardinality(Returns) + 1
             new == <<"return", n>>
             WithSend == [u \in DOMAIN tracks |->
                 IF u \in Visible THEN [tracks[u] EXCEPT !.sends = Append(@, 0)] ELSE tracks[u]]
  <2>1. new \notin DOMAIN tracks
    <3>1. /\ Returns = Keyed("return", Cardinality(Returns)) /\ Cardinality(Returns) \in Nat
          /\ <<"return", n>>[1] = "return"
      BY SectionsFacts
    <3> QED
      BY <3>1, KeyedFacts DEF Returns
  <2>2. \E track : tracks' = Put(WithSend, new, track)
    BY <1>6 DEF createReturnTrack
  <2>3. \A t \in DOMAIN tracks : WithSend[t].arrangement = tracks[t].arrangement
    BY <1>1 DEF TrackFields
  <2>4. DOMAIN WithSend = DOMAIN tracks
    OBVIOUS
  <2> HIDE DEF new, WithSend
  <2>5. \A t \in DOMAIN tracks : tracks'[t] = WithSend[t]
    BY <2>1, <2>2, <2>4 DEF Put
  <2> QED
    BY <2>3, <2>5, SameLists
<1> QED
  BY <1>2, <1>3, <1>4, <1>5, <1>6 DEF OnSong

LEMMA AppendLists ==
  ASSUME TracksShaped, NEW t \in DOMAIN tracks, NEW start, NEW end, NEW clip,
         AppendClip(t, start, end, clip)
  PROVE  ListsEdited
<1> DEFINE list == tracks[t].arrangement
           new == ArrangementClip(Len(list) + 1, start, end, clip)
           track == [tracks[t] EXCEPT !.arrangement = Append(list, new)]
<1>1. DOMAIN tracks[t] = TrackFields
  BY DEF TracksShaped, Shaped
<1>2. track.arrangement = Append(list, new)
  BY <1>1 DEF TrackFields
<1>3. new.id = Len(list) + 1
  BY DEF ArrangementClip
<1>4. ChangeTrack(t, track)
  BY DEF AppendClip
<1> HIDE DEF track, new
<1>5. Longer(list, track.arrangement)
  BY <1>2, <1>3 DEF Longer
<1> QED
  BY <1>4, <1>5, OneList DEF Edited

LEMMA OnTrackLists ==
  ASSUME TracksShaped, OnTrack
  PROVE  ListsEdited
<1>1. PICK t \in DOMAIN tracks :
         \/ \E value \in Values :
              \/ setTrackLevel(t, value)
              \/ \E i \in DOMAIN tracks[t].sends : setSendLevel(t, i, value)
              \/ \E i \in DOMAIN tracks[t].devices : setParameter(t, i, value)
         \/ \E state \in {2} : setMonitorState(t, state)
         \/ \E requested \in {"sends only", "other"} : setTrackRouting(t, requested)
         \/ loadBrowserItem(t)
         \/ stopTrackClips(t)
         \/ \E slot \in Slots : createClip(t, slot)
         \/ \E start \in Beats, length \in Lengths : createArrangementClip(t, start, length)
  BY DEF OnTrack
<1> DEFINE track == tracks[t]
<1>2. DOMAIN track = TrackFields
  BY DEF TracksShaped, Shaped
<1>3. \A new : /\ [track EXCEPT !.level = new].arrangement = track.arrangement
               /\ [track EXCEPT !.sends = new].arrangement = track.arrangement
               /\ [track EXCEPT !.devices = new].arrangement = track.arrangement
               /\ [track EXCEPT !.monitor = new].arrangement = track.arrangement
               /\ [track EXCEPT !.routing = new].arrangement = track.arrangement
               /\ [track EXCEPT !.clips = new].arrangement = track.arrangement
  BY <1>2 DEF TrackFields
<1>4. ASSUME NEW value, setTrackLevel(t, value) PROVE ListsEdited
  BY <1>3, <1>4, OneSameList DEF setTrackLevel, UpdateTrack
<1>5. ASSUME NEW value, NEW i, setSendLevel(t, i, value) PROVE ListsEdited
  BY <1>3, <1>5, OneSameList DEF setSendLevel, UpdateTrack
<1>6. ASSUME NEW value, NEW i, setParameter(t, i, value) PROVE ListsEdited
  BY <1>3, <1>6, OneSameList DEF setParameter
<1>7. ASSUME NEW state, setMonitorState(t, state) PROVE ListsEdited
  BY <1>3, <1>7, OneSameList DEF setMonitorState, UpdateTrack
<1>8. ASSUME NEW requested, setTrackRouting(t, requested) PROVE ListsEdited
  BY <1>3, <1>8, OneSameList DEF setTrackRouting, UpdateTrack
<1>9. CASE loadBrowserItem(t)
  BY <1>3, <1>9, OneSameList DEF loadBrowserItem, UpdateTrack
<1>10. CASE stopTrackClips(t)
  BY <1>2, <1>10, PlayingElsewhere, OneSameList DEF stopTrackClips
<1>11. ASSUME NEW slot, createClip(t, slot) PROVE ListsEdited
  BY <1>3, <1>11, OneSameList DEF createClip
<1>12. ASSUME NEW start, NEW length, createArrangementClip(t, start, length) PROVE ListsEdited
  BY <1>12, AppendLists DEF createArrangementClip
<1> QED
  BY <1>1, <1>4, <1>5, <1>6, <1>7, <1>8, <1>9, <1>10, <1>11, <1>12

\* A session clip that is copied or moved leaves every arrangement as it is.
LEMMA MovedElsewhere ==
  ASSUME Inv, TracksShaped, NEW id \in SessionIds, NEW t \in DOMAIN tracks, NEW slot,
         duplicateClip(id, t, slot) \/ moveSessionClip(id, t, slot)
  PROVE  \A u \in DOMAIN tracks : tracks'[u].arrangement = tracks[u].arrangement
<1> DEFINE with == [tracks[t] EXCEPT !.clips = @ \cup {Copy(findClip(id), slot)}]
<1>1. \A u \in DOMAIN tracks : DOMAIN tracks[u] = TrackFields
  BY DEF TracksShaped, Shaped
<1>2. DOMAIN with = TrackFields /\ with.arrangement = tracks[t].arrangement
  BY <1>1 DEF TrackFields
<1>3. CASE duplicateClip(id, t, slot)
  <2>1. ChangeTrack(t, with)
    BY <1>3 DEF duplicateClip
  <2> QED
    BY <1>2, <2>1 DEF ChangeTrack
<1>4. CASE moveSessionClip(id, t, slot)
  <2> DEFINE copied == [tracks EXCEPT ![t].clips = @ \cup {Copy(findClip(id), slot)}]
  <2>1. tracks' = [copied EXCEPT ![id.track] = WithoutSlot(@, id.n)]
    BY <1>4 DEF moveSessionClip
  <2>2. copied = [tracks EXCEPT ![t] = with]
    OBVIOUS
  <2> HIDE DEF with
  <2>3. ASSUME NEW u \in DOMAIN tracks
        PROVE  DOMAIN copied[u] = TrackFields /\ copied[u].arrangement = tracks[u].arrangement
    BY <1>1, <1>2, <2>2
  <2>4. DOMAIN copied = DOMAIN tracks
    BY <2>2
  <2> HIDE DEF copied
  <2>5. ASSUME NEW u \in DOMAIN tracks
        PROVE  tracks'[u] = copied[u] \/ tracks'[u] = WithoutSlot(copied[u], id.n)
    BY <2>1, <2>4
  <2> QED
    BY <2>3, <2>5, PlayingElsewhere
<1> QED
  BY <1>3, <1>4
-----------------------------------------------------------------------------
LEMMA EveryLists ==
  ASSUME TracksShaped, NEW id, id.track \in DOMAIN tracks, NEW clip, clip.id = id.n,
         ChangeTrack(id.track, WithEvery(id, clip))
  PROVE  ListsEdited
<1> DEFINE list == tracks[id.track].arrangement
           new == [i \in DOMAIN list |-> IF list[i].id = id.n THEN clip ELSE list[i]]
           track == WithEvery(id, clip)
<1>1. DOMAIN tracks[id.track] = TrackFields
  BY DEF TracksShaped, Shaped
<1>2. track.arrangement = new
  BY <1>1 DEF WithEvery, TrackFields
<1> HIDE DEF track
<1>3. EveryReplaced(list, new)
  BY DEF EveryReplaced
<1> QED
  BY <1>2, <1>3, OneList DEF Edited, track

LEMMA OnArrangementClipLists ==
  ASSUME Inv, TracksShaped, NEW id \in ArrangementIds, NEW at \in Beats, NEW end,
         \/ moveArrangementClip(id, at)
         \/ splitArrangementClip(id, at)
         \/ setArrangementClipBounds(id, at, end)
  PROVE  ListsEdited
<1> DEFINE clip == findClip(id)
           list == tracks[id.track].arrangement
<1>1. id.track \in DOMAIN tracks /\ DOMAIN tracks[id.track] = TrackFields /\ ListShaped(list)
  BY ArrangementClipFound DEF TracksShaped, Shaped
<1>2. PlacedShape(clip) /\ clip.id = id.n
  BY <1>1, PlacedClipFound DEF ListShaped
<1> HIDE DEF clip
<1>3. CASE moveArrangementClip(id, at)
  <2>1. [clip EXCEPT !.start = at, !.end = at + clip.length].id = id.n
    BY <1>2 DEF PlacedShape, PlacedFields
  <2> QED
    BY <1>1, <1>3, <2>1, EveryLists DEF moveArrangementClip, clip
<1>4. CASE setArrangementClipBounds(id, at, end)
  <2>1. [clip EXCEPT !.start = at, !.end = end, !.length = end - at].id = id.n
    BY <1>2 DEF PlacedShape, PlacedFields
  <2> QED
    BY <1>1, <1>4, <2>1, EveryLists DEF setArrangementClipBounds, clip
<1>5. CASE splitArrangementClip(id, at)
  <2> DEFINE track == [tracks[id.track] EXCEPT !.arrangement = Renumbered(Halved(list, clip, at))]
  <2>1. ChangeTrack(id.track, track)
    BY <1>5 DEF splitArrangementClip, Halved, clip
  <2>2. track.arrangement = Renumbered(Halved(list, clip, at))
    BY <1>1 DEF TrackFields
  <2>3. ListShaped(Halved(list, clip, at))
    BY <1>1, <1>2, InputTypes, HalvedFacts
  <2> HIDE DEF track
  <2>4. Split(list, track.arrangement)
    BY <2>2, <2>3 DEF Split
  <2> QED
    BY <2>1, <2>4, OneList DEF Edited
<1> QED
  BY <1>3, <1>4, <1>5

LEMMA EditLists ==
  ASSUME Inv, TracksShaped, NEW id \in ClipIds, NEW clip,
         id.place = "arrangement" => clip.id = id.n,
         ChangeTrack(id.track, WithClip(id, clip))
  PROVE  ListsEdited
<1> DEFINE track == WithClip(id, clip)
           list == tracks[id.track].arrangement
<1>1. id.track \in DOMAIN tracks /\ DOMAIN tracks[id.track] = TrackFields
  BY FoundShaped DEF Shaped
<1>2. CASE id.place = "session"
  <2>1. track.arrangement = list
    BY <1>1, <1>2 DEF WithClip, TrackFields
  <2> HIDE DEF track
  <2> QED
    BY <2>1, OneSameList DEF track
<1>3. CASE id.place # "session"
  <2>1. /\ IndexOf(id) \in DOMAIN list /\ list[IndexOf(id)].id = id.n /\ clip.id = id.n
    BY <1>3, FoundShaped
  <2>2. track.arrangement = [list EXCEPT ![IndexOf(id)] = clip]
    BY <1>1, <1>3 DEF WithClip, TrackFields
  <2> HIDE DEF track
  <2>3. Replaced(list, track.arrangement)
    BY <2>1, <2>2 DEF Replaced
  <2> QED
    BY <2>3, OneList DEF Edited, track
<1> QED
  BY <1>2, <1>3

LEMMA EditedListsKeep ==
  ASSUME Inv, TracksShaped, NEW id \in ClipIds, NEW new
  PROVE  /\ ChangeTrack(id.track, WithClip(id, [findClip(id) EXCEPT !.name = new])) => ListsEdited
         /\ ChangeTrack(id.track, WithClip(id, [findClip(id) EXCEPT !.steps = new])) => ListsEdited
         /\ ChangeTrack(id.track, WithClip(id, [findClip(id) EXCEPT !.length = new])) => ListsEdited
         /\ ChangeTrack(id.track, WithClip(id, [findClip(id) EXCEPT !.notes = new])) => ListsEdited
<1> DEFINE old == findClip(id)
<1>1. id.place = "arrangement" => DOMAIN old = PlacedFields /\ old.id = id.n
  BY FoundShaped DEF PlacedShape
<1> HIDE DEF old
<1>2. id.place = "arrangement" =>
        /\ [old EXCEPT !.name = new].id = id.n /\ [old EXCEPT !.steps = new].id = id.n
        /\ [old EXCEPT !.length = new].id = id.n /\ [old EXCEPT !.notes = new].id = id.n
  BY <1>1 DEF PlacedFields
<1> QED
  BY <1>2, EditLists DEF old

LEMMA OnClipLists ==
  ASSUME Inv, TracksShaped, OnClip
  PROVE  ListsEdited \/ op' = "delete_clip"
<1>1. PICK id \in ClipIds :
         \/ deleteClip(id) \/ selectClip(id) \/ fireClip(id) \/ clearAllClipEnvelopes(id)
         \/ \E name \in Names : renameClip(id, name)
         \/ \E length \in Lengths : setClipLoopOrLength(id, length)
         \/ \E notes \in NoteLists : insertNotes(id, notes) \/ replaceNotes(id, notes)
         \/ \E t \in Visible, start \in Beats : duplicateClipToArrangement(id, t, start)
         \/ \E shown \in BOOLEAN :
              \/ showClipEnvelope(id, shown)
              \/ \E p \in EnvelopeTargets :
                   selectClipEnvelopeParameter(id, p, shown) \/ setClipEnvelope(id, p, shown)
         \/ \E p \in EnvelopeTargets : clearClipEnvelope(id, p)
  BY DEF OnClip
<1>2. CASE deleteClip(id)
  BY <1>2 DEF deleteClip, Asked
<1>3. CASE \/ selectClip(id)
           \/ \E shown \in BOOLEAN :
                \/ showClipEnvelope(id, shown)
                \/ \E p \in EnvelopeTargets : selectClipEnvelopeParameter(id, p, shown)
  <2>1. tracks' = tracks
    BY <1>3 DEF selectClip, showClipEnvelope, selectClipEnvelopeParameter
  <2> QED
    BY <2>1, SameLists
<1>4. CASE fireClip(id)
  <2>1. tracks' = tracks \/ ChangeTrack(id.track, Playing(tracks[id.track], id.n))
    BY <1>4 DEF fireClip, ChangeTrack
  <2>2. id.track \in DOMAIN tracks /\ DOMAIN tracks[id.track] = TrackFields
    BY FoundShaped DEF Shaped
  <2> QED
    BY <2>1, <2>2, PlayingElsewhere, OneSameList, SameLists
<1>5. ASSUME NEW name, renameClip(id, name) PROVE ListsEdited
  BY <1>5, EditedListsKeep DEF renameClip, EditClip
<1>6. ASSUME NEW length, setClipLoopOrLength(id, length) PROVE ListsEdited
  BY <1>6, EditedListsKeep DEF setClipLoopOrLength, EditClip
<1>7. ASSUME NEW notes, insertNotes(id, notes) \/ replaceNotes(id, notes) PROVE ListsEdited
  <2>1. \E new : ChangeTrack(id.track, WithClip(id, [findClip(id) EXCEPT !.notes = new]))
    BY <1>7 DEF insertNotes, replaceNotes, EditClip
  <2> QED
    BY <2>1, EditedListsKeep
<1>8. CASE \/ clearAllClipEnvelopes(id)
           \/ \E p \in EnvelopeTargets :
                clearClipEnvelope(id, p) \/ \E shown \in BOOLEAN : setClipEnvelope(id, p, shown)
  <2>1. \E steps : ChangeTrack(id.track, WithClip(id, [findClip(id) EXCEPT !.steps = steps]))
    BY <1>8 DEF clearAllClipEnvelopes, clearClipEnvelope, setClipEnvelope, ChangeSteps
  <2> QED
    BY <2>1, EditedListsKeep
<1>9. ASSUME NEW t \in Visible, NEW start, duplicateClipToArrangement(id, t, start)
      PROVE  ListsEdited
  BY <1>9, AppendLists DEF duplicateClipToArrangement, Visible
<1> QED
  BY <1>1, <1>2, <1>3, <1>4, <1>5, <1>6, <1>7, <1>8, <1>9

LEMMA ListsStep ==
  ASSUME Inv, Shape, [Next]_vars
  PROVE  ListsEdited \/ op' = "delete_clip"
<1>1. CASE OnSong
  BY <1>1, OnSongLists DEF Shape
<1>2. CASE OnTrack
  BY <1>2, OnTrackLists DEF Shape
<1>3. CASE OnSessionClip
  BY <1>3, MovedElsewhere, SameLists DEF OnSessionClip, Shape
<1>4. CASE OnArrangementClip
  BY <1>4, OnArrangementClipLists DEF OnArrangementClip, Shape
<1>5. CASE OnClip
  BY <1>5, OnClipLists DEF Shape
<1>6. CASE UNCHANGED vars
  BY <1>6, SameLists DEF vars
<1> QED
  BY <1>1, <1>2, <1>3, <1>4, <1>5, <1>6 DEF Next

(* A clip of the arrangement is at the place its id names, until one is deleted. *)
THEOREM NumbersLast == Spec => NumberingLasts
<1>1. ASSUME Inv, Shape, [Next]_vars
      PROVE  \A t \in Visible : Numbered(tracks[t]) => Numbered(tracks'[t]) \/ op' = "delete_clip"
  <2> SUFFICES ASSUME NEW t \in Visible, Numbered(tracks[t]), op' # "delete_clip"
               PROVE  Numbered(tracks'[t])
    OBVIOUS
  <2>1. t \in DOMAIN tracks /\ ListShaped(tracks[t].arrangement)
    BY <1>1 DEF Visible, Shape, TracksShaped, Shaped
  <2>2. Edited(tracks[t].arrangement, tracks'[t].arrangement)
    BY <1>1, <2>1, ListsStep DEF ListsEdited
  <2> QED
    BY <2>1, <2>2, EditKeepsNumbers DEF Numbered
<1> QED
  BY <1>1, AlwaysShaped, PTL DEF Spec, NumberingLasts
-----------------------------------------------------------------------------
(* Which operation it was. *)
LEMMA WhichMoved ==
  ASSUME Next
  PROVE  /\ op' = "move_session_clip" =>
              \E id \in SessionIds : \E t \in DOMAIN tracks, slot \in Slots : moveSessionClip(id, t, slot)
         /\ op' = "move_arrangement_clip" =>
              \E id \in ArrangementIds, at \in Beats : moveArrangementClip(id, at)
         /\ op' = "split_arrangement_clip" =>
              \E id \in ArrangementIds, at \in Beats : splitArrangementClip(id, at)
<1> DEFINE Others == op' \notin {"move_session_clip", "move_arrangement_clip", "split_arrangement_clip"}
<1>1. CASE OnSong
  <2>1. Others
    BY <1>1 DEF OnSong, Asked, setTempo, setArrangementTransport, transport, createTrack,
         createReturnTrack, createScene, fireScene, stopAllClips
  <2> QED
    BY <2>1
<1>2. CASE OnTrack
  <2>1. Others
    BY <1>2 DEF OnTrack, Asked, setTrackLevel, setSendLevel, setParameter, setMonitorState,
         setTrackRouting, loadBrowserItem, UpdateTrack, stopTrackClips, createClip,
         createArrangementClip
  <2> QED
    BY <2>1
<1>3. CASE OnClip
  <2>1. Others
    BY <1>3 DEF OnClip, Asked, deleteClip, selectClip, fireClip, clearAllClipEnvelopes, renameClip,
         setClipLoopOrLength, insertNotes, replaceNotes, EditClip, duplicateClipToArrangement,
         showClipEnvelope, selectClipEnvelopeParameter, setClipEnvelope, clearClipEnvelope
  <2> QED
    BY <2>1
<1>4. CASE OnSessionClip
  <2>1. PICK id \in SessionIds : \E t \in DOMAIN tracks, slot \in Slots :
          duplicateClip(id, t, slot) \/ moveSessionClip(id, t, slot)
    BY <1>4 DEF OnSessionClip
  <2>2. PICK t \in DOMAIN tracks, slot \in Slots :
          duplicateClip(id, t, slot) \/ moveSessionClip(id, t, slot)
    BY <2>1
  <2> QED
    BY <2>2 DEF duplicateClip, moveSessionClip, Asked
<1>5. CASE OnArrangementClip
  <2>1. PICK id \in ArrangementIds, at \in Beats :
          \/ moveArrangementClip(id, at)
          \/ splitArrangementClip(id, at)
          \/ \E end \in Beats : setArrangementClipBounds(id, at, end)
    BY <1>5 DEF OnArrangementClip
  <2> QED
    BY <2>1 DEF moveArrangementClip, splitArrangementClip, setArrangementClipBounds, Asked
<1> QED
  BY <1>1, <1>2, <1>3, <1>4, <1>5 DEF Next
-----------------------------------------------------------------------------
\* The clips of a track as a move sees them.
Held(t, clips) == {<<t, c.slot, Content(c)>> : c \in clips}

LEMMA HeldFinite ==
  ASSUME NEW t, NEW clips, IsFiniteSet(clips)
  PROVE  IsFiniteSet(Held(t, clips))
<1> DEFINE f == [c \in clips |-> <<t, c.slot, Content(c)>>]
<1>1. f \in Surjection(clips, Held(t, clips))
  <2>1. \A c \in clips : f[c] \in Held(t, clips)
    BY DEF Held
  <2>2. \A h \in Held(t, clips) : \E c \in clips : f[c] = h
    BY DEF Held
  <2>3. f \in [clips -> Held(t, clips)]
    BY <2>1
  <2> HIDE DEF f
  <2> QED
    BY <2>2, <2>3 DEF Surjection
<1> QED
  BY <1>1, FS_Surjection

LEMMA ClipsFinite ==
  ASSUME TracksShaped
  PROVE  IsFiniteSet(Clips)
<1> DEFINE All == {Held(t, tracks[t].clips) : t \in DOMAIN tracks}
<1>1. Clips = UNION All
  BY DEF Clips, Held
<1>2. IsFiniteSet(DOMAIN tracks)
  <2>1. DOMAIN tracks = Visible \cup Returns
    BY SectionsFacts DEF TracksShaped, Keys
  <2> QED
    BY <2>1, FS_Union DEF TracksShaped, Finite
<1>3. IsFiniteSet(All)
  <2> DEFINE f == [t \in DOMAIN tracks |-> Held(t, tracks[t].clips)]
  <2>1. f \in Surjection(DOMAIN tracks, All)
    <3>1. \A t \in DOMAIN tracks : f[t] \in All
      OBVIOUS
    <3>2. \A h \in All : \E t \in DOMAIN tracks : f[t] = h
      OBVIOUS
    <3>3. f \in [DOMAIN tracks -> All]
      BY <3>1
    <3> HIDE DEF f, All
    <3> QED
      BY <3>2, <3>3 DEF Surjection
  <2> QED
    BY <1>2, <2>1, FS_Surjection
<1>4. \A t \in DOMAIN tracks : IsFiniteSet(Held(t, tracks[t].clips))
  BY HeldFinite DEF TracksShaped, Shaped, ClipsShaped
<1>5. \A h \in All : IsFiniteSet(h)
  BY <1>4
<1> HIDE DEF All
<1>6. IsFiniteSet(UNION All)
  BY <1>3, <1>5, FS_UNION
<1> QED
  BY <1>1, <1>6

\* One goes, and one comes that was not there.
LEMMA Exchanged ==
  ASSUME NEW S, IsFiniteSet(S), NEW old \in S, NEW new, new \notin S
  PROVE  Cardinality((S \ {old}) \cup {new}) = Cardinality(S)
<1>1. /\ IsFiniteSet(S \ {old}) /\ Cardinality(S \ {old}) = Cardinality(S) - 1
  BY FS_RemoveElement
<1>2. Cardinality((S \ {old}) \cup {new}) = Cardinality(S \ {old}) + 1
  BY <1>1, FS_AddElement
<1>3. Cardinality(S) \in Nat
  BY FS_CardinalityType
<1> QED
  BY <1>1, <1>2, <1>3
-----------------------------------------------------------------------------
\* A session clip that is moved leaves its slot and comes to the other with all it holds.
LEMMA MovedClips ==
  ASSUME Inv, TracksShaped, NEW id \in SessionIds, NEW t \in DOMAIN tracks, NEW slot \in Slots,
         moveSessionClip(id, t, slot)
  PROVE  \E content :
           /\ <<id.track, id.n, content>> \in Clips /\ <<t, slot, content>> \notin Clips
           /\ Clips' = (Clips \ {<<id.track, id.n, content>>}) \cup {<<t, slot, content>>}
<1> DEFINE clip == findClip(id)
           copy == Copy(clip, slot)
           content == Content(clip)
           old == <<id.track, id.n, content>>
           new == <<t, slot, content>>
           With(u) == IF u = t THEN tracks[t].clips \cup {copy} ELSE tracks[u].clips
           with == [tracks[t] EXCEPT !.clips = @ \cup {copy}]
           copied == [tracks EXCEPT ![t].clips = @ \cup {copy}]
<1>1. /\ id.track \in DOMAIN tracks /\ clip \in tracks[id.track].clips /\ clip.slot = id.n
  BY SessionClipFound
<1>2. \A u \in DOMAIN tracks : DOMAIN tracks[u] = TrackFields /\ OnePerSlot(tracks[u].clips)
  BY DEF TracksShaped, Shaped, ClipsShaped
<1>3. \A c \in tracks[t].clips : c.slot # slot
  BY DEF moveSessionClip, Free
<1>4. copy.slot = slot /\ Content(copy) = content
  BY DEF Copy, SessionClip, Content
<1>5. tracks' = [copied EXCEPT ![id.track] = WithoutSlot(@, id.n)]
  BY DEF moveSessionClip
<1>6. copied = [tracks EXCEPT ![t] = with]
  OBVIOUS
<1> HIDE DEF clip, copy, content
<1>7. /\ DOMAIN with = TrackFields /\ with.clips = tracks[t].clips \cup {copy}
  BY <1>2 DEF TrackFields
<1> HIDE DEF with
<1>8. DOMAIN copied = DOMAIN tracks /\
      \A u \in DOMAIN tracks : DOMAIN copied[u] = TrackFields /\ copied[u].clips = With(u)
  BY <1>2, <1>6, <1>7
<1> HIDE DEF copied
<1>9. WithoutSlot(copied[id.track], id.n).clips = {c \in With(id.track) : c.slot # id.n}
  BY <1>1, <1>8 DEF WithoutSlot, TrackFields
<1>10. /\ DOMAIN tracks' = DOMAIN tracks
       /\ \A u \in DOMAIN tracks :
            tracks'[u].clips = IF u = id.track THEN {c \in With(u) : c.slot # id.n} ELSE With(u)
  BY <1>5, <1>8, <1>9
<1>11. old \in Clips
  BY <1>1 DEF Clips, content
<1>12. new \notin Clips
  BY <1>3 DEF Clips
<1>13. ASSUME NEW h \in Clips' PROVE h \in (Clips \ {old}) \cup {new}
  <2>1. PICK u \in DOMAIN tracks : \E c \in tracks'[u].clips : h = <<u, c.slot, Content(c)>>
    BY <1>10, <1>13 DEF Clips, Content
  <2>2. PICK c \in tracks'[u].clips : h = <<u, c.slot, Content(c)>>
    BY <2>1
  <2>3. c \in With(u) /\ (u = id.track => c.slot # id.n)
    BY <1>10
  <2>4. CASE c \in tracks[u].clips
    <3>1. h \in Clips
      BY <2>2, <2>4 DEF Clips
    <3>2. h # old
      BY <2>2, <2>3
    <3> QED
      BY <3>1, <3>2
  <2>5. CASE u = t /\ c = copy
    <3>1. h = <<t, copy.slot, Content(copy)>>
      BY <2>2, <2>5, Zenon
    <3> QED
      BY <1>4, <3>1
  <2> QED
    BY <2>3, <2>4, <2>5
<1>14. ASSUME NEW h \in Clips, h # old PROVE h \in Clips'
  <2>1. PICK u \in DOMAIN tracks : \E c \in tracks[u].clips : h = <<u, c.slot, Content(c)>>
    BY DEF Clips
  <2>2. PICK c \in tracks[u].clips : h = <<u, c.slot, Content(c)>>
    BY <2>1
  <2>3. ~(u = id.track /\ c.slot = id.n)
    <3> SUFFICES ASSUME u = id.track, c.slot = id.n PROVE FALSE
      OBVIOUS
    <3>1. c = clip
      BY <1>1, <1>2 DEF OnePerSlot
    <3> QED
      BY <1>14, <2>2, <3>1 DEF content
  <2>4. c \in tracks'[u].clips
    BY <1>10, <2>3
  <2> QED
    BY <1>10, <2>2, <2>4 DEF Clips, Content
<1>15. new \in Clips'
  <2>1. t = id.track => slot # id.n
    BY <1>1, <1>3
  <2>2. copy \in tracks'[t].clips
    BY <1>4, <1>10, <2>1
  <2> QED
    BY <1>4, <1>10, <2>2 DEF Clips, Content
<1>16. Clips' = (Clips \ {old}) \cup {new}
  BY <1>13, <1>14, <1>15
<1> QED
  BY <1>11, <1>12, <1>16

LEMMA NotMoved ==
  ASSUME NEW list
  PROVE  MovedWithin(list, list)
BY DEF MovedWithin

\* A move in the arrangement touches no session clip, and in its list the clips with
\* the id alone.
LEMMA MovedInArrangement ==
  ASSUME Inv, TracksShaped, NEW id \in ArrangementIds, NEW at, moveArrangementClip(id, at)
  PROVE  /\ Clips' = Clips
         /\ \A t \in DOMAIN tracks : MovedWithin(tracks[t].arrangement, tracks'[t].arrangement)
<1> DEFINE list == tracks[id.track].arrangement
           clip == [findClip(id) EXCEPT !.start = at, !.end = at + findClip(id).length]
           new == [i \in DOMAIN list |-> IF list[i].id = id.n THEN clip ELSE list[i]]
           track == WithEvery(id, clip)
<1>1. id.track \in DOMAIN tracks /\ DOMAIN tracks[id.track] = TrackFields
  BY ArrangementClipFound DEF TracksShaped, Shaped
<1>2. DOMAIN list = 1..Len(list) /\ Len(list) \in Nat
  BY <1>1 DEF TracksShaped, Shaped, ListShaped, Listed
<1>3. ChangeTrack(id.track, track)
  BY DEF moveArrangementClip
<1>4. PICK k \in DOMAIN list : /\ list[k].id = id.n /\ clip.id = id.n
                               /\ Content(clip) = Content(list[k])
  <2>1. /\ IndexOf(id) \in DOMAIN list /\ findClip(id) = list[IndexOf(id)]
        /\ findClip(id).id = id.n /\ DOMAIN findClip(id) = PlacedFields
    BY <1>1, PlacedClipFound DEF TracksShaped, Shaped, ListShaped, PlacedShape
  <2>2. clip.id = id.n /\ Content(clip) = Content(findClip(id))
    BY <2>1 DEF PlacedFields, Content
  <2> QED
    BY <2>1, <2>2
<1> HIDE DEF clip
<1>5. track.clips = tracks[id.track].clips /\ track.arrangement = new
  BY <1>1 DEF WithEvery, TrackFields
<1>6. MovedWithin(list, new)
  <2>1. DOMAIN new = 1..Len(list) /\ DOMAIN new = DOMAIN list
    BY <1>2
  <2>2. \A i \in DOMAIN list : IF list[i].id = id.n THEN new[i] = clip ELSE new[i] = list[i]
    OBVIOUS
  <2> HIDE DEF new, list
  <2>3. Len(new) = Len(list)
    BY <1>2, <2>1
  <2>4. ASSUME Distinct(list), NEW i \in DOMAIN list
        PROVE  new[i].id = list[i].id /\ Content(new[i]) = Content(list[i])
    <3>1. CASE new[i] = clip /\ list[i].id = id.n
      <4>1. i = k
        BY <1>4, <2>4, <3>1 DEF Distinct
      <4> QED
        BY <1>4, <3>1, <4>1
    <3> QED
      BY <2>2, <3>1
  <2> QED
    BY <2>2, <2>3, <2>4 DEF MovedWithin
<1> HIDE DEF track, new, list
<1>7. /\ DOMAIN tracks' = DOMAIN tracks
      /\ \A t \in DOMAIN tracks : tracks'[t] = IF t = id.track THEN track ELSE tracks[t]
  BY <1>3 DEF ChangeTrack
<1>8. \A t \in DOMAIN tracks : tracks'[t].clips = tracks[t].clips
  BY <1>5, <1>7
<1>9. Clips' = Clips
  BY <1>7, <1>8 DEF Clips, Content
<1> QED
  BY <1>5, <1>6, <1>7, <1>9, NotMoved DEF list

(* A move loses no clip and nothing a clip holds, but for repeated ids in an
   arrangement. *)
THEOREM MovesKeepClips == Spec => MoveKeepsClips
<1>1. ASSUME Inv, Shape, Next, op' \in {"move_session_clip", "move_arrangement_clip"}
      PROVE  /\ Cardinality(Clips') = Cardinality(Clips)
             /\ {c[3] : c \in Clips'} = {c[3] : c \in Clips}
             /\ \A t \in Visible : MovedWithin(tracks[t].arrangement, tracks'[t].arrangement)
  <2>1. CASE op' = "move_session_clip"
    <3>1. PICK id \in SessionIds : \E t \in DOMAIN tracks, slot \in Slots : moveSessionClip(id, t, slot)
      BY <1>1, <2>1, WhichMoved
    <3>2. PICK t \in DOMAIN tracks, slot \in Slots : moveSessionClip(id, t, slot)
      BY <3>1
    <3>3. PICK content :
            /\ <<id.track, id.n, content>> \in Clips /\ <<t, slot, content>> \notin Clips
            /\ Clips' = (Clips \ {<<id.track, id.n, content>>}) \cup {<<t, slot, content>>}
      BY <1>1, <3>2, MovedClips DEF Shape
    <3> DEFINE old == <<id.track, id.n, content>>
               new == <<t, slot, content>>
    <3>4. old[3] = content /\ new[3] = content
      OBVIOUS
    <3>5. old \in Clips /\ new \notin Clips /\ Clips' = (Clips \ {old}) \cup {new}
      BY <3>3
    <3> HIDE DEF old, new
    <3>6. Cardinality(Clips') = Cardinality(Clips)
      BY <1>1, <3>5, ClipsFinite, Exchanged DEF Shape
    <3>7. {c[3] : c \in Clips'} = {c[3] : c \in Clips}
      BY <3>4, <3>5
    <3>8. ASSUME NEW u \in Visible PROVE MovedWithin(tracks[u].arrangement, tracks'[u].arrangement)
      <4>1. u \in DOMAIN tracks
        BY DEF Visible
      <4>2. tracks'[u].arrangement = tracks[u].arrangement
        BY <1>1, <3>2, <4>1, MovedElsewhere DEF Shape
      <4> QED
        BY <4>2, NotMoved
    <3> QED
      BY <3>6, <3>7, <3>8
  <2>2. CASE op' = "move_arrangement_clip"
    <3>1. PICK id \in ArrangementIds, at \in Beats : moveArrangementClip(id, at)
      BY <1>1, <2>2, WhichMoved
    <3>2. /\ Clips' = Clips
          /\ \A t \in DOMAIN tracks : MovedWithin(tracks[t].arrangement, tracks'[t].arrangement)
      BY <1>1, <3>1, MovedInArrangement DEF Shape
    <3> QED
      BY <3>2 DEF Visible
  <2> QED
    BY <1>1, <2>1, <2>2
<1> QED
  BY <1>1, AlwaysShaped, PTL DEF Spec, MoveKeepsClips
-----------------------------------------------------------------------------
\* The beats of a note from a start, and those at which a clip sounds.
Beat(start, note) == (start + note.at)..(start + note.at + note.length - 1)
Heard(clip) == (UNION {Beat(clip.start, n) : n \in Range(clip.notes)}) \cap clip.start..(clip.end - 1)

LEMMA NoteTypes ==
  ASSUME NEW notes \in NoteSeqs, NEW n \in Range(notes)
  PROVE  n.at \in Int /\ n.length \in Int
<1> DEFINE S == [at : Int, length : Int]
<1>1. notes \in Seq(S)
  BY DEF NoteSeqs
<1> HIDE DEF S
<1>2. n \in S
  BY <1>1, ListedFacts
<1> QED
  BY <1>2 DEF S

\* A segment sounds where the clip did, within its bounds.
LEMMA SegmentHeard ==
  ASSUME NEW clip, PlacedShape(clip), clip.notes # NoNotes,
         arrangementNoteBase(clip.notes, clip.start) = 0, NEW from \in Int, NEW to \in Int
  PROVE  Heard(Segment(clip, from, to)) =
           (UNION {Beat(clip.start, n) : n \in Range(clip.notes)}) \cap from..(to - 1)
<1> DEFINE notes == clip.notes
           shift == clip.start
           Start(note) == IF note.at + shift < from THEN from ELSE note.at + shift
           End(note) == IF note.at + shift + note.length > to THEN to ELSE note.at + shift + note.length
           inside == Filter(notes, {note \in Range(notes) : Start(note) < End(note)})
           Cut(note) == [at |-> Start(note) - from, length |-> End(note) - Start(note)]
           cut == [i \in DOMAIN inside |-> Cut(inside[i])]
           segment == Segment(clip, from, to)
<1>1. notes \in NoteSeqs /\ shift \in Int /\ DOMAIN clip = PlacedFields
  BY DEF PlacedShape
<1>2. segmentArrangementNotes(clip, from, to) = cut
  <2>1. (IF clip.notes = NoNotes THEN <<>> ELSE clip.notes) = notes
    OBVIOUS
  <2>2. clip.start - arrangementNoteBase(notes, clip.start) = shift
    BY <1>1
  <2> QED
    BY <2>1, <2>2 DEF segmentArrangementNotes
<1>3. segment.start = from /\ segment.end = to /\ segment.notes = cut
  BY <1>1, <1>2 DEF Segment, PlacedFields
<1>4. Range(inside) = {note \in Range(notes) : Start(note) < End(note)}
  <2> DEFINE S == [at : Int, length : Int]
             P == {note \in Range(notes) : Start(note) < End(note)}
  <2>1. notes \in Seq(S)
    BY <1>1 DEF NoteSeqs
  <2> HIDE DEF S, notes
  <2>2. P \subseteq Range(notes)
    OBVIOUS
  <2> HIDE DEF P
  <2>3. Range(Filter(notes, P)) = P
    BY <2>1, <2>2, FilterFacts
  <2> QED
    BY <2>3 DEF P
<1> HIDE DEF inside, segment
<1>5. Range(cut) = {Cut(note) : note \in Range(inside)}
  BY DEF Range
<1> HIDE DEF cut
<1>6. ASSUME NEW note \in Range(notes)
      PROVE  /\ Start(note) < End(note) => Beat(from, Cut(note)) = Beat(shift, note) \cap from..(to - 1)
             /\ ~(Start(note) < End(note)) => Beat(shift, note) \cap from..(to - 1) = {}
             /\ Start(note) < End(note) => Beat(from, Cut(note)) \subseteq from..(to - 1)
  <2>1. note.at \in Int /\ note.length \in Int
    BY <1>1, NoteTypes
  <2>2. Cut(note).at = Start(note) - from /\ Cut(note).length = End(note) - Start(note)
    OBVIOUS
  <2>3. Start(note) \in Int /\ End(note) \in Int
    BY <1>1, <2>1
  <2> HIDE DEF Cut
  <2>4. Beat(from, Cut(note)) = Start(note)..(End(note) - 1)
    BY <2>2, <2>3 DEF Beat
  <2> DEFINE a == note.at + shift
             b == note.at + shift + note.length
  <2>5. a \in Int /\ b \in Int /\ Beat(shift, note) = a..(b - 1)
    BY <1>1, <2>1 DEF Beat
  <2>6. /\ Start(note) = (IF a < from THEN from ELSE a)
        /\ End(note) = (IF b > to THEN to ELSE b)
    OBVIOUS
  <2> HIDE DEF a, b, Start, End, shift
  <2>7. (a..(b - 1)) \cap (from..(to - 1)) = Start(note)..(End(note) - 1)
    BY <2>5, <2>6
  <2>8. Start(note)..(End(note) - 1) \subseteq from..(to - 1)
    BY <2>5, <2>6
  <2>9. ~(Start(note) < End(note)) => Start(note)..(End(note) - 1) = {}
    BY <2>3
  <2> QED
    BY <2>4, <2>5, <2>7, <2>8, <2>9
<1> HIDE DEF Cut, Start, End, notes, shift
<1>7. Heard(segment) = (UNION {Beat(from, n) : n \in Range(cut)}) \cap from..(to - 1)
  BY <1>3 DEF Heard
<1>8. (UNION {Beat(from, n) : n \in Range(cut)}) \cap from..(to - 1)
        = (UNION {Beat(shift, n) : n \in Range(notes)}) \cap from..(to - 1)
  BY <1>4, <1>5, <1>6
<1> QED
  BY <1>7, <1>8 DEF segment, notes, shift

\* Between its halves nothing is lost.
LEMMA HalvesHeard ==
  ASSUME NEW clip, PlacedShape(clip), clip.notes # NoNotes,
         arrangementNoteBase(clip.notes, clip.start) = 0, NEW at \in Int,
         clip.start < at, at < clip.end
  PROVE  Heard(Segment(clip, clip.start, at)) \cup Heard(Segment(clip, at, clip.end)) = Heard(clip)
<1> DEFINE all == UNION {Beat(clip.start, n) : n \in Range(clip.notes)}
<1>1. clip.start \in Int /\ clip.end \in Int
  BY DEF PlacedShape
<1>2. Heard(Segment(clip, clip.start, at)) = all \cap clip.start..(at - 1)
  <2> DEFINE low == clip.start
  <2>1. low \in Int
    BY <1>1
  <2> HIDE DEF low
  <2>2. Heard(Segment(clip, low, at)) = all \cap low..(at - 1)
    BY <2>1, SegmentHeard
  <2> QED
    BY <2>2 DEF low
<1>3. Heard(Segment(clip, at, clip.end)) = all \cap at..(clip.end - 1)
  BY <1>1, SegmentHeard
<1>4. Heard(clip) = all \cap clip.start..(clip.end - 1)
  BY DEF Heard
<1>5. clip.start..(at - 1) \cup at..(clip.end - 1) = clip.start..(clip.end - 1)
  BY <1>1
<1> HIDE DEF all
<1> QED
  BY <1>2, <1>3, <1>4, <1>5

\* A number of another place changes nothing that is heard.
LEMMA RenumberedHeard ==
  ASSUME NEW list, ListShaped(list)
  PROVE  UNION {Heard(c) : c \in Range(Renumbered(list))} = UNION {Heard(c) : c \in Range(list)}
<1>1. ASSUME NEW i \in DOMAIN list PROVE Heard(Renumbered(list)[i]) = Heard(list[i])
  <2>1. DOMAIN list[i] = PlacedFields
    BY DEF ListShaped, Range, PlacedShape
  <2> DEFINE new == Renumbered(list)[i]
             old == list[i]
  <2>2. new = [old EXCEPT !.id = i, !.index = i]
    BY RenumberedShaped
  <2> HIDE DEF new, old
  <2>3. new.start = old.start /\ new.end = old.end /\ new.notes = old.notes
    BY <2>1, <2>2 DEF PlacedFields, old
  <2> QED
    BY <2>3 DEF Heard, new, old
<1>2. DOMAIN Renumbered(list) = DOMAIN list
  BY RenumberedShaped
<1> QED
  BY <1>1, <1>2 DEF Range
-----------------------------------------------------------------------------
\* The halves take the place of the clip, and the rest stays.
LEMMA SplitHeard ==
  ASSUME NEW list, ListShaped(list), NEW i \in DOMAIN list, list[i].id = i,
         list[i].notes # NoNotes, arrangementNoteBase(list[i].notes, list[i].start) = 0,
         NEW at \in Int, list[i].start < at, at < list[i].end
  PROVE  UNION {Heard(c) : c \in Range(Renumbered(Halved(list, list[i], at)))}
           = UNION {Heard(c) : c \in Range(list)}
<1> DEFINE clip == list[i]
           halved == Halved(list, clip, at)
           low == Segment(clip, clip.start, at)
           high == Segment(clip, at, clip.end)
           others == {list[j] : j \in DOMAIN list \ {i}}
<1>1. PlacedShape(clip) /\ clip.index = i
  BY DEF ListShaped, PlacedShape, Range
<1>2. ListShaped(halved) /\ Range(halved) = others \cup {low, high}
  BY <1>1, HalvedFacts
<1>3. Range(list) = others \cup {clip}
  BY DEF Range
<1>4. Heard(low) \cup Heard(high) = Heard(clip)
  BY <1>1, HalvesHeard
<1> HIDE DEF clip, halved, low, high, others
<1>5. UNION {Heard(c) : c \in Range(halved)} = UNION {Heard(c) : c \in Range(list)}
  BY <1>2, <1>3, <1>4
<1>6. UNION {Heard(c) : c \in Range(Renumbered(halved))} = UNION {Heard(c) : c \in Range(halved)}
  BY <1>2, RenumberedHeard
<1> QED
  BY <1>5, <1>6 DEF halved, clip

LEMMA SoundingHeard ==
  ASSUME NEW track
  PROVE  Sounding(track) = UNION {Heard(c) : c \in Range(track.arrangement)}
BY DEF Sounding, Heard, Beat

(* A split changes nothing that is heard, where the clips are at the places their
   ids name and their notes count from their starts. *)
THEOREM SplitsKeepNotes == Spec => SplitKeepsNotes
<1>1. ASSUME Inv, Shape, Next, op' = "split_arrangement_clip"
      PROVE  \A t \in Visible :
               Numbered(tracks[t]) /\ Counted(tracks[t]) => Sounding(tracks'[t]) = Sounding(tracks[t])
  <2> SUFFICES ASSUME NEW t \in Visible, Numbered(tracks[t]), Counted(tracks[t])
               PROVE  Sounding(tracks'[t]) = Sounding(tracks[t])
    OBVIOUS
  <2>1. PICK id \in ArrangementIds, at \in Beats : splitArrangementClip(id, at)
    BY <1>1, WhichMoved
  <2> DEFINE list == tracks[id.track].arrangement
             i == IndexOf(id)
             clip == list[i]
             split == [tracks[id.track] EXCEPT !.arrangement = Renumbered(Halved(list, clip, at))]
  <2>2. /\ id.track \in DOMAIN tracks /\ DOMAIN tracks[id.track] = TrackFields /\ ListShaped(list)
        /\ t \in DOMAIN tracks
    BY <1>1, ArrangementClipFound DEF Visible, Shape, TracksShaped, Shaped
  <2>3. i \in DOMAIN list /\ findClip(id) = clip
    BY <2>2, PlacedClipFound
  <2>4. ChangeTrack(id.track, split) /\ clip.start < at /\ at < clip.end
    BY <2>1, <2>3 DEF splitArrangementClip, Halved
  <2>5. CASE t # id.track
    <3>1. tracks'[t] = tracks[t]
      BY <2>2, <2>4, <2>5 DEF ChangeTrack
    <3> QED
      BY <3>1
  <2>6. CASE t = id.track
    <3> HIDE DEF i
    <3>1. clip.id = i
      BY <1>1, <2>3, <2>6 DEF Numbered
    <3>2. clip \in Range(tracks[t].arrangement)
      BY <2>3, <2>6 DEF Range
    <3>3. clip.notes # NoNotes /\ arrangementNoteBase(clip.notes, clip.start) = 0
      BY <1>1, <3>2 DEF Counted
    <3>4. at \in Int
      BY InputTypes
    <3>5. tracks'[t] = split
      BY <2>2, <2>4, <2>6 DEF ChangeTrack
    <3>6. split.arrangement = Renumbered(Halved(list, clip, at))
      BY <2>2 DEF TrackFields
    <3> HIDE DEF split
    <3>7. UNION {Heard(c) : c \in Range(Renumbered(Halved(list, clip, at)))}
            = UNION {Heard(c) : c \in Range(list)}
      BY <2>2, <2>3, <2>4, <3>1, <3>3, <3>4, SplitHeard
    <3> HIDE DEF clip
    <3>8. tracks'[t].arrangement = Renumbered(Halved(list, clip, at))
      BY <3>5, <3>6
    <3>9. list = tracks[t].arrangement
      BY <2>6
    <3> HIDE DEF list
    <3> QED
      BY <3>7, <3>8, <3>9, SoundingHeard
  <2> QED
    BY <2>5, <2>6
<1> QED
  BY <1>1, AlwaysShaped, PTL DEF Spec, SplitKeepsNotes
-----------------------------------------------------------------------------
\* What a mirror holds of a track, in its parts; of what plays, the parts whose changes
\* the operation is to tell of.
MixerData(track, t) ==
  {<<Track(t), track.level, track.monitor, track.routing, track.sends, track.devices>>}
SessionData(clips, t) == {<<Clip(InSession(t, c.slot)), Content(c)>> : c \in clips}
ListData(clips, t) == {<<Clip(InArrangement(t, c.id)), Content(c), c.start, c.end>> : c \in clips}
SlotData(track, t) == IF op' \in SlotsUntold THEN {} ELSE {<<Track(t), track.playing>>}
LitData(clips, t) ==
  IF op' \in ClipsUntold THEN {} ELSE {<<Clip(InSession(t, c.slot)), c.on>> : c \in clips}

Mirrored(track, t) ==
  MixerData(track, t) \cup SlotData(track, t) \cup SessionData(track.clips, t)
    \cup LitData(track.clips, t) \cup ListData(Range(track.arrangement), t)

\* A difference in the data that the messages speak of.
Told(old, new) == \A d \in (old \ new) \cup (new \ old) : d[1] \in told'

PartsTold(old, new, t) ==
  /\ Told(MixerData(old, t), MixerData(new, t)) /\ Told(SlotData(old, t), SlotData(new, t))
  /\ Told(SessionData(old.clips, t), SessionData(new.clips, t))
  /\ Told(LitData(old.clips, t), LitData(new.clips, t))
  /\ Told(ListData(Range(old.arrangement), t), ListData(Range(new.arrangement), t))

AllTold ==
  /\ Differing(AllData, AllData') \subseteq told'
  /\ op' \notin SlotsUntold => Differing(PlayingSlots, PlayingSlots') \subseteq told'
  /\ op' \notin ClipsUntold => Differing(PlayingClips, PlayingClips') \subseteq told'

LEMMA SameParts == \A track, t : PartsTold(track, track, t)
BY DEF PartsTold, Told

LEMMA SessionTold ==
  ASSUME NEW t, NEW old, NEW new,
         \A c \in (old \ new) \cup (new \ old) : Clip(InSession(t, c.slot)) \in told'
  PROVE  /\ Told(SessionData(old, t), SessionData(new, t)) /\ Told(LitData(old, t), LitData(new, t))
<1>1. ASSUME NEW d \in (SessionData(old, t) \ SessionData(new, t))
                        \cup (SessionData(new, t) \ SessionData(old, t))
      PROVE  d[1] \in told'
  <2>1. PICK c \in (old \ new) \cup (new \ old) : d = <<Clip(InSession(t, c.slot)), Content(c)>>
    BY <1>1 DEF SessionData
  <2> QED
    BY <2>1
<1>2. ASSUME NEW d \in (LitData(old, t) \ LitData(new, t)) \cup (LitData(new, t) \ LitData(old, t))
      PROVE  d[1] \in told'
  <2>1. PICK c \in (old \ new) \cup (new \ old) : d = <<Clip(InSession(t, c.slot)), c.on>>
    BY <1>2 DEF LitData
  <2> QED
    BY <2>1
<1> QED
  BY <1>1, <1>2 DEF Told

LEMMA ListTold ==
  ASSUME NEW t, NEW old, NEW new,
         \A c \in (old \ new) \cup (new \ old) : Clip(InArrangement(t, c.id)) \in told'
  PROVE  Told(ListData(old, t), ListData(new, t))
<1> SUFFICES ASSUME NEW d \in (ListData(old, t) \ ListData(new, t))
                              \cup (ListData(new, t) \ ListData(old, t))
             PROVE  d[1] \in told'
  BY DEF Told
<1>1. PICK c \in (old \ new) \cup (new \ old) :
        d = <<Clip(InArrangement(t, c.id)), Content(c), c.start, c.end>>
  BY DEF ListData
<1> QED
  BY <1>1

\* Another mixer state of a track that is told of, and the clips as given.
LEMMA MirroredTold ==
  ASSUME NEW t, NEW old, NEW new,
         \/ Track(t) \in told'
         \/ MixerData(old, t) = MixerData(new, t) /\ SlotData(old, t) = SlotData(new, t),
         Told(SessionData(old.clips, t), SessionData(new.clips, t)),
         Told(LitData(old.clips, t), LitData(new.clips, t)),
         Told(ListData(Range(old.arrangement), t), ListData(Range(new.arrangement), t))
  PROVE  PartsTold(old, new, t)
<1>1. Told(MixerData(old, t), MixerData(new, t)) /\ Told(SlotData(old, t), SlotData(new, t))
  BY DEF Told, MixerData, SlotData
<1> QED
  BY <1>1 DEF PartsTold

LEMMA DataTold ==
  ASSUME DOMAIN tracks \subseteq DOMAIN tracks',
         \A u \in DOMAIN tracks : PartsTold(tracks[u], tracks'[u], u),
         \A u \in DOMAIN tracks' \ DOMAIN tracks : \A d \in Mirrored(tracks'[u], u) : d[1] \in told',
         song' = song \/ Song \in told', scenes' = scenes \/ Scenes \in told'
  PROVE  AllTold
<1> DEFINE Plain(track, t) ==
      MixerData(track, t) \cup SessionData(track.clips, t) \cup ListData(Range(track.arrangement), t)
<1>1. ASSUME NEW d \in (AllData \ AllData') \cup (AllData' \ AllData)
      PROVE  d[1] \in told'
  <2>1. /\ AllData = (UNION {Plain(tracks[u], u) : u \in DOMAIN tracks})
                       \cup {<<Song, song>>, <<Scenes, scenes>>}
        /\ AllData' = (UNION {Plain(tracks'[u], u) : u \in DOMAIN tracks'})
                        \cup {<<Song, song'>>, <<Scenes, scenes'>>}
    BY DEF AllData, Data, MixerData, SessionData, ListData, Song, Scenes
  <2>2. \A u \in DOMAIN tracks : Told(Plain(tracks[u], u), Plain(tracks'[u], u))
    BY DEF PartsTold, Told
  <2>3. \A u \in DOMAIN tracks' \ DOMAIN tracks : \A e \in Plain(tracks'[u], u) : e[1] \in told'
    BY DEF Mirrored
  <2> HIDE DEF Plain
  <2>4. CASE d \in {<<Song, song>>, <<Scenes, scenes>>, <<Song, song'>>, <<Scenes, scenes'>>}
    BY <1>1, <2>1, <2>4
  <2>5. CASE \E u \in DOMAIN tracks : d \in Plain(tracks[u], u) /\ d \notin Plain(tracks'[u], u)
    BY <2>2, <2>5 DEF Told
  <2>6. CASE \E u \in DOMAIN tracks' : /\ d \in Plain(tracks'[u], u)
                                       /\ u \in DOMAIN tracks => d \notin Plain(tracks[u], u)
    BY <2>2, <2>3, <2>6 DEF Told
  <2> QED
    BY <1>1, <2>1, <2>4, <2>5, <2>6
<1>2. ASSUME op' \notin SlotsUntold,
             NEW d \in (PlayingSlots \ PlayingSlots') \cup (PlayingSlots' \ PlayingSlots)
      PROVE  d[1] \in told'
  <2>1. /\ PlayingSlots = UNION {SlotData(tracks[u], u) : u \in DOMAIN tracks}
        /\ PlayingSlots' = UNION {SlotData(tracks'[u], u) : u \in DOMAIN tracks'}
    BY <1>2 DEF PlayingSlots, SlotData, Track
  <2>2. \A u \in DOMAIN tracks : Told(SlotData(tracks[u], u), SlotData(tracks'[u], u))
    BY DEF PartsTold
  <2>3. \A u \in DOMAIN tracks' \ DOMAIN tracks : \A e \in SlotData(tracks'[u], u) : e[1] \in told'
    BY DEF Mirrored
  <2> QED
    BY <1>2, <2>1, <2>2, <2>3 DEF Told
<1>3. ASSUME op' \notin ClipsUntold,
             NEW d \in (PlayingClips \ PlayingClips') \cup (PlayingClips' \ PlayingClips)
      PROVE  d[1] \in told'
  <2>1. /\ PlayingClips = UNION {LitData(tracks[u].clips, u) : u \in DOMAIN tracks}
        /\ PlayingClips' = UNION {LitData(tracks'[u].clips, u) : u \in DOMAIN tracks'}
    BY <1>3 DEF PlayingClips, LitData, Clip, InSession
  <2>2. \A u \in DOMAIN tracks : Told(LitData(tracks[u].clips, u), LitData(tracks'[u].clips, u))
    BY DEF PartsTold
  <2>3. \A u \in DOMAIN tracks' \ DOMAIN tracks :
          \A e \in LitData(tracks'[u].clips, u) : e[1] \in told'
    BY DEF Mirrored
  <2> QED
    BY <1>3, <2>1, <2>2, <2>3 DEF Told
<1> QED
  BY <1>1, <1>2, <1>3 DEF AllTold, Differing

\* One track changes.
LEMMA TrackTold ==
  ASSUME NEW t \in DOMAIN tracks, NEW track, ChangeTrack(t, track),
         PartsTold(tracks[t], track, t),
         song' = song \/ Song \in told', scenes' = scenes
  PROVE  AllTold
<1>1. /\ DOMAIN tracks' = DOMAIN tracks
      /\ \A u \in DOMAIN tracks : tracks'[u] = IF u = t THEN track ELSE tracks[u]
  BY DEF ChangeTrack
<1>2. \A u \in DOMAIN tracks : PartsTold(tracks[u], tracks'[u], u)
  <2> SUFFICES ASSUME NEW u \in DOMAIN tracks
               PROVE  PartsTold(tracks[u], tracks'[u], u)
    OBVIOUS
  <2>1. CASE u = t
    BY <1>1, <2>1
  <2>2. CASE u # t
    <3>1. tracks'[u] = tracks[u]
      BY <1>1, <2>2
    <3> QED
      BY <3>1, SameParts
  <2> QED
    BY <2>1, <2>2
<1> QED
  BY <1>1, <1>2, DataTold

LEMMA SameTold ==
  ASSUME tracks' = tracks, song' = song \/ Song \in told', scenes' = scenes \/ Scenes \in told'
  PROVE  AllTold
<1>1. \A u \in DOMAIN tracks : PartsTold(tracks[u], tracks'[u], u)
  BY SameParts
<1> QED
  BY <1>1, DataTold
-----------------------------------------------------------------------------
\* The whole track is told of: its mixer, and its clips wherever they stay.
LEMMA WholeTold ==
  ASSUME NEW t \in DOMAIN tracks, NEW track, ChangeTrack(t, track),
         Track(t) \in told', track.clips = tracks[t].clips,
         track.arrangement = tracks[t].arrangement, song' = song, scenes' = scenes
  PROVE  AllTold
<1>1. /\ Told(SessionData(tracks[t].clips, t), SessionData(track.clips, t))
      /\ Told(LitData(tracks[t].clips, t), LitData(track.clips, t))
  BY SessionTold
<1>2. Told(ListData(Range(tracks[t].arrangement), t), ListData(Range(track.arrangement), t))
  BY ListTold
<1> QED
  BY <1>1, <1>2, MirroredTold, TrackTold

\* Launching and stopping show in what plays alone, of which the operation tells at most
\* the track.
LEMMA PlayingParts ==
  ASSUME NEW track, Shaped(track), NEW slot, NEW t, op' \in ClipsUntold,
         op' \in SlotsUntold \/ Track(t) \in told'
  PROVE  PartsTold(track, Playing(track, slot), t)
<1> DEFINE new == Playing(track, slot)
           Set(c) == [c EXCEPT !.on = (c.slot = slot)]
<1>1. /\ new.clips = {Set(c) : c \in track.clips} /\ new.arrangement = track.arrangement
      /\ new.level = track.level /\ new.monitor = track.monitor /\ new.routing = track.routing
      /\ new.sends = track.sends /\ new.devices = track.devices
  BY DEF Shaped, TrackFields, Playing
<1>2. \A c \in track.clips : Set(c).slot = c.slot /\ Content(Set(c)) = Content(c)
  BY DEF Shaped, ClipsShaped, SessionShape, ClipFields, Content
<1> HIDE DEF new, Set
<1>3. SessionData(new.clips, t) = SessionData(track.clips, t)
  BY <1>1, <1>2 DEF SessionData
<1>4. MixerData(new, t) = MixerData(track, t) /\ LitData(new.clips, t) = LitData(track.clips, t)
  BY <1>1 DEF MixerData, LitData
<1>5. Told(SlotData(track, t), SlotData(new, t))
  BY DEF Told, SlotData
<1> QED
  BY <1>1, <1>3, <1>4, <1>5 DEF PartsTold, Told, new
-----------------------------------------------------------------------------
LEMMA PlayingTold ==
  ASSUME TracksShaped, DOMAIN tracks' = DOMAIN tracks, op' \in ClipsUntold,
         \A t \in DOMAIN tracks :
           \/ tracks'[t] = tracks[t]
           \/ /\ \E slot : tracks'[t] = Playing(tracks[t], slot)
              /\ op' \in SlotsUntold \/ Track(t) \in told',
         song' = song \/ Song \in told', scenes' = scenes
  PROVE  AllTold
<1>1. ASSUME NEW t \in DOMAIN tracks PROVE PartsTold(tracks[t], tracks'[t], t)
  BY PlayingParts, SameParts DEF TracksShaped
<1> QED
  BY <1>1, DataTold

LEMMA OnSongTold ==
  ASSUME TracksShaped, OnSong, op' \notin Silent
  PROVE  AllTold
<1>1. CASE \/ \E tempo \in Tempos : setTempo(tempo)
           \/ \E time \in Beats : setArrangementTransport(time)
           \/ \E playing \in BOOLEAN : transport(playing)
           \/ createScene
  <2>1. tracks' = tracks
    BY <1>1 DEF setTempo, setArrangementTransport, transport, createScene
  <2>2. (scenes' = scenes /\ Song \in told') \/ (song' = song /\ Scenes \in told')
    BY <1>1 DEF setTempo, setArrangementTransport, transport, createScene, Emit
  <2> QED
    BY <2>1, <2>2, SameTold
<1>2. CASE \E scene \in 1..scenes : fireScene(scene)
  <2>1. /\ \A t \in DOMAIN tracks :
             tracks'[t] = tracks[t] \/ \E slot : tracks'[t] = Playing(tracks[t], slot)
        /\ DOMAIN tracks' = DOMAIN tracks /\ Song \in told' /\ scenes' = scenes
        /\ op' \in ClipsUntold /\ op' \in SlotsUntold
    BY <1>2 DEF fireScene, Emit, Asked, ClipsUntold, SlotsUntold
  <2> QED
    BY <2>1, PlayingTold
<1>3. CASE stopAllClips
  <2>1. /\ \A t \in DOMAIN tracks :
             tracks'[t] = tracks[t] \/ \E slot : tracks'[t] = Playing(tracks[t], slot)
        /\ DOMAIN tracks' = DOMAIN tracks /\ song' = song /\ scenes' = scenes
        /\ op' \in ClipsUntold /\ op' \in SlotsUntold
    BY <1>3 DEF stopAllClips, Asked, ClipsUntold, SlotsUntold
  <2> QED
    BY <2>1, PlayingTold
<1>4. CASE createTrack
  <2> DEFINE new == <<"visible", Cardinality(Visible) + 1>>
             sends == [i \in 1..Cardinality(Returns) |-> 0]
             track == EmptyTrack(sends, None)
  <2>1. tracks' = Put(tracks, new, track) /\ told' = WholeTrack(track, new)
        /\ song' = song /\ scenes' = scenes
    BY <1>4 DEF createTrack, Emit
  <2>2. track.clips = {} /\ track.arrangement = <<>>
    BY DEF EmptyTrack
  <2>3. new \notin DOMAIN tracks
    <3>1. /\ Visible = Keyed("visible", Cardinality(Visible)) /\ Cardinality(Visible) \in Nat
          /\ new[1] = "visible"
      BY SectionsFacts
    <3> QED
      BY <3>1, KeyedFacts DEF Visible
  <2> HIDE DEF new, track
  <2>4. /\ DOMAIN tracks' = DOMAIN tracks \cup {new} /\ tracks'[new] = track
        /\ \A u \in DOMAIN tracks : tracks'[u] = tracks[u]
    BY <2>1, <2>3 DEF Put
  <2>5. ASSUME NEW d \in Mirrored(track, new) PROVE d[1] \in told'
    <3>1. d \in MixerData(track, new) \/ d \in SlotData(track, new)
      BY <2>2 DEF Mirrored, SessionData, LitData, ListData, Range
    <3> QED
      BY <2>1, <3>1 DEF MixerData, SlotData, WholeTrack
  <2>6. \A u \in DOMAIN tracks : PartsTold(tracks[u], tracks'[u], u)
    BY <2>4, SameParts
  <2> QED
    BY <2>1, <2>4, <2>5, <2>6, DataTold
<1>5. CASE createReturnTrack
  BY <1>5 DEF createReturnTrack, Asked, Silent
<1> QED
  BY <1>1, <1>2, <1>3, <1>4, <1>5 DEF OnSong

\* A session clip more.
LEMMA AddedTold ==
  ASSUME TracksShaped, NEW t \in DOMAIN tracks, NEW clip,
         ChangeTrack(t, [tracks[t] EXCEPT !.clips = @ \cup {clip}]),
         Clip(InSession(t, clip.slot)) \in told', song' = song, scenes' = scenes
  PROVE  AllTold
<1> DEFINE old == tracks[t]
           new == [old EXCEPT !.clips = @ \cup {clip}]
<1>1. DOMAIN old = TrackFields
  BY DEF TracksShaped, Shaped
<1>2. /\ new.clips = old.clips \cup {clip} /\ new.arrangement = old.arrangement
      /\ new.level = old.level /\ new.monitor = old.monitor /\ new.routing = old.routing
      /\ new.sends = old.sends /\ new.devices = old.devices /\ new.playing = old.playing
  BY <1>1 DEF TrackFields
<1> HIDE DEF new
<1>3. /\ Told(SessionData(old.clips, t), SessionData(new.clips, t))
      /\ Told(LitData(old.clips, t), LitData(new.clips, t))
  BY <1>2, SessionTold
<1>4. Told(ListData(Range(old.arrangement), t), ListData(Range(new.arrangement), t))
  BY <1>2, ListTold
<1>5. MixerData(old, t) = MixerData(new, t) /\ SlotData(old, t) = SlotData(new, t)
  BY <1>2 DEF MixerData, SlotData
<1> QED
  BY <1>3, <1>4, <1>5, MirroredTold, TrackTold DEF new

\* Another arrangement.
LEMMA ArrangedTold ==
  ASSUME TracksShaped, NEW t \in DOMAIN tracks, NEW list,
         ChangeTrack(t, [tracks[t] EXCEPT !.arrangement = list]),
         \A c \in (Range(tracks[t].arrangement) \ Range(list))
                    \cup (Range(list) \ Range(tracks[t].arrangement)) :
           Clip(InArrangement(t, c.id)) \in told',
         song' = song, scenes' = scenes
  PROVE  AllTold
<1> DEFINE old == tracks[t]
           new == [old EXCEPT !.arrangement = list]
<1>1. DOMAIN old = TrackFields
  BY DEF TracksShaped, Shaped
<1>2. /\ new.clips = old.clips /\ new.arrangement = list
      /\ new.level = old.level /\ new.monitor = old.monitor /\ new.routing = old.routing
      /\ new.sends = old.sends /\ new.devices = old.devices /\ new.playing = old.playing
  BY <1>1 DEF TrackFields
<1> HIDE DEF new
<1>3. /\ Told(SessionData(old.clips, t), SessionData(new.clips, t))
      /\ Told(LitData(old.clips, t), LitData(new.clips, t))
  BY <1>2, SessionTold
<1>4. Told(ListData(Range(old.arrangement), t), ListData(Range(new.arrangement), t))
  BY <1>2, ListTold
<1>5. MixerData(old, t) = MixerData(new, t) /\ SlotData(old, t) = SlotData(new, t)
  BY <1>2 DEF MixerData, SlotData
<1> QED
  BY <1>3, <1>4, <1>5, MirroredTold, TrackTold DEF new

LEMMA AppendTold ==
  ASSUME TracksShaped, NEW t \in DOMAIN tracks, NEW start, NEW end, NEW clip,
         AppendClip(t, start, end, clip), song' = song, scenes' = scenes
  PROVE  AllTold
<1> DEFINE list == tracks[t].arrangement
           n == Len(list) + 1
           new == ArrangementClip(n, start, end, clip)
<1>1. Listed(list)
  BY DEF TracksShaped, Shaped, ListShaped
<1>2. new.id = n
  BY DEF ArrangementClip
<1>3. ChangeTrack(t, [tracks[t] EXCEPT !.arrangement = Append(list, new)])
  BY DEF AppendClip
<1>4. Clip(InArrangement(t, n)) \in told'
  BY DEF AppendClip, Emit
<1> HIDE DEF new, n
<1>5. Range(Append(list, new)) = Range(list) \cup {new}
  BY <1>1, AppendListed
<1>6. \A c \in (Range(list) \ Range(Append(list, new))) \cup (Range(Append(list, new)) \ Range(list)) :
        c = new
  BY <1>5
<1> QED
  BY <1>2, <1>3, <1>4, <1>6, ArrangedTold

LEMMA OnTrackTold ==
  ASSUME TracksShaped, OnTrack
  PROVE  AllTold
<1>1. PICK t \in DOMAIN tracks :
         \/ \E value \in Values :
              \/ setTrackLevel(t, value)
              \/ \E i \in DOMAIN tracks[t].sends : setSendLevel(t, i, value)
              \/ \E i \in DOMAIN tracks[t].devices : setParameter(t, i, value)
         \/ \E state \in {2} : setMonitorState(t, state)
         \/ \E requested \in {"sends only", "other"} : setTrackRouting(t, requested)
         \/ loadBrowserItem(t)
         \/ stopTrackClips(t)
         \/ \E slot \in Slots : createClip(t, slot)
         \/ \E start \in Beats, length \in Lengths : createArrangementClip(t, start, length)
  BY DEF OnTrack
<1> DEFINE track == tracks[t]
<1>2. Shaped(track) /\ DOMAIN track = TrackFields
  BY DEF TracksShaped, Shaped
<1> DEFINE Mixed(new) == /\ new.clips = track.clips /\ new.arrangement = track.arrangement
                         /\ ChangeTrack(t, new) /\ Track(t) \in told'
                         /\ song' = song /\ scenes' = scenes
<1>3. ASSUME NEW new, Mixed(new) PROVE AllTold
  BY <1>3, WholeTold
<1>4. \A new : Track(t) \in WholeTrack(new, t)
  BY DEF WholeTrack
<1>5. ASSUME NEW value, setTrackLevel(t, value) PROVE AllTold
  <2>1. Mixed([track EXCEPT !.level = Clamp(value, 0, Top)])
    BY <1>2, <1>4, <1>5 DEF setTrackLevel, UpdateTrack, Emit, TrackFields
  <2> QED
    BY <1>3, <2>1
<1>6. ASSUME NEW value, NEW i, setSendLevel(t, i, value) PROVE AllTold
  <2>1. Mixed([track EXCEPT !.sends[i] = Clamp(value, 0, Top)])
    BY <1>2, <1>4, <1>6 DEF setSendLevel, UpdateTrack, Emit, TrackFields
  <2> QED
    BY <1>3, <2>1
<1>7. ASSUME NEW value, NEW i, setParameter(t, i, value) PROVE AllTold
  <2>1. Mixed([track EXCEPT !.devices[i] = Clamp(value, 0, Top)])
    BY <1>2, <1>7 DEF setParameter, Emit, TrackFields
  <2> QED
    BY <1>3, <2>1
<1>8. ASSUME NEW state, setMonitorState(t, state) PROVE AllTold
  <2>1. Mixed([track EXCEPT !.monitor = state])
    BY <1>2, <1>4, <1>8 DEF setMonitorState, UpdateTrack, Emit, TrackFields
  <2> QED
    BY <1>3, <2>1
<1>9. ASSUME NEW requested, setTrackRouting(t, requested) PROVE AllTold
  <2>1. Mixed([track EXCEPT !.routing = resolveRoutingChoice(requested)])
    BY <1>2, <1>4, <1>9 DEF setTrackRouting, UpdateTrack, Emit, TrackFields
  <2> QED
    BY <1>3, <2>1
<1>10. CASE loadBrowserItem(t)
  <2>1. Mixed([track EXCEPT !.devices = Append(@, 1)])
    BY <1>2, <1>4, <1>10 DEF loadBrowserItem, UpdateTrack, Emit, TrackFields
  <2> QED
    BY <1>3, <2>1
<1>11. CASE stopTrackClips(t)
  <2>1. /\ ChangeTrack(t, Playing(track, None)) /\ song' = song /\ scenes' = scenes
        /\ op' \in ClipsUntold /\ Track(t) \in told'
    BY <1>11 DEF stopTrackClips, Asked, Emit, ClipsUntold
  <2>2. /\ DOMAIN tracks' = DOMAIN tracks
        /\ \A u \in DOMAIN tracks :
             \/ tracks'[u] = tracks[u]
             \/ (\E slot : tracks'[u] = Playing(tracks[u], slot)) /\ Track(u) \in told'
    BY <2>1 DEF ChangeTrack
  <2> QED
    BY <2>1, <2>2, PlayingTold
<1>12. ASSUME NEW slot, createClip(t, slot) PROVE AllTold
  <2>1. PICK name \in Names :
          ChangeTrack(t, [tracks[t] EXCEPT !.clips = @ \cup {SessionClip(slot, name, 1, <<>>, {})}])
    BY <1>12 DEF createClip
  <2>2. Clip(InSession(t, slot)) \in told' /\ song' = song /\ scenes' = scenes
    BY <1>12 DEF createClip, Emit
  <2>3. SessionClip(slot, name, 1, <<>>, {}).slot = slot
    BY DEF SessionClip
  <2> QED
    BY <2>1, <2>2, <2>3, AddedTold
<1>13. ASSUME NEW start, NEW length, createArrangementClip(t, start, length) PROVE AllTold
  BY <1>13, AppendTold DEF createArrangementClip
<1> QED
  BY <1>1, <1>5, <1>6, <1>7, <1>8, <1>9, <1>10, <1>11, <1>12, <1>13
-----------------------------------------------------------------------------
LEMMA IdNames ==
  ASSUME NEW id \in ClipIds
  PROVE  /\ id \in SessionIds => id = InSession(id.track, id.n)
         /\ id \in ArrangementIds => id = InArrangement(id.track, id.n)
<1>1. ASSUME id \in SessionIds PROVE id = InSession(id.track, id.n)
  <2>1. \E t, n : id = InSession(t, n)
    BY <1>1 DEF SessionIds
  <2> QED
    BY <2>1 DEF InSession
<1>2. ASSUME id \in ArrangementIds PROVE id = InArrangement(id.track, id.n)
  <2>1. \E t, n : id = InArrangement(t, n)
    BY <1>2 DEF ArrangementIds
  <2> QED
    BY <2>1 DEF InArrangement
<1> QED
  BY <1>1, <1>2

\* What is mirrored of a track of which only session clips differ.
LEMMA ClipsTold ==
  ASSUME NEW t, NEW old, NEW new, new.arrangement = old.arrangement,
         new.level = old.level, new.monitor = old.monitor, new.routing = old.routing,
         new.sends = old.sends, new.devices = old.devices,
         new.playing = old.playing \/ op' \in SlotsUntold,
         \A c \in (old.clips \ new.clips) \cup (new.clips \ old.clips) :
           Clip(InSession(t, c.slot)) \in told'
  PROVE  PartsTold(old, new, t)
<1>1. /\ Told(SessionData(old.clips, t), SessionData(new.clips, t))
      /\ Told(LitData(old.clips, t), LitData(new.clips, t))
  BY SessionTold
<1>2. Told(ListData(Range(old.arrangement), t), ListData(Range(new.arrangement), t))
  BY ListTold
<1>3. MixerData(old, t) = MixerData(new, t) /\ SlotData(old, t) = SlotData(new, t)
  BY DEF MixerData, SlotData
<1> QED
  BY <1>1, <1>2, <1>3, MirroredTold

LEMMA RemovedTold ==
  ASSUME NEW t, NEW track, DOMAIN track = TrackFields, NEW slot,
         Clip(InSession(t, slot)) \in told', op' \in SlotsUntold
  PROVE  PartsTold(track, WithoutSlot(track, slot), t)
<1> DEFINE new == WithoutSlot(track, slot)
<1>1. /\ new.clips = {c \in track.clips : c.slot # slot} /\ new.arrangement = track.arrangement
      /\ new.level = track.level /\ new.monitor = track.monitor /\ new.routing = track.routing
      /\ new.sends = track.sends /\ new.devices = track.devices
  BY DEF WithoutSlot, TrackFields
<1> HIDE DEF new
<1>2. \A c \in (track.clips \ new.clips) \cup (new.clips \ track.clips) : c.slot = slot
  BY <1>1
<1> QED
  BY <1>1, <1>2, ClipsTold DEF new

LEMMA ToldTwice ==
  ASSUME NEW a, NEW b, NEW c, NEW t, PartsTold(a, b, t), PartsTold(b, c, t)
  PROVE  PartsTold(a, c, t)
<1>1. \A A, B, C : Told(A, B) /\ Told(B, C) => Told(A, C)
  BY DEF Told
<1> QED
  BY <1>1 DEF PartsTold

LEMMA OnSessionClipTold ==
  ASSUME Inv, TracksShaped, NEW id \in SessionIds, NEW t \in DOMAIN tracks, NEW slot,
         duplicateClip(id, t, slot) \/ moveSessionClip(id, t, slot)
  PROVE  AllTold
<1> DEFINE clip == Copy(findClip(id), slot)
           with == [tracks[t] EXCEPT !.clips = @ \cup {clip}]
           copied == [tracks EXCEPT ![t].clips = @ \cup {clip}]
<1>1. clip.slot = slot
  BY DEF Copy, SessionClip
<1>2. /\ Clip(InSession(t, slot)) \in told' /\ song' = song /\ scenes' = scenes
  BY DEF duplicateClip, moveSessionClip, Emit
<1>3. CASE duplicateClip(id, t, slot)
  <2>1. ChangeTrack(t, with)
    BY <1>3 DEF duplicateClip
  <2> HIDE DEF clip
  <2> QED
    BY <1>1, <1>2, <2>1, AddedTold
<1>4. CASE moveSessionClip(id, t, slot)
  <2>1. tracks' = [copied EXCEPT ![id.track] = WithoutSlot(@, id.n)]
    BY <1>4 DEF moveSessionClip
  <2>2. copied = [tracks EXCEPT ![t] = with]
    OBVIOUS
  <2>3. id.track \in DOMAIN tracks /\ id = InSession(id.track, id.n)
    BY SessionClipFound, IdNames DEF ClipIds
  <2>4. Clip(InSession(id.track, id.n)) \in told' /\ op' \in SlotsUntold
    BY <1>4, <2>3 DEF moveSessionClip, Emit, Asked, SlotsUntold
  <2>5. \A u \in DOMAIN tracks : DOMAIN tracks[u] = TrackFields
    BY DEF TracksShaped, Shaped
  <2> HIDE DEF clip
  <2>6. /\ DOMAIN with = TrackFields /\ with.clips = tracks[t].clips \cup {clip}
        /\ with.arrangement = tracks[t].arrangement /\ with.level = tracks[t].level
        /\ with.monitor = tracks[t].monitor /\ with.routing = tracks[t].routing
        /\ with.sends = tracks[t].sends /\ with.devices = tracks[t].devices
        /\ with.playing = tracks[t].playing
    BY <2>5 DEF TrackFields
  <2> HIDE DEF with
  <2>7. PartsTold(tracks[t], with, t)
    <3>1. \A c \in (tracks[t].clips \ with.clips) \cup (with.clips \ tracks[t].clips) : c = clip
      BY <2>6
    <3> QED
      BY <1>1, <1>2, <2>6, <3>1, ClipsTold
  <2>8. DOMAIN copied = DOMAIN tracks
    BY <2>2
  <2>9. ASSUME NEW u \in DOMAIN tracks
        PROVE  DOMAIN copied[u] = TrackFields /\ PartsTold(tracks[u], copied[u], u)
    <3>1. CASE u = t
      BY <2>2, <2>6, <2>7, <3>1
    <3>2. CASE u # t
      <4>1. copied[u] = tracks[u]
        BY <2>2, <3>2
      <4> QED
        BY <2>5, <4>1, SameParts
    <3> QED
      BY <3>1, <3>2
  <2> HIDE DEF copied
  <2>10. /\ DOMAIN tracks' = DOMAIN tracks
         /\ \A u \in DOMAIN tracks :
              tracks'[u] = IF u = id.track THEN WithoutSlot(copied[u], id.n) ELSE copied[u]
    BY <2>1, <2>8
  <2>11. ASSUME NEW u \in DOMAIN tracks PROVE PartsTold(tracks[u], tracks'[u], u)
    <3>1. CASE u = id.track
      <4>1. PartsTold(copied[u], WithoutSlot(copied[u], id.n), u)
        BY <2>4, <2>9, <3>1, RemovedTold
      <4> QED
        BY <2>9, <2>10, <3>1, <4>1, ToldTwice
    <3>2. CASE u # id.track
      BY <2>9, <2>10, <3>2
    <3> QED
      BY <3>1, <3>2
  <2> QED
    BY <1>2, <2>10, <2>11, DataTold
<1> QED
  BY <1>3, <1>4

LEMMA OnArrangementClipTold ==
  ASSUME Inv, TracksShaped, NEW id \in ArrangementIds, NEW at, NEW end,
         \/ moveArrangementClip(id, at)
         \/ splitArrangementClip(id, at)
         \/ setArrangementClipBounds(id, at, end),
         op' \notin Silent
  PROVE  AllTold
<1>1. setArrangementClipBounds(id, at, end)
  BY DEF moveArrangementClip, splitArrangementClip, Asked, Silent
<1> DEFINE list == tracks[id.track].arrangement
           clip == [findClip(id) EXCEPT !.start = at, !.end = end, !.length = end - at]
           new == [i \in DOMAIN list |-> IF list[i].id = id.n THEN clip ELSE list[i]]
<1>2. /\ id.track \in DOMAIN tracks /\ DOMAIN tracks[id.track] = TrackFields
      /\ ListShaped(list)
  BY ArrangementClipFound DEF TracksShaped, Shaped
<1>3. clip.id = id.n
  <2>1. findClip(id).id = id.n /\ DOMAIN findClip(id) = PlacedFields
    BY <1>2, PlacedClipFound DEF ListShaped, PlacedShape
  <2> QED
    BY <2>1 DEF PlacedFields
<1>4. ChangeTrack(id.track, [tracks[id.track] EXCEPT !.arrangement = new])
  BY <1>1, <1>2 DEF setArrangementClipBounds, WithEvery, TrackFields
<1>5. /\ Clip(InArrangement(id.track, id.n)) \in told' /\ song' = song /\ scenes' = scenes
  BY <1>1, IdNames DEF setArrangementClipBounds, Emit, ClipIds
<1> HIDE DEF clip, list
<1>6. \A i \in DOMAIN list : new[i] # list[i] => new[i].id = id.n /\ list[i].id = id.n
  BY <1>3
<1>7. DOMAIN new = DOMAIN list
  OBVIOUS
<1> HIDE DEF new
<1>8. \A c \in (Range(list) \ Range(new)) \cup (Range(new) \ Range(list)) : c.id = id.n
  BY <1>6, <1>7 DEF Range
<1> QED
  BY <1>2, <1>4, <1>5, <1>8, ArrangedTold DEF list
-----------------------------------------------------------------------------
LEMMA DeletedTold ==
  ASSUME Inv, TracksShaped, NEW id \in ClipIds, deleteClip(id)
  PROVE  AllTold
<1> DEFINE track == tracks[id.track]
<1>1. id.track \in DOMAIN tracks /\ DOMAIN track = TrackFields /\ ListShaped(track.arrangement)
  BY FoundShaped DEF Shaped
<1>2. Clip(id) \in told' /\ song' = song /\ scenes' = scenes /\ op' \in SlotsUntold
  BY DEF deleteClip, Emit, Asked, SlotsUntold
<1>3. CASE id \in SessionIds
  <2>1. id.place = "session" /\ id = InSession(id.track, id.n)
    BY <1>3, FoundShaped, IdNames, SessionClipFound
  <2>2. ChangeTrack(id.track, WithoutSlot(track, id.n))
    BY <2>1 DEF deleteClip
  <2>3. PartsTold(track, WithoutSlot(track, id.n), id.track)
    BY <1>1, <1>2, <2>1, RemovedTold
  <2> QED
    BY <1>1, <1>2, <2>2, <2>3, TrackTold
<1>4. CASE id \in ArrangementIds
  <2> DEFINE list == track.arrangement
             others == {c \in Range(list) : c.id # id.n}
             new == Filter(list, others)
  <2>1. id.place = "arrangement" /\ id = InArrangement(id.track, id.n)
    BY <1>4, IdNames, ArrangementClipFound
  <2>2. ChangeTrack(id.track, [track EXCEPT !.arrangement = new])
    BY <1>1, <2>1 DEF deleteClip, TrackFields
  <2>3. Range(new) = others
    <3> HIDE DEF others, list
    <3>1. list \in Seq(Range(list))
      BY <1>1 DEF ListShaped, Listed, list
    <3>2. Range(new) = Range(list) \cap others
      BY <3>1, FilterFacts
    <3> QED
      BY <3>2 DEF others
  <2> HIDE DEF new
  <2>4. \A c \in (Range(list) \ Range(new)) \cup (Range(new) \ Range(list)) : c.id = id.n
    BY <2>3
  <2>5. Clip(InArrangement(id.track, id.n)) \in told'
    BY <1>2, <2>1
  <2> QED
    BY <1>1, <1>2, <2>2, <2>4, <2>5, ArrangedTold
<1> QED
  BY <1>3, <1>4 DEF ClipIds

\* A clip changes in place, and is told of.
LEMMA EditTold ==
  ASSUME Inv, TracksShaped, NEW id \in ClipIds, NEW clip,
         ChangeTrack(id.track, WithClip(id, clip)),
         id.place = "session" => clip.slot = id.n,
         id.place = "arrangement" => clip.id = id.n,
         Clip(id) \in told', song' = song, scenes' = scenes
  PROVE  AllTold
<1> DEFINE track == tracks[id.track]
           new == WithClip(id, clip)
<1>1. id.track \in DOMAIN tracks /\ DOMAIN track = TrackFields
  BY FoundShaped DEF Shaped
<1>2. CASE id \in SessionIds
  <2>1. /\ id.place = "session" /\ findClip(id) \in track.clips /\ findClip(id).slot = id.n
        /\ id = InSession(id.track, id.n)
    BY <1>2, SessionClipFound, IdNames
  <2>2. /\ new.clips = (track.clips \ {findClip(id)}) \cup {clip}
        /\ new.arrangement = track.arrangement /\ new.level = track.level
        /\ new.monitor = track.monitor /\ new.routing = track.routing
        /\ new.devices = track.devices /\ new.sends = track.sends /\ new.playing = track.playing
    BY <1>1, <2>1 DEF WithClip, TrackFields
  <2> HIDE DEF new
  <2>3. \A c \in (track.clips \ new.clips) \cup (new.clips \ track.clips) : c.slot = id.n
    BY <2>1, <2>2
  <2>4. PartsTold(track, new, id.track)
    BY <2>1, <2>2, <2>3, ClipsTold
  <2> QED
    BY <1>1, <2>4, TrackTold DEF new
<1>3. CASE id \in ArrangementIds
  <2> DEFINE list == track.arrangement
             at == IndexOf(id)
             changed == [list EXCEPT ![at] = clip]
  <2>1. /\ id.place = "arrangement" /\ at \in DOMAIN list /\ list[at].id = id.n
        /\ id = InArrangement(id.track, id.n)
    BY <1>3, FoundShaped, ArrangementClipFound, PlacedClipFound, IdNames DEF Shaped
  <2>2. ChangeTrack(id.track, [track EXCEPT !.arrangement = changed])
    BY <1>1, <2>1 DEF WithClip, TrackFields
  <2> HIDE DEF at, list
  <2>3. /\ DOMAIN changed = DOMAIN list
        /\ \A i \in DOMAIN list : changed[i] # list[i] => changed[i].id = id.n /\ list[i].id = id.n
    BY <2>1
  <2> HIDE DEF changed
  <2>4. \A c \in (Range(list) \ Range(changed)) \cup (Range(changed) \ Range(list)) : c.id = id.n
    BY <2>3 DEF Range
  <2> QED
    BY <1>1, <2>1, <2>2, <2>4, ArrangedTold DEF list
<1> QED
  BY <1>2, <1>3 DEF ClipIds

LEMMA EditedTold ==
  ASSUME Inv, TracksShaped, NEW id \in ClipIds, NEW new, Clip(id) \in told', song' = song, scenes' = scenes
  PROVE  /\ ChangeTrack(id.track, WithClip(id, [findClip(id) EXCEPT !.name = new])) => AllTold
         /\ ChangeTrack(id.track, WithClip(id, [findClip(id) EXCEPT !.length = new])) => AllTold
         /\ ChangeTrack(id.track, WithClip(id, [findClip(id) EXCEPT !.notes = new])) => AllTold
<1> DEFINE old == findClip(id)
<1>1. /\ id.place = "session" => DOMAIN old = ClipFields /\ old.slot = id.n
      /\ id.place = "arrangement" => DOMAIN old = PlacedFields /\ old.id = id.n
  BY FoundShaped DEF SessionShape, PlacedShape
<1> HIDE DEF old
<1>2. id.place = "arrangement" =>
        /\ [old EXCEPT !.name = new].id = id.n /\ [old EXCEPT !.length = new].id = id.n
        /\ [old EXCEPT !.notes = new].id = id.n
  BY <1>1 DEF PlacedFields
<1>3. id.place = "session" =>
        /\ [old EXCEPT !.name = new].slot = id.n /\ [old EXCEPT !.length = new].slot = id.n
        /\ [old EXCEPT !.notes = new].slot = id.n
  BY <1>1 DEF ClipFields
<1> QED
  BY <1>2, <1>3, EditTold DEF old

LEMMA OnClipTold ==
  ASSUME Inv, TracksShaped, OnClip, op' \notin Silent
  PROVE  AllTold
<1>1. PICK id \in ClipIds :
         \/ deleteClip(id) \/ selectClip(id) \/ fireClip(id) \/ clearAllClipEnvelopes(id)
         \/ \E name \in Names : renameClip(id, name)
         \/ \E length \in Lengths : setClipLoopOrLength(id, length)
         \/ \E notes \in NoteLists : insertNotes(id, notes) \/ replaceNotes(id, notes)
         \/ \E t \in Visible, start \in Beats : duplicateClipToArrangement(id, t, start)
         \/ \E shown \in BOOLEAN :
              \/ showClipEnvelope(id, shown)
              \/ \E p \in EnvelopeTargets :
                   selectClipEnvelopeParameter(id, p, shown) \/ setClipEnvelope(id, p, shown)
         \/ \E p \in EnvelopeTargets : clearClipEnvelope(id, p)
  BY DEF OnClip
<1>2. CASE \/ selectClip(id)
           \/ \E shown \in BOOLEAN :
                \/ showClipEnvelope(id, shown)
                \/ \E p \in EnvelopeTargets : selectClipEnvelopeParameter(id, p, shown)
  BY <1>2, SameTold DEF selectClip, showClipEnvelope, selectClipEnvelopeParameter
<1>3. CASE fireClip(id)
  <2>1. Song \in told' /\ scenes' = scenes /\ op' \in ClipsUntold /\ op' \in SlotsUntold
    BY <1>3 DEF fireClip, Emit, Asked, ClipsUntold, SlotsUntold
  <2>2. /\ DOMAIN tracks' = DOMAIN tracks
        /\ \A u \in DOMAIN tracks :
             tracks'[u] = tracks[u] \/ \E slot : tracks'[u] = Playing(tracks[u], slot)
    BY <1>3 DEF fireClip
  <2> QED
    BY <2>1, <2>2, PlayingTold
<1>4. ASSUME NEW name, renameClip(id, name) PROVE AllTold
  BY <1>4, EditedTold DEF renameClip, EditClip, Emit
<1>5. ASSUME NEW length, setClipLoopOrLength(id, length) PROVE AllTold
  BY <1>5, EditedTold DEF setClipLoopOrLength, EditClip, Emit
<1>6. ASSUME NEW notes, insertNotes(id, notes) \/ replaceNotes(id, notes) PROVE AllTold
  <2>1. /\ \E new : ChangeTrack(id.track, WithClip(id, [findClip(id) EXCEPT !.notes = new]))
        /\ Clip(id) \in told' /\ song' = song /\ scenes' = scenes
    BY <1>6 DEF insertNotes, replaceNotes, EditClip, Emit
  <2> QED
    BY <2>1, EditedTold
<1>7. ASSUME NEW t \in Visible, NEW start, duplicateClipToArrangement(id, t, start) PROVE AllTold
  BY <1>7, AppendTold DEF duplicateClipToArrangement, Visible
<1>8. ~ \/ clearAllClipEnvelopes(id)
        \/ \E p \in EnvelopeTargets :
             clearClipEnvelope(id, p) \/ \E shown \in BOOLEAN : setClipEnvelope(id, p, shown)
  BY DEF clearAllClipEnvelopes, clearClipEnvelope, setClipEnvelope, Asked, Silent
<1> QED
  BY <1>1, <1>2, <1>3, <1>4, <1>5, <1>6, <1>7, <1>8, DeletedTold

(* What an operation changes in the data that the session mirrors, the messages
   that follow bring or mark as dirty, but for the operations listed as silent and,
   of what plays, those listed as leaving it untold. *)
THEOREM ChangesAlwaysTold == Spec => ChangesAreTold
<1>1. ASSUME Inv, Shape, Next, op' \notin Silent PROVE AllTold
  <2>1. CASE OnSong
    BY <1>1, <2>1, OnSongTold DEF Shape
  <2>2. CASE OnTrack
    BY <1>1, <2>2, OnTrackTold DEF Shape
  <2>3. CASE OnSessionClip
    BY <1>1, <2>3, OnSessionClipTold DEF OnSessionClip, Shape
  <2>4. CASE OnArrangementClip
    BY <1>1, <2>4, OnArrangementClipTold DEF OnArrangementClip, Shape
  <2>5. CASE OnClip
    BY <1>1, <2>5, OnClipTold DEF Shape
  <2> QED
    BY <1>1, <2>1, <2>2, <2>3, <2>4, <2>5 DEF Next
<1> QED
  BY <1>1, AlwaysShaped, PTL DEF Spec, ChangesAreTold, AllTold
=============================================================================
