----------------------------- MODULE FixtureLive -----------------------------
(***************************************************************************)
(* The Live set that stands in for Live when the bridge server runs on its *)
(* own: what every call and set operation does to it, and what a session   *)
(* that is subscribed hears of it.                                         *)
(*                                                                         *)
(* An id is made from a position: of a track among those of its section,   *)
(* of a session clip's slot, of an arrangement clip in its track's list.   *)
(* Tracks stay, so theirs name them for good.                              *)
(*                                                                         *)
(* A dry run, and a call that throws, end before the first assignment:     *)
(* neither is a step here.  Left out: the data that only travels (colors,  *)
(* mute and solo, loops and their points) and the reads.                   *)
(***************************************************************************)
EXTENDS Integers, Sequences, FiniteSets, SequencesExt, Filters

CONSTANTS
  Slots,          \* the slots of the session, from 0
  Beats,          \* the times of the arrangement, from 0
  Lengths,        \* the lengths a caller sends, of which only a new clip's is checked
  Values,         \* the values a caller asks for, within the limits or not
  Names, Tempos,
  NoteLists,      \* the notes a caller sends: sequences of [at, length]
  Top,            \* the largest value of a parameter, a send, a level
  RoutingChoice,  \* the identifier of each routing choice, by its name
  MaxCalls        \* how many operations are asked for

None == -1
NoNotes == <<[at |-> None, length |-> None]>>  \* an arrangement clip of the fixture has no list

\* Slots and beats are counted from 0; what a caller sends is a number, or a list of
\* notes.
ASSUME SlotAssumption == Slots \subseteq Nat
ASSUME InputAssumption ==
  /\ Beats \subseteq Nat /\ 0 \in Beats /\ Lengths \subseteq Int /\ Values \subseteq Int
  /\ NoteLists \subseteq Seq([at : Int, length : Int])
  /\ Top \in Nat \ {0} /\ MaxCalls \in Nat

VARIABLES
  song,       \* [playing, tempo, time]
  scenes,     \* how many there are
  tracks,     \* each track, by <<section, number>>
  selection,  \* state.selected_context
  told,       \* the objects that the messages of the last operation speak of
  op,         \* the last operation
  calls

vars == <<song, scenes, tracks, selection, told, op, calls>>

Visible == {t \in DOMAIN tracks : t[1] = "visible"}
Returns == {t \in DOMAIN tracks : t[1] = "return"}
Put(f, x, v) == [y \in DOMAIN f \cup {x} |-> IF y = x THEN v ELSE f[y]]
Clamp(value, low, high) == IF value < low THEN low ELSE IF value > high THEN high ELSE value

\* A track as createTrack and createReturnTrack make it.
EmptyTrack(sends, level) ==
  [clips |-> {}, arrangement |-> <<>>, playing |-> None, fired |-> None, level |-> level,
   monitor |-> 1, routing |-> "master", sends |-> sends, devices |-> <<>>]

SessionClip(slot, name, length, notes, steps) ==
  [slot |-> slot, name |-> name, length |-> length, notes |-> notes, steps |-> steps,
   on |-> FALSE]

ArrangementClip(n, start, end, clip) ==
  [id |-> n, index |-> n, start |-> start, end |-> end, name |-> clip.name,
   length |-> clip.length, notes |-> clip.notes, steps |-> clip.steps]

InSession(t, slot) == [track |-> t, place |-> "session", n |-> slot]
InArrangement(t, n) == [track |-> t, place |-> "arrangement", n |-> n]

-----------------------------------------------------------------------------
(* Finding a clip: on the visible tracks only, and the first of several.     *)
SessionIds == UNION {{InSession(t, c.slot) : c \in tracks[t].clips} : t \in Visible}
ArrangementIds ==
  UNION {{InArrangement(t, c.id) : c \in Range(tracks[t].arrangement)} : t \in Visible}
ClipIds == SessionIds \cup ArrangementIds

IndexOf(id) == SelectInSeq(tracks[id.track].arrangement, LAMBDA c : c.id = id.n)

findClip(id) ==
  IF id.place = "session" THEN CHOOSE c \in tracks[id.track].clips : c.slot = id.n
                          ELSE tracks[id.track].arrangement[IndexOf(id)]

\* The record of a track once one of its clips, found by its id, is changed in place.
WithClip(id, clip) ==
  LET track == tracks[id.track]
  IN IF id.place = "session"
     THEN [track EXCEPT !.clips = (@ \ {findClip(id)}) \cup {clip}]
     ELSE [track EXCEPT !.arrangement[IndexOf(id)] = clip]

\* ... and once every clip of the arrangement with that id is replaced by one.
WithEvery(id, clip) ==
  [tracks[id.track] EXCEPT !.arrangement =
     [i \in DOMAIN @ |-> IF @[i].id = id.n THEN clip ELSE @[i]]]

\* A parameter that an envelope can follow: a track's volume, unless it is 0 or was
\* never set; a device's.  Of any track.
EnvelopeTargets ==
  {<<"volume", t>> : t \in {u \in DOMAIN tracks : tracks[u].level \notin {None, 0}}}
    \cup UNION {{<<"device", t, d>> : d \in DOMAIN tracks[t].devices} : t \in DOMAIN tracks}

-----------------------------------------------------------------------------
(* What the session makes of the events: the objects whose data a message    *)
(* brings, or that a dirty path names.                                       *)
Song == <<"song">>
Scenes == <<"scenes">>
Track(t) == <<"track", t>>
Clip(id) == <<"clip", id>>

ClipsOf(track, t) ==
  {InSession(t, c.slot) : c \in track.clips} \cup {InArrangement(t, c.id) : c \in Range(track.arrangement)}

\* A track comes with all it holds.
WholeTrack(track, t) == {Track(t)} \cup {Clip(id) : id \in ClipsOf(track, t)}

Asked(name) ==
  /\ calls < MaxCalls
  /\ calls' = calls + 1 /\ op' = name

Emit(objects) == told' = objects
ChangeTrack(t, track) == tracks' = [tracks EXCEPT ![t] = track]

-----------------------------------------------------------------------------
(* The song.                                                                 *)
setTempo(tempo) ==
  /\ Asked("set_tempo")
  /\ song' = [song EXCEPT !.tempo = tempo]
  /\ Emit({Song})
  /\ UNCHANGED <<scenes, tracks, selection>>

setArrangementTransport(time) ==
  /\ Asked("set_arrangement_transport")
  /\ song' = [song EXCEPT !.time = time]
  /\ Emit({Song})
  /\ UNCHANGED <<scenes, tracks, selection>>

transport(playing) ==
  /\ Asked(IF playing THEN "transport.play" ELSE "transport.stop")
  /\ song' = [song EXCEPT !.playing = playing]
  /\ Emit({Song})
  /\ UNCHANGED <<scenes, tracks, selection>>

(* Tracks and scenes. *)
createTrack ==
  LET t == <<"visible", Cardinality(Visible) + 1>>
      track == EmptyTrack([i \in 1..Cardinality(Returns) |-> 0], None)
  IN
  /\ Asked("create_track")
  /\ tracks' = Put(tracks, t, track)
  /\ Emit(WholeTrack(track, t))
  /\ UNCHANGED <<song, scenes, selection>>

\* Every visible track gets a send to it, of which no event tells.
createReturnTrack ==
  LET t == <<"return", Cardinality(Returns) + 1>>
      track == EmptyTrack(<<>>, Top)
      WithSend == [u \in DOMAIN tracks |->
                     IF u \in Visible THEN [tracks[u] EXCEPT !.sends = Append(@, 0)] ELSE tracks[u]]
  IN
  /\ Asked("create_return_track")
  /\ tracks' = Put(WithSend, t, track)
  /\ Emit(WholeTrack(track, t))
  /\ UNCHANGED <<song, scenes, selection>>

createScene ==
  /\ Asked("create_scene")
  /\ scenes' = scenes + 1
  /\ Emit({Scenes})
  /\ UNCHANGED <<song, tracks, selection>>

(* The mixer and the devices: the event brings the whole track. *)
UpdateTrack(name, t, track) ==
  /\ Asked(name)
  /\ ChangeTrack(t, track)
  /\ Emit(WholeTrack(track, t))
  /\ UNCHANGED <<song, scenes, selection>>

setTrackLevel(t, value) ==
  UpdateTrack("set_level", t, [tracks[t] EXCEPT !.level = Clamp(value, 0, Top)])

setSendLevel(t, send, value) ==
  /\ send \in DOMAIN tracks[t].sends
  /\ UpdateTrack("set_send", t, [tracks[t] EXCEPT !.sends[send] = Clamp(value, 0, Top)])

setMonitorState(t, state) ==
  UpdateTrack("set_monitor", t, [tracks[t] EXCEPT !.monitor = state])

\* The choice of that name, or else what the caller sent.
resolveRoutingChoice(requested) ==
  IF requested \in DOMAIN RoutingChoice THEN RoutingChoice[requested] ELSE requested

setTrackRouting(t, requested) ==
  UpdateTrack("set_routing", t, [tracks[t] EXCEPT !.routing = resolveRoutingChoice(requested)])

\* Any item of the browser that can be loaded makes a device with one parameter.
loadBrowserItem(t) ==
  UpdateTrack("load_browser_item", t, [tracks[t] EXCEPT !.devices = Append(@, 1)])

\* parameters.changed is a dirty path: the parameter's, which its track holds.
setParameter(t, device, value) ==
  /\ Asked("set_parameter")
  /\ device \in DOMAIN tracks[t].devices
  /\ ChangeTrack(t, [tracks[t] EXCEPT !.devices[device] = Clamp(value, 0, Top)])
  /\ Emit({Track(t)})
  /\ UNCHANGED <<song, scenes, selection>>

-----------------------------------------------------------------------------
(* Session clips.                                                            *)
Free(t, slot) == \A c \in tracks[t].clips : c.slot # slot

createClip(t, slot) ==
  /\ Asked("create_clip")
  /\ Free(t, slot)
  /\ \E name \in Names :
       ChangeTrack(t, [tracks[t] EXCEPT !.clips = @ \cup {SessionClip(slot, name, 1, <<>>, {})}])
  /\ Emit({Clip(InSession(t, slot))})
  /\ UNCHANGED <<song, scenes, selection>>

\* A copy does not play.
Copy(clip, slot) == SessionClip(slot, clip.name, clip.length, clip.notes, clip.steps)

\* Mutant of duplicateClip: the target's slot may be taken.
DuplicateOver(id, t, slot) ==
  /\ Asked("duplicate_clip")
  /\ InSession(t, slot) # id
  /\ ChangeTrack(t, [tracks[t] EXCEPT !.clips = @ \cup {Copy(findClip(id), slot)}])
  /\ Emit({Clip(InSession(t, slot))})
  /\ UNCHANGED <<song, scenes, selection>>

duplicateClip(id, t, slot) ==
  /\ Asked("duplicate_clip")
  /\ Free(t, slot)
  /\ ChangeTrack(t, [tracks[t] EXCEPT !.clips = @ \cup {Copy(findClip(id), slot)}])
  /\ Emit({Clip(InSession(t, slot))})
  /\ UNCHANGED <<song, scenes, selection>>

\* A track without its session clip; a slot that played or was fired no longer is.
WithoutSlot(track, slot) ==
  [track EXCEPT !.clips = {c \in @ : c.slot # slot},
                !.playing = IF @ = slot THEN None ELSE @,
                !.fired = IF @ = slot THEN None ELSE @]

\* Mutant of moveSessionClip: the slot is emptied before the copy is made.
MoveDeletingFirst(id, t, slot) ==
  /\ Asked("move_session_clip")
  /\ ChangeTrack(id.track, WithoutSlot(tracks[id.track], id.n))
  /\ Emit({Clip(InSession(t, slot)), Clip(id)})
  /\ UNCHANGED <<song, scenes, selection>>

\* duplicateClip, then deleteClip.
moveSessionClip(id, t, slot) ==
  /\ Asked("move_session_clip")
  /\ Free(t, slot)
  /\ LET copied == [tracks EXCEPT ![t].clips = @ \cup {Copy(findClip(id), slot)}]
     IN tracks' = [copied EXCEPT ![id.track] = WithoutSlot(@, id.n)]
  /\ Emit({Clip(InSession(t, slot)), Clip(id)})
  /\ UNCHANGED <<song, scenes, selection>>

\* Mutant of deleteClip: the track goes on with an empty slot.
DeleteWhilePlaying(id) ==
  LET track == tracks[id.track]
  IN
  /\ Asked("delete_clip")
  /\ ChangeTrack(id.track,
       IF id.place = "session" THEN [track EXCEPT !.clips = {c \in @ : c.slot # id.n}]
       ELSE [track EXCEPT !.arrangement = Filter(@, {c \in Range(@) : c.id # id.n})])
  /\ Emit({Clip(id)})
  /\ UNCHANGED <<song, scenes, selection>>

\* Of the arrangement, every clip with that id; the others keep their ids.
deleteClip(id) ==
  LET track == tracks[id.track]
  IN
  /\ Asked("delete_clip")
  /\ ChangeTrack(id.track,
       IF id.place = "session" THEN WithoutSlot(track, id.n)
       ELSE [track EXCEPT !.arrangement = Filter(@, {c \in Range(@) : c.id # id.n})])
  /\ Emit({Clip(id)})
  /\ UNCHANGED <<song, scenes, selection>>

-----------------------------------------------------------------------------
(* Clips of the arrangement.                                                 *)

\* The next id counts the clips that are there.
AppendClip(t, start, end, clip) ==
  LET n == Len(tracks[t].arrangement) + 1
  IN
  /\ ChangeTrack(t, [tracks[t] EXCEPT !.arrangement = Append(@, ArrangementClip(n, start, end, clip))])
  /\ Emit({Clip(InArrangement(t, n))})

createArrangementClip(t, start, length) ==
  /\ Asked("create_arrangement_clip")
  /\ t \in Visible /\ length > 0
  /\ \E name \in Names :
       AppendClip(t, start, start + length, SessionClip(None, name, length, <<>>, {}))
  /\ UNCHANGED <<song, scenes, selection>>

\* duplicate_arrangement_clip is the same, for clips of the arrangement only.
duplicateClipToArrangement(id, t, start) ==
  /\ \/ Asked("duplicate_clip_to_arrangement")
     \/ id.place = "arrangement" /\ Asked("duplicate_arrangement_clip")
  /\ t \in Visible
  /\ AppendClip(t, start, start + findClip(id).length, findClip(id))
  /\ UNCHANGED <<song, scenes, selection>>

\* The song is moved along.  The two topics it emits are ones nobody subscribes to.
moveArrangementClip(id, start) ==
  LET clip == findClip(id)
  IN
  /\ Asked("move_arrangement_clip")
  /\ ChangeTrack(id.track, WithEvery(id, [clip EXCEPT !.start = start, !.end = start + clip.length]))
  /\ song' = [song EXCEPT !.time = start]
  /\ Emit({})
  /\ UNCHANGED <<scenes, selection>>

setArrangementClipBounds(id, start, end) ==
  /\ Asked("set_arrangement_clip_bounds")
  /\ start < end
  /\ ChangeTrack(id.track,
       WithEvery(id, [findClip(id) EXCEPT !.start = start, !.end = end, !.length = end - start]))
  /\ Emit({Clip(id)})
  /\ UNCHANGED <<song, scenes, selection>>

\* Notes count from the clip's start, or from the song's: from the song's if none is
\* before the clip.
NoteStarts(notes) == {notes[i].at : i \in DOMAIN notes}

arrangementNoteBase(notes, clipStart) ==
  IF notes # <<>> /\ clipStart > 0 /\ \A at \in NoteStarts(notes) : at >= clipStart
  THEN clipStart ELSE 0

\* Mutant of segmentArrangementNotes: the notes keep the times they had.
SegmentUnshifted(clip, from, to) ==
  LET notes == IF clip.notes = NoNotes THEN <<>> ELSE clip.notes
  IN Filter(notes, {note \in Range(notes) :
                      clip.start + note.at >= from /\ clip.start + note.at < to})

\* The part of each note within the segment, counted from its start.
segmentArrangementNotes(clip, from, to) ==
  LET notes == IF clip.notes = NoNotes THEN <<>> ELSE clip.notes
      shift == clip.start - arrangementNoteBase(notes, clip.start)
      Start(note) == IF note.at + shift < from THEN from ELSE note.at + shift
      End(note) == IF note.at + shift + note.length > to THEN to ELSE note.at + shift + note.length
      inside == Filter(notes, {note \in Range(notes) : Start(note) < End(note)})
  IN [i \in DOMAIN inside |-> [at |-> Start(inside[i]) - from,
                               length |-> End(inside[i]) - Start(inside[i])]]

Segment(clip, from, to) ==
  [clip EXCEPT !.start = from, !.end = to, !.length = to - from,
               !.notes = segmentArrangementNotes(clip, from, to)]

\* Mutant of Renumbered: the clips after the two halves keep their ids.
NotRenumbered(list) == list

Renumbered(list) == [i \in DOMAIN list |-> [list[i] EXCEPT !.id = i, !.index = i]]

\* list.slice(0, n): all of it, if it is shorter.
Before(list, n) == SubSeq(list, 1, IF n < Len(list) THEN n ELSE Len(list))

\* The two halves take the place that the clip's own index says.
splitArrangementClip(id, at) ==
  LET clip == findClip(id)
      list == tracks[id.track].arrangement
  IN
  /\ Asked("split_arrangement_clip")
  /\ clip.start < at /\ at < clip.end
  /\ ChangeTrack(id.track, [tracks[id.track] EXCEPT !.arrangement =
       Renumbered(Before(list, clip.index - 1)
                    \o <<Segment(clip, clip.start, at), Segment(clip, at, clip.end)>>
                    \o SubSeq(list, clip.index + 1, Len(list)))])
  /\ Emit({Clip(id)})
  /\ UNCHANGED <<song, scenes, selection>>

-----------------------------------------------------------------------------
(* Clips of either kind.                                                     *)
EditClip(name, id, clip) ==
  /\ Asked(name)
  /\ ChangeTrack(id.track, WithClip(id, clip))
  /\ Emit({Clip(id)})
  /\ UNCHANGED <<song, scenes, selection>>

\* Mutant of renameClip: no event is emitted.
RenameSilently(id, name) ==
  /\ Asked("rename_clip")
  /\ ChangeTrack(id.track, WithClip(id, [findClip(id) EXCEPT !.name = name]))
  /\ Emit({})
  /\ UNCHANGED <<song, scenes, selection>>

renameClip(id, name) == EditClip("rename_clip", id, [findClip(id) EXCEPT !.name = name])

\* The length alone: a clip of the arrangement keeps its end.
setClipLoopOrLength(id, length) ==
  EditClip("set_clip_loop_or_length", id, [findClip(id) EXCEPT !.length = length])

\* A clip with no list of notes makes it throw.
insertNotes(id, notes) ==
  /\ findClip(id).notes # NoNotes
  /\ EditClip("insert_notes", id, [findClip(id) EXCEPT !.notes = @ \o notes])

replaceNotes(id, notes) == EditClip("replace_notes", id, [findClip(id) EXCEPT !.notes = notes])

selectClip(id) ==
  /\ Asked("select_clip")
  /\ selection' = [selection EXCEPT !.clip = <<id>>]
  /\ Emit({})
  /\ UNCHANGED <<song, scenes, tracks>>

-----------------------------------------------------------------------------
(* Envelopes: no event tells of them.                                        *)
Detail(id, parameter, shown) ==
  [selection EXCEPT !.detail = <<id>>, !.parameter = parameter, !.shown = shown]

\* showClipEnvelope and hideClipEnvelope.
showClipEnvelope(id, shown) ==
  /\ Asked("show_clip_envelope")
  /\ selection' = Detail(id, selection.parameter, shown)
  /\ Emit({})
  /\ UNCHANGED <<song, scenes, tracks>>

selectClipEnvelopeParameter(id, p, shown) ==
  /\ Asked("select_clip_envelope_parameter")
  /\ selection' = Detail(id, <<p>>, shown)
  /\ Emit({})
  /\ UNCHANGED <<song, scenes, tracks>>

ChangeSteps(id, steps) ==
  /\ ChangeTrack(id.track, WithClip(id, [findClip(id) EXCEPT !.steps = steps]))
  /\ Emit({})
  /\ UNCHANGED <<song, scenes>>

clearClipEnvelope(id, p) ==
  /\ Asked("clear_clip_envelope")
  /\ ChangeSteps(id, findClip(id).steps \ {p})
  /\ selection' = [selection EXCEPT !.parameter = IF @ = <<p>> THEN <<>> ELSE @]

clearAllClipEnvelopes(id) ==
  /\ Asked("clear_all_clip_envelopes")
  /\ ChangeSteps(id, {})
  /\ selection' = [selection EXCEPT !.parameter = IF selection.detail = <<id>> THEN <<>> ELSE @]

setClipEnvelope(id, p, select) ==
  /\ Asked("set_clip_envelope")
  /\ id.place = "session"
  /\ ChangeSteps(id, findClip(id).steps \cup {p})
  /\ selection' = IF select THEN Detail(id, <<p>>, TRUE) ELSE selection

-----------------------------------------------------------------------------
(* Playing.                                                                  *)
Playing(track, slot) ==
  [track EXCEPT !.playing = slot, !.fired = slot,
                !.clips = {[c EXCEPT !.on = (c.slot = slot)] : c \in @}]

\* A clip of the arrangement only sets the song going.
fireClip(id) ==
  /\ Asked("launch_clip")
  /\ song' = [song EXCEPT !.playing = TRUE]
  /\ tracks' = IF id.place = "arrangement" THEN tracks
               ELSE [tracks EXCEPT ![id.track] = Playing(@, id.n)]
  /\ Emit({Clip(id), Song})
  /\ UNCHANGED <<scenes, selection>>

fireScene(scene) ==
  LET Has(track) == \E c \in track.clips : c.slot = scene - 1
  IN
  /\ Asked("launch_scene")
  /\ song' = [song EXCEPT !.playing = TRUE]
  /\ tracks' = [t \in DOMAIN tracks |->
                  IF t \notin Visible THEN tracks[t]
                  ELSE Playing(tracks[t], IF Has(tracks[t]) THEN scene - 1 ELSE None)]
  /\ Emit({Scenes, Song})
  /\ UNCHANGED <<scenes, selection>>

\* The dirty path is the track's.
stopTrackClips(t) ==
  /\ Asked("stop_track_clips")
  /\ ChangeTrack(t, Playing(tracks[t], None))
  /\ Emit({Track(t)})
  /\ UNCHANGED <<song, scenes, selection>>

\* The dirty path, "song.clips", is no object's.
stopAllClips ==
  /\ Asked("stop_all_clips")
  /\ tracks' = [t \in DOMAIN tracks |-> IF t \in Visible THEN Playing(tracks[t], None) ELSE tracks[t]]
  /\ Emit({})
  /\ UNCHANGED <<song, scenes, selection>>

-----------------------------------------------------------------------------
\* The default set: a beat in the first slot, and an arrangement clip on each track.
FixtureClip(t) ==
  ArrangementClip(1, t - 1, t + 1, SessionClip(None, "a", 2, NoNotes, {}))

Init ==
  /\ song = [playing |-> FALSE, tempo |-> 1, time |-> 0]
  /\ scenes = 2
  /\ tracks = [t \in {<<"visible", 1>>, <<"visible", 2>>, <<"return", 1>>} |->
       IF t[1] = "return" THEN [EmptyTrack(<<>>, None) EXCEPT !.devices = <<>>]
       ELSE [EmptyTrack(<<0>>, None) EXCEPT
               !.devices = <<1>>,
               !.arrangement = <<FixtureClip(t[2])>>,
               !.clips = IF t[2] = 1 THEN {SessionClip(0, "a", 1, <<[at |-> 0, length |-> 1]>>, {})} ELSE {}]]
  /\ selection = [clip |-> <<>>, detail |-> <<>>, parameter |-> <<>>, shown |-> FALSE]
  /\ told = {} /\ op = "none" /\ calls = 0

OnSong ==
  \/ \E tempo \in Tempos : setTempo(tempo)
  \/ \E time \in Beats : setArrangementTransport(time)
  \/ \E playing \in BOOLEAN : transport(playing)
  \/ createTrack \/ createReturnTrack \/ createScene
  \/ \E scene \in 1..scenes : fireScene(scene)
  \/ stopAllClips

OnTrack ==
  \E t \in DOMAIN tracks :
    \/ \E value \in Values :
         \/ setTrackLevel(t, value)
         \/ \E i \in DOMAIN tracks[t].sends : setSendLevel(t, i, value)
         \/ \E i \in DOMAIN tracks[t].devices : setParameter(t, i, value)
    \/ \E state \in {2} : setMonitorState(t, state)
    \/ \E requested \in {"sends only", "other"} : setTrackRouting(t, requested)
    \/ loadBrowserItem(t)
    \/ stopTrackClips(t)
    \/ \E slot \in Slots : createClip(t, slot)
    \/ \E start \in Beats, length \in Lengths : createArrangementClip(t, start, length)

OnSessionClip ==
  \E id \in SessionIds :
    \E t \in DOMAIN tracks, slot \in Slots : duplicateClip(id, t, slot) \/ moveSessionClip(id, t, slot)

OnArrangementClip ==
  \E id \in ArrangementIds, at \in Beats :
    \/ moveArrangementClip(id, at)
    \/ splitArrangementClip(id, at)
    \/ \E end \in Beats : setArrangementClipBounds(id, at, end)

OnClip ==
  \E id \in ClipIds :
    \/ deleteClip(id) \/ selectClip(id) \/ fireClip(id) \/ clearAllClipEnvelopes(id)
    \/ \E name \in Names : renameClip(id, name)
    \/ \E length \in Lengths : setClipLoopOrLength(id, length)
    \/ \E notes \in NoteLists : insertNotes(id, notes) \/ replaceNotes(id, notes)
    \/ \E t \in Visible, start \in Beats : duplicateClipToArrangement(id, t, start)
    \/ \E shown \in BOOLEAN :
         \/ showClipEnvelope(id, shown)
         \/ \E p \in EnvelopeTargets :
              selectClipEnvelopeParameter(id, p, shown) \/ setClipEnvelope(id, p, shown)
    \/ \E p \in EnvelopeTargets : clearClipEnvelope(id, p)

Next == OnSong \/ OnTrack \/ OnSessionClip \/ OnArrangementClip \/ OnClip

Spec == Init /\ [][Next]_vars
-----------------------------------------------------------------------------
Content(clip) == [name |-> clip.name, length |-> clip.length, notes |-> clip.notes, steps |-> clip.steps]
Clips == UNION {{<<t, c.slot, Content(c)>> : c \in tracks[t].clips} : t \in DOMAIN tracks}
Numbered(track) == \A i \in DOMAIN track.arrangement : track.arrangement[i].id = i

\* Types, bounds, and no two clips in one slot.
TypeOK ==
  /\ song.playing \in BOOLEAN /\ song.tempo \in Tempos \cup {1} /\ song.time \in Beats
  /\ scenes \in Nat /\ calls \in 0..MaxCalls
  /\ \A t \in DOMAIN tracks :
       /\ tracks[t].level \in {None} \cup 0..Top
       /\ Range(tracks[t].sends) \cup Range(tracks[t].devices) \subseteq 0..Top
       /\ t \in Visible => Len(tracks[t].sends) = Cardinality(Returns)
       /\ \A c, d \in tracks[t].clips : c.slot = d.slot => c = d
       /\ \A c \in Range(tracks[t].arrangement) : c.index = c.id /\ c.id \in Nat \ {0}

(* The slot that a track says is playing holds the one clip of the track that
   says so of itself: launches, scenes, stops, moves and deletions keep the two
   records of it together. *)
PlayingAgrees ==
  \A t \in DOMAIN tracks :
    /\ tracks[t].playing = tracks[t].fired
    /\ {c.slot : c \in {d \in tracks[t].clips : d.on}} = {tracks[t].playing} \ {None}

(* A clip of the arrangement is at the place its id names, until one is deleted:
   the next id is a count, and a split goes by the index the clip was made with. *)
NumberingLasts ==
  [][\A t \in Visible :
       Numbered(tracks[t]) => Numbered(tracks'[t]) \/ op' = "delete_clip"]_vars

\* An arrangement after a move in it: only clips of one id are touched, and if no two
\* clips share an id, the one that is moved keeps what it holds.
Distinct(list) == \A i, j \in DOMAIN list : list[i].id = list[j].id => i = j
MovedWithin(list, new) ==
  /\ Len(new) = Len(list)
  /\ \A i, j \in DOMAIN list : new[i] # list[i] /\ new[j] # list[j] => list[i].id = list[j].id
  /\ Distinct(list) => \A i \in DOMAIN list :
                         new[i].id = list[i].id /\ Content(new[i]) = Content(list[i])

(* A move loses no clip and nothing that a clip holds, whatever is at the
   target: in the session always; in an arrangement unless ids are repeated in
   it, as they may be once a clip was deleted.  Then every clip with the id is
   replaced by a copy of the first. *)
MoveKeepsClips ==
  [][op' \in {"move_session_clip", "move_arrangement_clip"} =>
       /\ Cardinality(Clips') = Cardinality(Clips)
       /\ {c[3] : c \in Clips'} = {c[3] : c \in Clips}
       /\ \A t \in Visible : MovedWithin(tracks[t].arrangement, tracks'[t].arrangement)]_vars

\* When a clip's notes count from its start, the beats at which the track sounds.
Counted(track) ==
  \A c \in Range(track.arrangement) : c.notes # NoNotes /\ arrangementNoteBase(c.notes, c.start) = 0
Sounding(track) ==
  UNION {(UNION {(c.start + n.at)..(c.start + n.at + n.length - 1) : n \in Range(c.notes)})
           \cap c.start..(c.end - 1) : c \in Range(track.arrangement)}

(* A split changes nothing that is heard: a note across the split is cut in two,
   and the others stay where they were, in one half or the other. *)
SplitKeepsNotes ==
  [][op' = "split_arrangement_clip" =>
       \A t \in Visible :
         Numbered(tracks[t]) /\ Counted(tracks[t]) => Sounding(tracks'[t]) = Sounding(tracks[t])]_vars

\* The data of the set that a mirror holds, by object; several clips may have one id.
\* What plays is apart.
Data(ts, t) ==
  {<<Track(t), ts[t].level, ts[t].monitor, ts[t].routing, ts[t].sends, ts[t].devices>>}
    \cup {<<Clip(InSession(t, c.slot)), Content(c)>> : c \in ts[t].clips}
    \cup {<<Clip(InArrangement(t, c.id)), Content(c), c.start, c.end>> : c \in Range(ts[t].arrangement)}
AllData ==
  (UNION {Data(tracks, t) : t \in DOMAIN tracks}) \cup {<<Song, song>>, <<Scenes, scenes>>}

PlayingSlots == {<<Track(t), tracks[t].playing>> : t \in DOMAIN tracks}
PlayingClips ==
  UNION {{<<Clip(InSession(t, c.slot)), c.on>> : c \in tracks[t].clips} : t \in DOMAIN tracks}

\* No event, one that nobody subscribes to, or one that names a part of what changed.
Silent == {"set_clip_envelope", "clear_clip_envelope", "clear_all_clip_envelopes",
           "move_arrangement_clip", "split_arrangement_clip", "create_return_track"}

\* Another slot of a track plays, and no event names the track; other clips start or
\* stop than the one that the event names, if it names any.
SlotsUntold ==
  {"launch_clip", "launch_scene", "stop_all_clips", "delete_clip", "move_session_clip"}
ClipsUntold == {"launch_clip", "launch_scene", "stop_track_clips", "stop_all_clips"}

\* The objects that are not as they were.
Differing(old, new) == {d[1] : d \in (old \ new) \cup (new \ old)}

(* Whatever an operation changes in the data that the session mirrors, the
   messages that follow bring it or mark it dirty, except for the operations
   listed, which only a refresh shows: what plays, of a track or of a clip, has
   exceptions of its own. *)
ChangesAreTold ==
  [][op' \notin Silent =>
       /\ Differing(AllData, AllData') \subseteq told'
       /\ op' \notin SlotsUntold => Differing(PlayingSlots, PlayingSlots') \subseteq told'
       /\ op' \notin ClipsUntold => Differing(PlayingClips, PlayingClips') \subseteq told']_vars
=============================================================================
