---------------------------- MODULE Instruments ----------------------------
(***************************************************************************)
(* What an instrument of the experiment records and what the sequencer     *)
(* plays of it (experiment/app/views/*View.js, audio/Track.js, the tracks  *)
(* of audio/Sequencer.js and AudioManager.js, util/StateManager.js).       *)
(*                                                                         *)
(* An instrument keeps its notes in data.recorded.  A track is a copy of   *)
(* them, made when the data is loaded and when a recording ends; the       *)
(* sequencer plays it while the instrument is collapsed.  The five views   *)
(* differ in when a note is recorded; a behaviour follows one of them.     *)
(***************************************************************************)
EXTENDS Integers, Sequences, FiniteSets

CONSTANTS
    LoopBeats,      \* beats of the sequencer's loop
    ArpBeats,       \* LOOP_LENGTH: the arpeggiator plays on every so many beats
    Voices,         \* what an instrument can sound: quadrants, drums, strings, hexagons
    Stored,         \* the recordings that the page may be loaded with
    MaxNotes,       \* bound: notes of a recording
    MaxTracks       \* bound: tracks that are created

ASSUME InstrumentsAssumption ==
    /\ LoopBeats \in Nat \ {0} /\ ArpBeats \in 1..LoopBeats
    /\ {MaxNotes, MaxTracks} \subseteq Nat \ {0} /\ Voices # {}
    /\ \A notes \in Stored : notes \in Seq([beat : 0..(LoopBeats - 1), sound : Voices])

Kinds == {"arpeggiator", "drums", "guitar", "hexagon", "parallelogram"}

VARIABLES
    kind,           \* which of the five views this is
    state,          \* APPLICATION_STATE: "collapsed" or "expand"
    recording,      \* isRecording: what sounds is noted
    countingDown,   \* of the record button: the next first beat starts a recording
    recorded,       \* data.recorded
    firstLoadData,  \* the recording of StateManager's firstLoadData
    currentTrack,
    lookup,         \* what each track plays, by beat
    tracks,         \* the tracks of the sequencer
    currentBeat,
    quadrant, isDragging,       \* the arpeggiator's
    handlers,       \* its handlers that are attached: "keydown", "keyup"
    pressed,        \* the parallelograms that sound
    strayed,        \* history: a note came into the recording while none was made
    resetOpen       \* history: the data was reset while the instrument was expanded

performance == <<quadrant, isDragging, handlers, pressed>>
history == <<strayed, resetOpen>>
instrumentVars == <<kind, state, recording, countingDown, recorded, firstLoadData, currentTrack,
                    lookup, tracks, currentBeat, performance, history>>

\* createRecordedTrack: the notes of every beat, in the order of the recording.
NotesAt(notes, b) ==
    LET found[i \in 0..Len(notes)] ==
            IF i = 0 THEN <<>>
            ELSE IF notes[i].beat = b THEN Append(found[i - 1], notes[i]) ELSE found[i - 1]
    IN  found[Len(notes)]

Lookup(notes) == [b \in 0..(LoopBeats - 1) |-> NotesAt(notes, b)]

\* scheduleNote: what the sequencer plays at a beat, track by track.
PlayedAt(b) == {[track |-> t, notes |-> lookup[t][b]] : t \in tracks}

NewTrack(notes) ==
    /\ Len(lookup) < MaxTracks
    /\ lookup' = Append(lookup, Lookup(notes)) /\ currentTrack' = Len(lookup) + 1

\* The page has loaded the data: Root.init calls loadData of every view.
InstrumentInit ==
    /\ kind \in Kinds /\ state = "collapsed" /\ recording = FALSE /\ countingDown = FALSE
    /\ firstLoadData \in Stored /\ recorded = firstLoadData
    /\ lookup = <<Lookup(recorded)>> /\ currentTrack = 1 /\ tracks = {1}
    /\ currentBeat = LoopBeats - 1
    /\ quadrant = (CHOOSE q \in Voices : TRUE) /\ isDragging = FALSE /\ handlers = {} /\ pressed = {}
    /\ strayed = FALSE /\ resetOpen = FALSE

-----------------------------------------------------------------------------
(* Opening, closing and resetting.                                         *)

\* animationExpanded: the user plays instead of the track.
Expand ==
    /\ state = "collapsed" /\ state' = "expand"
    /\ tracks' = tracks \ {currentTrack}
    /\ handlers' = IF kind = "arpeggiator" THEN {"keydown", "keyup"} ELSE handlers
    /\ UNCHANGED <<kind, recording, countingDown, recorded, firstLoadData, currentTrack, lookup,
                   currentBeat, quadrant, isDragging, pressed, history>>

(***************************************************************************)
(* animationCollapsed: the track plays again.  The arpeggiator removes the *)
(* handler of keyup twice and leaves that of keydown attached.             *)
(***************************************************************************)
Collapse ==
    /\ state = "expand" /\ state' = "collapsed"
    /\ tracks' = tracks \union {currentTrack}
    /\ handlers' = handlers \ {"keyup"}
    /\ UNCHANGED <<kind, recording, countingDown, recorded, firstLoadData, currentTrack, lookup,
                   currentBeat, quadrant, isDragging, pressed, history>>

\* Mutant: the track of before the reset goes on playing.
ResetKeepsTrack ==
    /\ NewTrack(firstLoadData) /\ recorded' = firstLoadData
    /\ tracks' = tracks \union {currentTrack'}
    /\ resetOpen' = (resetOpen \/ state = "expand") /\ pressed' = {}
    /\ UNCHANGED <<kind, state, recording, countingDown, firstLoadData, currentBeat, quadrant,
                   isDragging, handlers, strayed>>

\* The reset button: reloadFirstLoadData, and loadData of every view, expanded or not.
Reset ==
    /\ NewTrack(firstLoadData) /\ recorded' = firstLoadData
    /\ tracks' = (tracks \ {currentTrack}) \union {currentTrack'}
    /\ resetOpen' = (resetOpen \/ state = "expand")
    /\ pressed' = {}
    /\ UNCHANGED <<kind, state, recording, countingDown, firstLoadData, currentBeat, quadrant,
                   isDragging, handlers, strayed>>

-----------------------------------------------------------------------------
(* Recording.                                                              *)

StartCountdown ==
    /\ state = "expand" /\ ~countingDown /\ countingDown' = TRUE
    /\ UNCHANGED <<kind, state, recording, recorded, firstLoadData, currentTrack, lookup, tracks,
                   currentBeat, performance, history>>

\* stopRecording: a new track for what was recorded, which Collapse gives to the sequencer.
StopRecording ==
    /\ state = "expand" /\ recording /\ recording' = FALSE
    /\ NewTrack(recorded)
    /\ UNCHANGED <<kind, state, countingDown, recorded, firstLoadData, tracks, currentBeat,
                   performance, history>>

\* Where a note goes: the parallelograms put theirs first.
Added(sound) ==
    LET note == [beat |-> currentBeat', sound |-> sound] IN
    IF kind = "parallelogram" THEN <<note>> \o recorded ELSE Append(recorded, note)

(***************************************************************************)
(* BEAT: the view notes the beat; what counts down starts to record on the *)
(* first one; the arpeggiator plays while its cursor is dragged.  The      *)
(* view's listener is older than the record button's.                      *)
(***************************************************************************)
OnBeat ==
    LET starts == countingDown /\ ~recording /\ currentBeat' = 0
        plays == /\ kind = "arpeggiator" /\ state = "expand" /\ isDragging
                 /\ currentBeat' % ArpBeats = 0
    IN  /\ currentBeat' = (currentBeat + 1) % LoopBeats
        /\ plays /\ recording => Len(recorded) < MaxNotes
        /\ recorded' = IF starts THEN <<>> ELSE IF plays /\ recording THEN Added(quadrant) ELSE recorded
        /\ recording' = (recording \/ starts)
        /\ countingDown' = (countingDown /\ ~starts)
        /\ UNCHANGED <<kind, state, firstLoadData, currentTrack, lookup, tracks, performance, history>>

-----------------------------------------------------------------------------
(* Playing.                                                                *)

Record(sound) ==
    /\ Len(recorded) < MaxNotes /\ recorded' = Added(sound)
    /\ strayed' = (strayed \/ ~recording)
    /\ UNCHANGED <<kind, state, recording, countingDown, firstLoadData, currentTrack, lookup,
                   tracks, currentBeat, quadrant, isDragging, handlers, resetOpen>>

\* A drum, which a ball may hit as well, or a string: the note counts while recording.
Hit(sound) ==
    /\ kind \in {"drums", "guitar"} /\ state = "expand" /\ recording
    /\ currentBeat' = currentBeat /\ Record(sound) /\ UNCHANGED pressed

\* activateHexagon puts every note that the user plays into the recording.
PlayHexagon(sound) ==
    /\ kind = "hexagon" /\ state = "expand"
    /\ currentBeat' = currentBeat /\ Record(sound) /\ UNCHANGED pressed

\* A parallelogram sounds from the press to the release, which is what it records.
PressParallelogram(sound) ==
    /\ kind = "parallelogram" /\ state = "expand" /\ sound \notin pressed
    /\ pressed' = pressed \union {sound}
    /\ UNCHANGED <<kind, state, recording, countingDown, recorded, firstLoadData, currentTrack,
                   lookup, tracks, currentBeat, quadrant, isDragging, handlers, history>>

ReleaseParallelogram(sound) ==
    /\ kind = "parallelogram" /\ state = "expand"
    /\ pressed' = pressed \ {sound}
    /\ currentBeat' = currentBeat
    /\ IF recording THEN Record(sound)
       ELSE UNCHANGED <<kind, state, recording, countingDown, recorded, firstLoadData, currentTrack,
                        lookup, tracks, quadrant, isDragging, handlers, history>>

Cursor(q, held) ==
    /\ quadrant' = q /\ isDragging' = held
    /\ UNCHANGED <<kind, state, recording, countingDown, recorded, firstLoadData, currentTrack,
                   lookup, tracks, currentBeat, handlers, pressed, history>>

\* The arpeggiator's circle: pressed, moved to a quadrant, released.
Drag(q) == kind = "arpeggiator" /\ state = "expand" /\ Cursor(q, TRUE)
Release == kind = "arpeggiator" /\ state = "expand" /\ isDragging /\ Cursor(quadrant, FALSE)

\* A number key moves the cursor; while the instrument is collapsed the release goes unseen.
KeyDown(q) == kind = "arpeggiator" /\ "keydown" \in handlers /\ Cursor(q, TRUE)
KeyUp == kind = "arpeggiator" /\ "keyup" \in handlers /\ isDragging /\ Cursor(quadrant, FALSE)

\* The sequencer plays a note of the collapsed arpeggiator: the cursor goes to its quadrant.
FollowTrack ==
    /\ kind = "arpeggiator" /\ state = "collapsed"
    /\ \E played \in PlayedAt(currentBeat) :
         \E i \in DOMAIN played.notes : Cursor(played.notes[i].sound, isDragging)

InstrumentNext ==
    \/ Expand \/ Collapse \/ Reset
    \/ StartCountdown \/ StopRecording \/ OnBeat
    \/ \E s \in Voices : \/ Hit(s) \/ PlayHexagon(s) \/ Drag(s) \/ KeyDown(s)
                         \/ PressParallelogram(s) \/ ReleaseParallelogram(s)
    \/ Release \/ KeyUp \/ FollowTrack

InstrumentSpec == InstrumentInit /\ [][InstrumentNext]_instrumentVars

-----------------------------------------------------------------------------

Notes == [beat : 0..(LoopBeats - 1), sound : Voices]

InstrumentTypeOK ==
    /\ kind \in Kinds /\ state \in {"collapsed", "expand"}
    /\ {recording, countingDown, isDragging, strayed, resetOpen} \subseteq BOOLEAN
    /\ recorded \in Seq(Notes) /\ firstLoadData \in Stored
    /\ currentTrack \in 1..Len(lookup) /\ tracks \subseteq 1..Len(lookup) /\ Len(lookup) <= MaxTracks
    /\ currentBeat \in 0..(LoopBeats - 1) /\ quadrant \in Voices /\ pressed \subseteq Voices
    /\ handlers \subseteq {"keydown", "keyup"}

(***************************************************************************)
(* What one hears of an instrument that is not being played is its         *)
(* recording, each note once, and so what a shared link holds (toURL reads *)
(* data.recorded): no track of an earlier recording plays on, and none is  *)
(* missing, however recordings, resets and the browser's buttons follow    *)
(* each other.  Two ways of the code to lose this are left out: a reset    *)
(* of an expanded instrument, and a hexagon played outside a recording.    *)
(***************************************************************************)
HeardIsShared ==
    ~strayed /\ ~resetOpen =>
      /\ tracks = IF state = "collapsed" THEN {currentTrack} ELSE {}
      /\ ~recording => lookup[currentTrack] = Lookup(recorded)

=============================================================================
