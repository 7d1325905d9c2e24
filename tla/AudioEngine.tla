---------------------------- MODULE AudioEngine ----------------------------
(***************************************************************************)
(* How the experiment starts, fades and stops its sound: the toggles on the *)
(* floating button (app/elements/experiment-fab.html), start, pause, play  *)
(* and tearDown of experiment/app/core.js, the volume and the tab's        *)
(* visibility in audio/AudioManager.js, the look-ahead scheduling of       *)
(* audio/Sequencer.js, and the web worker of audio/Metronome.js.           *)
(*                                                                         *)
(* Several fades can be under way: each is a GSAP tween of an object of    *)
(* its own that writes the gain on every animation frame.  The worker gets *)
(* its commands, and the page its ticks, as messages.                      *)
(***************************************************************************)
EXTENDS Integers, Sequences, FiniteSets

CONSTANTS
    Fade,           \* frames that the fade of a pause, a play or an exit takes
    Delay, Long,    \* frames before and of the fade-in at the start and of a tab that is shown
    TotalBeats,     \* TOTAL_BEATS
    NoteLength,     \* A_16TH_NOTE_DURATION, in units of the audio clock
    LookAhead,      \* SCHEDULE_AHEAD_SECONDS, in the same units
    Interval,       \* LOOK_AHEAD_MS: the metronome's period, in the same units
    MaxBehind,      \* bound: how far the next note lies in the past
    MaxTicks,       \* bound: ticks that wait for the page
    MaxToggles,     \* bound: pauses and plays
    MaxHides        \* bound: how often the tab is hidden

ASSUME AudioEngineAssumption ==
    /\ {Fade, Long, TotalBeats, NoteLength, Interval} \subseteq Nat \ {0}
    /\ {Delay, LookAhead, MaxBehind, MaxTicks, MaxToggles, MaxHides} \subseteq Nat

VARIABLES
    mode,       \* what the button shows: "off", "playing", "paused", "closing", "closed"
    hidden,     \* document.hidden
    listening,  \* whether the visibility listener is attached
    isRunning,
    volume,     \* the gain: "none", "full", or "mid" while a fade is in between
    tweens,     \* fades, oldest first, until all are over
    mailbox,    \* commands on their way to the worker
    timers,     \* the worker's intervals: time to the next tick of each
    timerID,    \* the one the worker can stop, or 0
    ticks,      \* ticks on their way to the page
    beat,       \* current16thNote
    ahead,      \* nextNoteTime - currentTime
    first,      \* history: nothing was scheduled since the sequencer started
    delayed,    \* history: a message has waited since then
    toggles, hides

button == <<mode, hidden, listening, toggles, hides>>
sound == <<isRunning, volume, tweens>>
worker == <<timers, timerID>>
sequencer == <<beat, ahead, first, delayed>>
engineVars == <<button, sound, mailbox, worker, ticks, sequencer>>

EngineInit ==
    /\ mode = "off" /\ hidden \in BOOLEAN /\ listening = FALSE /\ toggles = 0 /\ hides = 0
    /\ isRunning = FALSE /\ volume = "full" /\ tweens = <<>>
    /\ mailbox = <<>> /\ timers = <<>> /\ timerID = 0 /\ ticks = 0
    /\ beat = 0 /\ ahead = 0 /\ first = TRUE /\ delayed = FALSE

-----------------------------------------------------------------------------
(* AudioManager: start, stop and the fades.                                *)

\* start(): the gain is cut, the sequencer takes the next note to be due now.
Start ==
    IF isRunning THEN UNCHANGED <<isRunning, volume, mailbox, sequencer>>
    ELSE /\ isRunning' = TRUE /\ volume' = "none"
         /\ mailbox' = Append(mailbox, "start")
         /\ ahead' = 0 /\ first' = TRUE /\ delayed' = FALSE
         /\ UNCHANGED beat

\* stop(): the metronome is told to stop; the next note stays where it is.
Stop ==
    /\ isRunning' = FALSE
    /\ mailbox' = IF isRunning THEN Append(mailbox, "stop") ELSE mailbox

FadeIn(frames, wait) ==
    /\ Start
    /\ tweens' = Append(tweens, [to |-> "full", wait |-> wait, left |-> frames, then |-> "none"])

\* What happens when the fade is over, if it ever is.
FadeOut(then) ==
    /\ tweens' = Append(tweens, [to |-> "none", wait |-> 0, left |-> Fade, then |-> then])
    /\ UNCHANGED <<isRunning, volume, mailbox, sequencer>>

-----------------------------------------------------------------------------
(* core.js and the button.                                                 *)

\* The experiment is entered; the visibility listener is attached first.
Enter ==
    /\ mode = "off" /\ mode' = "playing" /\ listening' = TRUE
    /\ FadeIn(Long, Delay)
    /\ UNCHANGED <<hidden, toggles, hides, worker, ticks>>

Click == ~hidden /\ toggles < MaxToggles /\ toggles' = toggles + 1

Pause ==
    /\ mode = "playing" /\ Click /\ mode' = "paused"
    /\ FadeOut("stop")
    /\ UNCHANGED <<hidden, listening, hides, worker, ticks>>

Play ==
    /\ mode = "paused" /\ Click /\ mode' = "playing"
    /\ FadeIn(Fade, 0)
    /\ UNCHANGED <<hidden, listening, hides, worker, ticks>>

\* The exit button shows while the experiment is paused; the browser's Back works any time.
Exit ==
    /\ mode \in {"playing", "paused"} /\ ~hidden /\ mode' = "closing"
    /\ FadeOut("tearDown")
    /\ UNCHANGED <<hidden, listening, toggles, hides, worker, ticks>>

-----------------------------------------------------------------------------
(* The tab's visibility.                                                   *)

Hide ==
    /\ ~hidden /\ hides < MaxHides /\ hidden' = TRUE /\ hides' = hides + 1
    /\ IF listening THEN Stop ELSE UNCHANGED <<isRunning, mailbox>>
    /\ UNCHANGED <<mode, listening, toggles, volume, tweens, worker, ticks, sequencer>>

\* A tab that is shown again is faded in, whatever the button shows.
Show ==
    /\ hidden /\ hidden' = FALSE
    /\ IF listening THEN FadeIn(Long, Delay)
                    ELSE UNCHANGED <<sound, mailbox, sequencer>>
    /\ UNCHANGED <<mode, listening, toggles, hides, worker, ticks>>

\* Mutant: tearDown leaves the visibility listener attached.
ListensOn(ended) == listening

\* tearDown removes the visibility listener.
StillListening(ended) == listening /\ "tearDown" \notin ended

FadeOver(t) == t.left = 0
Progress(t) == IF FadeOver(t) THEN t
               ELSE IF t.wait > 0 THEN [t EXCEPT !.wait = @ - 1] ELSE [t EXCEPT !.left = @ - 1]

(***************************************************************************)
(* One animation frame of a visible tab: every fade writes the gain, the   *)
(* oldest first, and the promises of those that are over are kept after    *)
(* all have written.  A fade that is over is forgotten with the others.    *)
(***************************************************************************)
Frame ==
    LET moved == [i \in DOMAIN tweens |-> Progress(tweens[i])]
        writers == {i \in DOMAIN tweens : tweens[i].wait = 0 /\ ~FadeOver(tweens[i])}
        ended == {moved[i].then : i \in {j \in writers : FadeOver(moved[j])}}
    IN  /\ ~hidden /\ tweens # <<>>
        /\ tweens' = IF \A i \in DOMAIN moved : FadeOver(moved[i]) THEN <<>> ELSE moved
        /\ \/ writers = {} /\ UNCHANGED volume
           \/ \E last \in writers :
                /\ \A i \in writers : i <= last
                /\ volume' = IF FadeOver(moved[last]) THEN moved[last].to ELSE "mid"
        /\ IF ended \intersect {"stop", "tearDown"} # {}
           THEN Stop ELSE UNCHANGED <<isRunning, mailbox>>
        /\ listening' = StillListening(ended)
        /\ mode' = IF "tearDown" \in ended THEN "closed" ELSE mode
        /\ UNCHANGED <<hidden, toggles, hides, worker, ticks, sequencer>>

-----------------------------------------------------------------------------
(* The metronome's worker and the sequencer.                               *)

\* The worker handles a command.  A second start forgets the interval of the first.
Command ==
    /\ mailbox # <<>> /\ mailbox' = Tail(mailbox)
    /\ IF Head(mailbox) = "start"
       THEN timers' = Append(timers, Interval) /\ timerID' = Len(timers) + 1
       ELSE /\ timers' = IF timerID = 0 THEN timers
                         ELSE [i \in 1..(Len(timers) - 1) |-> timers[IF i < timerID THEN i ELSE i + 1]]
            /\ timerID' = 0
    /\ UNCHANGED <<button, sound, ticks, sequencer>>

\* Time passes: the next note comes closer, and an interval that is over posts a tick.
Clock ==
    LET fired == {i \in DOMAIN timers : timers[i] = 1} IN
    /\ ticks + Cardinality(fired) <= MaxTicks
    /\ ahead > -MaxBehind
    /\ ahead' = ahead - 1
    /\ timers' = [i \in DOMAIN timers |-> IF i \in fired THEN Interval ELSE timers[i] - 1]
    /\ ticks' = ticks + Cardinality(fired)
    /\ delayed' = (delayed \/ ticks > 0 \/ mailbox # <<>>)
    /\ UNCHANGED <<button, sound, mailbox, timerID, beat, first>>

\* Mutant: only the notes that are due are scheduled.
UpcomingDue == Cardinality({k \in 0..(MaxBehind + LookAhead) : ahead + k * NoteLength < 0})

\* How many notes onTick schedules: those that start before the look-ahead is over.
Upcoming == Cardinality({k \in 0..(MaxBehind + LookAhead) : ahead + k * NoteLength < LookAhead})

\* onTick(): notes are scheduled until the next one lies beyond the look-ahead.
OnTick ==
    /\ ticks > 0 /\ ticks' = ticks - 1
    /\ beat' = (beat + Upcoming) % TotalBeats
    /\ ahead' = ahead + Upcoming * NoteLength
    /\ first' = (first /\ Upcoming = 0)
    /\ UNCHANGED <<button, sound, mailbox, worker, delayed>>

EngineNext ==
    \/ Enter \/ Pause \/ Play \/ Exit \/ Hide \/ Show
    \/ Frame \/ Command \/ Clock \/ OnTick

EngineSpec == EngineInit /\ [][EngineNext]_engineVars

-----------------------------------------------------------------------------

Tweens == [to : {"none", "full"}, wait : 0..Delay, left : 0..(Fade + Long), then : {"none", "stop", "tearDown"}]

EngineTypeOK ==
    /\ mode \in {"off", "playing", "paused", "closing", "closed"}
    /\ hidden \in BOOLEAN /\ listening \in BOOLEAN /\ isRunning \in BOOLEAN
    /\ volume \in {"none", "mid", "full"} /\ \A i \in DOMAIN tweens : tweens[i] \in Tweens
    /\ \A i \in DOMAIN mailbox : mailbox[i] \in {"start", "stop"}
    /\ \A i \in DOMAIN timers : timers[i] \in 1..Interval
    /\ timerID \in 0..Len(timers) /\ ticks \in 0..MaxTicks
    /\ beat \in 0..(TotalBeats - 1) /\ ahead \in -MaxBehind..(LookAhead + NoteLength)

(***************************************************************************)
(* The worker has one interval while sound runs and none otherwise, once   *)
(* it has read its commands, however starts, fades and visibility changes  *)
(* interleave: a second one could never be stopped, and would schedule     *)
(* notes of a sequencer that was stopped (Metronome.js keeps one timerID). *)
(***************************************************************************)
OneMetronome ==
    /\ Len(timers) <= 1
    /\ mailbox = <<>> => timers = <<>> <=> ~isRunning

(***************************************************************************)
(* When every fade is over and sound runs, it is at full volume: of the    *)
(* fades that compete for the gain a fade-out never has the last word      *)
(* without stopping the sound as well (AudioManager.js: fadeIn, fadeOut).  *)
(***************************************************************************)
FullVolumeAtRest == tweens = <<>> /\ isRunning => volume = "full"

(***************************************************************************)
(* The metronome's period is no longer than the look-ahead: as long as no  *)
(* message is delayed, every note but the first after a start is scheduled *)
(* before it is due (Sequencer.js: onTick, "while there are notes that     *)
(* will need to play before the next interval").                           *)
(***************************************************************************)
ScheduledInTime ==
    [][ticks' < ticks /\ ~delayed /\ Upcoming > 0 => ahead + (IF first THEN NoteLength ELSE 0) >= 0]_engineVars

(***************************************************************************)
(* The experiment that was left stays silent, though the tab is hidden and *)
(* shown after the fade or under it; with OneMetronome its worker stops as *)
(* well (core.js: tearDown).                                               *)
(***************************************************************************)
ClosedIsSilent == mode = "closed" => ~isRunning

(***************************************************************************)
(* The metronome runs exactly while sound does, an experiment that was     *)
(* left runs neither, and a sound that no fade is changing is at full      *)
(* volume, whatever fades competed for it (core.js: tearDown;              *)
(* AudioManager.js: fadeIn, fadeOut; Metronome.js).                        *)
(***************************************************************************)
SoundAsShown == OneMetronome /\ ClosedIsSilent /\ FullVolumeAtRest

=============================================================================
