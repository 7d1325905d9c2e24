------------------------------ MODULE Countdown ------------------------------
(***************************************************************************)
(* The countdown of the registration and the error pages                   *)
(* (elements/countdown-timer: the element, its timer and its renderer).    *)
(* A value is shown for one cycle: its digits move in, wait and move out,  *)
(* except those that the next value shares, which stay.  Nothing but the   *)
(* frames of the browser drives it: how long they take is open.            *)
(***************************************************************************)
EXTENDS CountdownDigits, FiniteSetsExt

CONSTANTS
    EaseInTime, WaitTime, EaseOutTime,  \* the three phases of a cycle, in units of time
    Second,         \* units in a second
    Minute, Hour, Day,  \* seconds in a minute, minutes in an hour, hours in a day
    RippleTime,     \* how long a ripple takes to fill the canvas
    Rooms,          \* for how many units the canvas may have room: 1 to 4
    Begins,         \* how long before the date the page is opened
    Dates,          \* what the page may set the date to, from the time of opening on
    LoadTime,       \* bound: until when the script of the page sets the date
    MaxFrame,       \* the longest time between two frames of a tab that is shown
    MaxGap,         \* bound: a longer time, of a tab that was hidden
    MaxGaps,        \* bound: how often it is
    MaxResizes      \* bound: how often the window is resized

ASSUME CountdownAssumption ==
    /\ {EaseInTime, WaitTime, EaseOutTime, Second, Minute, Hour, Day, RippleTime} \subseteq Nat \ {0}
    /\ {LoadTime, MaxFrame, MaxGap, MaxGaps, MaxResizes} \subseteq Nat
    /\ Rooms \subseteq 1..4 /\ Begins \subseteq Nat /\ Dates \subseteq Nat

VARIABLES
    now,            \* the clock
    targetDate,     \* when the countdown ends
    currentValue, lastDrawn,  \* currentCountdownValue_, lastDrawnValue_: <<days, hours, minutes, seconds>>
    next,           \* nextCountdownValue_: what is expected to follow
    startTime,      \* animationStartTime_: the start of the cycle
    running,        \* animationRunning_; a frame is requested exactly then
    needToFreeze,   \* needToFreezeDigits_
    freezeCount,    \* freezeCount_: so many characters of the value stay
    told,           \* lastThreshold_ is "Ended"
    ended,          \* the attribute of the element
    unitCount,      \* unitCount_: units for which the canvas has room
    ripples,        \* ripples_: colour and end of each
    spent,          \* colours that have been the aim of a ripple: updateColorSetOnRipple is reset
    colour,         \* targetColorSet_: an index of Rundown
    background,     \* the index of the background
    canvas,         \* what is drawn: the units and how many characters stay, or Blank
    inDocument,     \* the element is in the document
    dated, resizes, gaps

clock == <<now, targetDate, inDocument, dated, gaps>>
cycle == <<currentValue, lastDrawn, next, startTime, running, needToFreeze, freezeCount, told, ended>>
painted == <<unitCount, ripples, spent, colour, background, canvas, resizes>>
countdownVars == <<clock, cycle, painted>>

Blank == [units |-> <<>>, still |-> 0]
Nought == <<0, 0, 0, 0>>

-----------------------------------------------------------------------------
\* convertMillisecondsAndSetObjectValues_ of the time from t to a date.
Value(date, t) ==
    LET seconds == (IF date > t THEN date - t ELSE 0) \div Second
        minutes == seconds \div Minute
        hours == minutes \div Hour
    IN  <<hours \div Day, hours % Day, minutes % Hour, seconds % Minute>>

\* convertNumberToStringAndPadIfNeeded_: two digits, or as many as there are.
Padded(n) ==
    IF n < 100 THEN <<n \div 10, n % 10>> ELSE <<n \div 100, (n \div 10) % 10, n % 10>>

\* The value as setNextValueForFreezing compares it; 10 stands for the bar.
Characters(v) == Padded(v[1]) \o <<10>> \o Padded(v[2]) \o <<10>> \o Padded(v[3]) \o <<10>> \o Padded(v[4])

\* The leading units that are not drawn: those that are 0 while more are left than there is room for.
Skipped(v, room) ==
    Max({n \in 0..(4 - room) : \A i \in 1..n : v[i] = 0})

\* The units that are drawn, with their labels.
Units(v, room) == SubSeq(v, Skipped(v, room) + 1, Skipped(v, room) + room)

\* setNextValueForFreezing: all of the last value stays, else what comes before a difference.
Freeze(v, w) ==
    IF v = Nought THEN 99
    ELSE LET diff == {i \in DOMAIN Characters(v) : i > Len(Characters(w)) \/ Characters(v)[i] # Characters(w)[i]}
         IN  IF diff = {} THEN Len(Characters(v)) - 1 ELSE Min(diff) - 1

\* The seconds at which the colour changes from the second colour of the rundown on.
Thresholds == <<30, 20, 10, 8, 6, 4, 3, 2, 1>>

crossedThreshold(from, to, seconds) == from[4] > seconds /\ to[4] <= seconds

\* Two colours of the rundown in the wrong order.
ColoursSwapped(from, to) ==
    LET crossed == {i \in DOMAIN Thresholds : crossedThreshold(from, to, Thresholds[i])}
        swap(i) == IF i = 3 THEN 5 ELSE IF i = 4 THEN 4 ELSE i + 1
    IN  IF from = to THEN {}
        ELSE IF SubSeq(to, 1, 3) = <<0, 0, 0>>
        THEN IF from[3] = 1 THEN {1} ELSE IF crossed # {} THEN {swap(Min(crossed))}
             ELSE IF to[4] = 0 THEN {11} ELSE {}
        ELSE IF from[3] # to[3] THEN {0} ELSE {}

\* scheduleRendererRippleIfNeeded_: the colours of the ripples of a change, 0 for a plain one.
Ripples(from, to) ==
    LET crossed == {i \in DOMAIN Thresholds : crossedThreshold(from, to, Thresholds[i])}
    IN  IF from = to THEN {}
        ELSE IF SubSeq(to, 1, 3) = <<0, 0, 0>>
        THEN IF from[3] = 1 THEN {1} ELSE IF crossed # {} THEN {Min(crossed) + 1}
             ELSE IF to[4] = 0 THEN {11} ELSE {}
        ELSE IF from[3] # to[3] THEN {0} ELSE {}

\* renderer_.ripple for each of them.
Rippled(rs, colours, t) ==
    IF colours = {} THEN rs
    ELSE Append(rs, [colour |-> Min(colours), end |-> t + RippleTime])

-----------------------------------------------------------------------------
CountdownInit ==
    /\ now = 0 /\ targetDate \in Begins /\ inDocument = TRUE /\ dated = FALSE
    /\ currentValue = Value(targetDate, 0) /\ lastDrawn = Nought /\ next = Nought /\ startTime = 0
    /\ running \in BOOLEAN /\ needToFreeze = TRUE /\ freezeCount = 0
    /\ told = FALSE /\ ended = FALSE
    /\ unitCount \in Rooms /\ ripples = Rippled(<<>>, Ripples(Nought, currentValue), 0)
    /\ spent = {} /\ colour = 0 /\ background = 0 /\ resizes = 0 /\ gaps = 0
    /\ canvas = IF running THEN Blank ELSE [units |-> Units(currentValue, unitCount), still |-> 0]

\* The elements of a sequence at some of its indices, in their order.
Picked(s, indices) ==
    LET nth(n) == CHOOSE i \in indices : Cardinality({j \in indices : j <= i}) = n
    IN  [n \in 1..Cardinality(indices) |-> s[nth(n)]]

\* The colour of the last of some ripples, or the one there was.
LastColour(some, old) == IF some = {} THEN old ELSE ripples[Max(some)].colour

\* draw of the value v at the time t on a canvas with so much room, when so many characters
\* stay; then a ripple of the given colours starts.
Draw(v, t, room, count, colours) ==
    LET over == {i \in DOMAIN ripples : t > ripples[i].end}
        aims == {i \in DOMAIN ripples : ripples[i].colour \notin spent \union {0}}
    IN  /\ ripples' = Rippled(Picked(ripples, DOMAIN ripples \ over), colours, t)
        /\ background' = LastColour({i \in over : ripples[i].colour # 0}, background)
        /\ colour' = LastColour(aims, colour)
        /\ spent' = spent \union {ripples[i].colour : i \in aims}
        /\ canvas' = [units |-> Units(v, room), still |-> Max({0, count - 3 * Skipped(v, room)})]

\* The value of a date: the timer's values and the start of a cycle, and the colours of the
\* ripple that this asks for.
SetValues(date, t) ==
    /\ lastDrawn' = currentValue /\ currentValue' = Value(date, t) /\ startTime' = t

waitStart == startTime + EaseInTime
outStart == waitStart + WaitTime
outEnd == outStart + EaseOutTime

\* The end is told in the frames of the way out only, not in the one after it.
TellsInTime(t) == t > outStart /\ t < outEnd /\ currentValue = Nought /\ ~told

\* In the first frame after the wait, late or not, the end is told.
Tells(t) == t > outStart /\ currentValue = Nought /\ ~told

\* update_: a frame.  The value is drawn if it is not the last one; a cycle that is over is
\* followed by the next unless the date has passed.
Update(elapsed) ==
    LET t == now + elapsed
        done == t >= outEnd
        again == done /\ targetDate >= t
        freezes == t > waitStart /\ needToFreeze
        foreseen == IF freezes THEN Value(targetDate, t + EaseOutTime + WaitTime) ELSE next
        count == IF freezes THEN Freeze(currentValue, foreseen) ELSE freezeCount
        colours == IF again THEN Ripples(currentValue, Value(targetDate, t)) ELSE {}
    IN  /\ running /\ now' = t
        /\ next' = foreseen /\ freezeCount' = count
        /\ told' = (told \/ Tells(t)) /\ ended' = (ended \/ (Tells(t) /\ targetDate <= t))
        /\ needToFreeze' = (again \/ (needToFreeze /\ ~freezes))
        /\ running' = (again \/ ~done)
        /\ IF again THEN SetValues(targetDate, t) ELSE UNCHANGED <<lastDrawn, currentValue, startTime>>
        /\ IF currentValue # lastDrawn
           THEN Draw(currentValue, t, unitCount, count, colours)
           ELSE /\ ripples' = Rippled(ripples, colours, t)
                /\ UNCHANGED <<spent, colour, background, canvas>>
        /\ UNCHANGED <<targetDate, inDocument, dated, unitCount, resizes>>

UpdateSoon == \E elapsed \in 1..MaxFrame : Update(elapsed) /\ UNCHANGED gaps

\* The next frame of a tab that was hidden.
UpdateLate == gaps < MaxGaps /\ gaps' = gaps + 1 /\ Update(MaxGap)

\* Time passes while no frame is requested.
Pass ==
    /\ ~running /\ inDocument /\ now <= targetDate
    /\ now' = now + MaxFrame
    /\ UNCHANGED <<targetDate, inDocument, dated, gaps, cycle, painted>>

\* start: the top of the element is scrolled into view, perhaps after the date (bound: by a frame
\* at most).  The cycle began when it was configured.
StartTimer ==
    /\ inDocument /\ ~running /\ now <= targetDate + MaxFrame
    /\ running' = TRUE
    /\ UNCHANGED <<clock, currentValue, lastDrawn, next, startTime, needToFreeze, freezeCount, told, ended, painted>>

\* dateChanged: configureTimer_ and drawIfAnimationIsNotRunning.
DateChanged(date) ==
    /\ inDocument /\ ~dated /\ now <= LoadTime /\ ~told
    /\ dated' = TRUE /\ targetDate' = date
    /\ SetValues(date, now)
    /\ LET colours == Ripples(currentValue, Value(date, now))
       IN  /\ ripples' = Rippled(ripples, colours, now)
           /\ canvas' = IF running THEN canvas ELSE [units |-> Units(currentValue', unitCount), still |-> 0]
    /\ UNCHANGED <<now, inDocument, gaps, next, running, needToFreeze, freezeCount, told, ended,
                   unitCount, spent, colour, background, resizes>>

\* The window is resized: the canvas gets a new size, which clears it, and is drawn if no frame
\* will do it.
ResizeCanvas(room) ==
    /\ inDocument /\ resizes < MaxResizes /\ resizes' = resizes + 1
    /\ unitCount' = room
    /\ IF running
       THEN /\ canvas' = Blank
            /\ UNCHANGED <<ripples, spent, colour, background>>
       ELSE Draw(currentValue, now, room, freezeCount, {})
    /\ UNCHANGED <<clock, cycle>>

\* detached: destroy.
Detach ==
    /\ inDocument /\ inDocument' = FALSE /\ running' = FALSE
    /\ UNCHANGED <<now, targetDate, dated, gaps, currentValue, lastDrawn, next, startTime, needToFreeze, freezeCount,
                   told, ended, painted>>

CountdownNext ==
    \/ UpdateSoon \/ UpdateLate \/ Pass \/ StartTimer \/ Detach
    \/ \E date \in Dates : DateChanged(date)
    \/ \E room \in Rooms : ResizeCanvas(room)

CountdownSpec == CountdownInit /\ [][CountdownNext]_countdownVars

-----------------------------------------------------------------------------

CountdownTypeOK ==
    /\ {now, targetDate, startTime} \subseteq Nat
    /\ {running, needToFreeze, told, ended, inDocument, dated} \subseteq BOOLEAN
    /\ \A v \in {currentValue, lastDrawn, next} : v \in Seq(Nat) /\ Len(v) = 4
    /\ freezeCount \in 0..99 /\ unitCount \in 1..4 /\ resizes \in 0..MaxResizes /\ gaps \in 0..MaxGaps
    /\ colour \in 0..11 /\ background \in 0..11 /\ spent \subseteq 1..11
    /\ \A i \in DOMAIN ripples : ripples[i].colour \in 0..11 /\ ripples[i].end \in Nat
    /\ canvas = Blank \/ Len(canvas.units) \in 1..4

(***************************************************************************)
(* The end is told once the countdown has stopped at zero, even if the tab *)
(* was hidden when the digits moved out; it is never told while a second   *)
(* or more is left; and the element has ended only after the date.  A      *)
(* countdown that stops before it has shown zero does not tell the end:    *)
(* the README says when.                                                   *)
(***************************************************************************)
EndTold ==
    /\ inDocument /\ ~running /\ now > targetDate /\ currentValue = Nought /\ now > outEnd => told
    /\ told => now + Second > targetDate
    /\ ended => told /\ now >= targetDate

(***************************************************************************)
(* What stays on the canvas does not change: the characters that are not   *)
(* moved from one value to the next are the same in both, when the next    *)
(* one is the one that was foreseen, and they look the same on their way   *)
(* out and on their way in (which no step changes: once is enough).        *)
(***************************************************************************)
StillIsSame ==
    /\ now = 0 /\ running => DigitsInOrder
    /\ running /\ needToFreeze /\ next = currentValue /\ freezeCount \in 1..98
          => SubSeq(Characters(lastDrawn), 1, freezeCount) = SubSeq(Characters(currentValue), 1, freezeCount)

(***************************************************************************)
(* The countdown says that it has ended once and not before its time, and  *)
(* the digits that stay are the ones that were foreseen to stay            *)
(* (countdown-timer.js, countdown-timer-renderer.js).                      *)
(***************************************************************************)
CountdownRight == EndTold /\ StillIsSame

(***************************************************************************)
(* The colours of the last minute follow each other in the order of the    *)
(* rundown, whatever frames the tab misses: none comes back.               *)
(***************************************************************************)
ColourNeverBack == [][colour' >= colour]_countdownVars
=============================================================================
