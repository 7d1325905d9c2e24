--------------------------- MODULE CountdownDigits ---------------------------
(***************************************************************************)
(* The digits that the countdown draws                                     *)
(* (elements/countdown-timer/countdown-timer-renderer.js).  A digit is a   *)
(* few coloured shapes with a shadow.  It is drawn at a time from 0 to     *)
(* Full, on its way in, when the shapes settle on their shadow, or on its  *)
(* way out, when they shrink to their middle.  Lengths are tenths of       *)
(* pixels, times are per cent.                                             *)
(***************************************************************************)
EXTENDS Integers, Sequences

Full == 100

baseNumberWidth == 1360
measurements == <<1400, 680, 980, 880, 1000, 1120, 1160, 1100, 1080, 1180>>

\* A shape with its place and size on the way in, and the place, the size and how far it
\* is moved at time 0 on the way out; late: per cent it lags behind on the way out.
Part(shape, colour, in, out, away, late, shadow) ==
    [shape |-> shape, colour |-> colour, in |-> in, out |-> out, away |-> away, late |-> late,
     shadow |-> shadow]

\* x, y and radius of a circle; a half circle also has the side on which it lies.
Circle(colour, in, out, late, shadow) == Part("circle", colour, in, out, <<0, 0>>, late, shadow)
\* A circle that grows on the way in too.
Dot(colour, in, out, shadow) == Part("dot", colour, in, out, <<0, 0>>, 0, shadow)
Semi(side, colour, in, out, away, late, shadow) == Part(side, colour, in, out, away, late, shadow)

\* x, y, width and height; the one that shrinks on the way out is named.
Wide(colour, in, out, away, late, shadow) == Part("wide", colour, in, out, <<away, 0>>, late, shadow)
High(colour, in, out, away, late, shadow) == Part("high", colour, in, out, <<0, away>>, late, shadow)

Zero == << Semi("bottom", "medium", <<640, 640, 640>>, <<640, 640, 640>>, <<0, 320>>, 120, 20),
           Semi("top", "dark", <<640, 640, 640>>, <<640, 640, 640>>, <<0, -320>>, 0, 140) >>
One == << High("light", <<160, 0, 400, 1260>>, <<160, 0, 400, 1260>>, 640, 0, 40),
          Circle("dark", <<140, 200, 200>>, <<140, 200, 200>>, 0, 100) >>
Two == << Semi("right", "medium", <<400, 480, 480>>, <<400, 480, 480>>, <<240, 0>>, 110, 20),
          Wide("light", <<0, 940, 880, 320>>, <<0, 940, 880, 320>>, 490, 105, 40),
          Circle("dark", <<190, 200, 200>>, <<190, 200, 200>>, 0, 100) >>
Three == << Semi("right", "medium", <<340, 860, 420>>, <<340, 860, 420>>, <<210, 0>>, 105, 20),
            Semi("right", "light", <<340, 320, 320>>, <<340, 320, 320>>, <<160, 0>>, 110, 60),
            Dot("medium", <<130, 200, 200>>, <<130, 200, 200>>, 100),
            Dot("dark", <<130, 1080, 200>>, <<130, 1080, 200>>, 140) >>
Four == << High("light", <<0, 0, 400, 800>>, <<0, 0, 400, 800>>, 440, 0, 120),
           High("medium", <<480, 0, 400, 1280>>, <<480, 0, 400, 1280>>, 640, 110, 20) >>
Five == << Semi("right", "light", <<510, 800, 480>>, <<510, 800, 480>>, <<240, 0>>, 110, 20),
           Wide("medium", <<40, 0, 880, 320>>, <<40, 0, 880, 320>>, 440, 105, 80),
           Circle("dark", <<240, 560, 240>>, <<240, 560, 240>>, 0, 140) >>
Six == << Circle("medium", <<540, 800, 480>>, <<540, 800, 480>>, 115, 40),
          Wide("dark", <<60, 0, 400, 800>>, <<60, 0, 400, 800>>, 200, 0, 80) >>
Seven == << Wide("medium", <<570, 60, 400, 1200>>, <<570, 60, 400, 1200>>, 205, 115, 20),
            Wide("light", <<0, 0, 880, 400>>, <<0, 0, 880, 400>>, 385, 0, 80) >>
Eight == << Circle("medium", <<480, 800, 480>>, <<480, 800, 480>>, 120, 10),
            Circle("dark", <<480, 360, 360>>, <<480, 360, 360>>, 0, 140) >>
Nine == << Circle("medium", <<480, 480, 480>>, <<480, 480, 480>>, 120, 10),
           Wide("light", <<560, 60, 410, 1200>>, <<560, 60, 410, 1200>>, 205, 0, 80) >>

Digits == <<Zero, One, Two, Three, Four, Five, Six, Seven, Eight, Nine>>

\* The share t of a length.
Of(length, t) == (length * t) \div Full

\* The time of a part on the way out, which may be negative: nothing is drawn then.
Lagging(part, t) == t - ((Full - t) * part.late) \div 100

\* Where and how large a part is drawn: <<x, y>> and its sizes.
Drawn(part, way, t) ==
    LET u == Lagging(part, t)
        moved(i) == part.out[i] + Of(part.away[i], Full - u)
    IN  IF way = "in"
        THEN [at |-> <<part.in[1], part.in[2] + Of(part.shadow, Full - t)>>,
              size |-> IF part.shape = "dot" THEN <<Of(part.in[3], t)>>
                       ELSE SubSeq(part.in, 3, Len(part.in)),
              colour |-> part.colour]
        ELSE [at |-> <<moved(1), moved(2)>>,
              size |-> CASE part.shape = "wide" -> <<Of(part.out[3], u), part.out[4]>>
                         [] part.shape = "high" -> <<part.out[3], Of(part.out[4], u)>>
                         [] OTHER -> <<Of(part.out[3], u)>>,
              colour |-> part.colour]

\* A digit narrower than the others is drawn in the middle of its place, 0 is drawn at its edge.
Margin(d) == IF d = 0 THEN 0 ELSE (baseNumberWidth - measurements[d + 1]) \div 2

\* The left and the right edge of a shape.
Edges(shape, drawn) ==
    LET x == drawn.at[1]
        r == drawn.size[1]
    IN  IF shape \in {"wide", "high", "right"} THEN <<x, x + r>> ELSE <<x - r, x + r>>

\* What is drawn of the digit d, with the edges of each shape within its place.  drawCircle_
\* and the others draw nothing of negative size.
Picture(d, way, t) ==
    LET part(i) == Digits[d + 1][i]
        drawn(i) == Drawn(part(i), way, t)
        edges(i) == Edges(part(i).shape, drawn(i))
        all == [i \in DOMAIN Digits[d + 1] |->
                  [drawn |-> drawn(i), left |-> Margin(d) + edges(i)[1],
                   right |-> Margin(d) + edges(i)[2]]]
    IN  SelectSeq(all, LAMBDA p : \A i \in DOMAIN p.drawn.size : p.drawn.size[i] >= 0)

\* A digit at rest looks the same on its way in and on its way out; none leaves its place.
DigitsInOrder ==
    /\ \A d \in 0..9 : Picture(d, "in", Full) = Picture(d, "out", Full)
    /\ \A d \in 0..9, way \in {"in", "out"}, t \in {0, 25, 50, 75, 100} :
         LET picture == Picture(d, way, t)
         IN  \A i \in DOMAIN picture : picture[i].left >= 0 /\ picture[i].right <= baseNumberWidth

=============================================================================
