------------------------------ MODULE HexWave ------------------------------
(***************************************************************************)
(* The wave that runs over the hexagons when one of them is played         *)
(* (experiment/app/views/HexagonView.js, views/hexagon/Cube.js and         *)
(* Hexagon.js).  Positions are cubes, x + y + z = 0; the wave activates    *)
(* ring after ring around the one that was played, until a ring has no     *)
(* hexagon.  A resize of the window builds all hexagons anew.              *)
(***************************************************************************)
EXTENDS Integers, Sequences, FiniteSets

CONSTANTS
    MaxRows, MaxCols,   \* bounds: rows and columns on each side of the centre
    MaxWaves            \* bound: hexagons that are played

ASSUME HexWaveAssumption == {MaxRows, MaxCols, MaxWaves} \subseteq Nat

Cube(x, y, z) == <<x, y, z>>
NeighborDeltas == <<Cube(1, -1, 0), Cube(1, 0, -1), Cube(0, 1, -1),
                    Cube(-1, 1, 0), Cube(-1, 0, 1), Cube(0, -1, 1)>>
Plus(c, d, n) == Cube(c[1] + n * d[1], c[2] + n * d[2], c[3] + n * d[3])

\* Columns whose number is odd lie half a hexagon higher; q & 1 is q % 2, for negative q as well.
EvenQToCube(r, q) == LET z == r - ((q + (q % 2)) \div 2) IN Cube(q, -q - z, z)
RowColumn(c) == <<c[3] + ((c[1] + (c[1] % 2)) \div 2), c[1]>>

\* Where the walk around a ring of radius 1 is after so many sides.
Corner[side \in 0..6] ==
    IF side = 0 THEN NeighborDeltas[5] ELSE Plus(Corner[side - 1], NeighborDeltas[side], 1)

\* getRing: radius steps along each of the six sides.
Ring(c, radius) ==
    IF radius <= 0 THEN <<c>>
    ELSE [n \in 1..(6 * radius) |->
            LET side == (n - 1) \div radius IN
            Plus(Plus(c, Corner[side], radius), NeighborDeltas[side + 1], (n - 1) % radius)]

\* soundForPos: five sounds, by column.
SoundForPos(c) ==
    LET col == RowColumn(c)[2] - 2
        idx == IF col >= 0 THEN col % 5 ELSE (-col) % 5
    IN  5 - idx

VARIABLES
    hexagons,   \* the cubes that have a hexagon
    listens,    \* isListening
    played,     \* the cube of the last wave
    lit,        \* how often that wave activates each hexagon
    waves

hexVars == <<hexagons, listens, played, lit, waves>>

\* buildViews
Grid(rows, cols) == {EvenQToCube(row, col) : row \in -rows..rows, col \in -cols..cols}
Everywhere == Grid(MaxRows, MaxCols)

HexInit ==
    /\ hexagons \in {Grid(rows, cols) : rows \in 0..MaxRows, cols \in 0..MaxCols}
    /\ listens = FALSE /\ played = <<>> /\ lit = [c \in hexagons |-> 0] /\ waves = 0

\* activateRing: whether a hexagon is on the ring.
Drawable(center, radius) == \E i \in DOMAIN Ring(center, radius) : Ring(center, radius)[i] \in hexagons

\* activateHexagon: rings are activated up to the first that has no hexagon, that one included.
LastRing(center) ==
    CHOOSE r \in 0..(2 * (MaxRows + MaxCols) + 1) :
        ~Drawable(center, r) /\ \A q \in 0..(r - 1) : Drawable(center, q)
Lightings(center, c) ==
    {p \in (0..LastRing(center)) \X (1..(6 * LastRing(center) + 1)) :
        p[2] \in DOMAIN Ring(center, p[1]) /\ Ring(center, p[1])[p[2]] = c}
Activated(center) == [c \in hexagons |-> Cardinality(Lightings(center, c))]

Wave(center) ==
    /\ waves < MaxWaves /\ waves' = waves + 1
    /\ played' = center /\ lit' = Activated(center)
    /\ UNCHANGED <<hexagons, listens>>

\* The user plays a hexagon, or one of the five keys for the middle row.
PlayOne == listens /\ \E c \in hexagons : Wave(c)
PlayKey == listens /\ \E key \in -2..2 : Wave(EvenQToCube(0, key))

\* The track plays a note, which may have been recorded in a larger window.
Playback == \E c \in Everywhere : Wave(c)

Listen == listens' = ~listens /\ UNCHANGED <<hexagons, played, lit, waves>>

\* resize: new hexagons, which listen if the old ones did.
Resize ==
    /\ \E rows \in 0..MaxRows, cols \in 0..MaxCols : hexagons' = Grid(rows, cols)
    /\ played' = <<>> /\ lit' = [c \in hexagons' |-> 0]
    /\ UNCHANGED <<listens, waves>>

HexNext == PlayOne \/ PlayKey \/ Playback \/ Listen \/ Resize

HexSpec == HexInit /\ [][HexNext]_hexVars

-----------------------------------------------------------------------------

HexTypeOK ==
    /\ hexagons \subseteq Everywhere /\ listens \in BOOLEAN /\ waves \in 0..MaxWaves
    /\ DOMAIN lit = hexagons /\ \A c \in hexagons : lit[c] \in Nat

(***************************************************************************)
(* A wave that starts at a hexagon reaches every hexagon once, whatever    *)
(* the size of the window: no ring is left out because one before it lay   *)
(* outside, and no hexagon is in two rings or twice in one.  A wave that   *)
(* starts elsewhere shows nothing.  Positions and sounds are those of the  *)
(* rows and columns that they stand for.                                   *)
(***************************************************************************)
WaveReachesAll ==
    /\ played # <<>> => \A c \in hexagons : lit[c] = IF played \in hexagons THEN 1 ELSE 0
    /\ \A c \in hexagons :
         /\ EvenQToCube(RowColumn(c)[1], RowColumn(c)[2]) = c
         /\ c[1] + c[2] + c[3] = 0 /\ SoundForPos(c) \in 1..5

=============================================================================
