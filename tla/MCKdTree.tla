------------------------------ MODULE MCKdTree ------------------------------
(* A globe of eight markers, two of them at one place.  The sphere has     *)
(* radius 3, where many points have whole coordinates.                     *)
EXTENDS KdTree

Globe == {p \in (-3..3) \X (-3..3) \X (-3..3) : p[1] * p[1] + p[2] * p[2] + p[3] * p[3] = 9}

EightMarkers == << <<2, 1, 2>>, <<-2, -1, 2>>, <<1, -2, 2>>, <<1, 2, 2>>, <<1, -2, -2>>,
                   <<0, 3, 0>>, <<0, -3, 0>>, <<2, 1, 2>> >>
=============================================================================
