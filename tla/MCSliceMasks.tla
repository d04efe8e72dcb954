---------------------------- MODULE MCSliceMasks ----------------------------
(* Small instances of SliceMasks: three slices and five RBGs, of which the  *)
(* eNB's cell has four and the API gives away four.                         *)
EXTENDS SliceMasks

Files(a, b, c) == [s \in Slices |-> CASE s = 0 -> a [] s = 1 -> b [] s = 2 -> c]

\* Slices side by side from the left end, as in the repository; and one in the
\* middle of free RBGs, one at the right end and one without a file.
SomeFiles == {Files({0}, {1, 2}, {3}), Files({2}, {3, 4}, Missing)}

\* A whole allocation for every slice, and one that leaves slice 0 out.
SomeAllocs == {<< <<0, 0, 1>>, <<1, 2, 2>>, <<2, 3, 4>> >>,
               << <<2, 0, 1>>, <<1, 3, 4>> >>}
SomeBits == {<<1, 4>>}
SomeRows == {<<2, {0, 4}>>}
=============================================================================
