---------------------------- MODULE MCImageRows ----------------------------
(* Instances of ImageRows: all images of one row and of two rows up to a   *)
(* width, over few pixels, with limits small enough to be reached, and     *)
(* images of three rows with and without literals, which end at multiples  *)
(* of four bytes or between two.                                           *)
EXTENDS ImageRows

CONSTANTS
  MaxWidth,        \* of an image of one row
  MaxWidthOfTwo    \* of an image of two rows

Lines(pixels, w) == [1 .. w -> pixels]

SmallImages ==
  UNION {{<<line>> : line \in Lines({0, 1}, w)} : w \in 1 .. MaxWidth}
    \cup UNION {[1 .. 2 -> Lines({0, 1}, w)] : w \in 1 .. MaxWidthOfTwo}
    \cup UNION {{<<line>> : line \in Lines({0, 1, 2}, w)} : w \in 1 .. MaxWidthOfTwo}
    \cup [1 .. 3 -> {<<0, 1, 0, 1>>, <<0, 0, 0, 0>>, <<0, 0, 1, 1>>}]
    \cup [1 .. 3 -> {<<0, 1, 0, 1, 0>>, <<0, 0, 0, 0, 0>>, <<0, 0, 1, 1, 1>>}]

(* Two of the pixels are kept as the same.                                 *)
LastBitLost == [p \in 0 .. 2 |-> IF p = 2 THEN 1 ELSE p]
=============================================================================
