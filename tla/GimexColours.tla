---------------------------- MODULE GimexColours ----------------------------
(***************************************************************************)
(* Colours and pictures as GIMEX's codecs (src/gimex/src) pass them on.  A *)
(* colour is an ARGB in memory, <<b, g, r, a>>; of a picture with a colour *)
(* table the value of a pixel is an index.                                 *)
(***************************************************************************)
EXTENDS Integers, FiniteSetsExt, SequencesExt

Garbage == <<-1, -1, -1, -1>>     \* of memory that nobody has written
NoIndex == -1                     \* the same of an index
Nothing == <<0, 0, 0, 0>>

Opaque(c) == [c EXCEPT ![4] = 255]
Grey(v) == <<v, v, v, 255>>

Each(rows, Of(_)) == [y \in DOMAIN rows |-> [x \in DOMAIN rows[y] |-> Of(rows[y][x])]]

Values(rows) == UNION {ToSet(rows[y]) : y \in DOMAIN rows}

(* memset has cleared the colours that nobody sets.                        *)
Colour(i, index) == IF index \in DOMAIN i.colortbl THEN i.colortbl[index] ELSE Nothing

(* What a program shows.                                                   *)
Shown(i, rows) == Each(rows, LAMBDA p : IF i.bpp # 8 THEN p
                                        ELSE IF p = NoIndex THEN Garbage ELSE Colour(i, p))

(* The colours of the table are greys; their alpha is not looked at.       *)
GreyTable(i) ==
  \A n \in 0 .. i.num_colors - 1 :
    LET c == Colour(i, n) IN c[3] = c[2] /\ c[3] = c[1]
=============================================================================
