--------------------------- MODULE MCSequential ----------------------------
(* Instances of the sequential parts.                                      *)
EXTENDS Sequential, Bitwise

CONSTANTS MaxText, MaxArgument, MaxSwitch, ChunkLengths

(* Command lines: all short texts with quotes, all short lists, and all    *)
(* short arguments that may be switches.                                   *)
SmallTexts == BoundedSeq({" ", Quote, "a"}, MaxText)

SmallArgLists ==
  {<<arg>> : arg \in BoundedSeq({"-", ":", "a", "A"}, MaxSwitch)}
    \cup BoundedSeq(BoundedSeq({" ", "a"}, MaxArgument), 2)
    \cup BoundedSeq(BoundedSeq({" ", "a", Quote}, 2), 1)

SmallInserted == {<<>>, <<Quote, "a">>, <<"a", "\t", "a">>}

SmallNames == BoundedSeq({"a", "A", ":"}, 2) \ {<<>>}

SmallLetters == [c \in {"A"} |-> "a"]

SmallChars == {" ", "\t", "\n", Quote, "a", "A", ":", "-", "/", "\\"}

(* Words of six bits.                                                      *)
XorOf(u, v) == u ^^ v
AndOf(u, v) == u & v
OrOf(u, v) == u | v

SmallTempering == [U |-> 2, S |-> 1, B |-> 45, T |-> 3, C |-> 6, L |-> 4]

SmallLimits == {-32, -1, 0, 5, 31}

(* Ends of months, years and centuries, and the changes of the clock.      *)
From(month, day, year, n) == LET j == Jday(month, day, year) IN j .. j + n

SmallDays ==
  From(2, 20, 1900, 20) \cup From(2, 20, 1904, 20) \cup From(12, 20, 1998, 1200)
    \cup From(2, 20, 2100, 20)

HoursFrom(month, day, year, n) ==
  LET h == 24 * (Jday(month, day, year) - RefDate) IN h .. h + 24 * n

(* The first days of April of years in which the 1st is a Sunday, a Monday *)
(* and a Saturday, the last days of October, and the end of a year.        *)
SmallHours ==
  HoursFrom(4, 1, 1984, 8) \cup HoursFrom(4, 1, 2002, 8) \cup HoursFrom(4, 1, 2000, 3)
    \cup HoursFrom(10, 25, 2000, 7) \cup HoursFrom(12, 31, 2003, 1)

FirstsOf(S) == {x \in S : x - 1 \notin S}

FirstSmallDays == FirstsOf(SmallDays)

FirstSmallHours == FirstsOf(SmallHours)

SmallZones == {0, 6, -3}

(* Data of no bytes, of parts of a block, and of more than a block.        *)
SmallChunks == {[i \in 1 .. n |-> IF i = 1 THEN 128 ELSE 0] : n \in ChunkLengths}

(* Games whose file is shorter than the buffer, as long, and longer.       *)
SmallGames == [1 .. ReadSize - 1 -> {0}] \cup [1 .. ReadSize -> Bytes] \cup [1 .. ReadSize + 1 -> {0}]

Game == [i \in 1 .. ReadSize |-> IF i % 3 = 2 THEN 128 ELSE 0]
Editor == [i \in 1 .. ReadSize + 1 |-> 0]
Installer == [i \in 1 .. ReadSize - 1 |-> 0]

SmallPayloads ==
  [g \in {Game, Editor, Installer} |-> IF g = Editor THEN "editor" ELSE "game"]

SmallSites == [game |-> {6, 7}, editor |-> {5}]

(* Eleven pages: an image of a header, three pages of code and two of      *)
(* data, and a page of something else.  What the file calls the address of *)
(* the data may be that of any page.                                       *)
Image(data) ==
  [base |-> 4, code |-> 1, codeSize |-> 3, data |-> data, dataSize |-> 2,
   memory |-> [p \in 0 .. 10 |-> CASE p \in 5 .. 7 -> "execute"
                                   [] p \in {0, 4, 8, 9} -> "read"
                                   [] OTHER -> "none"]]

SmallLayouts == {Image(data) : data \in {1, 3, 4, 5, 7, 8, 9}}

(* Pictures of two rows, and of one pixel; two values.                     *)
Patterns == {<<<<1, 2>>, <<2, 2>>>>, <<<<1, 2, 2>>, <<1, 1, 2>>>>, <<<<1>>>>, <<<<2>>>>}

Painted(pattern, values) == [y \in DOMAIN pattern |-> [x \in DOMAIN pattern[y] |-> values[pattern[y][x]]]]

Targa == [codec |-> "TGA", packed |-> FALSE, cmap_type |-> 0, cmap_start |-> 0,
  cmap_length |-> 0, cmap_depth |-> 0, palette |-> <<>>, x_offset |-> 0, y_offset |-> 0, pixel_depth |-> 24,
  top |-> FALSE, right |-> FALSE, attributes |-> 0, rows |-> <<>>]

Five == {<<<<3, 31, 16, 1>>, <<0, 7, 30, 0>>>>}
Full == {<<<<0, 17, 200, 255>>, <<255, 130, 3, 128>>>>}

(* Palettes: colours, greys, black and white, and one without any opacity. *)
Palettes == {<<<<10, 200, 30, 255>>, <<1, 2, 3, 128>>>>, <<<<1, 1, 1, 255>>, <<0, 0, 0, 255>>>>,
             <<<<0, 0, 0, 255>>, <<255, 255, 255, 255>>>>, <<<<9, 9, 9, 0>>, <<6, 5, 4, 0>>>>}

TrueTargas ==
  {[Targa EXCEPT !.pixel_depth = d, !.rows = Painted(pattern, values), !.attributes = a]  :
     d \in {15, 16}, pattern \in Patterns, values \in Five, a \in {0, 1}}
  \cup
  {[Targa EXCEPT !.pixel_depth = d, !.rows = Painted(pattern, values)]  :
     d \in {24, 32}, pattern \in Patterns, values \in Full}

GreyTargas ==
  {[Targa EXCEPT !.pixel_depth = 8, !.cmap_length = n, !.rows = Painted(pattern, values)] :
     n \in {0, 2, 256}, pattern \in Patterns, values \in {<<0, 255>>, <<0, 1>>}}

MappedTargas ==
  {[Targa EXCEPT !.pixel_depth = 8, !.cmap_type = 1, !.cmap_depth = d, !.cmap_length = 2, !.cmap_start = s,
     !.palette = pal, !.rows = Painted(pattern, <<s, s + 1>>)] :
     d \in {24, 32}, pal \in Palettes, s \in {0, 1}, pattern \in Patterns}
  \cup
  {[Targa EXCEPT !.pixel_depth = 8, !.cmap_type = 1, !.cmap_depth = d, !.cmap_length = 2, !.cmap_start = s,
     !.palette = pal, !.attributes = a, !.rows = Painted(pattern, <<s, s + 1>>)] :
     d \in {15, 16}, pal \in Five, a \in {0, 1}, s \in {0, 1}, pattern \in Patterns}

Placed(files) ==
  {[f EXCEPT !.packed = p, !.top = o[1], !.right = o[2], !.x_offset = o[3], !.y_offset = o[4]] :
     f \in files, p \in BOOLEAN,
     o \in {<<FALSE, FALSE, 0, 0>>, <<TRUE, FALSE, 3, 5>>, <<FALSE, TRUE, 3, 5>>}}

Bitmap == [codec |-> "BMP", type |-> "INFO", bit_count |-> 24, down |-> FALSE,
  masks |-> Stacked(BitsOf(0, 0, 0, 0)), compressed |-> FALSE, form |-> "plain", palette |-> <<>>, rows |-> <<>>]

MaskedAs(f, bits, pattern) ==
  LET w(k) == BitsAt(k % 32, 0) \cup BitsAt((7 * k) % 32, bits.b) \cup BitsAt(31 - k, bits.b + bits.g)
                   \cup (IF f.bit_count = 32 THEN BitsAt(200, 24) ELSE {})
  IN  [f EXCEPT !.masks = Stacked(bits), !.rows = Painted(pattern, <<w(3), w(29)>>)]

DeepBitmaps ==
  {[Bitmap EXCEPT !.type = t, !.rows = Painted(pattern, values), !.masks = Stacked(BitsOf(0, 8, 8, 8))] :
     t \in {"INFO", "V4"}, pattern \in Patterns, values \in Full}

WordBitmaps ==
  {MaskedAs([Bitmap EXCEPT !.type = t, !.bit_count = 16], bits, pattern) :
     t \in {"INFOEX", "V4"}, bits \in {BitsOf(0, 5, 5, 5), BitsOf(0, 5, 6, 5)}, pattern \in Patterns}
  \cup
  {MaskedAs([Bitmap EXCEPT !.bit_count = 16], BitsOf(0, 5, 5, 5), pattern) : pattern \in Patterns}
  \cup
  {MaskedAs([Bitmap EXCEPT !.type = t, !.bit_count = 32], BitsOf(8, 8, 8, 8), pattern) :
     t \in {"INFO", "INFOEX", "V4"}, pattern \in Patterns}

MappedBitmaps ==
  {[Bitmap EXCEPT !.type = t, !.bit_count = d, !.palette = pal, !.rows = Painted(pattern, <<0, 1>>)] :
     t \in {"INFO", "V4"}, d \in {1, 4, 8}, pal \in Palettes, pattern \in Patterns}
  \cup
  {[Bitmap EXCEPT !.bit_count = d, !.palette = pal, !.rows = Painted(pattern, <<0, 1>>),
                  !.compressed = TRUE, !.form = "packed"] :
     d \in {4, 8}, pal \in Palettes, pattern \in Patterns}

BothWays(files) == {[f EXCEPT !.down = d] : f \in files, d \in BOOLEAN}

Png == [codec |-> "PNG", color_type |-> "rgb", depth |-> 8, key |-> {}, palette |-> <<>>, trans |-> 0,
  rows |-> <<>>]

Sixteen(c) == [channel \in DOMAIN c |-> 256 * c[channel] + 5]

(* Samples of every type and depth, opaque or not, with and without a      *)
(* value that is transparent.                                              *)
TruePngs ==
  UNION {LET wide(c) == IF d = 16 THEN Sixteen(c) ELSE c
             sees    == IF t = "rgba" THEN values ELSE <<Opaque(values[1]), Opaque(values[2])>>
             cells   == IF t = "greyAlpha" THEN <<wide(<<40, 9>>), wide(<<7, 255>>)>>
                        ELSE <<wide(sees[1]), wide(sees[2])>>
         IN  {[Png EXCEPT !.color_type = t, !.depth = d, !.key = k, !.rows = Painted(pattern, cells)] :
                k \in IF t = "rgb" THEN {{}, {cells[1]}} ELSE {{}}} :
         t \in {"rgb", "rgba", "greyAlpha"}, d \in {8, 16}, pattern \in Patterns, values \in Full}

IndexedPngs ==
  {[Png EXCEPT !.color_type = "grey", !.depth = d, !.key = k, !.rows = Painted(pattern, <<0, 2 ^ d - 1>>)] :
     d \in {1, 4, 8, 16}, k \in {{}, {0}}, pattern \in Patterns}
  \cup
  {[Png EXCEPT !.color_type = "palette", !.depth = d, !.palette = pal, !.trans = n,
               !.rows = Painted(pattern, <<0, 1>>)] :
     d \in {4, 8}, n \in 0 .. 2, pal \in Palettes, pattern \in Patterns}

Jpeg == [codec |-> "JPG", space |-> "rgb", rows |-> <<>>]

GreyJpegs ==
  {[Jpeg EXCEPT !.space = "grey", !.rows = Painted(pattern, <<3, 255>>)] : pattern \in Patterns}

ColourJpegs ==
  {[Jpeg EXCEPT !.space = s, !.rows = Painted(pattern, values)] :
     s \in {"rgb", "cmyk", "argb"}, pattern \in Patterns, values \in Full}

SmallFiles ==
  [colours |-> Placed(TrueTargas), deep |-> BothWays(DeepBitmaps), words |-> BothWays(WordBitmaps),
   grey |-> Placed(GreyTargas), mapped |-> Placed(MappedTargas), paletted |-> BothWays(MappedBitmaps),
   pngs |-> TruePngs, indexed |-> IndexedPngs, greys |-> GreyJpegs, jpegs |-> ColourJpegs]
=============================================================================
