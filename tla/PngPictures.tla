---------------------------- MODULE PngPictures -----------------------------
(***************************************************************************)
(* What pnggimex.c asks libpng for, and what it makes of the rows it gets. *)
(* A file is its color_type, the depth of a sample, a palette of which the *)
(* first trans entries have an alpha of their own, the values that it says *)
(* are transparent (key), and rows of samples.                             *)
(***************************************************************************)
EXTENDS GimexColours

Indexed(f) == f.color_type \in {"grey", "palette"}

(* png_set_strip_16 keeps the high byte.                                   *)
Stripped(f, value) == IF f.depth = 16 THEN value \div 256 ELSE value

Bytes8(f, c) == [channel \in DOMAIN c |-> Stripped(f, c[channel])]

PaletteColour(f, n) == IF n <= f.trans THEN f.palette[n] ELSE Opaque(f.palette[n])

(* A grey file has all the greys of its depth, and has alpha as its type   *)
(* says; colours of 16 bits a channel are told as such.                    *)
PNG_info(f) ==
  LET src_bitdepth == CASE Indexed(f) -> Min({8, f.depth})
                        [] f.color_type = "rgb" -> 24
                        [] OTHER -> 32
      color_bits   == IF f.color_type = "palette" THEN 8 ELSE f.depth
      greys        == 2 ^ src_bitdepth
      alpha        == f.color_type \in {"greyAlpha", "rgba"}
  IN  [bpp |-> IF src_bitdepth > 8 THEN 32 ELSE src_bitdepth,
       original_bpp |-> src_bitdepth,
       num_colors |-> CASE f.color_type = "grey" -> greys
                        [] f.color_type = "palette" -> Len(f.palette)
                        [] OTHER -> 0,
       palette_start_index |-> 0,
       colortbl |-> CASE f.color_type = "grey" ->
                           [n \in 0 .. greys - 1 |-> Grey((255 * n) \div (greys - 1))]
                      [] f.color_type = "palette" ->
                           [n \in 0 .. Len(f.palette) - 1 |-> PaletteColour(f, n + 1)]
                      [] OTHER -> <<>>,
       sub_type |-> "none", packed |-> FALSE,
       alpha_bits |-> IF alpha THEN color_bits ELSE IF f.trans > 0 THEN 8 ELSE 0,
       red_bits |-> color_bits, green_bits |-> color_bits, blue_bits |-> color_bits,
       default_x |-> 0, default_y |-> 0]

(* The channels of a pixel of 32 bits; png_set_gray_to_rgb has made a grey *)
(* into three.                                                             *)
PNG_read_gimex(f, p) ==
  LET v == Bytes8(f, p)
  IN  CASE f.color_type = "rgb" -> Opaque(v)
        [] f.color_type = "rgba" -> v
        [] f.color_type = "greyAlpha" -> IF v[2] < 0 THEN Garbage ELSE <<v[1], v[1], v[1], v[2]>>

(* Pixels of fewer than 8 bits are read as one byte each (png_set_packing) *)
(* into a buffer that has bpp bits for each: the rows lie over each other, *)
(* or past its end.                                                        *)
PNG_read(f, i) ==
  Each(f.rows, LAMBDA p : CASE i.bpp < 8 -> Garbage
                            [] i.bpp = 8 -> Stripped(f, p)
                            [] i.bpp = 32 -> PNG_read_gimex(f, p))

-----------------------------------------------------------------------------
(* The index itself, widened from the bits that it is said to have, is     *)
(* written for a grey.                                                     *)
GreySample(i, index) ==
  LET depth == Min({8, i.original_bpp})
      whole == 2 ^ depth - 1
  IN  (IF depth = 1 THEN 255 * index ELSE (2 ^ (depth - 1) + 255 * index) \div whole) % 256

(* Of the alphas that of the pixel three further on in memory is taken.    *)
ThirdNext(rows, y, x) ==
  LET width == Len(rows[y])
      k     == (y - 1) * width + x - 1 + 3
  IN  IF k < Len(rows) * width THEN rows[(k \div width) + 1][(k % width) + 1] ELSE NoIndex

PngDepth(i) ==
  IF i.original_bpp \in {1, 2} THEN i.original_bpp ELSE IF i.original_bpp > 4 THEN 8 ELSE 4

(* Mutant of PngType: alpha is not asked for.                              *)
PngTypeOpaque(i) == IF i.bpp = 32 THEN "rgb" ELSE IF GreyTable(i) THEN "grey" ELSE "palette"

PngType(i) ==
  CASE i.bpp = 32 -> IF i.alpha_bits # 0 THEN "rgba" ELSE "rgb"
    [] i.bpp # 32 /\ ~GreyTable(i) -> "palette"
    [] OTHER -> IF i.alpha_bits # 0 THEN "greyAlpha" ELSE "grey"

(* libpng packs a byte into the bits that there are.                       *)
Packed(depth, value) ==
  IF depth = 1 THEN IF value = 0 THEN 0 ELSE 1 ELSE value % (2 ^ depth)

PNG_write_gimex(i, rows, y, x) ==
  LET p     == rows[y][x]
      third == ThirdNext(rows, y, x)
      type  == PngType(i)
  IN  CASE type = "rgba" -> p
        [] type = "rgb" -> Opaque(p)
        [] type = "palette" -> Packed(PngDepth(i), p)
        [] type = "grey" -> Packed(PngDepth(i), GreySample(i, p))
        [] type = "greyAlpha" ->
             <<GreySample(i, p), IF third = NoIndex THEN -1 ELSE Colour(i, third)[4]>>

(* As many alphas of a palette are written as a count says that nobody has *)
(* set: libpng sets it only where it may store the palette as well, and    *)
(* writes none if there are not so many colours.                           *)
TransCounts(i) ==
  IF PngType(i) = "palette" /\ i.alpha_bits > 0 THEN 0 .. i.num_colors ELSE {0}

PNG_write(i, rows, trans) ==
  LET coloured == PngType(i) = "palette"
  IN  [codec |-> "PNG", color_type |-> PngType(i), key |-> {},
       depth |-> IF PngType(i) \in {"grey", "palette"} THEN PngDepth(i) ELSE 8,
       palette |-> IF coloured THEN [n \in 1 .. i.num_colors |-> Colour(i, n - 1)] ELSE <<>>,
       trans |-> trans,
       rows |-> [y \in DOMAIN rows |-> [x \in DOMAIN rows[y] |-> PNG_write_gimex(i, rows, y, x)]]]

-----------------------------------------------------------------------------
(* What the format means by a sample.                                      *)
PngMeant(f, p) ==
  LET clear == p \in f.key
  IN  CASE f.color_type = "palette" -> PaletteColour(f, p + 1)
        [] f.color_type = "grey" ->
             [Grey((255 * Stripped(f, p)) \div (2 ^ Min({8, f.depth}) - 1)) EXCEPT ![4] = IF clear THEN 0 ELSE 255]
        [] f.color_type = "rgb" -> [Bytes8(f, p) EXCEPT ![4] = IF clear THEN 0 ELSE 255]
        [] f.color_type = "rgba" -> Bytes8(f, p)
        [] f.color_type = "greyAlpha" ->
             LET v == Bytes8(f, p) IN <<v[1], v[1], v[1], v[2]>>

(* Where the code reads something else: pixels of fewer than 8 bits, and a *)
(* value that the file says is transparent, outside a palette.             *)
PngMisread(f) ==
  \/ Indexed(f) /\ f.depth < 8
  \/ Values(f.rows) \cap f.key # {}
  \/ f.color_type = "greyAlpha" /\ \E p \in Values(f.rows) : p[2] < 0
  \/ f.color_type = "palette" /\ \E p \in Values(f.rows) : p + 1 \notin DOMAIN f.palette
=============================================================================
