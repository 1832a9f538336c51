---------------------------- MODULE JpegPictures ----------------------------
(***************************************************************************)
(* The pixels of jpeggimex.c: what it gives to libjpeg and what it makes   *)
(* of the rows it gets back.  Compression is external, and taken to lose   *)
(* nothing.  A file has a colour space, which is argb if four channels     *)
(* follow the GIMEX marker, and rows of colours or greys.                  *)
(***************************************************************************)
EXTENDS GimexColours

(* The marker is told as a kind of header, and no alpha is told of.        *)
JPG_info(f) ==
  LET grey == f.space = "grey"
  IN  [bpp |-> IF grey THEN 8 ELSE 32, original_bpp |-> IF grey THEN 8 ELSE 24,
       num_colors |-> IF grey THEN 256 ELSE 0, palette_start_index |-> 0,
       colortbl |-> IF grey THEN [n \in 0 .. 255 |-> Grey(n)] ELSE <<>>,
       sub_type |-> IF f.space = "argb" THEN "argb" ELSE "none", packed |-> TRUE,
       alpha_bits |-> 0, red_bits |-> 8, green_bits |-> 8, blue_bits |-> 8,
       default_x |-> 0, default_y |-> 0]

(* Of the three bytes of a colour one is written three times, and the      *)
(* others are used as they are.                                            *)
JPG_readcmyk(p) == Garbage

JPG_readline(f, p) ==
  CASE f.space \in {"argb", "grey"} -> p
    [] f.space = "cmyk" -> JPG_readcmyk(p)
    [] f.space = "rgb" -> Opaque(p)

JPG_read(f) == Each(f.rows, LAMBDA p : JPG_readline(f, p))

-----------------------------------------------------------------------------
(* The lowest bit of the kind of header asks for the marker; the kinds of  *)
(* bitmaps have numbers too, of which that of INFOEX is odd.               *)
AsksMarker(i) == i.sub_type \in {"argb", "INFOEX"}

JpgSpace(i) ==
  IF AsksMarker(i) THEN "argb" ELSE IF i.bpp = 8 /\ GreyTable(i) THEN "grey" ELSE "rgb"

JPG_writeline(i, p) ==
  LET colour == IF i.bpp = 32 THEN p ELSE Colour(i, p)
  IN  CASE JpgSpace(i) = "argb" -> colour
        [] JpgSpace(i) = "grey" -> colour[2]
        [] JpgSpace(i) = "rgb" -> Opaque(colour)

JPG_write(i, rows) ==
  [codec |-> "JPG", space |-> JpgSpace(i), rows |-> Each(rows, LAMBDA p : JPG_writeline(i, p))]

-----------------------------------------------------------------------------
(* What the format means by a value; of cmyk the last channel is black.    *)
JpgMeant(f, p) ==
  LET light(ink) == 255 - Min({255, ink + p[4]})
  IN  CASE f.space = "argb" -> p
        [] f.space = "grey" -> Grey(p)
        [] f.space = "rgb" -> Opaque(p)
        [] f.space = "cmyk" -> <<light(p[3]), light(p[2]), light(p[1]), 255>>
=============================================================================
