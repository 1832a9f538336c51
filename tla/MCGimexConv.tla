----------------------------- MODULE MCGimexConv -----------------------------
(* The table of gfuncs.c with one of its NULL codecs at the end, and files *)
(* of every format under every name.                                       *)
EXTENDS GimexConv

Entry(name, can_export, first, second) ==
  [name |-> name, can_export |-> can_export, extensions |-> <<first, second, "", "">>]

Table == <<
  Entry("NULL", FALSE, "", ""),
  Entry("FSH", TRUE, ".fsh", ".newfsh"),
  Entry("JPG", TRUE, ".jpg", ".jfif"),
  Entry("IJL", FALSE, ".jpg", ".ijl"),
  Entry("PNG", TRUE, ".png", ""),
  Entry("BMP", TRUE, ".bmp", ""),
  [name |-> "TGA", can_export |-> TRUE, extensions |-> <<".tga", ".vda", ".icb", ".vst">>],
  Entry("NULL", FALSE, "", "")>>

Names == {".fsh", ".jpg", ".jfif", ".ijl", ".png", ".bmp", ".vst", ".txt"}

(* A shape file is not read, so that its palette does not matter, and a    *)
(* JPEG file has none but greys. The traits go with the formats that have  *)
(* them, under the format's own name.                                      *)
AllSources ==
  [ext : Names \cup {"none"}, format : {"PNG", "BMP", "TGA", "other"}, kept : Kept,
   palette : Palettes, traits : {{}}]
    \cup [ext : Names, format : {"JPG"}, kept : Kept, palette : {"none", "grey"}, traits : {{}}]
    \cup [ext : Names, format : {"FSH"}, kept : Kept, palette : {"none"}, traits : {{}}]
    \cup [ext : {".png"}, format : {"PNG"}, kept : {"rows", "whole"}, palette : {"grey", "colors"},
          traits : {{"alpha"}, {"few"}, {"alpha", "few"}}]
    \cup [ext : {".bmp"}, format : {"BMP"}, kept : {"rows", "whole"}, palette : {"grey", "colors"},
          traits : {{"alpha"}, {"packed"}, {"alpha", "packed"}}]
    \cup [ext : {".bmp"}, format : {"BMP"}, kept : {"rows", "whole"}, palette : {"none"},
          traits : {{"fifteen"}}]
    \cup [ext : {".vst"}, format : {"TGA"}, kept : {"rows", "whole"}, palette : {"grey", "colors"},
          traits : {{"alpha"}}]
=============================================================================
