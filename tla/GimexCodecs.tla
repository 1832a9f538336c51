----------------------------- MODULE GimexCodecs -----------------------------
(***************************************************************************)
(* The codecs behind gimex.c as a program sees them: what they allocate    *)
(* and free, what they make of a file that is cut off, and how a picture   *)
(* gets onto a disk that may fill up. FSH and IJL are not implemented; the *)
(* NULL codec does nothing. JPG's streams have modules of their own.       *)
(***************************************************************************)
EXTENDS GimexDispatch

CONSTANTS
  MaxFailures,  \* how many allocations may fail
  Rows,         \* rows of a picture
  Rooms         \* how many bytes a disk takes; a gwrite has two

ASSUME CodecsAssumption == MaxFailures \in Nat /\ Rows \in Nat /\ Rooms \subseteq Nat

VARIABLES
  pc,        \* where the program is
  source,    \* the file that is read, [ext, format, kept, palette, traits]: its
             \* name's extension, its format, how much of it is there, whether
             \* it has a palette, of colours or of greys, and its Traits
  instance,  \* the context, [codec, alive]
  info,      \* "unset", "null", "zero" (nothing but zeroes), or "picture"
  buffer,    \* "null", "blank", or what was read into it: "part" (of the
             \* picture, or nothing), "picture"
  blocks,    \* what has been allocated and not freed
  failing,   \* how many allocations may still fail
  put,       \* how many bytes have been written
  room,      \* how many more fit
  left,      \* what is left to write, as a sequence of "header", "palette", "row"
  retval     \* what the codec's write returns

codecVars == <<source, instance, info, buffer, blocks, failing, put, room, left, retval>>

Kept == {"stub", "header", "rows", "whole"}
Palettes == {"none", "grey", "colors"}

(* A palette with alpha; a PNG of fewer than 8 bits a pixel; a packed      *)
(* bitmap; a bitmap of 16 bits that does not store its masks.              *)
Traits == {"alpha", "few", "packed", "fifteen"}
Is(trait) == trait \in source.traits
Implemented == {"JPG", "PNG", "BMP", "TGA"}
Reading == {"find", "is", "open", "info", "buffer", "read", "close"}
Writing == {"wfind", "fopen", "wopen", "write", "chunks", "rows",
            "png_info", "png_image", "png_end", "wclose"}

Unset == [codec |-> "none", alive |-> FALSE]

CodecTypeOK ==
  /\ pc \in {"start", "exited", "undefined"} \cup Reading \cup Writing
  /\ instance \in [codec : Implemented \cup {"none"}, alive : BOOLEAN]
  /\ info \in {"unset", "null", "zero", "picture"}
  /\ buffer \in {"null", "blank", "part", "picture"}
  /\ blocks \subseteq {"instance", "png", "info", "buffer", "line_buffer", "rows", "row_data",
                       "row_buff", "palette", "trans_pal"}
  /\ failing \in 0 .. MaxFailures
  /\ put \in Nat /\ room \in Nat
  /\ left \in Seq({"header", "palette", "row"})
  /\ retval \in 0 .. 2

(* An allocation that succeeds, or one of those that do not.               *)
Galloc(succeeds) ==
  /\ succeeds \/ failing > 0
  /\ failing' = IF succeeds THEN failing ELSE failing - 1

Goto(label) == pc' = label

(* What follows is not defined: a pointer that points to nothing is used.  *)
Undefined ==
  /\ pc' = "undefined"
  /\ UNCHANGED <<dispatchVars, codecVars>>

-----------------------------------------------------------------------------
(* Reading.                                                                *)

Genuine == source.format = Codec
Headed == Genuine /\ source.kept \in {"rows", "whole"}

(* Formats that no file has (IJL, NULL) are not recognised.                *)
Recognised == Genuine /\ source.kept # "stub"

(* The answers of the codec's is. PNG_is, BMP_is and TGA_is look at bytes  *)
(* they did not get from a file that is too short.                         *)
Answers ==
  IF Codec \in {"PNG", "BMP", "TGA"} /\ source.kept = "stub" THEN BOOLEAN
  ELSE IF Codec = "TGA" /\ source.format = "other" THEN BOOLEAN
  ELSE {Recognised}

(* The codec's open and wopen. PNG's open makes libpng's structures and    *)
(* reads the header, and takes everything back when that fails.            *)
GIMEX_open(reads) ==
  IF Codec \in Implemented /\ (reads /\ Codec = "PNG" => Headed)
  THEN \E succeeds \in BOOLEAN :
         /\ Galloc(succeeds)
         /\ IF succeeds
            THEN /\ instance' = [codec |-> Codec, alive |-> TRUE]
                 /\ blocks' = blocks \cup {"instance"} \cup (IF reads /\ Codec = "PNG" THEN {"png"} ELSE {})
            ELSE UNCHANGED <<instance, blocks>>
  ELSE UNCHANGED <<failing, instance, blocks>>

(* The context is one that the codec made.                                 *)
Usable == Codec \notin Implemented \/ (instance.alive /\ instance.codec = Codec)

(* What the codec's info finds: JPG needs the header, PNG has read it, and *)
(* BMP and TGA may take what is not there for a picture.                   *)
Infos ==
  IF Codec \in {"NULL", "IJL"} THEN {"null"}
  ELSE IF Codec = "FSH" THEN {"zero"}
  ELSE IF Headed \/ Codec = "PNG" THEN {"picture"}
  ELSE IF Codec = "JPG" THEN {"null"}
  ELSE {"null", "picture"}

GIMEX_info ==
  \/ /\ info' \in Infos
     /\ blocks' = IF info' = "null" THEN blocks ELSE blocks \cup {"info"}
     /\ UNCHANGED failing
  \/ /\ Infos # {"null"}
     /\ Galloc(FALSE)
     /\ info' = "null"
     /\ UNCHANGED blocks

(* A packed bitmap's line leaves its buffer with the bytes that pad it; of *)
(* 16 bits without masks every pixel is taken for four bytes; and libpng   *)
(* unpacks few bits to a byte each, where main's rows have only the bits.  *)
ReadOverruns == Genuine /\ (Is("packed") \/ Is("fifteen") \/ Is("few"))

(* What is in the buffer after the codec's read. BMP_read reads no row of  *)
(* a packed bitmap behind one that is made of runs only.                   *)
ReadInto ==
  IF ~Genuine \/ source.kept # "whole" \/ Is("fifteen") \/ Is("few") THEN {"part"}
  ELSE IF Is("packed") THEN {"part", "picture"} ELSE {"picture"}

(* The codec's read: every one of them needs a buffer for its rows. What   *)
(* it returns is ignored. libpng's error jump passes by PNG_read_gimex's   *)
(* calls of gfree.                                                         *)
GIMEX_read ==
  IF Codec \notin Implemented THEN UNCHANGED <<buffer, blocks, failing>>
  ELSE \/ Galloc(FALSE) /\ UNCHANGED <<buffer, blocks>>
       \/ /\ buffer' \in ReadInto
          /\ blocks' =
               IF Codec = "PNG" /\ source.kept # "whole"
               THEN blocks \cup {"rows"} \cup (IF source.palette = "none" THEN {"row_data"} ELSE {})
               ELSE blocks
          /\ UNCHANGED failing

(* Close and wclose. FSH, IJL and NULL leave the context alone; PNG's      *)
(* close frees libpng's structures with it.                                *)
GIMEX_close ==
  IF Codec \in Implemented
  THEN /\ instance' = [instance EXCEPT !.alive = FALSE]
       /\ blocks' = blocks \ (IF Codec = "PNG" THEN {"instance", "png"} ELSE {"instance"})
  ELSE UNCHANGED <<instance, blocks>>

-----------------------------------------------------------------------------
(* Writing.                                                                *)

(* One gwrite of two bytes, as many of them as there is room for; the      *)
(* first form does not notice that the disk is full.                       *)
TakenWhole == 2

Taken == IF room >= 2 THEN 2 ELSE room

Gwrite ==
  /\ put' = put + Taken
  /\ room' = room - Taken

(* A Targa of greys has no palette, unless the greys come from a Targa:    *)
(* TGA_info leaves their colours 0, which do not look like greys.          *)
WithPalette ==
  /\ info = "picture"
  /\ \/ source.palette = "colors"
     \/ source.palette = "grey" /\ (Codec = "TGA" => source.format \in {"TGA", "other"})

(* The parts of a Targa or bitmap file.                                    *)
Parts ==
  (IF WithPalette THEN <<"header", "palette">> ELSE <<"header">>)
    \o [r \in 1 .. (IF info = "picture" THEN Rows ELSE 0) |-> "row"]

(* What the file has when it is written whole: JPG and PNG have a header,  *)
(* the image and an end.                                                   *)
Due == 2 * (IF Codec \in {"JPG", "PNG"} THEN 3 ELSE Len(Parts))

(* JPG_write, which writes the whole picture or returns FALSE. The jump    *)
(* for a full disk looks at row_buff, which may have changed since setjmp  *)
(* and is then not defined: it is freed, or not, or something else is.     *)
JPG_write ==
  /\ pc = "write"
  /\ Codec = "JPG"
  /\ \/ /\ info = "picture"
        /\ put' = IF room >= Due THEN Due ELSE room
        /\ room' = room - put'
        /\ retval' = IF put' = Due THEN 1 ELSE 0
        /\ \/ Goto("wclose") /\ UNCHANGED blocks
           \/ put' # Due /\ Goto("wclose") /\ blocks' = blocks \cup {"row_buff"}
           \/ put' # Due /\ Goto("undefined") /\ UNCHANGED blocks
        /\ UNCHANGED failing
     \/ /\ retval' = 0
        /\ IF info = "picture" THEN Galloc(FALSE) ELSE UNCHANGED failing
        /\ Goto("wclose")
        /\ UNCHANGED <<put, room, blocks>>
  /\ UNCHANGED <<dispatchVars, source, instance, info, buffer, left>>

(* TGA_write and BMP_write up to the rows. BMP_write makes its line buffer *)
(* first, TGA_write when the header and the palette have been written.     *)
StartRows ==
  /\ pc = "write"
  /\ Codec \in {"TGA", "BMP"}
  /\ left' = Parts
  /\ retval' = 0
  /\ IF Codec = "BMP"
     THEN \E succeeds \in BOOLEAN :
            /\ Galloc(succeeds)
            /\ blocks' = IF succeeds THEN blocks \cup {"line_buffer"} ELSE blocks
     ELSE UNCHANGED <<failing, blocks>>
  /\ Goto("chunks")
  /\ UNCHANGED <<dispatchVars, source, instance, info, buffer, put, room>>

(* The header, and the palette: TGA_write leaves it out when the header    *)
(* did not get through at all.                                             *)
WriteHead ==
  /\ pc = "chunks"
  /\ left # <<>> /\ Head(left) # "row"
  /\ IF Codec = "TGA" /\ Head(left) = "palette" /\ retval = 0
     THEN UNCHANGED <<put, room, retval>>
     ELSE Gwrite /\ retval' = Taken
  /\ left' = Tail(left)
  /\ UNCHANGED <<pc, dispatchVars, source, instance, info, buffer, blocks, failing>>

LineBuffer ==
  /\ pc = "chunks"
  /\ left # <<>> => Head(left) = "row"
  /\ \/ /\ IF Codec = "TGA" THEN blocks' = blocks \cup {"line_buffer"}
           ELSE "line_buffer" \in blocks /\ UNCHANGED blocks
        /\ Goto("rows")
        /\ UNCHANGED <<failing, left, retval>>
     \/ /\ Codec = "TGA" /\ Galloc(FALSE)
        /\ Goto("wclose") /\ left' = <<>> /\ retval' = 0
        /\ UNCHANGED blocks
     \/ /\ Codec = "BMP" /\ "line_buffer" \notin blocks
        /\ Goto("wclose") /\ left' = <<>>
        /\ UNCHANGED <<blocks, failing, retval>>
  /\ UNCHANGED <<dispatchVars, source, instance, info, buffer, put, room>>

WriteRow ==
  /\ pc = "rows"
  /\ left # <<>>
  /\ Gwrite
  /\ retval' = Taken
  /\ left' = Tail(left)
  /\ UNCHANGED <<pc, dispatchVars, source, instance, info, buffer, blocks, failing>>

(* One row too early.                                                      *)
RowsWrittenShort ==
  /\ pc = "rows"
  /\ Len(left) <= 1
  /\ IF Codec = "TGA" THEN retval' = 0 /\ blocks' = blocks \ {"line_buffer"}
     ELSE UNCHANGED <<retval, blocks>>
  /\ Goto("wclose")
  /\ UNCHANGED <<dispatchVars, source, instance, info, buffer, failing, put, room, left>>

(* TGA_write frees its line buffer and returns 0; BMP_write keeps it and   *)
(* returns what the last gwrite took.                                      *)
RowsWritten ==
  /\ pc = "rows"
  /\ left = <<>>
  /\ IF Codec = "TGA" THEN retval' = 0 /\ blocks' = blocks \ {"line_buffer"}
     ELSE UNCHANGED <<retval, blocks>>
  /\ Goto("wclose")
  /\ UNCHANGED <<dispatchVars, source, instance, info, buffer, failing, put, room, left>>

-----------------------------------------------------------------------------
(* PNG_write. What libpng writes goes through PNG_write_data, which raises *)
(* an error when not all of it is taken.                                   *)

(* The picture has a palette with alpha.                                   *)
AlphaPalette == info = "picture" /\ source.palette # "none" /\ Is("alpha")

(* Structures, palettes, and a setjmp. Where a palette cannot be made it   *)
(* is written to all the same. How many colours have an alpha is asked of  *)
(* png_get_PLTE in a call that does not answer: num_palette is not set.    *)
PNG_write ==
  /\ pc = "write"
  /\ Codec = "PNG"
  /\ retval' = 0
  /\ \/ /\ Goto("png_info")
        /\ blocks' = blocks \cup (IF info = "picture" /\ source.palette = "colors"
                                 THEN {"palette"} ELSE {})
                            \cup (IF AlphaPalette /\ source.palette = "colors"
                                 THEN {"trans_pal"} ELSE {})
        /\ UNCHANGED failing
     \/ /\ AlphaPalette /\ source.palette = "colors"
        /\ Goto("undefined")
        /\ UNCHANGED <<failing, blocks>>
     \/ /\ Galloc(FALSE)
        /\ Goto("wclose")
        /\ UNCHANGED blocks
     \/ /\ Galloc(FALSE)
        /\ info = "picture" /\ source.palette = "colors"
        /\ Goto("undefined")
        /\ UNCHANGED blocks
  /\ UNCHANGED <<dispatchVars, source, instance, info, buffer, put, room, left>>

(* The jump back into PNG_write, past its calls of gfree.                  *)
BackInPngWrite ==
  /\ Goto("wclose")
  /\ UNCHANGED blocks

(* png_set_IHDR, which refuses a picture without rows, to png_write_info.  *)
PngInfo ==
  /\ pc = "png_info"
  /\ IF info = "zero"
     THEN UNCHANGED <<put, room>> /\ BackInPngWrite
     ELSE /\ Gwrite
          /\ IF Taken = 2 THEN Goto("png_image") /\ UNCHANGED blocks
             ELSE BackInPngWrite
  /\ UNCHANGED <<dispatchVars, source, instance, info, buffer, failing, left, retval>>

(* PNG_write_gimex has a setjmp of its own. An error leaves its rows       *)
(* behind. The alpha of a grey is looked up with the sample three pixels   *)
(* on, which is behind the buffer at the end of the last row.              *)
PNG_write_gimex ==
  /\ pc = "png_image"
  /\ \/ /\ Gwrite
        /\ blocks' = IF Taken = 2 THEN blocks ELSE blocks \cup {"rows", "row_buff"}
        /\ UNCHANGED failing
        /\ Goto("png_end")
     \/ /\ Galloc(FALSE)
        /\ UNCHANGED <<put, room, blocks>>
        /\ Goto("png_end")
     \/ /\ AlphaPalette /\ source.palette = "grey"
        /\ Goto("undefined")
        /\ UNCHANGED <<put, room, blocks, failing>>
  /\ UNCHANGED <<dispatchVars, source, instance, info, buffer, left, retval>>

(* png_write_end, which raises an error when the image is missing or the   *)
(* disk is full: the jump goes to PNG_write_gimex's setjmp, whose function *)
(* has returned, which is not defined.                                     *)
PngEnd ==
  /\ pc = "png_end"
  /\ Gwrite
  /\ IF put = Due - 2 /\ Taken = 2
     THEN blocks' = blocks \ {"palette", "trans_pal"} /\ Goto("wclose")
     ELSE Goto("undefined") /\ UNCHANGED blocks
  /\ UNCHANGED <<dispatchVars, source, instance, info, buffer, failing, left, retval>>

GIMEX_write ==
  \/ JPG_write
  \/ StartRows \/ WriteHead \/ LineBuffer \/ WriteRow \/ RowsWritten
  \/ PNG_write \/ PngInfo \/ PNG_write_gimex \/ PngEnd
=============================================================================
