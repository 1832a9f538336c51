--------------------------- MODULE JpegDestination ---------------------------
(***************************************************************************)
(* libjpeg's destination manager of jpeggimex.c, under JPG_write: bytes    *)
(* are collected in a buffer that is written out when it is full and when  *)
(* the image is complete. A disk may take fewer bytes than it is given.    *)
(***************************************************************************)
EXTENDS Naturals, Sequences

CONSTANTS
  BufferLength   \* GIMEX_BUFFER_LENGTH, 4096 in the code

ASSUME BufferAssumption == BufferLength \in Nat \ {0, 1}

VARIABLES
  made,     \* the bytes that libjpeg makes of the picture
  emitted,  \* how many of them it has made
  out,      \* gimex_buffer, as far as it is filled
  file,     \* what is on the disk
  room,     \* how many bytes the disk still takes
  wrote     \* "no", "writing", or what JPG_write returned: "true", "false"

writeVars == <<made, emitted, out, file, room, wrote>>

WriteTypeOK ==
  /\ made \in Seq(Nat)
  /\ emitted \in 0 .. Len(made)
  /\ out \in Seq(Nat) /\ Len(out) < BufferLength
  /\ file \in Seq(Nat)
  /\ room \in Nat
  /\ wrote \in {"no", "writing", "true", "false"}

(* gwrite and the error exit when it does not take all of the bytes.       *)
WriteOut(bytes, done) ==
  LET n == IF Len(bytes) <= room THEN Len(bytes) ELSE room
  IN  /\ file' = file \o SubSeq(bytes, 1, n)
      /\ room' = room - n
      /\ wrote' = IF n = Len(bytes) THEN done ELSE "false"
      /\ out' = <<>>

(* A full buffer is emptied when the next byte comes.                      *)
EmitByteLate ==
  /\ wrote = "writing"
  /\ emitted < Len(made)
  /\ emitted' = emitted + 1
  /\ LET filled == Append(out, made[emitted + 1])
     IN  IF Len(filled) > BufferLength THEN WriteOut(filled, "writing")
         ELSE out' = filled /\ UNCHANGED <<file, room, wrote>>
  /\ UNCHANGED made

(* libjpeg puts one more byte into the buffer, and empties a full one.     *)
EmitByte ==
  /\ wrote = "writing"
  /\ emitted < Len(made)
  /\ emitted' = emitted + 1
  /\ LET filled == Append(out, made[emitted + 1])
     IN  IF Len(filled) = BufferLength THEN WriteOut(filled, "writing")
         ELSE out' = filled /\ UNCHANGED <<file, room, wrote>>
  /\ UNCHANGED made

(* An error exit of libjpeg's own, or no memory for a row.                 *)
CompressFails ==
  /\ wrote = "writing"
  /\ emitted < Len(made)
  /\ wrote' = "false"
  /\ UNCHANGED <<made, emitted, out, file, room>>

(* The rest of the buffer is only written when it is more than half.       *)
FinishCompressHalf ==
  /\ wrote = "writing"
  /\ emitted = Len(made)
  /\ WriteOut(IF 2 * Len(out) > BufferLength THEN out ELSE <<>>, "true")
  /\ UNCHANGED <<made, emitted>>

(* jpeg_finish_compress, by way of gimex_term_destination.                 *)
FinishCompress ==
  /\ wrote = "writing"
  /\ emitted = Len(made)
  /\ WriteOut(out, "true")
  /\ UNCHANGED <<made, emitted>>
=============================================================================
