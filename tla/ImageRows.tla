----------------------------- MODULE ImageRows -----------------------------
(***************************************************************************)
(* A packed image written to a file by one of the two run-length encoders  *)
(* and read back by its reader.                                            *)
(***************************************************************************)
EXTENDS TgaRows, BmpRows

VARIABLE format   \* "tga" or "bmp"

vars == <<streamVars, deep, bmpVars, format>>

TypeOK ==
  /\ StreamTypeOK
  /\ deep \in BOOLEAN
  /\ bytes_read \in Nat /\ retval \in BOOLEAN /\ escapes \subseteq 0 .. Height
  /\ format \in {"tga", "bmp"}

(* The bitmap encoder is for pixels of a byte.                             *)
Init ==
  /\ StreamInit
  /\ deep \in BOOLEAN
  /\ bytes_read = 0 /\ retval = TRUE /\ escapes = {}
  /\ format \in {"tga", "bmp"}
  /\ format = "bmp" => ~deep

Next ==
  \/ format = "tga" /\ TgaNext /\ UNCHANGED <<bmpVars, format>>
  \/ format = "bmp" /\ BmpNext /\ UNCHANGED <<deep, format>>

Spec == Init /\ [][Next]_vars

(* Nothing waits for anything else: the loops just go on.                  *)
FairSpec == Spec /\ WF_vars(Next)

-----------------------------------------------------------------------------
(* Properties.                                                             *)

Kept(p) == IF format = "tga" THEN Stored[p] ELSE p

(* Whether a reader comes to a row: to every one of a Targa image, and in  *)
(* a bitmap only past rows in which there is a 0 to be met.                *)
Reached(r) == format = "tga" \/ \A q \in r + 1 .. Height : q \in escapes

(* The reader gets back what the writer was given, every row in its place, *)
(* though neither format marks where a row begins - but of a bitmap the    *)
(* rows above the first that is nothing but runs are not read, and that    *)
(* they were is denied if the top row is one, too.                         *)
RoundTrip ==
  phase = "done" =>
    /\ got = [r \in 1 .. Height |->
                IF Reached(r) THEN [i \in 1 .. Width |-> Kept(image[r][i])] ELSE <<>>]
    /\ retval <=> Reached(0)

(* Every byte that was written has been read when all the rows have, but   *)
(* for the last end of a line of a bitmap, which its reader may leave.     *)
NothingLeft ==
  phase = "done" /\ Reached(1) =>
    \/ taken = Len(file)
    \/ format = "bmp" /\ taken + 2 = Len(file) /\ file[taken + 1] = 0 /\ file[taken + 2] = 0

(* Packing pixels of a byte costs a byte for every full packet at worst,   *)
(* whatever the mix of repeats and literals: what TGA_writeline weighs the *)
(* lengths of two repeats and looks ahead for.                             *)
NeverExpands ==
  phase # "write" /\ format = "tga" /\ ~deep =>
    Len(file) <= Height * (Width + Packets(Width))

(* An image that is being written as Targa is written and read.            *)
TgaFinishes == (format = "tga") ~> (phase = "done")

(* So is one that is being written as a bitmap: bitmapgimex.c:300, "Handle *)
(* end of line".                                                           *)
BmpFinishes == (format = "bmp") ~> (phase = "done")
=============================================================================
