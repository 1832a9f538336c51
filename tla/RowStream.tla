----------------------------- MODULE RowStream -----------------------------
(***************************************************************************)
(* An image on its way through a file: the loops over its rows in          *)
(* TGA_write, TGA_read, BMP_write and BMP_read. Both formats write the     *)
(* bottom row first and find it there again. The file is a sequence of     *)
(* bytes, or of bytes and pixels where a pixel has several bytes.          *)
(***************************************************************************)
EXTENDS Naturals, Sequences

CONSTANTS
  Images    \* sequences of rows of one length, each a sequence of pixels

ASSUME ImagesAssumption ==
  \A im \in Images :
    /\ im \in Seq(Seq(Nat)) /\ Len(im) > 0
    /\ Len(im[1]) > 0
    /\ \A r \in 1 .. Len(im) : Len(im[r]) = Len(im[1])

VARIABLES
  image,    \* what the caller has in its buffer
  phase,    \* "write", "read" or "done"
  row,      \* the row that is being written or read
  at,       \* how many pixels of it are
  file,
  taken,    \* how much of the file has been read
  got       \* the rows read so far

streamVars == <<image, phase, row, at, file, taken, got>>

Height == Len(image)
Width == Len(image[1])

StreamTypeOK ==
  /\ image \in Seq(Seq(Nat))
  /\ phase \in {"write", "read", "done"}
  /\ row \in 0 .. Height
  /\ at \in 0 .. Width
  /\ file \in Seq(Nat)
  /\ taken \in 0 .. Len(file)
  /\ got \in [1 .. Height -> Seq(Nat)]

StreamInit ==
  /\ image \in Images
  /\ phase = "write"
  /\ row = Height
  /\ at = 0
  /\ file = <<>>
  /\ taken = 0
  /\ got = [r \in 1 .. Height |-> <<>>]

(* One packet of n pixels.                                                 *)
Emit(packet, n) ==
  /\ file' = file \o packet
  /\ at' = at + n
  /\ UNCHANGED <<image, phase, row, taken, got>>

(* One packet read: the pixels, and how much of the file they took.        *)
Take(pixels, n) ==
  /\ got' = [got EXCEPT ![row] = @ \o pixels]
  /\ at' = at + Len(pixels)
  /\ taken' = taken + n
  /\ UNCHANGED <<image, phase, row, file>>

(* On to the row above, or to the next phase from the bottom.              *)
RowDone(next) ==
  /\ at' = 0
  /\ IF row > 1 THEN row' = row - 1 /\ UNCHANGED phase
     ELSE row' = Height /\ phase' = next

-----------------------------------------------------------------------------
(* How many pixels of the line are the same from a place on, max at most   *)
(* and not past limit.                                                     *)
RunLength(line, from, max, limit) ==
  LET m == IF max > limit THEN limit ELSE max
  IN  CHOOSE n \in 0 .. m :
        /\ \A k \in 0 .. n - 1 : line[from + k] = line[from]
        /\ n = m \/ line[from + n] # line[from]
=============================================================================
