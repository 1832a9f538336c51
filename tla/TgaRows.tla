------------------------------ MODULE TgaRows ------------------------------
(***************************************************************************)
(* The rows of a run-length encoded Targa image (targagimex.c). A packet   *)
(* is a byte, the top bit for a repeat and the pixels less one in the      *)
(* rest, and then one pixel or all of them.                                *)
(***************************************************************************)
EXTENDS RowStream

CONSTANTS
  MaxPacket,   \* 128 in the code: the limit of a packet, and its flag 0x80
  Stored       \* what the file keeps of a pixel: grey_pal[p], or its channels
               \* without alpha or without their low bits

ASSUME PacketAssumption == MaxPacket \in Nat \ {0}

ASSUME StoredAssumption ==
  \A im \in Images : \A r \in DOMAIN im : \A i \in DOMAIN im[r] :
    Stored[im[r][i]] \in Nat

VARIABLE deep   \* more than 8 bits per pixel

(* The 0x80 | n - 1 and n - 1 of the writer, and what the reader makes of  *)
(* them.                                                                   *)
RepeatHead(n) == MaxPacket + ((n - 1) % MaxPacket)
LiteralHead(n) == (n - 1) % (2 * MaxPacket)
IsRepeat(head) == head >= MaxPacket
Count(head) == (head % MaxPacket) + 1

TGA_rlecount(from, max) == RunLength(image[row], from, max, MaxPacket)

(* Two pixels of a byte each are a repeat.                                 *)
WorthRepeatingTwo(n) == n >= 2

WorthRepeating(n) == n >= 3 \/ (n >= 2 /\ deep)

(* The place of the next repeat that pays, or the limit or the end of the  *)
(* line if it comes first.                                                 *)
LiteralEnds(left) ==
  LET ends == {n \in 1 .. left :
                 n = left \/ n = MaxPacket \/ WorthRepeating(TGA_rlecount(at + 1 + n, left - n))}
  IN  CHOOSE n \in ends : \A k \in ends : n <= k

(* The literal takes a tail of up to three pixels with it, as far as the   *)
(* limit allows.                                                           *)
LiteralLength(left) ==
  LET n == IF LiteralEnds(left) + 3 >= left THEN left ELSE LiteralEnds(left)
  IN  IF n > MaxPacket THEN MaxPacket ELSE n

RepeatsHere(left) ==
  LET one == TGA_rlecount(at + 1, left)
      two == TGA_rlecount(at + 1 + one, left - one)
  IN  WorthRepeating(one) \/ (one >= 2 /\ two >= 2)

(* One turn of TGA_writeline's loop.                                       *)
TgaWritePacket ==
  /\ phase = "write"
  /\ at < Width
  /\ LET left == Width - at
         here == [i \in 1 .. left |-> Stored[image[row][at + i]]]
     IN  IF RepeatsHere(left)
           THEN LET n == TGA_rlecount(at + 1, left)
                IN  Emit(<<RepeatHead(n), here[1]>>, n)
           ELSE LET n == LiteralLength(left)
                IN  Emit(<<LiteralHead(n)>> \o SubSeq(here, 1, n), n)
  /\ UNCHANGED deep

(* The loop over the rows leaves out the top one.                          *)
TgaWriteRowDoneAbove ==
  /\ phase = "write"
  /\ at = Width
  /\ row > 1
  /\ RowDone("read")
  /\ UNCHANGED <<image, file, taken, got, deep>>

TgaWriteRowDone ==
  /\ phase = "write"
  /\ at = Width
  /\ RowDone("read")
  /\ UNCHANGED <<image, file, taken, got, deep>>

(* One turn of TGA_readline's loop.                                        *)
TgaReadPacket ==
  /\ phase = "read"
  /\ at < Width
  /\ LET head == file[taken + 1]
         n == Count(head)
     IN  IF IsRepeat(head)
           THEN Take([i \in 1 .. n |-> file[taken + 2]], 2)
           ELSE Take(SubSeq(file, taken + 2, taken + 1 + n), n + 1)
  /\ UNCHANGED deep

(* The place in the row is not set back.                                   *)
TgaReadRowDoneKeepsPlace ==
  /\ phase = "read"
  /\ at >= Width
  /\ IF row > 1 THEN row' = row - 1 /\ UNCHANGED phase
     ELSE row' = Height /\ phase' = "done"
  /\ UNCHANGED <<image, at, file, taken, got, deep>>

TgaReadRowDone ==
  /\ phase = "read"
  /\ at >= Width
  /\ RowDone("done")
  /\ UNCHANGED <<image, file, taken, got, deep>>

TgaNext ==
  TgaWritePacket \/ TgaWriteRowDone \/ TgaReadPacket \/ TgaReadRowDone

(* How many packets a line of pixels takes that has no repeat.             *)
Packets(pixels) == (pixels + MaxPacket - 1) \div MaxPacket
=============================================================================
