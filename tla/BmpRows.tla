------------------------------ MODULE BmpRows ------------------------------
(***************************************************************************)
(* The rows of a run-length encoded bitmap (bitmapgimex.c). A run is its   *)
(* length and the pixel; a literal is 0, its length, the pixels and a 0    *)
(* when the pixels are odd in number; 0 and 0 end a line. The reader does  *)
(* not look for the end of a line: it skips to a multiple of four bytes    *)
(* after one, and over a 0 and 0 that it meets before the next.  It goes   *)
(* on to the next row only if it has met a 0, of either kind, in this one. *)
(***************************************************************************)
EXTENDS RowStream

CONSTANTS
  MaxRun,      \* 255 in the code
  MaxLiteral   \* 254 in the code

ASSUME LiteralAssumption ==
  /\ MaxLiteral \in Nat /\ MaxLiteral >= 4
  /\ MaxRun \in Nat /\ MaxRun >= 3

VARIABLES
  bytes_read,   \* of this row
  retval,       \* of BMP_readline, and of BMP_read at the end
  escapes       \* history: the rows in which a reader will meet a 0: of a
                \* literal, or of the end of the row below

bmpVars == <<bytes_read, retval, escapes>>

BMP_runcount(from, max) == RunLength(image[row], from, max, MaxRun)

Even(n) == n % 2 = 0

(* From four pixels on, in twos, to a run that pays.                       *)
LiteralEnd(left) ==
  LET Pays(n) ==
        LET second == BMP_runcount(at + 1 + n, left - n)
            third  == BMP_runcount(at + 1 + second, left - (n + second))
        IN  (second >= 3 /\ third >= 5) \/ second >= 5
      ends == {n \in 4 .. left + 4 : Even(n) /\ (n >= left \/ n >= MaxLiteral \/ Pays(n))}
  IN  CHOOSE n \in ends : \A k \in ends : n <= k

BmpLiteralLength(left) ==
  LET n == LiteralEnd(left)
      tail == IF n + 2 >= left THEN left ELSE n
  IN  IF tail > MaxLiteral THEN MaxLiteral ELSE tail

(* The short lines' run, the run, or the literal that the turn of the loop *)
(* writes; a literal of less than three pixels is not written, and the     *)
(* turn has changed nothing.                                               *)
RunHere(left) ==
  LET first == BMP_runcount(at + 1, left)
  IN  Width < 3 \/ first + BMP_runcount(at + 1 + first, left - first) >= 4

RunHereLength(left) ==
  IF left >= 3 THEN BMP_runcount(at + 1, left)
  ELSE IF left = 2 /\ image[row][at + 1] = image[row][at + 2] THEN 2 ELSE 1

Unpadded(pixels) == <<0, Len(pixels)>> \o pixels

Literal(pixels) ==
  <<0, Len(pixels)>> \o pixels \o (IF Even(Len(pixels)) THEN <<>> ELSE <<0>>)

(* One turn of BMP_writeline's loop.                                       *)
BmpWritePacket ==
  /\ phase = "write"
  /\ at < Width
  /\ LET left == Width - at
         run  == RunHereLength(left)
         n    == BmpLiteralLength(left)
     IN  \/ /\ RunHere(left)
            /\ Emit(<<run, image[row][at + 1]>>, run)
            /\ UNCHANGED escapes
         \/ /\ ~RunHere(left) /\ n >= 3
            /\ Emit(Literal(SubSeq(image[row], at + 1, at + n)), n)
            /\ escapes' = escapes \cup {row}
         \/ /\ ~RunHere(left) /\ n < 3
            /\ UNCHANGED <<streamVars, escapes>>
  /\ UNCHANGED <<bytes_read, retval>>

(* The reader will skip the end of a line, or meet it if it is aligned.    *)
BmpWriteRowDone ==
  /\ phase = "write"
  /\ at = Width
  /\ file' = file \o <<0, 0>>
  /\ escapes' = IF Len(file) % 4 = 0 THEN escapes \cup {row - 1} ELSE escapes
  /\ RowDone("read")
  /\ UNCHANGED <<image, taken, got, bytes_read, retval>>

(* One turn of BMP_readline's loop that finds a run, a literal, or the end *)
(* of the line before; runs leave its result as it begins, 0.              *)
BmpReadPacket ==
  /\ phase = "read"
  /\ at < Width
  /\ bytes_read = 0 => retval
  /\ LET n == file[taken + 1]
         m == file[taken + 2]
         size == IF n = 0 /\ m >= 3 THEN 2 + (IF Even(m) THEN m ELSE m + 1) ELSE 2
     IN  /\ \/ n # 0 /\ Take([i \in 1 .. n |-> m], size)
            \/ n = 0 /\ m >= 3 /\ Take(SubSeq(file, taken + 3, taken + 2 + m), size)
            \/ n = 0 /\ m < 3 /\ at = 0 /\ Take(<<>>, size)
         /\ bytes_read' = bytes_read + size
         /\ retval' = (n = 0 \/ (bytes_read # 0 /\ retval))
  /\ UNCHANGED escapes

(* An aligned row skips four bytes.                                        *)
SkipAlways(bytes) == 4 - (bytes % 4)

Skip(bytes) == (4 - (bytes % 4)) % 4

(* The row is full, or its end came early.                                 *)
BmpReadRowDone ==
  /\ phase = "read"
  /\ LET early == at # 0 /\ at < Width /\ file[taken + 1] = 0 /\ file[taken + 2] < 3
         bytes == IF early THEN 2 ELSE 0
     IN  /\ at >= Width \/ early
         /\ taken' = taken + bytes + Skip(bytes_read + bytes)
         /\ retval' = (retval \/ early)
  /\ bytes_read' = 0
  /\ RowDone("done")
  /\ UNCHANGED <<image, file, got, escapes>>

(* After a row without a 0 the rows above are not read.                    *)
BmpSkipRow ==
  /\ phase = "read"
  /\ bytes_read = 0 /\ ~retval
  /\ RowDone("done")
  /\ UNCHANGED <<image, file, taken, got, bmpVars>>

BmpNext ==
  BmpWritePacket \/ BmpWriteRowDone \/ BmpReadPacket \/ BmpReadRowDone \/ BmpSkipRow
=============================================================================
