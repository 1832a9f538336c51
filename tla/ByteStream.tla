----------------------------- MODULE ByteStream -----------------------------
(***************************************************************************)
(* What a decoder may rely on in its source: the bytes of a file one after *)
(* the other, without buffers, and the mark of an image's end over and     *)
(* over when the file has no more.                                         *)
(***************************************************************************)
EXTENDS Naturals, Sequences

CONSTANTS
  EndMark   \* a sequence of two bytes

VARIABLES
  data,   \* the file
  pos,    \* how much of it, and of the end marks, has gone by
  last,   \* the byte that was read last
  ahead   \* how many bytes the decoder wants to skip, as it learnt from them

vars == <<data, pos, last, ahead>>

Byte(i) ==
  IF i <= Len(data) THEN data[i]
  ELSE EndMark[((i - Len(data) - 1) % 2) + 1]

Init ==
  /\ data = <<>>
  /\ pos = 0
  /\ last = 0
  /\ ahead = 0

Open ==
  /\ pos' = 0
  /\ last' = 0
  /\ ahead' = 0
  /\ UNCHANGED data

(* The file is written, or another one taken, while nobody reads it.       *)
Write ==
  /\ pos = 0
  /\ UNCHANGED <<pos, last, ahead>>

Read ==
  /\ ahead = 0
  /\ pos' = pos + 1
  /\ last' = Byte(pos + 1)
  /\ ahead' \in Nat
  /\ UNCHANGED data

Skip ==
  /\ pos' = pos + ahead
  /\ ahead' = 0
  /\ UNCHANGED <<data, last>>

Next == Open \/ Write \/ Read \/ Skip

Spec == Init /\ [][Next]_vars
=============================================================================
